------------------------------ MODULE Failover ------------------------------
(***************************************************************************)
(* What a chain of providers promises: the providers are tried in the order *)
(* of the chain, each hop is announced before it is taken, and the way the  *)
(* call ends says which of the two budgets was used up, if one was.         *)
(***************************************************************************)
EXTENDS Naturals, Sequences

CONSTANTS
    RetryBudget,
    Pending,
    Answer     \* what a provider that does not fail retryably brings

VARIABLES
    chain,
    tried,    \* providers tried so far
    hops,     \* hops announced so far
    late,     \* the time budget is used up
    ending

vars == <<chain, tried, hops, late, ending>>

Limit == IF Len(chain) < RetryBudget THEN Len(chain) ELSE RetryBudget

Init ==
    /\ tried = <<>>
    /\ hops = 0
    /\ late = FALSE
    /\ ending = Pending

Try ==
    /\ ending = Pending
    /\ Len(tried) < Limit
    /\ hops = Len(tried)
    /\ tried' = Append(tried, chain[Len(tried) + 1])
    /\ UNCHANGED <<chain, hops, late, ending>>

Hop ==
    /\ ending = Pending
    /\ Len(tried) < Limit
    /\ hops = Len(tried) - 1
    /\ hops' = hops + 1
    /\ UNCHANGED <<chain, tried, late, ending>>

Ends(how) ==
    /\ ending = Pending
    /\ ending' = how
    /\ UNCHANGED <<chain, tried, hops, late>>

Answered == tried # <<>> /\ hops < Len(tried) /\ \E how \in Answer : Ends(how)
OutOfProviders == Len(tried) = Limit /\ Ends("request_count")
OutOfTime == late /\ Ends("time_budget")

TimePasses == ~late /\ late' = TRUE /\ UNCHANGED <<chain, tried, hops, ending>>

Next == Try \/ Hop \/ Answered \/ OutOfProviders \/ OutOfTime \/ TimePasses

Spec == Init /\ [][Next]_vars
=============================================================================
