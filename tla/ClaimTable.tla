------------------------------ MODULE ClaimTable ------------------------------
(***************************************************************************)
(* What claim-registry.ts promises (TDD2 9.2): a file identifier belongs to *)
(* at most one task; a task that asks gets all the identifiers it wants in  *)
(* one step or, if another task has one of them, none; and it gives all of  *)
(* its own back.  ClaimDispatch is shown to implement this module.          *)
(***************************************************************************)
CONSTANTS Task, Id, NoTask

VARIABLES
    wants,   \* wants[t]: the identifiers of t's claims, which stay the same
    owner    \* owner[i]: the task that holds identifier i, or NoTask

Init ==
    /\ wants \in [Task -> SUBSET Id]
    /\ owner = [i \in Id |-> NoTask]

Take(t) ==
    /\ \A i \in wants[t] : owner[i] \in {NoTask, t}
    /\ owner' = [i \in Id |-> IF i \in wants[t] THEN t ELSE owner[i]]
    /\ UNCHANGED wants

Drop(t) ==
    /\ owner' = [i \in Id |-> IF owner[i] = t THEN NoTask ELSE owner[i]]
    /\ UNCHANGED wants

Next == \E t \in Task : Take(t) \/ Drop(t)

Spec == Init /\ [][Next]_<<wants, owner>>
=============================================================================
