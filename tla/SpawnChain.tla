----------------------------- MODULE SpawnChain -----------------------------
(***************************************************************************)
(* One spawn of the orchestrator (runSpawnWithFallback).  Provider after    *)
(* provider is tried until a session can be created; a chain has a budget   *)
(* of attempts and one of time.  Every attempt runs the hook scripts for    *)
(* SubagentStart before its session and those for SubagentStop after it,    *)
(* awaited; the scripts for events of the session run beside it.            *)
(***************************************************************************)
EXTENDS Naturals, Sequences

CONSTANTS
    Provider,
    Fallbacks,    \* config.providers.fallbacks
    RetryBudget,
    Scripts,      \* hook scripts registered for each event
    MaxEvents     \* bound: events of a session that start scripts

ASSUME ChainAssumption ==
    /\ Fallbacks \in Seq(Provider)
    /\ RetryBudget \in Nat \ {0} /\ Scripts \in Nat /\ MaxEvents \in Nat

VARIABLES
    chain,      \* the provider the router picked, and the fallbacks
    cursor,
    late,       \* more than timeBudgetMs has passed
    pc,
    outcome,    \* what the dispatch of the attempt has come to
    session,    \* a session is open
    awaited,    \* the call of the hook dispatcher that is awaited
    loose,      \* the calls that are not; loose[i] in the order of their events
    begun, finished,  \* history: SubagentStart and SubagentStop calls that have ended
    tried,      \* history: providers handed to spawnFn
    hops,       \* history: provider.fallback_fired events
    ending

hooks == <<awaited, loose, begun, finished>>
control == <<chain, cursor, outcome, session, tried, hops, ending>>
spawnVars == <<chain, cursor, late, pc, outcome, session, hooks, tried, hops, ending>>

Limit == IF Len(chain) < RetryBudget THEN Len(chain) ELSE RetryBudget
Retryable == {"503", "429", "500"}
Failure == Retryable \cup {"other"}
Result == {"success", "failed"}

\* A call runs its scripts one after the other: script 1 of Scripts first.
NoCall == [event |-> "none", script |-> 0, child |-> "none"]
Call(event) == [event |-> event, script |-> 1, child |-> "running"]
-----------------------------------------------------------------------------
SpawnInit ==
    /\ chain \in {<<p>> \o Fallbacks : p \in Provider}
    /\ cursor = 0
    /\ late = FALSE
    /\ pc = "select"
    /\ outcome = "none"
    /\ session = FALSE
    /\ awaited = NoCall
    /\ loose = <<>>
    /\ begun = 0
    /\ finished = 0
    /\ tried = <<>>
    /\ hops = 0
    /\ ending = "pending"

(* The hook dispatcher *)

\* The script has ended, was never started, or has been killed: the next one.
Ended(call) ==
    IF call.script < Scripts
    THEN [call EXCEPT !.script = @ + 1, !.child = "running"]
    ELSE [call EXCEPT !.child = "done"]

\* Seeded fault: a script that ignores SIGTERM is waited for.
KilledPolitely(call) == call

\* timeoutMs: SIGTERM to the group; 200 ms later SIGKILL, which ends it.
TimedOut(call) == [call EXCEPT !.child = "termed"]
Killed(call) == Ended(call)

\* What may become of a call whose script runs.
AfterExit(call) == IF call.child \in {"running", "termed"} THEN {Ended(call)} ELSE {}
AfterTimer(call) ==
    CASE call.child = "running" -> {TimedOut(call)}
      [] call.child = "termed" -> {Killed(call)}
      [] OTHER -> {}

AwaitedExits == awaited' \in AfterExit(awaited) /\ UNCHANGED <<late, pc, control, loose, begun, finished>>
AwaitedTimer == awaited' \in AfterTimer(awaited) /\ UNCHANGED <<late, pc, control, loose, begun, finished>>

LooseStep(i) ==
    /\ \E call \in AfterExit(loose[i]) \cup AfterTimer(loose[i]) :
          loose' = [loose EXCEPT ![i] = call]
    /\ UNCHANGED <<late, pc, control, awaited, begun, finished>>

\* With no registration a call is over at once.
Dispatch(event) == awaited' = IF Scripts = 0 THEN [Call(event) EXCEPT !.child = "done"]
                              ELSE Call(event)

(* The chain *)

TimePasses ==
    /\ ~late
    /\ late' = TRUE
    /\ UNCHANGED <<pc, control, hooks>>

Ends(how) ==
    /\ pc' = "ended"
    /\ ending' = how

\* chain.select
Select ==
    /\ pc = "select"
    /\ IF late
       THEN /\ Ends("time_budget")
            /\ UNCHANGED tried
       ELSE /\ pc' = "credential"
            /\ tried' = Append(tried, chain[cursor + 1])
            /\ UNCHANGED ending
    /\ UNCHANGED <<chain, cursor, late, outcome, session, hooks, hops>>

\* Seeded fault: one hop more than there are attempts.
HopPastBudget(next) ==
    /\ cursor' = next
    /\ IF late THEN Ends("time_budget") /\ UNCHANGED hops
       ELSE IF next <= Limit THEN pc' = "select" /\ hops' = hops + 1 /\ UNCHANGED ending
       ELSE Ends("request_count") /\ UNCHANGED hops

\* recordFailure: the time is asked first, and a hop is announced that the
\* next select may still refuse.
Hop(next) ==
    /\ cursor' = next
    /\ IF late THEN Ends("time_budget") /\ UNCHANGED hops
       ELSE IF next < Limit THEN pc' = "select" /\ hops' = hops + 1 /\ UNCHANGED ending
       ELSE Ends("request_count") /\ UNCHANGED hops

\* The catch of runSpawnWithFallback
Caught(reason) ==
    IF reason = "other" THEN Ends("other") /\ UNCHANGED <<cursor, hops>>
    ELSE Hop(cursor + 1)

\* onResolveCredential, and the start of spawnOrchestratorSession
Credential ==
    /\ pc = "credential"
    /\ pc' = "starting"
    /\ Dispatch("SubagentStart")
    /\ UNCHANGED <<late, control, loose, begun, finished>>

CredentialFails(reason) ==
    /\ pc = "credential"
    /\ Caught(reason)
    /\ UNCHANGED <<chain, late, outcome, session, hooks, tried>>

Started ==
    /\ pc = "starting"
    /\ awaited.child = "done"
    /\ pc' = "creating"
    /\ awaited' = NoCall
    /\ begun' = begun + 1
    /\ UNCHANGED <<late, control, loose, finished>>

\* The session factory, inside dispatcher.dispatch
Create ==
    /\ pc = "creating"
    /\ pc' = "prompting"
    /\ session' = TRUE
    /\ UNCHANGED <<chain, cursor, late, outcome, hooks, tried, hops, ending>>

\* What dispatch leaves is what its `finally` finds, and SubagentStop is
\* dispatched whatever that is.
Dispatched(what) ==
    /\ pc' = "stopping"
    /\ outcome' = what
    /\ session' = FALSE
    /\ Dispatch("SubagentStop")
    /\ UNCHANGED <<chain, cursor, late, loose, begun, finished, tried, hops, ending>>

\* Seeded fault: SubagentStop only after a session.
CreateFailsUnstopped(reason) ==
    /\ pc = "creating"
    /\ Caught(reason)
    /\ UNCHANGED <<chain, late, outcome, session, hooks, tried>>

CreateFails(reason) == pc = "creating" /\ Dispatched(reason)

\* The listener starts a call and awaits nothing; after dispose it is gone.
SessionEvent ==
    /\ pc = "prompting"
    /\ Scripts > 0
    /\ Len(loose) < MaxEvents
    /\ loose' = Append(loose, Call("session"))
    /\ UNCHANGED <<late, pc, control, awaited, begun, finished>>

\* prompt() has thrown or a turn ended in an error: a failed result, and no
\* failure of the provider.  Only dispose can throw.
Prompted(what) ==
    /\ pc = "prompting"
    /\ what \in Result \cup {"other"}
    /\ Dispatched(what)

Stopped ==
    /\ pc = "stopping"
    /\ awaited.child = "done"
    /\ awaited' = NoCall
    /\ finished' = finished + 1
    /\ outcome' = "none"
    /\ IF outcome \in Result THEN Ends(outcome) /\ UNCHANGED <<cursor, hops>>
       ELSE Caught(outcome)
    /\ UNCHANGED <<chain, late, session, loose, begun, tried>>
-----------------------------------------------------------------------------
Attempt ==
    \/ Select \/ Credential \/ Started \/ Create \/ Stopped
    \/ \E r \in Failure : CredentialFails(r) \/ CreateFails(r)
    \/ \E what \in Result \cup {"other"} : Prompted(what)

SpawnNext ==
    \/ Attempt \/ SessionEvent \/ TimePasses \/ AwaitedExits \/ AwaitedTimer
    \/ \E i \in DOMAIN loose : LooseStep(i)

SpawnSpec == SpawnInit /\ [][SpawnNext]_spawnVars

\* The keychain, the factory and the prompt settle, and timers fire.  That a
\* script exits is not assumed.
Fairness == WF_spawnVars(Attempt) /\ WF_spawnVars(AwaitedTimer)

FairSpawn == SpawnSpec /\ Fairness
-----------------------------------------------------------------------------
\* SubagentStart and SubagentStop bracket each attempt, also one whose session
\* cannot be created: no session is opened beside one of their scripts, no
\* attempt begins before those of the last are done, and each start has its
\* stop (spawnOrchestratorSession, spawnAgent).
Bracketed ==
    /\ session => awaited = NoCall
    /\ pc \in {"creating", "prompting"} => begun = finished + 1
    /\ pc \in {"select", "credential", "ended"} => begun = finished /\ awaited = NoCall

Budgeted == INSTANCE Failover WITH Pending <- "pending", Answer <- Result \cup {"other"}

\* The chain tries its providers in order and stops for the reason it gives,
\* whenever the time budget runs out (createFallbackChain).
ImplementsFailover == Budgeted!Spec

\* A spawn ends, whatever its hook scripts do: one that hangs and ignores
\* SIGTERM is killed (runHandler).
SpawnEnds == <>(pc = "ended")
=============================================================================
