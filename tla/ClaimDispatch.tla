---------------------------- MODULE ClaimDispatch ----------------------------
(***************************************************************************)
(* The task dispatcher and its file-claim registry: several batches run at  *)
(* the same time in one process (a lane each) and share one ClaimRegistry.  *)
(* An action is what runs between two awaits: dispatch registers and calls  *)
(* the session factory; what follows the factory or the prompt runs to the  *)
(* end of the `finally` block without yielding.                             *)
(***************************************************************************)
EXTENDS Integers, Sequences, FiniteSets

CONSTANTS
    Lane,            \* concurrent callers of dispatchBatch
    Task,            \* task ids
    NoTask,          \* "no entry" in the registry
    Path, Id,        \* claimed paths, and their identifiers
    IdentifierFor,   \* the SHA-1 of a normalised path; `Foo.ts` meets `foo.ts`
    Batch            \* the tasks of each lane, in order

TasksOf(b) == {Batch[b][n] : n \in DOMAIN Batch[b]}

\* A plan holds a task id once (DuplicateTaskError), so no two lanes share one.
ASSUME ConstantsAssumption ==
    /\ NoTask \notin Task
    /\ IdentifierFor \in [Path -> Id]
    /\ Batch \in [Lane -> Seq(Task)]
    /\ \A a, b \in Lane : a # b => TasksOf(a) \cap TasksOf(b) = {}

VARIABLES
    claims,        \* claims[t]: TaskBrief.claims
    byIdentifier,  \* byIdentifier[i]: the task that claims identifier i
    byTask,        \* byTask[t]: the identifiers recorded under t
    pc,            \* pc[b]: where lane b awaits
    lastError,     \* lastError[b]: did a turn of the session end in error?
    results        \* results[b]: statuses of the tasks of b dispatched so far

vars == <<claims, byIdentifier, byTask, pc, lastError, results>>
registry == <<byIdentifier, byTask>>

Status == {"success", "partial", "failed", "blocked"}

\* The task lane b dispatches now, or next.
Current(b) == Batch[b][Len(results[b]) + 1]
Dispatching(b) == pc[b] \in {"factory", "prompting"}
IdsOf(t) == {IdentifierFor[p] : p \in claims[t]}
-----------------------------------------------------------------------------
Init ==
    /\ claims \in [Task -> SUBSET Path]
    /\ byIdentifier = [i \in Id |-> NoTask]
    /\ byTask = [t \in Task |-> {}]
    /\ pc = [b \in Lane |-> "next"]
    /\ lastError = [b \in Lane |-> FALSE]
    /\ results = [b \in Lane |-> <<>>]

Conflicts(t) == {i \in IdsOf(t) : byIdentifier[i] \notin {NoTask, t}}

\* register, no conflict: every pending identifier in one go
Register(t) ==
    /\ Conflicts(t) = {}
    /\ byIdentifier' = [i \in Id |-> IF i \in IdsOf(t) THEN t ELSE byIdentifier[i]]
    /\ byTask' = [byTask EXCEPT ![t] = @ \cup IdsOf(t)]

Release(t) ==
    /\ byIdentifier' = [i \in Id |->
                          IF i \in byTask[t] /\ byIdentifier[i] = t
                          THEN NoTask ELSE byIdentifier[i]]
    /\ byTask' = [byTask EXCEPT ![t] = {}]

(* dispatch, up to `await factory(...)` *)

More(b) == pc[b] = "next" /\ Len(results[b]) < Len(Batch[b])

Begin(b) ==
    /\ More(b)
    /\ Register(Current(b))
    /\ pc' = [pc EXCEPT ![b] = "factory"]
    /\ UNCHANGED <<claims, lastError, results>>

\* Seeded fault: a task whose files are taken waits for them.
WaitForClaims(b) ==
    /\ More(b)
    /\ FALSE
    /\ UNCHANGED vars

\* Seeded fault: claims are recorded while the conflicts are still collected,
\* so that a refused task keeps those of its identifiers that were free.
BlockedPartly(b) ==
    LET t == Current(b)
        free == IdsOf(t) \ Conflicts(t)
    IN  /\ More(b)
        /\ Conflicts(t) # {}
        /\ byIdentifier' = [i \in Id |-> IF i \in free THEN t ELSE byIdentifier[i]]
        /\ byTask' = [byTask EXCEPT ![t] = @ \cup free]
        /\ results' = [results EXCEPT ![b] = Append(@, "blocked")]
        /\ UNCHANGED <<claims, pc, lastError>>

\* A conflict short-circuits: no session, no registration.
BeginBlocked(b) ==
    /\ More(b)
    /\ Conflicts(Current(b)) # {}
    /\ results' = [results EXCEPT ![b] = Append(@, "blocked")]
    /\ UNCHANGED <<claims, registry, pc, lastError>>

(* The session factory answers *)

\* The factory is awaited outside the try: nothing is released, and
\* dispatchBatch rejects with the tasks after this one undispatched.
FactoryThrows(b) ==
    /\ pc[b] = "factory"
    /\ pc' = [pc EXCEPT ![b] = "threw"]
    /\ UNCHANGED <<claims, registry, lastError, results>>

\* return in the try, then dispose and release in the finally
Finish(b, status) ==
    /\ Release(Current(b))
    /\ results' = [results EXCEPT ![b] = Append(@, status)]
    /\ pc' = [pc EXCEPT ![b] = "next"]
    /\ UNCHANGED <<claims, lastError>>

\* No prompt (synthetic success), or the result entry is harvested at once.
SessionHarvested(b) ==
    /\ pc[b] = "factory"
    /\ \E status \in Status : Finish(b, status)

\* Seeded fault: the throw of the harvest skips the release.
HarvestThrowsUnreleased(b) ==
    /\ pc[b] = "factory"
    /\ pc' = [pc EXCEPT ![b] = "harvestThrew"]
    /\ UNCHANGED <<claims, registry, lastError, results>>

\* MissingTaskResultError, a Zod error or a task-id mismatch
HarvestThrows(b) ==
    /\ pc[b] = "factory"
    /\ Release(Current(b))
    /\ pc' = [pc EXCEPT ![b] = "harvestThrew"]
    /\ UNCHANGED <<claims, lastError, results>>

\* Seeded fault: the claims are dropped as soon as the session exists.
PromptReleased(b) ==
    /\ pc[b] = "factory"
    /\ Release(Current(b))
    /\ pc' = [pc EXCEPT ![b] = "prompting"]
    /\ lastError' = [lastError EXCEPT ![b] = FALSE]
    /\ UNCHANGED <<claims, results>>

Prompt(b) ==
    /\ pc[b] = "factory"
    /\ pc' = [pc EXCEPT ![b] = "prompting"]
    /\ lastError' = [lastError EXCEPT ![b] = FALSE]
    /\ UNCHANGED <<claims, registry, results>>

\* TASK_ERROR: a turn ended with stopReason=error; prompt() goes on.
TurnFails(b) ==
    /\ pc[b] = "prompting"
    /\ lastError' = [lastError EXCEPT ![b] = TRUE]
    /\ UNCHANGED <<claims, registry, pc, results>>

PromptResolves(b) ==
    /\ pc[b] = "prompting"
    /\ Finish(b, IF lastError[b] THEN "failed" ELSE "success")

PromptThrows(b) ==
    /\ pc[b] = "prompting"
    /\ Finish(b, "failed")
-----------------------------------------------------------------------------
FactoryAnswers(b) ==
    FactoryThrows(b) \/ SessionHarvested(b) \/ HarvestThrows(b) \/ Prompt(b)
PromptEnds(b) == PromptResolves(b) \/ PromptThrows(b)

Next ==
    \E b \in Lane :
        \/ Begin(b) \/ BeginBlocked(b)
        \/ FactoryAnswers(b)
        \/ TurnFails(b) \/ PromptEnds(b)

Spec == Init /\ [][Next]_vars

\* The event loop runs what is ready; sessions end (maxTurns, the provider's
\* timeouts).
FairSpec ==
    /\ Spec
    /\ \A b \in Lane :
          /\ WF_vars(Begin(b) \/ BeginBlocked(b))
          /\ WF_vars(FactoryAnswers(b))
          /\ WF_vars(PromptEnds(b))
-----------------------------------------------------------------------------
(* Correctness *)

TypeOK ==
    /\ claims \in [Task -> SUBSET Path]
    /\ byIdentifier \in [Id -> Task \cup {NoTask}]
    /\ byTask \in [Task -> SUBSET Id]
    /\ pc \in [Lane -> {"next", "factory", "prompting", "threw", "harvestThrew"}]
    /\ lastError \in [Lane -> BOOLEAN]
    /\ results \in [Lane -> Seq(Status)]
    /\ \A b \in Lane :
          /\ Len(results[b]) <= Len(Batch[b])
          /\ pc[b] # "next" => Len(results[b]) < Len(Batch[b])

\* No two sessions run at the same time with claims on the same file, under
\* whatever spelling (claim-registry.ts: parallel tasks that would touch the
\* same claim path are rejected before any token is spent).
NoSharedFile ==
    \A a, b \in Lane :
        a # b /\ Dispatching(a) /\ Dispatching(b)
            => IdsOf(Current(a)) \cap IdsOf(Current(b)) = {}

\* The two maps of the registry are each other's inverse.
RegistryConsistent ==
    \A i \in Id, t \in Task : byIdentifier[i] = t <=> i \in byTask[t]

\* A task that is not being dispatched holds no claim, so that nobody is
\* blocked by a task that has ended -- but for a task whose session factory
\* rejected, whose claims stay for the life of the process.
ClaimsAccounted ==
    \A t \in Task :
        byTask[t] # {} =>
            \E b \in Lane : (Dispatching(b) \/ pc[b] = "threw") /\ Current(b) = t

\* The registry hands out identifiers as ClaimTable promises: a task that is
\* dispatched has all that its claims ask for, one that is refused nothing.
Table == INSTANCE ClaimTable
             WITH owner <- byIdentifier, wants <- [t \in Task |-> IdsOf(t)]
ImplementsClaimTable == Table!Spec

\* No batch hangs on a claim, not even on one that nobody will release: each
\* ends with a result per task, or by an exception.
Ended(b) == pc[b] \in {"threw", "harvestThrew"} \/ Len(results[b]) = Len(Batch[b])
BatchesEnd == \A b \in Lane : <>Ended(b)

(* A claim of the documentation that the code does not keep. *)

\* dispatcher.ts:73: claims are released in the `finally` block alongside
\* session.dispose(): once a dispatch has ended, its task holds none.
ClaimsReleased ==
    \A t \in Task :
        byTask[t] # {} => \E b \in Lane : Dispatching(b) /\ Current(b) = t
=============================================================================
