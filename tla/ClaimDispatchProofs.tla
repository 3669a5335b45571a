-------------------------- MODULE ClaimDispatchProofs --------------------------
(***************************************************************************)
(* ClaimDispatch, for all values of its constants: the registry is          *)
(* consistent, sessions that run at the same time share no file, and the    *)
(* registry implements ClaimTable.                                          *)
(***************************************************************************)
EXTENDS ClaimDispatch, SequenceTheorems, TLAPS

USE ConstantsAssumption

\* What lane b dispatches is one of its tasks, hence nobody else's.
LEMMA CurrentTask ==
    ASSUME TypeOK, NEW b \in Lane, Len(results[b]) < Len(Batch[b])
    PROVE  Current(b) \in TasksOf(b) /\ Current(b) \in Task
  <1>1. Len(results[b]) \in Nat /\ Len(Batch[b]) \in Nat
    BY LenProperties DEF TypeOK
  <1>2. Len(results[b]) + 1 \in DOMAIN Batch[b]
    BY <1>1
  <1> QED
    BY <1>2 DEF Current, TasksOf

LEMMA OtherCurrent ==
    ASSUME TypeOK, NEW a \in Lane, NEW b \in Lane, a # b,
           Len(results[a]) < Len(Batch[a]), Len(results[b]) < Len(Batch[b])
    PROVE  Current(a) # Current(b)
  BY CurrentTask

LEMMA IdsOfTask == ASSUME TypeOK, NEW t \in Task PROVE IdsOf(t) \subseteq Id
  BY DEF TypeOK, IdsOf

\* Why sessions share no file: while a task is dispatched the registry maps
\* every one of its identifiers to it.
HoldsClaims ==
    \A b \in Lane : Dispatching(b) =>
        \A i \in IdsOf(Current(b)) : byIdentifier[i] = Current(b)

\* What a step does to the registry, for the task t of the lane b that takes it.
RegistryStep(b) ==
    \/ UNCHANGED registry
    \/ Begin(b)
    \/ /\ Release(Current(b))
       /\ ~Dispatching(b)'
       /\ Dispatching(b)

LaneStep(b) ==
    \/ Begin(b) \/ BeginBlocked(b) \/ FactoryAnswers(b) \/ TurnFails(b) \/ PromptEnds(b)

LEMMA LaneFrame ==
    ASSUME TypeOK, NEW b \in Lane, LaneStep(b)
    PROVE  /\ claims' = claims
           /\ \A a \in Lane : a # b =>
                 /\ results'[a] = results[a]
                 /\ pc'[a] = pc[a]
                 /\ Current(a)' = Current(a)
           /\ RegistryStep(b)
           /\ Dispatching(b)' => /\ Dispatching(b) \/ Begin(b)
                                 /\ Current(b)' = Current(b)
           /\ Dispatching(b) => Len(results[b]) < Len(Batch[b])
           /\ Begin(b) => Len(results[b]) < Len(Batch[b])
  <1> USE DEF TypeOK, Current, Dispatching, RegistryStep, registry
  <1>1. CASE Begin(b) \/ BeginBlocked(b)
    BY <1>1 DEF Begin, BeginBlocked, More
  <1>2. CASE FactoryAnswers(b)
    BY <1>2 DEF FactoryAnswers, FactoryThrows, SessionHarvested, HarvestThrows, Prompt, Finish
  <1>3. CASE TurnFails(b) \/ PromptEnds(b)
    BY <1>3 DEF TurnFails, PromptEnds, PromptResolves, PromptThrows, Finish
  <1> QED
    BY <1>1, <1>2, <1>3 DEF LaneStep

-----------------------------------------------------------------------------
(* Types *)

LEMMA ReleaseTypes ==
    ASSUME TypeOK, NEW t \in Task, Release(t)
    PROVE  /\ byIdentifier' \in [Id -> Task \cup {NoTask}]
           /\ byTask' \in [Task -> SUBSET Id]
  BY DEF TypeOK, Release

LEMMA StepTypes == ASSUME TypeOK, NEW b \in Lane, LaneStep(b) PROVE TypeOK'
  <1> DEFINE n == Len(results[b])
  <1>n. n \in Nat /\ Len(Batch[b]) \in Nat /\ results[b] \in Seq(Status)
    BY LenProperties DEF TypeOK
  <1>1. ASSUME NEW status \in Status, Finish(b, status), n < Len(Batch[b])
        PROVE  TypeOK'
    <2>1. Current(b) \in Task
      BY <1>1, CurrentTask
    <2>2. /\ Append(results[b], status) \in Seq(Status)
          /\ Len(Append(results[b], status)) = n + 1
      BY <1>n, <1>1, AppendProperties
    <2>3. results' \in [Lane -> Seq(Status)]
      BY <1>1, <2>2 DEF Finish, TypeOK
    <2>4. \A a \in Lane : /\ Len(results'[a]) <= Len(Batch[a])
                          /\ pc'[a] # "next" => Len(results'[a]) < Len(Batch[a])
      BY <1>n, <1>1, <2>2 DEF Finish, TypeOK
    <2> QED
      BY <1>1, <2>1, <2>3, <2>4, ReleaseTypes DEF Finish, TypeOK
  <1>2. CASE Begin(b)
    <2>1. Current(b) \in Task
      BY <1>2, CurrentTask DEF Begin, More
    <2>2. IdsOf(Current(b)) \subseteq Id
      BY <2>1, IdsOfTask
    <2> QED
      BY <1>2, <2>1, <2>2 DEF Begin, More, Register, TypeOK
  <1>3. CASE BeginBlocked(b)
    <2>1. /\ Append(results[b], "blocked") \in Seq(Status)
          /\ Len(Append(results[b], "blocked")) = n + 1
      BY <1>n, AppendProperties DEF Status
    <2>2. results' \in [Lane -> Seq(Status)]
      BY <1>3, <2>1 DEF BeginBlocked, TypeOK
    <2>3. \A a \in Lane : /\ Len(results'[a]) <= Len(Batch[a])
                          /\ pc'[a] # "next" => Len(results'[a]) < Len(Batch[a])
      BY <1>n, <1>3, <2>1 DEF BeginBlocked, More, TypeOK
    <2> QED
      BY <1>3, <2>2, <2>3 DEF BeginBlocked, registry, TypeOK
  <1>4. CASE FactoryThrows(b) \/ Prompt(b) \/ TurnFails(b)
    BY <1>4 DEF FactoryThrows, Prompt, TurnFails, registry, TypeOK
  <1>5. CASE HarvestThrows(b)
    <2>1. Current(b) \in Task
      BY <1>5, CurrentTask DEF HarvestThrows, TypeOK
    <2> QED
      BY <1>5, <2>1, ReleaseTypes DEF HarvestThrows, TypeOK
  <1>6. CASE SessionHarvested(b) \/ PromptEnds(b)
    BY <1>6, <1>1
       DEF SessionHarvested, PromptEnds, PromptResolves, PromptThrows, Status, TypeOK
  <1> QED
    BY <1>2, <1>3, <1>4, <1>5, <1>6 DEF LaneStep, FactoryAnswers

LEMMA InitTypes == Init => TypeOK
  <1> SUFFICES ASSUME Init PROVE TypeOK
    OBVIOUS
  <1>1. \A b \in Lane : Len(results[b]) = 0 /\ Len(Batch[b]) \in Nat
    BY LenProperties, EmptySeq DEF Init
  <1> QED
    BY <1>1 DEF Init, TypeOK

\* The type invariant holds in every reachable state.
THEOREM TypeCorrect == Spec => []TypeOK
  <1>1. TypeOK /\ [Next]_vars => TypeOK'
    <2> SUFFICES ASSUME TypeOK, [Next]_vars PROVE TypeOK'
      OBVIOUS
    <2>1. CASE Next
      BY <2>1, StepTypes DEF Next, LaneStep
    <2>2. CASE UNCHANGED vars
      BY <2>2 DEF vars, TypeOK
    <2> QED
      BY <2>1, <2>2
  <1> QED
    BY <1>1, InitTypes, PTL DEF Spec
-----------------------------------------------------------------------------
(* The registry *)

Inv == TypeOK /\ RegistryConsistent /\ HoldsClaims

LEMMA InitInv == Init => Inv
  BY InitTypes DEF Init, Inv, RegistryConsistent, HoldsClaims, Dispatching

LEMMA ConsistentStep ==
    ASSUME Inv, NEW b \in Lane, LaneStep(b)
    PROVE  RegistryConsistent'
  <1> USE DEF Inv
  <1>1. CASE UNCHANGED registry
    BY <1>1 DEF registry, RegistryConsistent
  <1>2. CASE Begin(b)
    <2>1. PICK t \in Task : t = Current(b)
      BY <1>2, LaneFrame, CurrentTask
    <2>2. /\ Conflicts(t) = {}
          /\ byIdentifier' = [i \in Id |-> IF i \in IdsOf(t) THEN t ELSE byIdentifier[i]]
          /\ byTask' = [byTask EXCEPT ![t] = @ \cup IdsOf(t)]
      BY <1>2, <2>1 DEF Begin, Register
    <2>3. \A i \in IdsOf(t) : byIdentifier[i] \in {NoTask, t}
      BY <2>2 DEF Conflicts
    <2> QED
      BY <2>2, <2>3 DEF RegistryConsistent, TypeOK
  <1>3. CASE Release(Current(b)) /\ Dispatching(b)
    <2>1. PICK t \in Task : t = Current(b)
      BY <1>3, LaneFrame, CurrentTask
    <2> QED
      BY <1>3, <2>1 DEF Release, RegistryConsistent, TypeOK
  <1> QED
    BY <1>1, <1>2, <1>3, LaneFrame DEF RegistryStep

LEMMA HoldsStep ==
    ASSUME Inv, NEW b \in Lane, LaneStep(b)
    PROVE  HoldsClaims'
  <1> USE DEF Inv
  <1> SUFFICES ASSUME NEW a \in Lane, Dispatching(a)',
                      NEW i \in IdsOf(Current(a))'
               PROVE  byIdentifier'[i] = Current(a)'
    BY DEF HoldsClaims
  <1>1. Len(results[a]) < Len(Batch[a]) /\ Current(a)' = Current(a)
    BY LaneFrame DEF Dispatching, TypeOK
  <1>2. PICK t \in Task : t = Current(a)
    BY <1>1, CurrentTask
  <1>3. i \in IdsOf(t) /\ i \in Id
    BY <1>1, <1>2, LaneFrame, IdsOfTask DEF IdsOf
  <1>4. (Dispatching(a) => byIdentifier[i] = t) /\ (Dispatching(a) \/ (a = b /\ Begin(b)))
    BY <1>2, <1>3, LaneFrame DEF HoldsClaims, Dispatching
  <1>5. CASE UNCHANGED registry
    <2>1. CASE Begin(b) /\ a = b
      BY <1>1, <1>2, <1>3, <2>1 DEF Begin, Register, Conflicts
    <2> QED
      BY <1>1, <1>2, <1>4, <1>5, <2>1 DEF registry
  <1>6. CASE Begin(b)
    <2>1. PICK u \in Task : u = Current(b)
      BY <1>6, LaneFrame, CurrentTask
    <2>2. /\ \A j \in IdsOf(u) : byIdentifier[j] \in {NoTask, u}
          /\ byIdentifier' = [j \in Id |-> IF j \in IdsOf(u) THEN u ELSE byIdentifier[j]]
      BY <1>6, <2>1 DEF Begin, Register, Conflicts
    <2>3. CASE a = b
      BY <1>1, <1>2, <1>3, <2>1, <2>2, <2>3
    <2>4. CASE a # b
      <3>1. byIdentifier[i] = t /\ t # u
        BY <1>1, <1>2, <1>4, <1>6, <2>1, <2>4, LaneFrame, OtherCurrent
      <3> QED
        BY <1>1, <1>2, <1>3, <2>2, <3>1
    <2> QED
      BY <2>3, <2>4
  <1>7. CASE Release(Current(b)) /\ ~Dispatching(b)' /\ Dispatching(b)
    <2>1. a # b
      BY <1>7
    <2>2. PICK u \in Task : u = Current(b)
      BY <1>7, LaneFrame, CurrentTask
    <2>3. t # u
      BY <1>1, <1>2, <1>7, <2>1, <2>2, LaneFrame, OtherCurrent
    <2>4. byIdentifier[i] = t
      BY <1>4, <2>1
    <2> QED
      BY <1>1, <1>2, <1>3, <1>7, <2>2, <2>3, <2>4 DEF Release
  <1> QED
    BY <1>5, <1>6, <1>7, LaneFrame DEF RegistryStep

LEMMA InvStep == Inv /\ [Next]_vars => Inv'
  <1> SUFFICES ASSUME Inv, [Next]_vars PROVE Inv'
    OBVIOUS
  <1>1. ASSUME NEW b \in Lane, LaneStep(b) PROVE Inv'
    BY <1>1, StepTypes, ConsistentStep, HoldsStep DEF Inv
  <1>2. CASE UNCHANGED vars
    BY <1>2 DEF vars, Inv, TypeOK, RegistryConsistent, HoldsClaims, Dispatching, Current, IdsOf
  <1> QED
    BY <1>1, <1>2 DEF Next, LaneStep

\* The registry's two maps stay each other's inverse.
THEOREM Consistent == Spec => []RegistryConsistent
  <1>1. Inv => RegistryConsistent
    BY DEF Inv
  <1> QED
    BY <1>1, InitInv, InvStep, PTL DEF Spec

\* Sessions that run at the same time claim no file in common: each has all
\* its identifiers in the registry, which has one task per identifier.
THEOREM DisjointFiles == Spec => []NoSharedFile
  <1>1. Inv => NoSharedFile
    <2> SUFFICES ASSUME Inv, NEW a \in Lane, NEW b \in Lane, a # b,
                        Dispatching(a), Dispatching(b)
                 PROVE  IdsOf(Current(a)) \cap IdsOf(Current(b)) = {}
      BY DEF NoSharedFile
    <2>1. Current(a) # Current(b)
      BY OtherCurrent DEF Inv, TypeOK, Dispatching
    <2> QED
      BY <2>1 DEF Inv, HoldsClaims
  <1> QED
    BY <1>1, InitInv, InvStep, PTL DEF Spec
-----------------------------------------------------------------------------
(* Nobody is blocked by a task that has ended. *)

\* Lane b accounts for the claims of t.
Accounts(b, t) == (Dispatching(b) \/ pc[b] = "threw") /\ Current(b) = t

LEMMA AccountedStep ==
    ASSUME TypeOK, ClaimsAccounted, NEW b \in Lane, LaneStep(b)
    PROVE  ClaimsAccounted'
  <1> SUFFICES ASSUME NEW t \in Task, byTask'[t] # {}
               PROVE  \E a \in Lane : Accounts(a, t)'
    BY DEF ClaimsAccounted, Accounts
  <1>0. \A a \in Lane : a # b => (Accounts(a, t)' <=> Accounts(a, t))
    BY LaneFrame DEF Accounts, Dispatching
  <1>1. byTask[t] # {} => \E a \in Lane : Accounts(a, t)
    BY DEF ClaimsAccounted, Accounts
  <1>2. CASE Begin(b)
    <2>1. PICK u \in Task : u = Current(b)
      BY <1>2, LaneFrame, CurrentTask
    <2>2. byTask' = [byTask EXCEPT ![u] = @ \cup IdsOf(u)]
      BY <1>2, <2>1 DEF Begin, Register
    <2>3. CASE t = u
      <3>1. pc'[b] = "factory" /\ Current(b)' = Current(b)
        BY <1>2 DEF Begin, Current, TypeOK
      <3> QED
        BY <2>1, <2>3, <3>1 DEF Accounts, Dispatching
    <2>4. CASE t # u
      <3>1. byTask[t] # {} /\ ~Accounts(b, t)
        BY <1>2, <2>1, <2>2, <2>4 DEF Begin, More, Accounts, TypeOK
      <3> QED
        BY <1>0, <1>1, <3>1
    <2> QED
      BY <2>3, <2>4
  <1>3. CASE BeginBlocked(b)
    <2>1. byTask[t] # {} /\ ~Accounts(b, t)
      BY <1>3 DEF BeginBlocked, More, Accounts, Dispatching, registry
    <2> QED
      BY <1>0, <1>1, <2>1
  <1>4. CASE FactoryThrows(b) \/ Prompt(b) \/ TurnFails(b)
    <2>1. byTask' = byTask
      BY <1>4 DEF FactoryThrows, Prompt, TurnFails, registry
    <2>2. Accounts(b, t) => Accounts(b, t)'
      BY <1>4 DEF FactoryThrows, Prompt, TurnFails, Accounts, Dispatching, Current, TypeOK
    <2> QED
      BY <1>0, <1>1, <2>1, <2>2
  <1>5. CASE Release(Current(b)) /\ Dispatching(b)
    <2>1. PICK u \in Task : u = Current(b)
      BY <1>5, LaneFrame, CurrentTask
    <2>2. byTask' = [byTask EXCEPT ![u] = {}]
      BY <1>5, <2>1 DEF Release
    <2>3. t # u /\ byTask[t] # {}
      BY <2>2 DEF TypeOK
    <2>4. ~Accounts(b, t)
      BY <2>1, <2>3 DEF Accounts
    <2> QED
      BY <1>0, <1>1, <2>3, <2>4
  <1>6. SessionHarvested(b) \/ HarvestThrows(b) \/ PromptEnds(b)
          => Release(Current(b)) /\ Dispatching(b)
    BY DEF SessionHarvested, HarvestThrows, PromptEnds, PromptResolves, PromptThrows,
       Finish, Dispatching
  <1> QED
    BY <1>2, <1>3, <1>4, <1>5, <1>6 DEF LaneStep, FactoryAnswers

\* A task that is not being dispatched holds no claim, whichever way its
\* dispatch ended, but for a task whose session factory rejected.
THEOREM Accounted == Spec => []ClaimsAccounted
  <1>1. Init => ClaimsAccounted
    BY DEF Init, ClaimsAccounted
  <1>2. TypeOK /\ ClaimsAccounted /\ [Next]_vars => ClaimsAccounted'
    <2> SUFFICES ASSUME TypeOK, ClaimsAccounted, [Next]_vars PROVE ClaimsAccounted'
      OBVIOUS
    <2>1. CASE UNCHANGED vars
      BY <2>1 DEF vars, ClaimsAccounted, Dispatching, Current
    <2> QED
      BY <2>1, AccountedStep DEF Next, LaneStep
  <1> QED
    BY <1>1, <1>2, TypeCorrect, PTL DEF Spec
-----------------------------------------------------------------------------
(* Refinement *)

Wants == [t \in Task |-> IdsOf(t)]

\* The registry implements ClaimTable: a task takes exactly the identifiers its
\* claims ask for, all in one step and only if no other task owns one of them,
\* and gives back all that it owns and nothing else.
THEOREM TableImplemented == Spec => ImplementsClaimTable
  <1>1. Init => Table!Init
    <2> SUFFICES ASSUME Init PROVE Table!Init
      OBVIOUS
    <2>1. \A t \in Task : IdsOf(t) \subseteq Id
      BY InitTypes, IdsOfTask
    <2> QED
      BY <2>1 DEF Init, Table!Init
  <1>2. Inv /\ [Next]_vars => [Table!Next]_<<Wants, byIdentifier>>
    <2> SUFFICES ASSUME Inv, [Next]_vars
                 PROVE  Table!Next \/ UNCHANGED <<Wants, byIdentifier>>
      OBVIOUS
    <2> USE DEF Inv
    <2>0. Wants' = Wants
      BY LaneFrame DEF Next, LaneStep, vars, Wants, IdsOf
    <2>1. ASSUME NEW b \in Lane, Begin(b) PROVE Table!Next
      <3>1. PICK t \in Task : t = Current(b)
        BY <2>1, CurrentTask DEF Begin, More
      <3>2. IdsOf(t) \in SUBSET Id
        BY IdsOfTask
      <3>3. Table!Take(t)
        BY <2>0, <2>1, <3>1, <3>2 DEF Begin, Register, Conflicts, Table!Take, Wants
      <3> QED
        BY <3>3 DEF Table!Next
    <2>2. ASSUME NEW b \in Lane, Release(Current(b)), Dispatching(b) PROVE Table!Next
      <3>1. PICK t \in Task : t = Current(b)
        BY <2>2, CurrentTask DEF Dispatching, TypeOK
      <3>2. byIdentifier' = [i \in Id |-> IF byIdentifier[i] = t THEN NoTask ELSE byIdentifier[i]]
        BY <2>2, <3>1 DEF Release, RegistryConsistent
      <3>3. Table!Drop(t)
        BY <2>0, <3>2 DEF Table!Drop, Wants
      <3> QED
        BY <3>3 DEF Table!Next
    <2>3. ASSUME NEW b \in Lane, LaneStep(b)
          PROVE  Table!Next \/ UNCHANGED <<Wants, byIdentifier>>
      BY <2>0, <2>1, <2>2, <2>3, LaneFrame DEF RegistryStep, registry
    <2> QED
      BY <2>0, <2>3 DEF Next, LaneStep, vars
  <1> QED
    BY <1>1, <1>2, InitInv, InvStep, PTL DEF Spec, ImplementsClaimTable, Table!Spec, Wants
=============================================================================
