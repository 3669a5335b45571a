--------------------------- MODULE OrchestrationProofs ---------------------------
(***************************************************************************)
(* DagResolver, for plans of any size: batches respect depends_on, hold     *)
(* every task once and as early as can be, and a cycle error reports        *)
(* exactly the tasks that no order can place.  SpawnChain, for every chain, *)
(* budget and number of hook scripts: the scripts bracket each attempt, and *)
(* the chain implements Failover.                                           *)
(***************************************************************************)
EXTENDS DagResolver, SpawnChain, FiniteSetTheorems, SequenceTheorems, TLAPS

USE PlansAssumption

Done == {t \in Ids : inDegree[t] = -1}

\* inDegree counts the entries of depends_on that are still to schedule.
DegreesRight ==
    phase \in {"loop", "ok", "cycle"} =>
        \A t \in Ids \ Done : inDegree[t] = Cardinality(EdgesTo(t, Ids \ Done))
Accepted == phase \in {"loop", "ok", "cycle"} => ~HasDuplicate /\ ~HasMissing
DoneInBatch == \A t \in Ids : t \in Done <=> \E n \in DOMAIN batches : t \in batches[n]
CountRight == scheduled = Cardinality(Done)
\* A task that can be scheduled now could not be one batch earlier.
ReadySince ==
    phase # "start" =>
        \A t \in Ready : batches # <<>> => \E d \in DependsOn(t) : InBatch(d, Len(batches))
\* Nothing that waits for itself has been scheduled.
NothingBlockedDone == \A S \in SUBSET Ids : Blocked(S) => S \cap Done = {}
LoopCondition == /\ phase = "loop" => scheduled < Len(Order)
                 /\ phase = "ok" => scheduled = Len(Order)
                 /\ phase \notin {"loop", "ok", "cycle"} => batches = <<>>
                 /\ phase = "start" => Done = {}

Inv ==
    /\ TypeOK /\ Accepted /\ DoneInBatch /\ DegreesRight /\ CountRight
    /\ ReadySince /\ NothingBlockedDone /\ LoopCondition
    /\ DepsFirst /\ OnceOnly /\ Earliest /\ ResidualIsBlocked

-----------------------------------------------------------------------------
(* Finite sets of tasks and edges *)

LEMMA OrderType == TypeOK => Order \in Seq(Task) /\ \A t \in Ids : Deps(t) \in Seq(Task)
  BY DEF TypeOK, Order, Deps, Ids

LEMMA OneTo ==
    ASSUME NEW k \in Nat PROVE IsFiniteSet(1..k) /\ Cardinality(1..k) = k
  BY FS_Interval

LEMMA IdsFinite ==
    ASSUME TypeOK
    PROVE  /\ IsFiniteSet(Ids) /\ Cardinality(Ids) \in Nat
           /\ Cardinality(Ids) <= Len(Order)
           /\ ~HasDuplicate => Cardinality(Ids) = Len(Order)
  <1>1. Order \in [1..Len(Order) -> Ids] /\ Len(Order) \in Nat
    BY OrderType, LenProperties DEF Ids
  <1>2. IsFiniteSet(1..Len(Order)) /\ Cardinality(1..Len(Order)) = Len(Order)
    BY <1>1, OneTo
  <1>3. Order \in Surjection(1..Len(Order), Ids)
    BY <1>1 DEF Surjection, Ids
  <1>4. ~HasDuplicate => Order \in Injection(1..Len(Order), Ids)
    <2>1. DOMAIN Order = 1..Len(Order)
      BY <1>1
    <2> QED
      BY <1>1, <2>1 DEF HasDuplicate, Injection, IsInjective
  <1> QED
    BY <1>1, <1>2, <1>3, <1>4, FS_Surjection, FS_CardinalityType

LEMMA EdgesFinite ==
    ASSUME TypeOK, NEW t \in Ids, NEW S
    PROVE  IsFiniteSet(EdgesTo(t, S)) /\ Cardinality(EdgesTo(t, S)) \in Nat
  <1>1. DOMAIN Deps(t) = 1..Len(Deps(t)) /\ Len(Deps(t)) \in Nat
    BY OrderType, LenProperties
  <1>2. IsFiniteSet(1..Len(Deps(t)))
    BY <1>1, OneTo
  <1>3. EdgesTo(t, S) \subseteq 1..Len(Deps(t))
    BY <1>1 DEF EdgesTo
  <1> QED
    BY <1>2, <1>3, FS_Subset, FS_CardinalityType

\* The edges into two disjoint sets add up.
LEMMA EdgesAdd ==
    ASSUME TypeOK, NEW t \in Ids, NEW S, NEW T, S \cap T = {}
    PROVE  Cardinality(EdgesTo(t, S \cup T)) =
             Cardinality(EdgesTo(t, S)) + Cardinality(EdgesTo(t, T))
  <1>1. EdgesTo(t, S \cup T) = EdgesTo(t, S) \cup EdgesTo(t, T)
    BY DEF EdgesTo
  <1>2. EdgesTo(t, S) \cap EdgesTo(t, T) = {}
    BY DEF EdgesTo
  <1>3. IsFiniteSet(EdgesTo(t, S)) /\ IsFiniteSet(EdgesTo(t, T))
    BY EdgesFinite
  <1>4. /\ Cardinality(EdgesTo(t, S)) \in Nat /\ Cardinality(EdgesTo(t, T)) \in Nat
        /\ Cardinality(EdgesTo(t, S) \cup EdgesTo(t, T)) =
             Cardinality(EdgesTo(t, S)) + Cardinality(EdgesTo(t, T)) - Cardinality({})
    BY <1>2, <1>3, EdgesFinite, FS_Union
  <1>5. Cardinality({}) = 0
    BY FS_EmptySet
  <1>6. Cardinality(EdgesTo(t, S \cup T)) = Cardinality(EdgesTo(t, S) \cup EdgesTo(t, T))
    BY <1>1, Zenon
  <1> QED
    BY <1>4, <1>5, <1>6

-----------------------------------------------------------------------------
LEMMA InitInv == Init => Inv
  <1> SUFFICES ASSUME Init PROVE Inv
    OBVIOUS
  <1>1. Done = {} /\ Cardinality({}) = 0
    BY FS_EmptySet DEF Init, Done
  <1>2. plan \in [order : Seq(Task), deps : [Task -> Seq(Task)]]
    BY DEF Init
  <1>3. Len(Order) \in Nat
    BY <1>2, LenProperties DEF Order
  <1>4. TypeOK
    BY <1>2, <1>3 DEF Init, TypeOK, Phases
  <1>5. batches = <<>> /\ DOMAIN batches = {}
    BY DEF Init
  <1> QED
    BY <1>1, <1>4, <1>5
       DEF Init, Inv, Accepted, DoneInBatch, DegreesRight, CountRight, ReadySince,
           NothingBlockedDone, LoopCondition, DepsFirst, OnceOnly, Earliest,
           ResidualIsBlocked

LEMMA BuildStep == ASSUME Inv, Build PROVE Inv'
  <1> USE DEF Inv
  <1>p. /\ Ids' = Ids /\ Order' = Order
        /\ \A t : Deps(t)' = Deps(t)
        /\ batches' = batches /\ batches = <<>>
    BY DEF Build, Ids, Order, Deps, LoopCondition
  <1>1. \A t \in Ids : Len(Deps(t)) \in Nat
    BY OrderType, LenProperties
  <1>2. TypeOK'
    BY <1>1, <1>p DEF Build, TypeOK, Phases
  <1>3. Done' = {} /\ Done = {}
    BY <1>1, <1>p DEF Build, Done, LoopCondition
  <1>4. \A t \in Ids : EdgesTo(t, Ids) = 1..Len(Deps(t))
    <2> SUFFICES ASSUME NEW t \in Ids PROVE EdgesTo(t, Ids) = 1..Len(Deps(t))
      OBVIOUS
    <2>1. DOMAIN Deps(t) = 1..Len(Deps(t))
      BY OrderType, LenProperties
    <2> QED
      BY <2>1 DEF Build, HasMissing, EdgesTo
  <1>5. \A t \in Ids : inDegree'[t] = Cardinality(EdgesTo(t, Ids))
    <2> SUFFICES ASSUME NEW t \in Ids PROVE inDegree'[t] = Cardinality(EdgesTo(t, Ids))
      OBVIOUS
    <2>1. Cardinality(1..Len(Deps(t))) = Len(Deps(t))
      BY <1>1, OneTo
    <2> QED
      BY <1>4, <2>1 DEF Build
  <1>6. \A t : EdgesTo(t, Ids \ Done)' = EdgesTo(t, Ids)
    BY <1>3, <1>p DEF EdgesTo
  <1>7. DegreesRight'
    BY <1>3, <1>5, <1>6, <1>p DEF DegreesRight
  <1>8. scheduled = 0 /\ scheduled' = 0 /\ Len(Order) \in Nat
    BY <1>3, FS_EmptySet, OrderType, LenProperties DEF CountRight, Build
  <1>9. Ids = {} <=> Len(Order) = 0
    BY OrderType, EmptySeq, LenProperties DEF Ids
  <1>10. Accepted'
    BY <1>p DEF Build, Accepted, HasDuplicate, HasMissing
  <1>11. LoopCondition'
    BY <1>3, <1>8, <1>9, <1>p DEF Build, LoopCondition
  <1> QED
    BY <1>2, <1>3, <1>7, <1>8, <1>10, <1>11, <1>p, FS_EmptySet
       DEF Build, DoneInBatch, CountRight, ReadySince, NothingBlockedDone,
           DepsFirst, OnceOnly, Earliest, ResidualIsBlocked

\* The two steps that return an error change nothing the invariant reads.
LEMMA ErrorStep == ASSUME Inv, Reject \/ Cycle PROVE Inv'
  <1> USE DEF Inv
  <1>p. /\ UNCHANGED <<plan, inDegree, batches, scheduled>>
        /\ phase' \in {"duplicate", "missing-dep", "cycle"}
        /\ phase' = "cycle" <=> phase = "loop"
        /\ phase' # "cycle" => phase = "start" /\ residual' = residual
    BY DEF Reject, Cycle
  <1>q. /\ Ids' = Ids /\ Order' = Order /\ Done' = Done /\ Ready' = Ready
        /\ HasDuplicate' = HasDuplicate /\ HasMissing' = HasMissing
        /\ \A t : DependsOn(t)' = DependsOn(t)
        /\ \A t, S : EdgesTo(t, S)' = EdgesTo(t, S)
        /\ \A S : Blocked(S)' = Blocked(S)
        /\ \A t, n : InBatch(t, n)' = InBatch(t, n)
    BY <1>p DEF Ids, Order, Done, Ready, HasDuplicate, HasMissing, DependsOn, EdgesTo, Deps,
                Blocked, InBatch
  <1>1. TypeOK'
    BY <1>p, <1>q DEF TypeOK, Phases, Reject, Cycle
  <1>2. DegreesRight' /\ Accepted'
    BY <1>p, <1>q DEF DegreesRight, Accepted
  <1>3. ReadySince'
    <2>1. CASE phase = "start"
      BY <2>1, <1>p, <1>q DEF ReadySince, LoopCondition
    <2>2. CASE phase # "start"
      BY <2>2, <1>p, <1>q DEF ReadySince
    <2> QED
      BY <2>1, <2>2
  <1>4. LoopCondition'
    BY <1>p, <1>q DEF LoopCondition
  <1>5. DoneInBatch' /\ CountRight' /\ NothingBlockedDone'
    BY <1>p, <1>q DEF DoneInBatch, CountRight, NothingBlockedDone
  <1>6. DepsFirst' /\ OnceOnly' /\ Earliest'
    BY <1>p, <1>q DEF DepsFirst, OnceOnly, Earliest
  <1>7. ResidualIsBlocked'
    <2> SUFFICES ASSUME Cycle
                 PROVE  /\ residual' # {}
                        /\ Blocked(residual')
                        /\ \A S \in SUBSET Ids : Blocked(S) => S \subseteq residual'
      BY <1>p, <1>q DEF ResidualIsBlocked, Reject
    <2>1. residual' = Ids \ Done /\ Ready = {} /\ phase = "loop"
      BY DEF Cycle, Done, Ready, TypeOK
    <2>2. Done # Ids
      <3> SUFFICES ASSUME Done = Ids PROVE FALSE
        OBVIOUS
      <3>1. Cardinality(Ids) = Len(Order)
        BY <2>1, IdsFinite DEF Accepted
      <3> QED
        BY <2>1, <3>1, IdsFinite DEF CountRight, LoopCondition
    <2>3. \A t \in Ids \ Done : DependsOn(t) \cap (Ids \ Done) # {}
      <3> SUFFICES ASSUME NEW t \in Ids \ Done PROVE DependsOn(t) \cap (Ids \ Done) # {}
        OBVIOUS
      <3>1. Cardinality(EdgesTo(t, Ids \ Done)) # 0
        BY <2>1 DEF DegreesRight, Ready
      <3>2. EdgesTo(t, Ids \ Done) # {}
        BY <3>1, FS_EmptySet
      <3> QED
        BY <3>2 DEF EdgesTo, DependsOn
    <2> QED
      BY <2>1, <2>2, <2>3 DEF Blocked, NothingBlockedDone, Done
  <1> QED
    BY <1>1, <1>2, <1>3, <1>4, <1>5, <1>6, <1>7

LEMMA BatchStep == ASSUME Inv, Batch PROVE Inv'
  <1> USE DEF Inv
  <1>n. PICK n \in Nat : n = Len(batches)
    BY LenProperties DEF TypeOK
  <1>p. /\ Ids' = Ids /\ Order' = Order
        /\ HasDuplicate' = HasDuplicate /\ HasMissing' = HasMissing
        /\ \A t : DependsOn(t)' = DependsOn(t)
        /\ \A t, S : EdgesTo(t, S)' = EdgesTo(t, S)
        /\ \A S : Blocked(S)' = Blocked(S)
        /\ phase = "loop" /\ phase' \in {"loop", "ok"}
    BY DEF Batch, Ids, Order, HasDuplicate, HasMissing, DependsOn, EdgesTo, Deps, Blocked
  <1>b. /\ n \in Nat /\ DOMAIN batches = 1..n
        /\ batches' \in Seq(SUBSET Ids)
        /\ Len(batches') = n + 1 /\ DOMAIN batches' = 1..(n + 1)
        /\ batches'[n + 1] = Ready
        /\ \A m \in 1..n : batches'[m] = batches[m]
    <2>1. batches \in Seq(SUBSET Ids) /\ Ready \in SUBSET Ids
      BY DEF TypeOK, Ready
    <2>2. batches' = Append(batches, Ready)
      BY DEF Batch
    <2> QED
      BY <1>n, <2>1, <2>2, LenProperties, AppendProperties
  <1>r. Ready \subseteq Ids /\ Ready \cap Done = {} /\ Ready # {}
    BY DEF Ready, Done, Batch
  \* Every dependency of a ready task is scheduled.
  <1>1. \A t \in Ready : DependsOn(t) \subseteq Done
    <2> SUFFICES ASSUME NEW t \in Ready PROVE DependsOn(t) \subseteq Done
      OBVIOUS
    <2>1. EdgesTo(t, Ids \ Done) = {}
      BY <1>p, <1>r, EdgesFinite, FS_EmptySet DEF DegreesRight, Ready
    <2>2. DependsOn(t) \subseteq Ids
      BY <1>p, <1>r DEF Accepted, HasMissing, DependsOn
    <2> QED
      BY <2>1, <2>2 DEF EdgesTo, DependsOn
  <1>2. \A t \in Ids \ (Done \cup Ready) :
           /\ inDegree[t] = Cardinality(EdgesTo(t, Ready))
                              + Cardinality(EdgesTo(t, Ids \ (Done \cup Ready)))
           /\ inDegree'[t] = Cardinality(EdgesTo(t, Ids \ (Done \cup Ready)))
           /\ inDegree'[t] \in Nat
    <2> SUFFICES ASSUME NEW t \in Ids \ (Done \cup Ready)
                 PROVE  /\ inDegree[t] = Cardinality(EdgesTo(t, Ready))
                              + Cardinality(EdgesTo(t, Ids \ (Done \cup Ready)))
                        /\ inDegree'[t] = Cardinality(EdgesTo(t, Ids \ (Done \cup Ready)))
                        /\ inDegree'[t] \in Nat
      OBVIOUS
    <2>1. Ids \ Done = Ready \cup (Ids \ (Done \cup Ready))
      BY <1>r
    <2>2. inDegree[t] = Cardinality(EdgesTo(t, Ready))
                          + Cardinality(EdgesTo(t, Ids \ (Done \cup Ready)))
      BY <1>p, <2>1, EdgesAdd DEF DegreesRight
    <2>3. /\ Cardinality(EdgesTo(t, Ready)) \in Nat
          /\ Cardinality(EdgesTo(t, Ids \ (Done \cup Ready))) \in Nat
      BY EdgesFinite
    <2>4. inDegree[t] > 0
      BY DEF TypeOK, Done, Ready
    <2> QED
      BY <2>2, <2>3, <2>4 DEF Batch, AfterBatch
  <1>3. \A t \in Done \cup Ready : inDegree'[t] = -1
    <2> SUFFICES ASSUME NEW t \in Done \ Ready PROVE inDegree'[t] = -1
      BY <1>r DEF Batch, AfterBatch, Done
    <2>1. Cardinality(EdgesTo(t, Ready)) \in Nat /\ inDegree[t] = -1 /\ t \in Ids
      BY EdgesFinite DEF Done
    <2> QED
      BY <2>1 DEF Batch, AfterBatch
  <1>4. Done' = Done \cup Ready
    <2>1. \A t \in Ids : inDegree'[t] = -1 <=> t \in Done \cup Ready
      BY <1>2, <1>3
    <2>2. Done' = {t \in Ids : inDegree'[t] = -1}
      BY <1>p DEF Done
    <2>3. Done \subseteq Ids
      BY DEF Done
    <2> QED
      BY <1>r, <2>1, <2>2, <2>3
  <1>5. IsFiniteSet(Done) /\ IsFiniteSet(Ready) /\ IsFiniteSet(Done')
    BY <1>4, <1>r, IdsFinite, FS_Subset DEF Done
  <1>6. /\ scheduled' = Cardinality(Done') /\ scheduled' \in Nat
        /\ scheduled' <= Cardinality(Ids)
    <2>1. Cardinality(Done \cup Ready) = Cardinality(Done) + Cardinality(Ready)
      <3>1. /\ Cardinality(Done \cup Ready) =
                 Cardinality(Done) + Cardinality(Ready) - Cardinality(Done \cap Ready)
            /\ Cardinality(Done) \in Nat /\ Cardinality(Ready) \in Nat
        BY <1>5, FS_Union, FS_CardinalityType
      <3>2. Cardinality(Done \cap Ready) = 0
        BY <1>r, FS_EmptySet
      <3> QED
        BY <3>1, <3>2
    <2>2. Done' \in SUBSET Ids
      BY <1>4, <1>r DEF Done
    <2> QED
      BY <1>4, <1>5, <2>1, <2>2, IdsFinite, FS_Subset, FS_CardinalityType
         DEF Batch, CountRight
  <1>7. Len(Order) \in Nat /\ Cardinality(Ids) = Len(Order)
    BY <1>p, IdsFinite, OrderType, LenProperties DEF Accepted
  <1>8. TypeOK'
    <2>1. inDegree' \in [Ids -> Nat \cup {-1}]
      BY <1>2, <1>3 DEF Batch, AfterBatch
    <2> QED
      BY <1>6, <1>7, <1>b, <1>p, <2>1 DEF Batch, TypeOK, Phases
  <1>9. Accepted' /\ CountRight' /\ LoopCondition'
    BY <1>6, <1>7, <1>p DEF Batch, Accepted, CountRight, LoopCondition
  <1>10. DegreesRight'
    BY <1>2, <1>4, <1>p DEF DegreesRight
  <1>11. DoneInBatch'
    BY <1>4, <1>b, <1>p DEF DoneInBatch
  <1>12. ReadySince'
    <2> SUFFICES ASSUME NEW t \in Ready'
                 PROVE  \E d \in DependsOn(t) : InBatch(d, n + 1)'
      BY <1>b, <1>n, <1>p DEF ReadySince
    <2>1. t \in Ids \ (Done \cup Ready)
      BY <1>3, <1>p DEF Ready
    <2>2. Cardinality(EdgesTo(t, Ready)) # 0
      <3>1. inDegree'[t] = 0 /\ inDegree[t] # 0
        BY <2>1, <1>p DEF Ready
      <3>2. Cardinality(EdgesTo(t, Ready)) \in Nat
        BY <2>1, EdgesFinite
      <3> QED
        BY <1>2, <2>1, <3>1, <3>2
    <2>3. EdgesTo(t, Ready) # {}
      BY <2>2, FS_EmptySet
    <2> QED
      BY <1>b, <2>3 DEF EdgesTo, DependsOn, InBatch
  <1>13. NothingBlockedDone'
    <2> SUFFICES ASSUME NEW S \in SUBSET Ids, Blocked(S) PROVE S \cap (Done \cup Ready) = {}
      BY <1>4, <1>p DEF NothingBlockedDone
    <2>1. S \cap Done = {}
      BY DEF NothingBlockedDone
    <2>2. \A t \in S \cap Ready : FALSE
      BY <1>1, <2>1 DEF Blocked
    <2> QED
      BY <2>1, <2>2
  <1>14. DepsFirst'
    <2> SUFFICES ASSUME NEW m \in 1..(n + 1), NEW t \in batches'[m], NEW d \in DependsOn(t)
                 PROVE  \E k \in 1..(m - 1) : InBatch(d, k)'
      BY <1>b, <1>p DEF DepsFirst
    <2>1. CASE m \in 1..n
      BY <1>b, <2>1 DEF DepsFirst, InBatch
    <2>2. CASE m = n + 1
      <3>1. PICK k \in 1..n : d \in batches[k]
        BY <1>1, <1>b, <2>2 DEF DoneInBatch, Done
      <3> QED
        BY <1>b, <2>2, <3>1 DEF InBatch
    <2> QED
      BY <1>b, <2>1, <2>2
  <1>15. OnceOnly'
    <2>1. \A m \in 1..n : batches[m] \cap Ready = {}
      BY <1>b, <1>r DEF DoneInBatch
    <2> QED
      BY <1>b, <2>1 DEF OnceOnly
  <1>16. Earliest'
    <2> SUFFICES ASSUME NEW m \in 1..(n + 1), NEW t \in batches'[m], m > 1
                 PROVE  \E d \in DependsOn(t) : InBatch(d, m - 1)'
      BY <1>b, <1>p DEF Earliest
    <2>1. CASE m \in 1..n
      <3>1. m - 1 \in 1..n /\ m \in DOMAIN batches /\ t \in batches[m]
        BY <1>b, <2>1
      <3>2. PICK d \in DependsOn(t) : d \in batches[m - 1]
        BY <3>1 DEF Earliest, InBatch
      <3> QED
        BY <1>b, <3>1, <3>2 DEF InBatch
    <2>2. CASE m = n + 1
      <3>1. batches # <<>>
        BY <1>b, <2>2
      <3> QED
        BY <1>b, <1>p, <2>2, <3>1 DEF ReadySince, InBatch
    <2> QED
      BY <1>b, <2>1, <2>2
  <1>17. ResidualIsBlocked'
    BY <1>p DEF ResidualIsBlocked
  <1> QED
    BY <1>8, <1>9, <1>10, <1>11, <1>12, <1>13, <1>14, <1>15, <1>16, <1>17

LEMMA InvStep == Inv /\ [Next]_vars => Inv'
  <1> SUFFICES ASSUME Inv, [Next]_vars PROVE Inv'
    OBVIOUS
  <1>1. CASE Next
    BY <1>1, BuildStep, ErrorStep, BatchStep DEF Next
  <1>2. CASE UNCHANGED vars
    <2>1. /\ Ids' = Ids /\ Order' = Order /\ Done' = Done /\ Ready' = Ready
          /\ HasDuplicate' = HasDuplicate /\ HasMissing' = HasMissing
          /\ \A t : DependsOn(t)' = DependsOn(t)
          /\ \A t, S : EdgesTo(t, S)' = EdgesTo(t, S)
          /\ \A S : Blocked(S)' = Blocked(S)
          /\ \A t, n : InBatch(t, n)' = InBatch(t, n)
      BY <1>2 DEF vars, Ids, Order, Done, Ready, HasDuplicate, HasMissing, DependsOn, EdgesTo,
                  Deps, Blocked, InBatch
    <2>2. TypeOK' /\ LoopCondition' /\ Accepted' /\ CountRight'
      BY <1>2, <2>1 DEF vars, Inv, TypeOK, LoopCondition, Accepted, CountRight
    <2>3. DoneInBatch' /\ DegreesRight' /\ ReadySince' /\ NothingBlockedDone'
      BY <1>2, <2>1 DEF vars, Inv, DoneInBatch, DegreesRight, ReadySince, NothingBlockedDone
    <2>4. DepsFirst' /\ OnceOnly' /\ Earliest' /\ ResidualIsBlocked'
      BY <1>2, <2>1 DEF vars, Inv, DepsFirst, OnceOnly, Earliest, ResidualIsBlocked
    <2> QED
      BY <2>2, <2>3, <2>4 DEF Inv
  <1> QED
    BY <1>1, <1>2

\* Every task comes after all it depends on.
THEOREM DependenciesFirst == Spec => []DepsFirst
  BY InitInv, InvStep, PTL DEF Spec, Inv

\* No task is in two batches, nor twice in one.
THEOREM ScheduledOnce == Spec => []OnceOnly
  BY InitInv, InvStep, PTL DEF Spec, Inv

\* No task is in a later batch than its dependencies demand.
THEOREM NoNeedlessWait == Spec => []Earliest
  BY InitInv, InvStep, PTL DEF Spec, Inv

\* A cycle error names the largest set of tasks that wait for each other.
THEOREM ResidualExact == Spec => []ResidualIsBlocked
  BY InitInv, InvStep, PTL DEF Spec, Inv

\* A result without error has every task in a batch.
THEOREM Complete == Spec => []AllScheduled
  <1>1. Inv => AllScheduled
    <2> SUFFICES ASSUME Inv, phase = "ok" PROVE Done = Ids
      BY DEF Inv, AllScheduled, DoneInBatch, InBatch
    <2>1. Cardinality(Done) = Cardinality(Ids)
      BY IdsFinite DEF Inv, Accepted, CountRight, LoopCondition
    <2>2. Done \in SUBSET Ids /\ TypeOK
      BY DEF Done, Inv
    <2> QED
      BY <2>1, <2>2, IdsFinite, FS_Subset
  <1> QED
    BY <1>1, InitInv, InvStep, PTL DEF Spec
-----------------------------------------------------------------------------
(* One spawn, and the hook scripts beside it *)

HookCall == [event : {"none", "SubagentStart", "SubagentStop", "session"},
             script : Nat, child : {"none", "running", "termed", "done"}]

SpawnTypeOK ==
    /\ chain \in Seq(Provider) /\ Len(chain) > 0
    /\ cursor \in Nat
    /\ late \in BOOLEAN
    /\ pc \in {"select", "credential", "starting", "creating", "prompting", "stopping", "ended"}
    /\ outcome \in {"none"} \cup Result \cup Failure
    /\ session \in BOOLEAN
    /\ awaited \in HookCall
    /\ loose \in Seq(HookCall)
    /\ begun \in Nat /\ finished \in Nat /\ hops \in Nat
    /\ tried \in Seq(Provider)
    /\ ending \in {"pending", "time_budget", "request_count"} \cup Result \cup {"other"}

\* Where an attempt is says which of its hook scripts have been awaited: there
\* is a session only while its prompt runs, and scripts only before and after.
Brackets ==
    /\ session <=> pc = "prompting"
    /\ begun = finished + (IF pc \in {"creating", "prompting", "stopping"} THEN 1 ELSE 0)
    /\ pc \notin {"starting", "stopping"} => awaited = NoCall

\* The cursor counts the hops; an attempt under way is one provider further, and
\* inside the budget of attempts.
Progress ==
    /\ ending = "pending" <=> pc # "ended"
    /\ pc # "ended" => cursor < Limit /\ hops = cursor
    /\ pc = "select" => Len(tried) = cursor
    /\ pc \notin {"select", "ended"} => Len(tried) = cursor + 1
    /\ pc = "stopping" => outcome # "none"

SpawnInv == SpawnTypeOK /\ Brackets /\ Progress

LEMMA LimitIsNat ==
  ASSUME SpawnTypeOK
  PROVE  Limit \in Nat /\ 0 < Limit /\ Limit <= Len(chain)
  BY ChainAssumption DEF SpawnTypeOK, Limit

\* A call of the hook dispatcher stays one, whatever its script does.
LEMMA CallStep ==
  ASSUME NEW call \in HookCall
  PROVE  AfterExit(call) \cup AfterTimer(call) \subseteq HookCall
  <1>1. Ended(call) \in HookCall
    <2>1. /\ call.event \in {"none", "SubagentStart", "SubagentStop", "session"}
          /\ call.script \in Nat /\ call.script + 1 \in Nat
      BY DEF HookCall
    <2>2. [call EXCEPT !.child = "done"] \in HookCall
      BY DEF HookCall
    <2>3. [call EXCEPT !.script = @ + 1, !.child = "running"] \in HookCall
      BY <2>1 DEF HookCall
    <2> QED
      BY <2>2, <2>3 DEF Ended
  <1>2. TimedOut(call) \in HookCall
    BY DEF TimedOut, HookCall
  <1> QED
    BY <1>1, <1>2 DEF AfterExit, AfterTimer, Killed

LEMMA CallType ==
  /\ NoCall \in HookCall
  /\ \A event \in {"SubagentStart", "SubagentStop", "session"} : Call(event) \in HookCall
  /\ \A event \in {"SubagentStart", "SubagentStop"} : Dispatch(event) => awaited' \in HookCall
  BY DEF NoCall, Call, Dispatch, HookCall

LEMMA NoCallRests == AfterExit(NoCall) = {} /\ AfterTimer(NoCall) = {}
  BY DEF NoCall, AfterExit, AfterTimer

LEMMA SpawnInitInv == SpawnInit => SpawnInv
  <1> SUFFICES ASSUME SpawnInit
               PROVE  SpawnInv
    OBVIOUS
  <1>1. chain \in Seq(Provider) /\ Len(chain) > 0
    <2>1. PICK p \in Provider : chain = <<p>> \o Fallbacks
      BY DEF SpawnInit
    <2>2. <<p>> \in Seq(Provider) /\ Len(<<p>>) = 1
      OBVIOUS
    <2> QED
      BY <2>1, <2>2, ChainAssumption
  <1>2. /\ cursor = 0 /\ late = FALSE /\ pc = "select" /\ outcome = "none" /\ session = FALSE
        /\ awaited \in HookCall /\ loose = <<>> /\ begun = 0 /\ finished = 0 /\ tried = <<>>
        /\ hops = 0 /\ ending = "pending"
    BY CallType DEF SpawnInit
  <1>3. <<>> \in Seq(HookCall) /\ <<>> \in Seq(Provider)
    OBVIOUS
  <1>4. SpawnTypeOK
    BY <1>1, <1>2, <1>3 DEF SpawnTypeOK
  <1>5. Brackets /\ Progress
    BY <1>4, LimitIsNat DEF SpawnInit, Brackets, Progress
  <1> QED
    BY <1>4, <1>5 DEF SpawnInv

\* What a hop, or the end of the chain, does to where the attempt is.
LEMMA CaughtStep ==
  ASSUME SpawnInv, NEW reason, Caught(reason), pc \in {"credential", "stopping"}
  PROVE  /\ pc' \in {"select", "ended"} /\ cursor' \in Nat /\ hops' \in Nat
         /\ ending' \in {"pending", "time_budget", "request_count", "other"} \/ ending' = ending
         /\ ending' = "pending" <=> pc' # "ended"
         /\ pc' = "select" => cursor' = cursor + 1 /\ hops' = cursor' /\ cursor' < Limit
  BY LimitIsNat DEF Caught, Hop, Ends, SpawnInv, SpawnTypeOK, Progress

LEMMA SpawnTypeStep == SpawnInv /\ [SpawnNext]_spawnVars => SpawnTypeOK'
  <1> SUFFICES ASSUME SpawnInv, [SpawnNext]_spawnVars
               PROVE  SpawnTypeOK'
    OBVIOUS
  <1> USE DEF SpawnTypeOK
  <1>0. SpawnTypeOK
    BY DEF SpawnInv
  <1>1. CASE UNCHANGED spawnVars \/ TimePasses
    BY <1>0, <1>1 DEF spawnVars, TimePasses, control, hooks
  <1>2. CASE AwaitedExits \/ AwaitedTimer
    BY <1>0, <1>2, CallStep DEF AwaitedExits, AwaitedTimer, control
  <1>3. ASSUME NEW i \in DOMAIN loose, LooseStep(i)
        PROVE  SpawnTypeOK'
    <2>1. i \in 1 .. Len(loose) /\ loose \in Seq(HookCall)
      BY <1>0, <1>3
    <2>2. loose[i] \in HookCall
      BY <2>1, ElementOfSeq
    <2>3. PICK call \in HookCall : loose' = [loose EXCEPT ![i] = call]
      BY <1>3, <2>2, CallStep DEF LooseStep
    <2>4. loose' \in Seq(HookCall)
      BY <2>1, <2>3, ExceptSeq
    <2> QED
      BY <1>0, <1>3, <2>4 DEF LooseStep, control
  <1>4. CASE Select
    <2>1. chain[cursor + 1] \in Provider
      BY <1>0, <1>4, LimitIsNat DEF SpawnInv, Progress, Select
    <2>2. Append(tried, chain[cursor + 1]) \in Seq(Provider)
      BY <1>0, <2>1, AppendProperties
    <2>3. tried' \in Seq(Provider)
      BY <1>0, <1>4, <2>2 DEF Select
    <2> QED
      BY <1>0, <1>4, <2>3 DEF Select, Ends, hooks
  <1>5. CASE Credential
    BY <1>0, <1>5, CallType DEF Credential, control
  <1>6. CASE Started \/ Create
    <2>1. begun' \in Nat /\ awaited' \in HookCall
      BY <1>0, <1>6, CallType DEF Started, Create, hooks
    <2> QED
      BY <1>0, <1>6, <2>1 DEF Started, Create, control, hooks
  <1>7. CASE SessionEvent
    BY <1>0, <1>7, CallType DEF SessionEvent, control
  <1>8. CASE \E r \in Failure : CredentialFails(r)
    BY <1>0, <1>8, CaughtStep DEF CredentialFails, hooks
  <1>9. ASSUME NEW what \in Result \cup Failure, Dispatched(what)
        PROVE  SpawnTypeOK'
    BY <1>0, <1>9, CallType DEF Dispatched
  <1>10. CASE Stopped
    <2>1. CASE outcome \in Result
      BY <1>0, <1>10, <2>1, CallType DEF Stopped, Ends
    <2>2. CASE outcome \notin Result
      BY <1>0, <1>10, <2>2, CallType, CaughtStep DEF Stopped
    <2> QED
      BY <2>1, <2>2
  <1>11. CASE \E r \in Failure : CreateFails(r)
    BY <1>9, <1>11 DEF CreateFails
  <1>12. CASE \E what \in Result \cup {"other"} : Prompted(what)
    BY <1>9, <1>12 DEF Prompted, Failure
  <1> QED
    BY <1>1, <1>2, <1>3, <1>4, <1>5, <1>6, <1>7, <1>8, <1>10, <1>11, <1>12
    DEF SpawnNext, Attempt

LEMMA BracketsStep == SpawnInv /\ [SpawnNext]_spawnVars => Brackets' /\ Progress'
  <1> SUFFICES ASSUME SpawnInv, [SpawnNext]_spawnVars
               PROVE  Brackets' /\ Progress'
    OBVIOUS
  <1> USE DEF SpawnInv
  <1>0. /\ Limit \in Nat /\ 0 < Limit
        /\ chain' = chain => Limit' = Limit
    BY LimitIsNat DEF Limit
  <1>1. CASE UNCHANGED spawnVars \/ TimePasses
    BY <1>0, <1>1 DEF spawnVars, TimePasses, control, hooks, Brackets, Progress
  <1>2. CASE AwaitedExits \/ AwaitedTimer
    <2>1. awaited # NoCall
      BY <1>2, NoCallRests DEF AwaitedExits, AwaitedTimer
    <2> QED
      BY <1>0, <1>2, <2>1 DEF AwaitedExits, AwaitedTimer, control, Brackets, Progress
  <1>3. CASE SessionEvent \/ \E i \in DOMAIN loose : LooseStep(i)
    BY <1>0, <1>3 DEF SessionEvent, LooseStep, control, Brackets, Progress
  <1>4. CASE Select
    BY <1>0, <1>4 DEF Select, Ends, hooks, Brackets, Progress, SpawnTypeOK
  <1>5. CASE Credential \/ Started \/ Create
    BY <1>0, <1>5 DEF Credential, Started, Create, control, hooks, Brackets, Progress, SpawnTypeOK
  <1>6. CASE \E r \in Failure : CredentialFails(r)
    BY <1>0, <1>6, CaughtStep DEF CredentialFails, hooks, Brackets, Progress, SpawnTypeOK
  <1>7. ASSUME NEW what \in Result \cup Failure, Dispatched(what),
               pc \in {"creating", "prompting"}
        PROVE  Brackets' /\ Progress'
    BY <1>0, <1>7 DEF Dispatched, Brackets, Progress, Result, Failure, Retryable
  <1>8. CASE Stopped
    <2>1. CASE outcome \in Result
      BY <1>0, <1>8, <2>1 DEF Stopped, Ends, Brackets, Progress, SpawnTypeOK, Result
    <2>2. CASE outcome \notin Result
      BY <1>0, <1>8, <2>2, CaughtStep DEF Stopped, Brackets, Progress, SpawnTypeOK
    <2> QED
      BY <2>1, <2>2
  <1>9. CASE \E r \in Failure : CreateFails(r)
    BY <1>7, <1>9 DEF CreateFails
  <1>10. CASE \E what \in Result \cup {"other"} : Prompted(what)
    BY <1>7, <1>10 DEF Prompted, Failure
  <1> QED
    BY <1>1, <1>2, <1>3, <1>4, <1>5, <1>6, <1>8, <1>9, <1>10 DEF SpawnNext, Attempt

LEMMA SpawnInvariant == SpawnSpec => []SpawnInv
  <1>1. SpawnInv /\ [SpawnNext]_spawnVars => SpawnInv'
    BY SpawnTypeStep, BracketsStep DEF SpawnInv
  <1> QED
    BY <1>1, SpawnInitInv, PTL DEF SpawnSpec

\* The variables of a spawn keep their types: what is tried is a provider of the
\* chain, and what is awaited a call of the hook dispatcher.
THEOREM SpawnTypes == SpawnSpec => []SpawnTypeOK
  <1>1. SpawnInv => SpawnTypeOK
    BY DEF SpawnInv
  <1> QED
    BY <1>1, SpawnInvariant, PTL

\* The scripts for SubagentStart and SubagentStop bracket each attempt, for every
\* chain, budget and number of scripts (spawnOrchestratorSession, spawnAgent).
THEOREM AttemptsBracketed == SpawnSpec => []Bracketed
  <1>1. SpawnInv => Bracketed
    BY DEF SpawnInv, SpawnTypeOK, Brackets, Bracketed
  <1> QED
    BY <1>1, SpawnInvariant, PTL

-----------------------------------------------------------------------------
(* The chain implements the abstract failover *)

LEMMA FailoverInit == SpawnInit => Budgeted!Init
  BY DEF SpawnInit, Budgeted!Init

LEMMA SameLimit == Budgeted!Limit = Limit
  BY DEF Budgeted!Limit, Limit

\* A failure that is caught is a hop, or the end for one of three reasons.
LEMMA CaughtRefines ==
  ASSUME SpawnInv, NEW reason, Caught(reason), pc \in {"credential", "stopping"},
         UNCHANGED <<chain, late, tried>>
  PROVE  Budgeted!Next
  <1>1. /\ ending = "pending" /\ tried # <<>> /\ hops = cursor /\ cursor \in Nat
        /\ Len(tried) = cursor + 1 /\ cursor < Limit /\ Limit \in Nat
    BY LimitIsNat DEF SpawnInv, SpawnTypeOK, Progress
  <1>2. CASE reason = "other"
    <2>1. Budgeted!Answered
      BY <1>1, <1>2 DEF Caught, Ends, Budgeted!Answered, Budgeted!Ends
    <2> QED
      BY <2>1 DEF Budgeted!Next
  <1>3. CASE reason # "other" /\ late
    <2>1. Budgeted!OutOfTime
      BY <1>1, <1>3 DEF Caught, Hop, Ends, Budgeted!OutOfTime, Budgeted!Ends
    <2> QED
      BY <2>1 DEF Budgeted!Next
  <1>4. CASE reason # "other" /\ ~late /\ cursor + 1 < Limit
    <2>1. Budgeted!Hop
      BY <1>1, <1>4, SameLimit DEF Caught, Hop, Budgeted!Hop, SpawnInv, SpawnTypeOK
    <2> QED
      BY <2>1 DEF Budgeted!Next
  <1>5. CASE reason # "other" /\ ~late /\ ~(cursor + 1 < Limit)
    <2>1. Budgeted!OutOfProviders
      BY <1>1, <1>5, SameLimit
      DEF Caught, Hop, Ends, Budgeted!OutOfProviders, Budgeted!Ends
    <2> QED
      BY <2>1 DEF Budgeted!Next
  <1> QED
    BY <1>2, <1>3, <1>4, <1>5

LEMMA FailoverStep == SpawnInv /\ [SpawnNext]_spawnVars => [Budgeted!Next]_(Budgeted!vars)
  <1> SUFFICES ASSUME SpawnInv, [SpawnNext]_spawnVars
               PROVE  Budgeted!Next \/ UNCHANGED <<chain, tried, hops, late, ending>>
    BY DEF Budgeted!vars
  <1> USE DEF SpawnInv
  <1>1. CASE \/ UNCHANGED spawnVars \/ AwaitedExits \/ AwaitedTimer \/ SessionEvent
             \/ \E i \in DOMAIN loose : LooseStep(i)
    BY <1>1 DEF spawnVars, AwaitedExits, AwaitedTimer, SessionEvent, LooseStep, control
  <1>2. CASE TimePasses
    <2>1. Budgeted!TimePasses
      BY <1>2 DEF TimePasses, control, Budgeted!TimePasses
    <2> QED
      BY <2>1 DEF Budgeted!Next
  <1>3. CASE Select
    <2>1. /\ ending = "pending" /\ hops = cursor /\ Len(tried) = cursor
          /\ cursor < Limit
      BY <1>3 DEF Select, Progress
    <2>2. CASE late
      <3>1. Budgeted!OutOfTime
        BY <1>3, <2>1, <2>2 DEF Select, Ends, Budgeted!OutOfTime, Budgeted!Ends
      <3> QED
        BY <3>1 DEF Budgeted!Next
    <2>3. CASE ~late
      <3>1. Budgeted!Try
        BY <1>3, <2>1, <2>3, SameLimit DEF Select, Budgeted!Try
      <3> QED
        BY <3>1 DEF Budgeted!Next
    <2> QED
      BY <2>2, <2>3
  <1>4. CASE Credential \/ Started \/ Create
    BY <1>4 DEF Credential, Started, Create, control
  <1>5. CASE \E r \in Failure : CreateFails(r)
    BY <1>5 DEF CreateFails, Dispatched
  <1>6. CASE \E what \in Result \cup {"other"} : Prompted(what)
    BY <1>6 DEF Prompted, Dispatched
  <1>7. CASE \E r \in Failure : CredentialFails(r)
    BY <1>7, CaughtRefines DEF CredentialFails
  <1>8. CASE Stopped
    <2>1. CASE outcome \in Result
      <3>1. /\ ending = "pending" /\ tried # <<>> /\ hops < Len(tried)
        BY <1>8 DEF Stopped, Progress, SpawnTypeOK
      <3>2. Budgeted!Answered
        BY <1>8, <2>1, <3>1 DEF Stopped, Ends, Budgeted!Answered, Budgeted!Ends
      <3> QED
        BY <3>2 DEF Budgeted!Next
    <2>2. CASE outcome \notin Result
      BY <1>8, <2>2, CaughtRefines DEF Stopped
    <2> QED
      BY <2>1, <2>2
  <1> QED
    BY <1>1, <1>2, <1>3, <1>4, <1>5, <1>6, <1>7, <1>8 DEF SpawnNext, Attempt

\* The providers are tried in the order of the chain, a hop is announced before
\* it is taken, and the ending names the budget that was used up, for every
\* chain and budget (createFallbackChain).
THEOREM FailoverImplemented == SpawnSpec => ImplementsFailover
  <1>1. SpawnSpec => [][Budgeted!Next]_(Budgeted!vars)
    BY FailoverStep, SpawnInvariant, PTL DEF SpawnSpec
  <1> QED
    BY <1>1, FailoverInit DEF ImplementsFailover, Budgeted!Spec, SpawnSpec
=============================================================================
