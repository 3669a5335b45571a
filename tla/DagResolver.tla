----------------------------- MODULE DagResolver -----------------------------
(***************************************************************************)
(* resolveDag: a plan's tasks and their depends_on arrays become batches    *)
(* that may run in parallel, by Kahn's algorithm one batch at a time.  A    *)
(* step is one pass of the while loop; a batch is the set of its tasks.     *)
(***************************************************************************)
EXTENDS Integers, Sequences, FiniteSets

CONSTANTS
    Task,   \* task ids
    Plans   \* the inputs: task ids in order, and depends_on of each

ASSUME PlansAssumption ==
    Plans \subseteq [order : Seq(Task), deps : [Task -> Seq(Task)]]

VARIABLES
    plan,       \* the input
    phase,      \* "start", "loop", "ok", or the kind of DagError returned
    inDegree,   \* inDegree[t]: dependencies of t still to schedule; -1: scheduled
    batches,    \* the batches so far
    scheduled,  \* how many tasks they hold
    residual    \* CycleDetectedError.residualNodes

vars == <<plan, phase, inDegree, batches, scheduled, residual>>

Order == plan.order
Deps(t) == plan.deps[t]
Ids == {Order[n] : n \in DOMAIN Order}
HasDuplicate == \E m, n \in DOMAIN Order : m # n /\ Order[m] = Order[n]
HasMissing == \E t \in Ids : \E k \in DOMAIN Deps(t) : Deps(t)[k] \notin Ids

\* The positions of t's depends_on array that hold a member of S.
EdgesTo(t, S) == {k \in DOMAIN Deps(t) : Deps(t)[k] \in S}
-----------------------------------------------------------------------------
Init ==
    /\ plan \in Plans
    /\ phase = "start"
    /\ inDegree = [t \in Ids |-> 0]
    /\ batches = <<>>
    /\ scheduled = 0
    /\ residual = {}

Reject ==
    /\ phase = "start"
    /\ phase' = IF HasDuplicate THEN "duplicate" ELSE "missing-dep"
    /\ HasDuplicate \/ HasMissing
    /\ UNCHANGED <<plan, inDegree, batches, scheduled, residual>>

\* Seeded fault: in-degrees count distinct dependencies, dependents do not.
BuildDistinct ==
    /\ phase = "start"
    /\ ~HasDuplicate /\ ~HasMissing
    /\ inDegree' = [t \in Ids |-> Cardinality({Deps(t)[k] : k \in DOMAIN Deps(t)})]
    /\ phase' = IF Ids = {} THEN "ok" ELSE "loop"
    /\ UNCHANGED <<plan, batches, scheduled, residual>>

Build ==
    /\ phase = "start"
    /\ ~HasDuplicate /\ ~HasMissing
    /\ inDegree' = [t \in Ids |-> Len(Deps(t))]
    /\ phase' = IF Ids = {} THEN "ok" ELSE "loop"
    /\ UNCHANGED <<plan, batches, scheduled, residual>>

Ready == {t \in Ids : inDegree[t] = 0}

\* Each task of the batch is marked -1 and decrements its dependents, one for
\* each time it occurs in their depends_on, never below 0.
AfterBatch(S) ==
    [t \in Ids |->
        IF t \in S THEN -1
        ELSE IF inDegree[t] > Cardinality(EdgesTo(t, S))
             THEN inDegree[t] - Cardinality(EdgesTo(t, S))
             ELSE IF inDegree[t] > 0 THEN 0 ELSE inDegree[t]]

\* Seeded fault: only the first ready task makes the batch.
BatchOfOne ==
    /\ phase = "loop"
    /\ Ready # {}
    /\ LET S == {CHOOSE t \in Ready : TRUE}
       IN /\ batches' = Append(batches, S)
          /\ inDegree' = AfterBatch(S)
          /\ scheduled' = scheduled + Cardinality(S)
    /\ phase' = IF scheduled' < Len(Order) THEN "loop" ELSE "ok"
    /\ UNCHANGED <<plan, residual>>

\* Seeded fault: off by one in the condition of the while loop.
BatchStopsEarly ==
    /\ phase = "loop"
    /\ Ready # {}
    /\ batches' = Append(batches, Ready)
    /\ inDegree' = AfterBatch(Ready)
    /\ scheduled' = scheduled + Cardinality(Ready)
    /\ phase' = IF scheduled' < Len(Order) - 1 THEN "loop" ELSE "ok"
    /\ UNCHANGED <<plan, residual>>

Batch ==
    /\ phase = "loop"
    /\ Ready # {}
    /\ batches' = Append(batches, Ready)
    /\ inDegree' = AfterBatch(Ready)
    /\ scheduled' = scheduled + Cardinality(Ready)
    /\ phase' = IF scheduled' < Len(Order) THEN "loop" ELSE "ok"
    /\ UNCHANGED <<plan, residual>>

\* Seeded fault: tasks that are scheduled already are reported as well.
CycleReportsAll ==
    /\ phase = "loop"
    /\ Ready = {}
    /\ phase' = "cycle"
    /\ residual' = Ids
    /\ UNCHANGED <<plan, inDegree, batches, scheduled>>

Cycle ==
    /\ phase = "loop"
    /\ Ready = {}
    /\ phase' = "cycle"
    /\ residual' = {t \in Ids : inDegree[t] > 0}
    /\ UNCHANGED <<plan, inDegree, batches, scheduled>>

Next == Reject \/ Build \/ Batch \/ Cycle

Spec == Init /\ [][Next]_vars
FairSpec == Spec /\ WF_vars(Next)
-----------------------------------------------------------------------------
(* Correctness *)

Phases == {"start", "loop", "ok", "cycle", "duplicate", "missing-dep"}
TypeOK ==
    /\ plan \in [order : Seq(Task), deps : [Task -> Seq(Task)]]
    /\ phase \in Phases
    /\ inDegree \in [Ids -> Nat \cup {-1}]
    /\ batches \in Seq(SUBSET Ids)
    /\ scheduled \in 0..Len(Order)
    /\ residual \subseteq Ids

DependsOn(t) == {Deps(t)[k] : k \in DOMAIN Deps(t)}
InBatch(t, n) == n \in DOMAIN batches /\ t \in batches[n]

\* A task comes in a later batch than everything it depends on, whatever
\* depends_on repeats.
DepsFirst ==
    \A n \in DOMAIN batches : \A t \in batches[n] : \A d \in DependsOn(t) :
        \E m \in 1..(n - 1) : InBatch(d, m)

\* No task is scheduled twice.
OnceOnly ==
    \A m, n \in DOMAIN batches : batches[m] \cap batches[n] # {} => m = n

\* A result without error schedules every task.
AllScheduled ==
    phase = "ok" => \A t \in Ids : \E n \in DOMAIN batches : InBatch(t, n)

\* No task waits for a batch it need not wait for: one of its dependencies is
\* in the batch just before.
Earliest ==
    \A n \in DOMAIN batches : \A t \in batches[n] :
        n > 1 => \E d \in DependsOn(t) : InBatch(d, n - 1)

\* Exactly the tasks that no order can place are reported: a task is in the
\* residual if and only if a chain of dependencies leads from it to a cycle.
Blocked(S) == \A t \in S : DependsOn(t) \cap S # {}
ResidualIsBlocked ==
    phase = "cycle" =>
        /\ residual # {}
        /\ Blocked(residual)
        /\ \A S \in SUBSET Ids : Blocked(S) => S \subseteq residual

\* The loop ends, also on a cyclic plan.
Returns == <>(phase \notin {"start", "loop"})

(* A claim of the documentation that the code does not keep. *)

\* dag-resolver.ts:16: the residual nodes are "the nodes participating in the
\* cycle": each depends, through others, on itself.
Closed(S) == \A t \in S : DependsOn(t) \subseteq S
ResidualOnCycle ==
    phase = "cycle" =>
        \A t \in residual : \A S \in SUBSET Ids :
            DependsOn(t) \subseteq S /\ Closed(S) => t \in S
=============================================================================
