----------------------- MODULE WorktreeLifecycleProofs -----------------------
(***************************************************************************)
(* Proofs about WorktreeLifecycle for any sets of processes and tasks.     *)
(***************************************************************************)
EXTENDS WorktreeLifecycle, TLAPS

LEMMA ChooseTask == NoSweep.task \in Task /\ NoSweep.step = "idle"
  BY ConstantsAssumption DEF NoSweep

\* What SetState does, for a caller that keeps to the machine's states.
LEMMA SetStateType ==
    ASSUME NEW p \in Proc, NEW to \in WState, TypeOK, SetState(p, to)
    PROVE  /\ mstate' = [mstate EXCEPT ![p] = to]
           /\ from' = [from EXCEPT ![p] = mstate[p]]
           /\ mstate' \in [Proc -> MState]
           /\ from' \in [Proc -> MState]
  BY DEF SetState, TypeOK, MState

LEMMA GotoType ==
    ASSUME NEW p \in Proc, NEW label \in PcStates, TypeOK, Goto(p, label)
    PROVE  pc' \in [Proc -> PcStates] /\ pc' = [pc EXCEPT ![p] = label]
  BY DEF Goto, TypeOK

LEMMA AfterJournalType ==
    ASSUME NEW a \in MState, NEW b \in MState
    PROVE  AfterJournal(a, b) \in {"work", "shared", "done", "remove", "advance"}
  BY DEF AfterJournal

\* Where a process is tells what its in-memory state can be: a machine that
\* has not created its worktree is at none, one that journals is not.
PcState ==
    \A p \in Proc :
        /\ pc[p] \in {"idle", "gitAdd", "lockRead", "lockWrite"} => mstate[p] = "none"
        /\ pc[p] \in {"updRead", "updWrite", "journal"} => mstate[p] # "none"
        /\ pc[p] = "unlink" => mstate[p] = "removed"
        /\ pc[p] = "updWrite" => env[p] \in Envelope

LEMMA CookPcState ==
    ASSUME TypeOK, PcState, NEW p \in Proc, CookStep(p) \/ Crash(p)
    PROVE  PcState'
  <1>1. CASE WriteJournal(p)
    BY <1>1, AfterJournalType DEF TypeOK, PcState, WriteJournal, Goto
  <1>2. CASE Start(p) \/ GitAddOk(p) \/ GitAddFail(p) \/ LockProbeOk(p)
             \/ LockProbeThrows(p) \/ LockCreate(p)
    BY <1>2 DEF TypeOK, PcState, Goto, SetState, Start, GitAddOk, GitAddFail,
       LockProbeOk, LockProbeThrows, LockCreate
  <1>3. CASE SpawnSucceeds(p) \/ SpawnFails(p) \/ Advance(p) \/ UpdateRead(p)
             \/ UpdateThrows(p) \/ UpdateWrite(p)
    BY <1>3 DEF TypeOK, PcState, Goto, SetState, SpawnSucceeds, SpawnFails,
       Advance, UpdateRead, UpdateThrows, UpdateWrite, LinearState
  <1>4. CASE GitRemoveOk(p) \/ GitRemoveFail(p) \/ Unlink(p) \/ Exit(p) \/ Crash(p)
    BY <1>4 DEF TypeOK, PcState, Goto, SetState, GitRemoveOk, GitRemoveFail,
       Unlink, Exit, Crash
  <1> QED
    BY <1>1, <1>2, <1>3, <1>4, CookStep(p) \/ Crash(p) DEF CookStep

\* Steps of one cook keep the types.
LEMMA CookTypes ==
    ASSUME TypeOK, PcState, NEW p \in Proc, CookStep(p)
    PROVE  TypeOK'
  <1> USE DEF TypeOK
  <1>1. CASE Start(p)
    BY <1>1, GotoType DEF Start, diskVars, PcStates, OwnPc
  <1>2. CASE GitAddOk(p)
    BY <1>2, GotoType DEF GitAddOk, PcStates, OwnPc
  <1>3. CASE GitAddFail(p)
    BY <1>3, GotoType, SetStateType DEF GitAddFail, diskVars, PcStates, OwnPc, WState
  <1>4. CASE LockProbeOk(p)
    BY <1>4, GotoType DEF LockProbeOk, diskVars, PcStates, OwnPc
  <1>5. CASE LockProbeThrows(p)
    BY <1>5, GotoType DEF LockProbeThrows, diskVars, PcStates, OwnPc
  <1>6. CASE LockCreate(p)
    <2>1. [pid |-> p, state |-> "created"] \in Envelope
      BY DEF Envelope, WState, LinearState
    <2>2. lock' \in [Task -> Envelope \cup {NoLock, TornLock}]
      BY <1>6, <2>1 DEF LockCreate
    <2>3. QED
      BY <1>6, <2>2, GotoType, SetStateType
         DEF LockCreate, PcStates, OwnPc, WState, LinearState
  <1>7. CASE WriteJournal(p)
    <2>1. [pid |-> p, from |-> from[p], to |-> mstate[p]] \in Entry
      BY <1>7 DEF WriteJournal, PcState, Entry, MState
    <2>2. pc' \in [Proc -> PcStates]
      BY <1>7, AfterJournalType DEF WriteJournal, Goto, PcStates, OwnPc
    <2>3. journal' \in [Task -> Seq(Entry)]
      BY <1>7, <2>1 DEF WriteJournal
    <2>4. QED
      BY <1>7, <2>2, <2>3 DEF WriteJournal
  <1>8. CASE SpawnSucceeds(p)
    BY <1>8, GotoType DEF SpawnSucceeds, diskVars, PcStates, OwnPc
  <1>9. CASE SpawnFails(p)
    BY <1>9, GotoType, SetStateType DEF SpawnFails, diskVars, PcStates, OwnPc, WState
  <1>10. CASE Advance(p)
    BY <1>10, GotoType, SetStateType DEF Advance, diskVars, PcStates, OwnPc, WState
  <1>11. CASE UpdateRead(p)
    BY <1>11, GotoType DEF UpdateRead, diskVars, PcStates, OwnPc
  <1>12. CASE UpdateThrows(p)
    BY <1>12, GotoType DEF UpdateThrows, diskVars, PcStates, OwnPc
  <1>13. CASE UpdateWrite(p)
    <2>1. env[p] \in Envelope /\ mstate[p] \in WState
      BY <1>13 DEF UpdateWrite, PcState, MState
    <2>2. lock' \in [Task -> Envelope \cup {NoLock, TornLock}]
      BY <1>13, <2>1 DEF UpdateWrite, Envelope, NoLock, TornLock
    <2>3. QED
      BY <1>13, <2>2, GotoType DEF UpdateWrite, PcStates, OwnPc
  <1>14. CASE GitRemoveOk(p)
    BY <1>14, GotoType, SetStateType DEF GitRemoveOk, PcStates, OwnPc, WState, LinearState
  <1>15. CASE GitRemoveFail(p)
    BY <1>15, GotoType, SetStateType DEF GitRemoveFail, diskVars, PcStates, OwnPc, WState
  <1>16. CASE Unlink(p)
    BY <1>16, GotoType DEF Unlink, PcStates, OwnPc
  <1>17. CASE Exit(p)
    BY <1>17, GotoType DEF Exit, diskVars, PcStates, OwnPc
  <1> QED
    BY <1>1, <1>2, <1>3, <1>4, <1>5, <1>6, <1>7, <1>8, <1>9, <1>10, <1>11,
       <1>12, <1>13, <1>14, <1>15, <1>16, <1>17, CookStep(p) DEF CookStep

LEMMA CrashTypes ==
    ASSUME TypeOK, NEW p \in Proc, Crash(p)
    PROVE  TypeOK'
  BY GotoType DEF TypeOK, Crash, PcStates

LEMMA CleanupTypes ==
    ASSUME TypeOK, PcState, CleanupStep
    PROVE  TypeOK' /\ PcState'
  <1>1. ASSUME NEW t \in Task, PurgeRead(t)
        PROVE  TypeOK' /\ PcState'
    BY <1>1 DEF TypeOK, PcState, PurgeRead, SweepGoto, diskVars, procVars
  <1>2. ASSUME NEW t \in Task, ForceGit(t)
        PROVE  TypeOK' /\ PcState'
    BY <1>2 DEF TypeOK, PcState, ForceGit, SweepGoto, procVars
  <1>3. CASE PurgeUnlink
    BY <1>3, ChooseTask DEF TypeOK, PcState, PurgeUnlink, NoSweep, procVars
  <1>4. CASE ForceJournal
    BY <1>4 DEF TypeOK, PcState, ForceJournal, SweepGoto, procVars
  <1>5. CASE ForceLock
    BY <1>5, ChooseTask DEF TypeOK, PcState, ForceLock, NoSweep, procVars
  <1> QED
    BY <1>1, <1>2, <1>3, <1>4, <1>5, CleanupStep DEF CleanupStep

LEMMA InitTypes == Init => TypeOK /\ PcState
  <1> SUFFICES ASSUME Init PROVE TypeOK /\ PcState
    OBVIOUS
  <1>1. sweep \in [step : {"idle", "unlink", "rmJournal", "rmLock"}, task : Task]
    BY ChooseTask DEF Init, NoSweep
  <1> QED
    BY <1>1 DEF Init, TypeOK, PcState, PcStates, MState

LEMMA StepTypes == TypeOK /\ PcState /\ [Next]_vars => TypeOK' /\ PcState'
  <1> SUFFICES ASSUME TypeOK, PcState, [Next]_vars PROVE TypeOK' /\ PcState'
    OBVIOUS
  <1>1. ASSUME NEW p \in Proc, CookStep(p) \/ Crash(p)
        PROVE  TypeOK' /\ PcState'
    BY <1>1, CookTypes, CrashTypes, CookPcState
  <1>2. CASE CleanupStep
    BY <1>2, CleanupTypes
  <1>3. CASE UNCHANGED vars
    BY <1>3 DEF vars, TypeOK, PcState
  <1> QED
    BY <1>1, <1>2, <1>3 DEF Next

\* Every variable keeps its type in every run of any number of cooks and of
\* `swt cleanup`.
THEOREM TypeCorrect == Spec => []TypeOK
  <1>1. Spec => [](TypeOK /\ PcState)
    BY InitTypes, StepTypes, PTL DEF Spec
  <1> QED
    BY <1>1, PTL
-----------------------------------------------------------------------------
(***************************************************************************)
(* Isolation.  The invariant is inductive as stated once the in-memory     *)
(* states are known (PcState): only `git worktree add` makes an owner, it  *)
(* fails on an existing directory, and an owner's directory exists.        *)
(***************************************************************************)

\* A step of p makes no one an owner but p, and p only by `git worktree add`.
LEMMA OwnerStep ==
    ASSUME TypeOK, PcState, NEW p \in Proc, CookStep(p) \/ Crash(p)
    PROVE  /\ \A q \in Proc : q # p => (Owns(q)' <=> Owns(q))
           /\ Owns(p)' => Owns(p) \/ GitAddOk(p)
           /\ task' = task
  <1> USE DEF TypeOK, PcState, Owns, OwnPc, Goto
  <1>1. CASE WriteJournal(p)
    BY <1>1 DEF WriteJournal, AfterJournal, MState, WState, LinearState
  <1>2. CASE Start(p) \/ GitAddOk(p) \/ GitAddFail(p) \/ LockProbeOk(p)
             \/ LockProbeThrows(p) \/ LockCreate(p)
    BY <1>2 DEF SetState, Start, GitAddOk, GitAddFail, LockProbeOk,
       LockProbeThrows, LockCreate, diskVars
  <1>3. CASE SpawnSucceeds(p) \/ SpawnFails(p) \/ Advance(p) \/ UpdateRead(p)
             \/ UpdateThrows(p) \/ UpdateWrite(p)
    BY <1>3 DEF SetState, SpawnSucceeds, SpawnFails, Advance, UpdateRead,
       UpdateThrows, UpdateWrite, diskVars
  <1>4. CASE GitRemoveOk(p) \/ GitRemoveFail(p) \/ Unlink(p) \/ Exit(p) \/ Crash(p)
    BY <1>4 DEF SetState, GitRemoveOk, GitRemoveFail, Unlink, Exit, Crash, diskVars
  <1> QED
    BY <1>1, <1>2, <1>3, <1>4, CookStep(p) \/ Crash(p) DEF CookStep

\* The directory changes hands in two steps of a cook only.
LEMMA WorktreeStep ==
    ASSUME TypeOK, PcState, NEW p \in Proc, CookStep(p) \/ Crash(p)
    PROVE  \/ worktree' = worktree /\ ~GitAddOk(p)
           \/ GitAddOk(p) /\ worktree' = [worktree EXCEPT ![task[p]] = TRUE]
           \/ GitRemoveOk(p) /\ ~Owns(p)' /\ Owns(p)
              /\ worktree' = [worktree EXCEPT ![task[p]] = FALSE]
  <1>1. CASE GitAddOk(p)
    BY <1>1 DEF GitAddOk
  <1>2. CASE GitRemoveOk(p)
    BY <1>2 DEF GitRemoveOk, Goto, Owns, OwnPc, TypeOK
  <1>3. CASE ~GitAddOk(p) /\ ~GitRemoveOk(p)
    <2>1. worktree' = worktree
      BY <1>3, CookStep(p) \/ Crash(p)
         DEF CookStep, Start, GitAddFail, LockProbeOk, LockProbeThrows,
             LockCreate, WriteJournal, SpawnSucceeds, SpawnFails, Advance,
             UpdateRead, UpdateThrows, UpdateWrite, GitRemoveFail, Unlink,
             Exit, Crash, diskVars
    <2> QED
      BY <1>3, <2>1
  <1> QED
    BY <1>1, <1>2, <1>3

\* `swt cleanup --force` is not used, or never on a task some cook works on.
Disciplined == ~ForceLive \/ "force" \notin Operator

\* `swt cleanup` leaves the cooks alone, and with the operator's discipline
\* it removes no owned directory.
LEMMA CleanupStepOwners ==
    ASSUME TypeOK, CleanupStep
    PROVE  /\ UNCHANGED <<pc, task, mstate, from>>
           /\ \A p \in Proc : Owns(p)' <=> Owns(p)
           /\ \/ worktree' = worktree
              \/ \E t \in Task :
                    /\ worktree' = [worktree EXCEPT ![t] = FALSE]
                    /\ "force" \in Operator
                    /\ ForceLive \/ \A p \in Proc : ~(Owns(p) /\ task[p] = t)
  <1>1. UNCHANGED <<pc, task, mstate, from>>
    BY CleanupStep DEF CleanupStep, PurgeRead, ForceGit, PurgeUnlink, ForceJournal, ForceLock,
       diskVars, procVars
  <1>2. \A p \in Proc : Owns(p)' <=> Owns(p)
    BY <1>1 DEF Owns
  <1>3. \/ worktree' = worktree
        \/ \E t \in Task :
              /\ worktree' = [worktree EXCEPT ![t] = FALSE]
              /\ "force" \in Operator
              /\ ForceLive \/ \A p \in Proc : ~(Owns(p) /\ task[p] = t)
    BY CleanupStep DEF CleanupStep, PurgeRead, ForceGit, PurgeUnlink, ForceJournal, ForceLock,
       diskVars, procVars
  <1> QED
    BY <1>1, <1>2, <1>3

LEMMA IsolationCookStep ==
    ASSUME TypeOK, PcState, WorktreeIsolation, NEW p \in Proc, CookStep(p) \/ Crash(p)
    PROVE  WorktreeIsolation'
  <1> USE DEF WorktreeIsolation, OneOwner, OwnerHasWorktree
  <1>1. /\ \A q \in Proc : q # p => (Owns(q)' <=> Owns(q))
        /\ Owns(p)' => Owns(p) \/ GitAddOk(p)
        /\ task' = task
    BY OwnerStep
  <1>2. CASE worktree' = worktree /\ ~GitAddOk(p)
    BY <1>1, <1>2
  <1>3. CASE GitAddOk(p) /\ worktree' = [worktree EXCEPT ![task[p]] = TRUE]
    <2>1. ~worktree[task[p]]
      BY <1>3 DEF GitAddOk
    <2>2. \A q \in Proc : Owns(q) => task[q] # task[p]
      BY <2>1
    <2>3. QED
      BY <1>1, <1>3, <2>2 DEF TypeOK
  <1>4. CASE /\ GitRemoveOk(p) /\ ~Owns(p)' /\ Owns(p)
             /\ worktree' = [worktree EXCEPT ![task[p]] = FALSE]
    <2>1. \A q \in Proc : Owns(q)' => Owns(q) /\ q # p
      BY <1>1, <1>4
    <2>2. \A q \in Proc : Owns(q)' => task[q] # task[p]
      BY <1>4, <2>1
    <2>3. QED
      BY <1>1, <1>4, <2>1, <2>2 DEF TypeOK
  <1> QED
    BY <1>2, <1>3, <1>4, WorktreeStep

LEMMA IsolationStep ==
    ASSUME Disciplined, TypeOK, PcState, WorktreeIsolation, [Next]_vars
    PROVE  WorktreeIsolation'
  <1> USE DEF WorktreeIsolation, OneOwner, OwnerHasWorktree
  <1>1. ASSUME NEW p \in Proc, CookStep(p) \/ Crash(p)
        PROVE  WorktreeIsolation'
    BY <1>1, IsolationCookStep
  <1>2. CASE CleanupStep
    BY <1>2, CleanupStepOwners DEF TypeOK, Disciplined
  <1>3. CASE UNCHANGED vars
    BY <1>3 DEF vars, Owns
  <1> QED
    BY <1>1, <1>2, <1>3 DEF Next

LEMMA InitIsolation == Init => WorktreeIsolation
  BY DEF Init, WorktreeIsolation, OneOwner, OwnerHasWorktree, Owns, OwnPc

\* Unless the operator forces the cleanup of a task some cook is working on,
\* no two cooks ever work in one worktree, and the worktree of a working cook
\* exists; prune may run at any time, and force at any other.
THEOREM Isolation == Disciplined => (Spec => []WorktreeIsolation)
  <1> SUFFICES ASSUME Disciplined PROVE Spec => []WorktreeIsolation
    OBVIOUS
  <1> DEFINE Inv == TypeOK /\ PcState /\ WorktreeIsolation
  <1>1. Init => Inv
    BY InitTypes, InitIsolation
  <1>2. Inv /\ [Next]_vars => Inv'
    BY StepTypes, IsolationStep
  <1>3. Inv => WorktreeIsolation
    OBVIOUS
  <1> QED
    BY <1>1, <1>2, <1>3, PTL DEF Spec
-----------------------------------------------------------------------------
(***************************************************************************)
(* The lock file of a working cook, when nobody runs `swt cleanup`.        *)
(***************************************************************************)

\* A lock names the cook from create to unlink; between its git remove and
\* its unlink nobody else has got past the probe; what update writes back is
\* the cook's own envelope.
LockInv ==
    /\ sweep.step = "idle"
    /\ \A p \in Proc : HoldsLock(p) \/ pc[p] = "unlink" => lock[task[p]].pid = p
    /\ \A p, q \in Proc :
          pc[p] = "unlink" /\ pc[q] = "lockWrite" => task[p] # task[q]
    /\ \A p \in Proc : pc[p] = "updWrite" => env[p].pid = p

LEMMA HoldsLockStep ==
    ASSUME TypeOK, PcState, NEW p \in Proc, CookStep(p) \/ Crash(p)
    PROVE  /\ \A q \in Proc : q # p => (HoldsLock(q)' <=> HoldsLock(q))
           /\ \A q \in Proc : q # p => pc'[q] = pc[q] /\ env'[q] = env[q]
           /\ task' = task
  <1>1. \A q \in Proc : q # p => pc'[q] = pc[q] /\ env'[q] = env[q]
    BY CookStep(p) \/ Crash(p)
       DEF TypeOK, Goto, CookStep, Start, GitAddOk, GitAddFail, LockProbeOk,
           LockProbeThrows, LockCreate, WriteJournal, SpawnSucceeds, SpawnFails,
           Advance, UpdateRead, UpdateThrows, UpdateWrite, GitRemoveOk,
           GitRemoveFail, Unlink, Exit, Crash
  <1> QED
    BY <1>1, OwnerStep DEF HoldsLock

\* Steps that leave the lock alone and in which p neither starts to hold the
\* lock nor passes the probe.
LEMMA LockUntouched ==
    ASSUME TypeOK, PcState, LockInv, NEW p \in Proc, CookStep(p) \/ Crash(p),
           lock' = lock, sweep' = sweep, env' = env,
           HoldsLock(p)' \/ pc'[p] = "unlink" => HoldsLock(p) \/ pc[p] = "unlink",
           pc'[p] = "lockWrite" => pc[p] = "lockWrite",
           pc'[p] = "updWrite" => pc[p] = "updWrite",
           pc'[p] = "unlink" => pc[p] = "unlink"
    PROVE  LockInv'
  BY HoldsLockStep DEF LockInv

LEMMA LockStep ==
    ASSUME TypeOK, PcState, WorktreeIsolation, LockInv,
           NEW p \in Proc, CookStep(p) \/ Crash(p)
    PROVE  LockInv'
  <1> USE DEF TypeOK
  <1>0. HoldsLock(p) <=> Owns(p) /\ pc[p] \notin {"lockRead", "lockWrite"}
    BY DEF HoldsLock
  <1>1. CASE Start(p) \/ GitAddOk(p) \/ GitAddFail(p) \/ LockProbeThrows(p)
    BY <1>1, LockUntouched, HoldsLockStep
       DEF Start, GitAddOk, GitAddFail, LockProbeThrows, Goto, SetState,
           HoldsLock, Owns, OwnPc, diskVars, PcState
  <1>2. CASE LockProbeOk(p)
    <2>1. lock' = lock /\ sweep' = sweep /\ env' = env /\ pc' = [pc EXCEPT ![p] = "lockWrite"]
      BY <1>2 DEF LockProbeOk, Goto, diskVars
    <2>2. ~HoldsLock(p)'
      BY <2>1 DEF HoldsLock
    <2>3. \A q \in Proc : pc[q] = "unlink" => task[q] # task[p]
      BY <1>2 DEF LockProbeOk, LockInv, Live
    <2> QED
      BY <2>1, <2>2, <2>3, HoldsLockStep DEF LockInv
  <1>3. CASE LockCreate(p)
    <2>1. /\ lock' = [lock EXCEPT ![task[p]] = [pid |-> p, state |-> "created"]]
          /\ sweep' = sweep /\ env' = env
          /\ pc' = [pc EXCEPT ![p] = "journal"] /\ pc[p] = "lockWrite"
      BY <1>3 DEF LockCreate, Goto
    <2>2. Owns(p)
      BY <2>1 DEF Owns, OwnPc
    <2>3. \A q \in Proc : q # p /\ (HoldsLock(q) \/ pc[q] = "unlink") => task[q] # task[p]
      BY <2>1, <2>2 DEF WorktreeIsolation, OneOwner, HoldsLock, LockInv
    <2> QED
      BY <2>1, <2>3, HoldsLockStep DEF LockInv
  <1>4. CASE WriteJournal(p)
    <2>1. pc'[p] \notin {"unlink", "lockWrite", "updWrite", "lockRead"}
      BY <1>4, AfterJournalType DEF WriteJournal, Goto
    <2>2. HoldsLock(p)' => HoldsLock(p)
      BY <1>4, <2>1, OwnerStep DEF HoldsLock, WriteJournal, GitAddOk
    <2> QED
      BY <1>4, <2>1, <2>2, LockUntouched DEF WriteJournal
  <1>5. CASE SpawnSucceeds(p) \/ SpawnFails(p) \/ Advance(p) \/ UpdateThrows(p) \/ Exit(p)
    BY <1>5, LockUntouched
       DEF SpawnSucceeds, SpawnFails, Advance, UpdateThrows, Exit, Goto,
           SetState, HoldsLock, Owns, OwnPc, diskVars
  <1>6. CASE UpdateRead(p)
    <2>1. /\ lock' = lock /\ sweep' = sweep /\ env' = [env EXCEPT ![p] = lock[task[p]]]
          /\ pc' = [pc EXCEPT ![p] = "updWrite"] /\ pc[p] = "updRead"
      BY <1>6 DEF UpdateRead, Goto, diskVars
    <2>2. HoldsLock(p)
      BY <2>1 DEF HoldsLock, Owns, OwnPc
    <2> QED
      BY <2>1, <2>2, HoldsLockStep DEF LockInv
  <1>7. CASE UpdateWrite(p)
    <2>1. /\ lock' = [lock EXCEPT ![task[p]] = [env[p] EXCEPT !.state = mstate[p]]]
          /\ sweep' = sweep /\ env' = env
          /\ pc' = [pc EXCEPT ![p] = "journal"] /\ pc[p] = "updWrite"
      BY <1>7 DEF UpdateWrite, Goto
    <2>2. HoldsLock(p) /\ env[p].pid = p /\ env[p] \in Envelope
      BY <2>1 DEF HoldsLock, Owns, OwnPc, LockInv, PcState
    <2>3. \A q \in Proc : q # p /\ (HoldsLock(q) \/ pc[q] = "unlink") => task[q] # task[p]
      BY <2>2 DEF LockInv
    <2>4. lock'[task[p]].pid = p
      BY <2>1, <2>2 DEF Envelope
    <2> QED
      BY <2>1, <2>3, <2>4, HoldsLockStep DEF LockInv
  <1>8. CASE GitRemoveOk(p)
    <2>1. /\ lock' = lock /\ sweep' = sweep /\ env' = env
          /\ pc' = [pc EXCEPT ![p] = "unlink"] /\ pc[p] = "remove"
      BY <1>8 DEF GitRemoveOk, Goto
    <2>2. HoldsLock(p) /\ Owns(p)
      BY <2>1 DEF HoldsLock, Owns, OwnPc
    <2>3. \A q \in Proc : pc[q] = "lockWrite" => task[q] # task[p]
      BY <2>1, <2>2 DEF WorktreeIsolation, OneOwner, Owns, OwnPc
    <2>4. ~HoldsLock(p)'
      BY <2>1 DEF HoldsLock, Owns, OwnPc
    <2> QED
      BY <2>1, <2>2, <2>3, <2>4, HoldsLockStep DEF LockInv
  <1>9. CASE GitRemoveFail(p)
    BY <1>9, LockUntouched
       DEF GitRemoveFail, Goto, SetState, HoldsLock, Owns, OwnPc, diskVars
  <1>10. CASE Unlink(p)
    <2>1. /\ lock' = [lock EXCEPT ![task[p]] = NoLock]
          /\ sweep' = sweep /\ env' = env /\ mstate' = mstate
          /\ pc' = [pc EXCEPT ![p] = "journal"] /\ pc[p] = "unlink"
      BY <1>10 DEF Unlink, Goto
    <2>2. ~HoldsLock(p)'
      BY <2>1 DEF HoldsLock, Owns, OwnPc, PcState
    <2>3. \A q \in Proc : q # p /\ (HoldsLock(q) \/ pc[q] = "unlink") => task[q] # task[p]
      BY <2>1 DEF LockInv
    <2> QED
      BY <2>1, <2>2, <2>3, HoldsLockStep DEF LockInv
  <1>11. CASE Crash(p)
    <2>1. /\ sweep' = sweep /\ env' = env
          /\ pc' = [pc EXCEPT ![p] = "exited"]
      BY <1>11 DEF Crash, Goto
    <2>2. ~HoldsLock(p)'
      BY <2>1 DEF HoldsLock, Owns, OwnPc
    <2>3. CASE lock' = lock
      BY <2>1, <2>2, <2>3, HoldsLockStep DEF LockInv
    <2>4. CASE /\ pc[p] \in {"lockWrite", "updWrite"}
               /\ lock' = [lock EXCEPT ![task[p]] = TornLock]
      <3>1. Owns(p)
        BY <2>4 DEF Owns, OwnPc
      <3>2. \A q \in Proc : q # p /\ HoldsLock(q) => task[q] # task[p]
        BY <3>1 DEF WorktreeIsolation, OneOwner, HoldsLock
      <3>3. \A q \in Proc : q # p /\ pc[q] = "unlink" => task[q] # task[p]
        BY <2>4, <1>0, <3>1 DEF LockInv
      <3> QED
        BY <2>1, <2>2, <2>4, <3>2, <3>3, HoldsLockStep DEF LockInv
    <2> QED
      BY <1>11, <2>3, <2>4 DEF Crash
  <1> QED
    BY <1>1, <1>2, <1>3, <1>4, <1>5, <1>6, <1>7, <1>8, <1>9, <1>10, <1>11,
       CookStep(p) \/ Crash(p) DEF CookStep

\* As long as nobody runs `swt cleanup`, the lock file names the cook that
\* works on the task from the end of create until remove unlinks it, although
\* probing and writing the lock are separate steps.
THEOREM LockHeld == Operator = {} => (Spec => []LiveOwnerLocked)
  <1> SUFFICES ASSUME Operator = {} PROVE Spec => []LiveOwnerLocked
    OBVIOUS
  <1> DEFINE Inv == TypeOK /\ PcState /\ WorktreeIsolation /\ LockInv
  <1>1. Init => Inv
    <2> SUFFICES ASSUME Init PROVE LockInv
      BY InitTypes, InitIsolation
    <2> QED
      BY ChooseTask DEF Init, LockInv, HoldsLock, Owns, OwnPc
  <1>2. Inv /\ [Next]_vars => Inv'
    <2> SUFFICES ASSUME Inv, [Next]_vars PROVE Inv'
      OBVIOUS
    <2>1. TypeOK' /\ PcState'
      BY StepTypes
    <2>2. ~CleanupStep
      BY DEF CleanupStep, PurgeRead, ForceGit, PurgeUnlink, ForceJournal,
         ForceLock, LockInv
    <2>3. ASSUME NEW p \in Proc, CookStep(p) \/ Crash(p)
          PROVE  LockInv' /\ WorktreeIsolation'
      <3>1. LockInv'
        BY <2>3, LockStep
      <3>2. WorktreeIsolation'
        BY <2>3, IsolationCookStep
      <3> QED
        BY <3>1, <3>2
    <2>4. CASE UNCHANGED vars
      BY <2>4, <2>1 DEF vars, LockInv, HoldsLock, Owns, WorktreeIsolation,
         OneOwner, OwnerHasWorktree
    <2> QED
      BY <2>1, <2>2, <2>3, <2>4 DEF Next
  <1>3. Inv => LiveOwnerLocked
    BY DEF LockInv, LiveOwnerLocked
  <1> QED
    BY <1>1, <1>2, <1>3, PTL DEF Spec
-----------------------------------------------------------------------------
(***************************************************************************)
(* Refinement.                                                             *)
(***************************************************************************)

\* The slot of a task, without the CHOOSE.
SlotFacts ==
    WorktreeIsolation =>
        \A t \in Task :
            /\ ~worktree[t] => SlotOf(t) = Free
            /\ \A p \in Proc : Owns(p) /\ task[p] = t => SlotOf(t) = p
            /\ worktree[t] /\ (\A p \in Proc : ~(Owns(p) /\ task[p] = t))
                 => SlotOf(t) = Abandoned

LEMMA SlotValue == SlotFacts
  <1> SUFFICES ASSUME WorktreeIsolation, NEW t \in Task
      PROVE  /\ ~worktree[t] => SlotOf(t) = Free
             /\ \A p \in Proc : Owns(p) /\ task[p] = t => SlotOf(t) = p
             /\ worktree[t] /\ (\A p \in Proc : ~(Owns(p) /\ task[p] = t))
                  => SlotOf(t) = Abandoned
    BY DEF SlotFacts
  <1>1. \A p \in Proc : Owns(p) /\ task[p] = t => SlotOf(t) = p
    <2> SUFFICES ASSUME NEW p \in Proc, Owns(p), task[p] = t PROVE SlotOf(t) = p
      OBVIOUS
    <2>1. worktree[t]
      BY DEF WorktreeIsolation, OwnerHasWorktree
    <2>2. \A q \in Proc : Owns(q) /\ task[q] = t => q = p
      BY DEF WorktreeIsolation, OneOwner
    <2> DEFINE c == CHOOSE q \in Proc : Owns(q) /\ task[q] = t
    <2>3. c \in Proc /\ Owns(c) /\ task[c] = t
      OBVIOUS
    <2> QED
      BY <2>1, <2>2, <2>3 DEF SlotOf
  <1> QED
    BY <1>1 DEF SlotOf

\* The same of the state after a step.
LEMMA SlotValueNext == SlotFacts'
  BY SlotValue, PTL

\* Distinct tasks of distinct cooks do not disturb each other's slots.
LEMMA SlotFrame ==
    ASSUME WorktreeIsolation, WorktreeIsolation', NEW t \in Task,
           task' = task, worktree'[t] = worktree[t], worktree[t] \in BOOLEAN,
           \A q \in Proc : task[q] = t => (Owns(q)' <=> Owns(q))
    PROVE  SlotOf(t)' = SlotOf(t)
  <1>1. CASE \E q \in Proc : Owns(q) /\ task[q] = t
    BY <1>1, SlotValue, SlotValueNext DEF SlotFacts
  <1>2. CASE ~\E q \in Proc : Owns(q) /\ task[q] = t
    BY <1>2, SlotValue, SlotValueNext DEF SlotFacts
  <1> QED
    BY <1>1, <1>2

LEMMA SlotStep ==
    ASSUME Disciplined, TypeOK, PcState, WorktreeIsolation, WorktreeIsolation', [Next]_vars
    PROVE  Slots!Next \/ [t \in Task |-> SlotOf(t)]' = [t \in Task |-> SlotOf(t)]
  <1> DEFINE slots == [t \in Task |-> SlotOf(t)]
  <1>t. /\ worktree \in [Task -> BOOLEAN]
        /\ task \in [Proc -> Task]
        /\ pc \in [Proc -> PcStates]
    BY DEF TypeOK
  <1> USE <1>t
  <1>0. \A q \in Proc : q # Free /\ q # Abandoned
    BY ConstantsAssumption
  <1>1. ASSUME NEW p \in Proc, CookStep(p) \/ Crash(p)
        PROVE  Slots!Next \/ slots' = slots
    <2>0. PICK t \in Task : t = task[p]
      OBVIOUS
    <2>1. /\ \A q \in Proc : q # p => (Owns(q)' <=> Owns(q))
          /\ Owns(p)' => Owns(p) \/ GitAddOk(p)
          /\ task' = task
      BY <1>1, OwnerStep
    <2>2. \A u \in Task : u # t => worktree'[u] = worktree[u]
      <3>1. \/ worktree' = worktree
            \/ worktree' = [worktree EXCEPT ![t] = TRUE]
            \/ worktree' = [worktree EXCEPT ![t] = FALSE]
        BY <1>1, <2>0, WorktreeStep
      <3> QED
        BY <3>1
    <2>3. \A u \in Task : u # t => SlotOf(u)' = SlotOf(u)
      BY <2>0, <2>1, <2>2, SlotFrame
    <2>4. slots' = [slots EXCEPT ![t] = SlotOf(t)']
      BY <2>3
    <2>6. CASE GitAddOk(p)
      <3>1. ~worktree[t] /\ pc[p] = "gitAdd" /\ Owns(p)'
        BY <2>0, <2>6 DEF GitAddOk, Goto, Owns, OwnPc
      <3>2. SlotOf(t) = Free /\ SlotOf(t)' = p
        BY <2>0, <2>1, <3>1, SlotValue, SlotValueNext DEF SlotFacts
      <3>3. \A u \in Task : SlotOf(u) # p
        <4> SUFFICES ASSUME NEW u \in Task, SlotOf(u) = p PROVE FALSE
          OBVIOUS
        <4>1. ~Owns(p)
          BY <3>1 DEF Owns, OwnPc
        <4>2. \A q \in Proc : ~(Owns(q) /\ task[q] = u)
          BY <4>1, SlotValue DEF SlotFacts
        <4> QED
          BY <4>2, <1>0, SlotValue DEF SlotFacts
      <3>4. Slots!Acquire(p, t)
        BY <2>4, <3>2, <3>3 DEF Slots!Acquire
      <3> QED
        BY <3>4 DEF Slots!Next
    <2>7. CASE GitRemoveOk(p) /\ Owns(p) /\ ~Owns(p)'
      <3>1. ~worktree'[t]
        BY <2>0, <2>7 DEF GitRemoveOk
      <3>2. SlotOf(t) = p /\ SlotOf(t)' = Free
        BY <2>0, <2>7, <3>1, SlotValue, SlotValueNext DEF SlotFacts
      <3>3. Slots!GiveBack(p, t)
        BY <2>4, <3>2 DEF Slots!GiveBack
      <3> QED
        BY <3>3 DEF Slots!Next
    <2>8. CASE worktree' = worktree /\ ~GitAddOk(p) /\ Owns(p) /\ ~Owns(p)'
      <3>1. \A q \in Proc : ~(Owns(q)' /\ task'[q] = t)
        BY <2>0, <2>1, <2>8 DEF WorktreeIsolation, OneOwner
      <3>2. worktree'[t]
        BY <2>0, <2>1, <2>8 DEF WorktreeIsolation, OwnerHasWorktree
      <3>3. SlotOf(t) = p /\ SlotOf(t)' = Abandoned
        BY <2>0, <2>1, <2>8, <3>1, <3>2, SlotValue, SlotValueNext DEF SlotFacts
      <3>4. Slots!Abandon(p, t)
        BY <2>4, <3>3 DEF Slots!Abandon
      <3> QED
        BY <3>4 DEF Slots!Next
    <2>9. CASE worktree' = worktree /\ ~GitAddOk(p) /\ (Owns(p)' <=> Owns(p))
      <3>1. SlotOf(t)' = SlotOf(t)
        BY <2>0, <2>1, <2>9, SlotFrame
      <3> QED
        BY <2>3, <3>1
    <2> QED
      BY <1>1, <2>1, <2>6, <2>7, <2>8, <2>9, WorktreeStep
  <1>2. CASE CleanupStep
    <2>1. /\ task' = task
          /\ \A p \in Proc : Owns(p)' <=> Owns(p)
      BY <1>2, CleanupStepOwners
    <2>2. CASE worktree' = worktree
      BY <2>1, <2>2, SlotFrame
    <2>3. ASSUME NEW t \in Task, worktree' = [worktree EXCEPT ![t] = FALSE],
                 \A p \in Proc : ~(Owns(p) /\ task[p] = t)
          PROVE  Slots!Next \/ slots' = slots
      <3>1. \A u \in Task : u # t => SlotOf(u)' = SlotOf(u)
        BY <2>1, <2>3, SlotFrame
      <3>2. slots' = [slots EXCEPT ![t] = SlotOf(t)']
        BY <3>1
      <3>3. SlotOf(t)' = Free
        BY <2>3, SlotValueNext DEF SlotFacts
      <3>4. CASE worktree[t]
        <4>1. SlotOf(t) = Abandoned
          BY <2>3, <3>4, SlotValue DEF SlotFacts
        <4>2. Slots!Reap(t)
          BY <3>2, <3>3, <4>1 DEF Slots!Reap
        <4> QED
          BY <4>2 DEF Slots!Next
      <3>5. CASE ~worktree[t]
        <4>1. SlotOf(t) = Free
          BY <3>5, SlotValue DEF SlotFacts
        <4> QED
          BY <3>1, <3>3, <4>1
      <3> QED
        BY <3>4, <3>5
    <2> QED
      BY <1>2, <2>2, <2>3, CleanupStepOwners DEF Disciplined
  <1>3. CASE UNCHANGED vars
    BY <1>3, SlotFrame DEF vars, Owns
  <1> QED
    BY <1>1, <1>2, <1>3 DEF Next

\* The processes implement the slots of WorktreeSlots: a worktree is handed
\* from one cook to another only by being removed in between, and what a
\* failed or crashed cook leaves behind stays until the operator reaps it.
THEOREM SlotsImplemented == Disciplined => (Spec => ImplementsSlots)
  <1> SUFFICES ASSUME Disciplined PROVE Spec => ImplementsSlots
    OBVIOUS
  <1> DEFINE Inv == TypeOK /\ PcState /\ WorktreeIsolation
  <1>1. Init => Inv
    BY InitTypes, InitIsolation
  <1>2. Inv /\ [Next]_vars => Inv'
    BY StepTypes, IsolationStep
  <1>3. Init => Slots!Init
    BY DEF Init, Slots!Init, SlotOf
  <1>4. Inv /\ Inv' /\ [Next]_vars => [Slots!Next]_([t \in Task |-> SlotOf(t)])
    BY SlotStep
  <1> QED
    BY <1>1, <1>2, <1>3, <1>4, PTL DEF Spec, ImplementsSlots, Slots!Spec
-----------------------------------------------------------------------------
(***************************************************************************)
(* The journal.  What a process has journalled last is its Tip: the state  *)
(* its machine is in, or, in the middle of a transition, the one it leaves.*)
(***************************************************************************)

MidTransition == {"updRead", "updWrite", "journal", "unlink"}
Tip(p) == IF pc[p] \in MidTransition THEN from[p] ELSE mstate[p]
Writing(p) == pc[p] \notin {"shared", "done", "exited"}

MachineSteps ==
    \A p \in Proc : pc[p] \in MidTransition => IsLegalTransition(from[p], mstate[p])
TipIsLast ==
    \A p \in Proc : Writing(p) =>
        \A i \in RowsOf(p, task[p]) :
            LastRow(p, task[p], i) => journal[task[p]][i].to = Tip(p)
RowsAtOwnTask ==
    \A p \in Proc, t \in Task : t # task[p] => RowsOf(p, t) = {}
PathInv == JournalIsFsmPath /\ MachineSteps /\ TipIsLast /\ RowsAtOwnTask

\* Only WriteJournal moves the tip of a process that goes on writing.
LEMMA TipStep ==
    ASSUME TypeOK, PcState, MachineSteps, NEW p \in Proc,
           CookStep(p) \/ Crash(p), ~WriteJournal(p)
    PROVE  /\ journal' = journal
           /\ Writing(p)' => Writing(p) /\ Tip(p)' = Tip(p)
           /\ pc'[p] \in MidTransition => IsLegalTransition(from'[p], mstate'[p])
  <1> USE DEF TypeOK, Writing, Tip, MidTransition, Goto, diskVars
  <1>1. CASE Start(p) \/ GitAddOk(p) \/ LockProbeOk(p) \/ LockProbeThrows(p)
             \/ SpawnSucceeds(p) \/ Exit(p)
    BY <1>1 DEF Start, GitAddOk, LockProbeOk, LockProbeThrows, SpawnSucceeds, Exit
  <1>2. CASE GitAddFail(p) \/ LockCreate(p) \/ SpawnFails(p) \/ Advance(p)
             \/ GitRemoveOk(p) \/ GitRemoveFail(p)
    BY <1>2 DEF GitAddFail, LockCreate, SpawnFails, Advance, GitRemoveOk,
       GitRemoveFail, SetState
  <1>3. CASE UpdateRead(p) \/ UpdateThrows(p) \/ UpdateWrite(p) \/ Unlink(p)
    BY <1>3 DEF UpdateRead, UpdateThrows, UpdateWrite, Unlink, MachineSteps
  <1>4. CASE Crash(p)
    BY <1>4 DEF Crash
  <1> QED
    BY <1>1, <1>2, <1>3, <1>4, CookStep(p) \/ Crash(p) DEF CookStep

\* A step of p leaves the local state of the others alone.
LEMMA OthersStay ==
    ASSUME TypeOK, NEW p \in Proc, CookStep(p) \/ Crash(p)
    PROVE  /\ task' = task
           /\ \A q \in Proc : q # p =>
                 /\ pc'[q] = pc[q] /\ mstate'[q] = mstate[q]
                 /\ from'[q] = from[q] /\ env'[q] = env[q]
  BY CookStep(p) \/ Crash(p)
     DEF TypeOK, Goto, SetState, diskVars, CookStep, Start, GitAddOk, GitAddFail,
         LockProbeOk, LockProbeThrows, LockCreate, WriteJournal, SpawnSucceeds,
         SpawnFails, Advance, UpdateRead, UpdateThrows, UpdateWrite, GitRemoveOk,
         GitRemoveFail, Unlink, Exit, Crash

\* What appending a row does to the rows of a process.
LEMMA AppendRow ==
    ASSUME TypeOK, PcState, NEW p \in Proc, WriteJournal(p)
    PROVE  LET t == task[p]
               n == Len(journal[t]) + 1
           IN /\ n \in Nat /\ n \notin DOMAIN journal[t]
              /\ \A u \in Task : u # t => journal'[u] = journal[u]
              /\ DOMAIN journal'[t] = DOMAIN journal[t] \cup {n}
              /\ \A i \in DOMAIN journal[t] :
                    journal'[t][i] = journal[t][i] /\ i \in Nat /\ i < n
              /\ journal'[t][n] = [pid |-> p, from |-> from[p], to |-> mstate[p]]
              /\ RowsOf(p, t)' = RowsOf(p, t) \cup {n}
              /\ \A q \in Proc, u \in Task :
                    q # p \/ u # t => RowsOf(q, u)' = RowsOf(q, u)
  <1> DEFINE t == task[p]
             n == Len(journal[t]) + 1
             row == [pid |-> p, from |-> from[p], to |-> mstate[p]]
  <1>1. t \in Task /\ journal[t] \in Seq(Entry) /\ journal \in [Task -> Seq(Entry)]
    BY DEF TypeOK
  <1>2. journal' = [journal EXCEPT ![t] = Append(journal[t], row)]
    BY DEF WriteJournal
  <1>3. journal'[t] = Append(journal[t], row)
    BY <1>1, <1>2
  <1>4. \A u \in Task : u # t => journal'[u] = journal[u]
    BY <1>1, <1>2
  <1>5. /\ n \in Nat /\ n \notin DOMAIN journal[t]
        /\ \A i \in DOMAIN journal[t] : i \in Nat /\ i < n
    BY <1>1
  <1>6. row \in Entry
    BY DEF WriteJournal, TypeOK, PcState, Entry, MState
  <1>7. /\ DOMAIN journal'[t] = DOMAIN journal[t] \cup {n}
        /\ \A i \in DOMAIN journal[t] : journal'[t][i] = journal[t][i]
        /\ journal'[t][n] = row
    BY <1>1, <1>3, <1>6
  <1>8. RowsOf(p, t)' = RowsOf(p, t) \cup {n}
    <2>1. t' = t
      BY DEF WriteJournal
    <2> QED
      BY <1>5, <1>7, <2>1 DEF RowsOf
  <1>9. \A q \in Proc, u \in Task : q # p \/ u # t => RowsOf(q, u)' = RowsOf(q, u)
    BY <1>4, <1>5, <1>7 DEF RowsOf
  <1> QED
    BY <1>4, <1>5, <1>7, <1>8, <1>9

LEMMA PathCookStep ==
    ASSUME TypeOK, PcState, PathInv, NEW p \in Proc, CookStep(p) \/ Crash(p)
    PROVE  PathInv'
  <1> USE DEF PathInv
  <1>0. /\ task' = task /\ task \in [Proc -> Task]
        /\ \A q \in Proc : q # p =>
              (Writing(q)' <=> Writing(q)) /\ Tip(q)' = Tip(q)
    BY OthersStay DEF Writing, Tip, TypeOK
  <1>1. CASE ~WriteJournal(p)
    <2>1. /\ journal' = journal
          /\ Writing(p)' => Writing(p) /\ Tip(p)' = Tip(p)
          /\ pc'[p] \in MidTransition => IsLegalTransition(from'[p], mstate'[p])
      BY <1>1, TipStep
    <2>2. MachineSteps'
      BY <2>1, OthersStay DEF MachineSteps
    <2>3. TipIsLast'
      BY <1>0, <2>1 DEF TipIsLast, RowsOf, LastRow
    <2>4. JournalIsFsmPath' /\ RowsAtOwnTask'
      BY <1>0, <2>1 DEF JournalIsFsmPath, RowsAtOwnTask, RowsOf
    <2> QED
      BY <2>2, <2>3, <2>4
  <1>2. CASE WriteJournal(p)
    <2> DEFINE t == task[p]
               n == Len(journal[t]) + 1
    <2>1. /\ n \in Nat /\ n \notin DOMAIN journal[t]
          /\ \A u \in Task : u # t => journal'[u] = journal[u]
          /\ \A i \in DOMAIN journal[t] :
                journal'[t][i] = journal[t][i] /\ i \in Nat /\ i < n
          /\ journal'[t][n] = [pid |-> p, from |-> from[p], to |-> mstate[p]]
          /\ RowsOf(p, t)' = RowsOf(p, t) \cup {n}
          /\ \A q \in Proc, u \in Task :
                q # p \/ u # t => RowsOf(q, u)' = RowsOf(q, u)
      BY <1>2, AppendRow
    <2>2. /\ pc[p] = "journal" /\ pc'[p] \notin MidTransition
          /\ mstate' = mstate /\ from' = from
      BY <1>2, AfterJournalType DEF WriteJournal, Goto, MidTransition, TypeOK
    <2>3. t \in Task /\ Writing(p) /\ Tip(p) = from[p] /\ Tip(p)' = mstate[p]
      BY <1>0, <2>2 DEF Writing, Tip, MidTransition
    <2>4. \A q \in Proc, u \in Task : RowsOf(q, u) \subseteq DOMAIN journal[u]
      BY DEF RowsOf
    <2>5. MachineSteps'
      BY <2>2, OthersStay DEF MachineSteps
    <2>6. RowsAtOwnTask'
      BY <1>0, <2>1, <2>3 DEF RowsAtOwnTask
    <2>7. ASSUME NEW q \in Proc, q # p, Writing(q)', NEW i \in RowsOf(q, task[q])',
                 LastRow(q, task[q], i)'
          PROVE  journal'[task[q]][i].to = Tip(q)'
      <3>1. RowsOf(q, task[q])' = RowsOf(q, task[q]) /\ task[q] \in Task
        BY <1>0, <2>1, <2>7
      <3>2. LastRow(q, task[q], i)
        BY <1>0, <2>7, <3>1 DEF LastRow
      <3>3. journal'[task[q]][i] = journal[task[q]][i]
        BY <1>0, <2>1, <2>4, <2>7, <3>1
      <3> QED
        BY <1>0, <2>7, <3>1, <3>2, <3>3 DEF TipIsLast
    <2>8. ASSUME NEW i \in RowsOf(p, t)', LastRow(p, t, i)'
          PROVE  journal'[t][i].to = Tip(p)'
      <3>1. i = n
        <4>1. n \in RowsOf(p, t)' /\ (i = n \/ i \in RowsOf(p, t))
          BY <2>1, <2>8
        <4>2. n <= i
          BY <1>0, <2>8, <4>1 DEF LastRow
        <4> QED
          BY <2>1, <2>4, <2>3, <4>1, <4>2
      <3> QED
        BY <2>1, <2>3, <3>1
    <2>9. TipIsLast'
      BY <1>0, <2>7, <2>8 DEF TipIsLast
    <2>10. JournalIsFsmPath'
      <3> SUFFICES ASSUME NEW u \in Task, NEW q \in Proc, NEW i \in RowsOf(q, u)'
          PROVE /\ IsLegalTransition(journal'[u][i].from, journal'[u][i].to)
                /\ \A j \in RowsOf(q, u)' :
                      j < i /\ (\A k \in RowsOf(q, u)' : k <= j \/ i <= k)
                          => journal'[u][i].from = journal'[u][j].to
        BY DEF JournalIsFsmPath
      <3>1. CASE q # p \/ u # t
        <4>1. RowsOf(q, u)' = RowsOf(q, u)
          BY <2>1, <3>1
        <4>2. \A k \in RowsOf(q, u) : journal'[u][k] = journal[u][k]
          BY <2>1, <2>4
        <4> QED
          BY <4>1, <4>2 DEF JournalIsFsmPath
      <3>2. CASE q = p /\ u = t /\ i # n
        <4>0. RowsOf(q, u)' = RowsOf(p, t)'
          BY <1>0, <3>2 DEF RowsOf
        <4>1. i \in RowsOf(p, t)
          BY <2>1, <3>2, <4>0
        <4>2. \A k \in RowsOf(p, t) : journal'[t][k] = journal[t][k]
          BY <2>1, <2>3, <2>4
        <4>3. \A j \in RowsOf(p, t)' : j < i => j \in RowsOf(p, t)
          <5>1. i < n /\ i \in Nat
            BY <2>1, <2>3, <2>4, <4>1
          <5> QED
            BY <2>1, <5>1
        <4>4. RowsOf(p, t) \subseteq RowsOf(p, t)'
          BY <2>1
        <4> QED
          BY <3>2, <4>0, <4>1, <4>2, <4>3, <4>4, <2>3 DEF JournalIsFsmPath
      <3>3. CASE q = p /\ u = t /\ i = n
        <4>0. RowsOf(q, u)' = RowsOf(p, t)'
          BY <1>0, <3>3 DEF RowsOf
        <4>1. IsLegalTransition(from[p], mstate[p])
          BY <2>2 DEF MachineSteps, MidTransition
        <4>2. ASSUME NEW j \in RowsOf(p, t)', j < n,
                     \A k \in RowsOf(p, t)' : k <= j \/ n <= k
              PROVE  journal'[t][j].to = from[p]
          <5>1. j \in RowsOf(p, t)
            BY <2>1, <4>2
          <5>2. LastRow(p, t, j)
            <6> SUFFICES ASSUME NEW k \in RowsOf(p, t) PROVE k <= j
              BY <5>1 DEF LastRow
            <6>1. k <= j \/ n <= k
              BY <2>1, <4>2
            <6>2. k \in Nat /\ k < n
              BY <2>1, <2>3, <2>4
            <6> QED
              BY <2>1, <6>1, <6>2
          <5>3. journal[t][j].to = from[p]
            BY <2>3, <5>1, <5>2 DEF TipIsLast
          <5> QED
            BY <2>1, <2>3, <2>4, <5>1, <5>3
        <4>3. journal'[t][n].from = from[p] /\ journal'[t][n].to = mstate[p]
          BY <2>1
        <4>4. IsLegalTransition(journal'[u][i].from, journal'[u][i].to)
          BY <3>3, <4>1, <4>3
        <4>5. ASSUME NEW j \in RowsOf(q, u)', j < i,
                     \A k \in RowsOf(q, u)' : k <= j \/ i <= k
              PROVE  journal'[u][i].from = journal'[u][j].to
          <5>1. journal'[t][j].to = from[p]
            BY <3>3, <4>0, <4>2, <4>5
          <5> QED
            BY <3>3, <4>3, <5>1
        <4> QED
          BY <4>4, <4>5
      <3> QED
        BY <3>1, <3>2, <3>3
    <2> QED
      BY <2>5, <2>6, <2>9, <2>10
  <1> QED
    BY <1>1, <1>2

\* The journal of a task goes only as a whole.
LEMMA CleanupJournal ==
    ASSUME TypeOK, CleanupStep
    PROVE  \A u \in Task : journal'[u] = journal[u] \/ journal'[u] = <<>>
  BY CleanupStep DEF TypeOK, CleanupStep, PurgeRead, ForceGit, PurgeUnlink,
     ForceJournal, ForceLock, diskVars

LEMMA PathCleanupStep ==
    ASSUME TypeOK, PathInv, CleanupStep
    PROVE  PathInv'
  <1>1. UNCHANGED <<pc, task, mstate, from>>
    BY CleanupStepOwners
  <1>2. \A q \in Proc : (Writing(q)' <=> Writing(q)) /\ Tip(q)' = Tip(q)
    BY <1>1 DEF Writing, Tip
  <1>3. ASSUME NEW q \in Proc, NEW u \in Task
        PROVE  \/ RowsOf(q, u)' = {}
               \/ RowsOf(q, u)' = RowsOf(q, u) /\ journal'[u] = journal[u]
    BY CleanupJournal DEF RowsOf
  <1>4. JournalIsFsmPath'
    <2> SUFFICES ASSUME NEW u \in Task, NEW q \in Proc, NEW i \in RowsOf(q, u)'
        PROVE /\ IsLegalTransition(journal'[u][i].from, journal'[u][i].to)
              /\ \A j \in RowsOf(q, u)' :
                    j < i /\ (\A k \in RowsOf(q, u)' : k <= j \/ i <= k)
                        => journal'[u][i].from = journal'[u][j].to
      BY DEF JournalIsFsmPath
    <2>1. RowsOf(q, u)' = RowsOf(q, u) /\ journal'[u] = journal[u]
      BY <1>3
    <2> QED
      BY <2>1 DEF PathInv, JournalIsFsmPath
  <1>5. MachineSteps' /\ RowsAtOwnTask'
    BY <1>1, <1>3 DEF PathInv, MachineSteps, RowsAtOwnTask
  <1>6. TipIsLast'
    <2> SUFFICES ASSUME NEW q \in Proc, Writing(q)', NEW i \in RowsOf(q, task[q])',
                        LastRow(q, task[q], i)'
        PROVE  journal'[task[q]][i].to = Tip(q)'
      BY <1>1 DEF TipIsLast
    <2>1. task[q] \in Task /\ task' = task
      BY <1>1 DEF TypeOK
    <2>2. RowsOf(q, task[q])' = RowsOf(q, task[q]) /\ journal'[task[q]] = journal[task[q]]
      BY <1>3, <2>1
    <2>3. LastRow(q, task[q], i)
      BY <2>1, <2>2 DEF LastRow
    <2> QED
      BY <1>2, <2>2, <2>3 DEF PathInv, TipIsLast
  <1> QED
    BY <1>4, <1>5, <1>6 DEF PathInv

LEMMA PathStep ==
    ASSUME TypeOK, PcState, PathInv, [Next]_vars
    PROVE  PathInv'
  <1>1. ASSUME NEW p \in Proc, CookStep(p) \/ Crash(p)
        PROVE  PathInv'
    BY <1>1, PathCookStep
  <1>2. CASE CleanupStep
    BY <1>2, PathCleanupStep
  <1>3. CASE UNCHANGED vars
    BY <1>3 DEF vars, PathInv, JournalIsFsmPath, MachineSteps, TipIsLast,
       RowsAtOwnTask, RowsOf, LastRow, Writing, Tip
  <1> QED
    BY <1>1, <1>2, <1>3 DEF Next

LEMMA InitPath == Init => PathInv
  BY DEF Init, PathInv, JournalIsFsmPath, MachineSteps, TipIsLast, RowsAtOwnTask,
     RowsOf, MidTransition

\* Whatever the operator does and however many cooks write into one journal,
\* the rows of each are legal transitions of the machine, and each begins
\* where the one before it ended.
THEOREM JournalPath == Spec => []JournalIsFsmPath
  <1> DEFINE Inv == TypeOK /\ PcState /\ PathInv
  <1>1. Init => Inv
    BY InitTypes, InitPath
  <1>2. Inv /\ [Next]_vars => Inv'
    BY StepTypes, PathStep
  <1>3. Inv => JournalIsFsmPath
    BY DEF PathInv
  <1> QED
    BY <1>1, <1>2, <1>3, PTL DEF Spec
-----------------------------------------------------------------------------
(***************************************************************************)
(* The lock file next to `swt cleanup`.  The operator may take a lock away *)
(* at any time; what stays true is that the lock of a working cook names   *)
(* that cook or no one, so that no cook ever writes an envelope that is    *)
(* another's.                                                              *)
(***************************************************************************)

OwnLock ==
    /\ \A p \in Proc : HoldsLock(p) => lock[task[p]].pid \in {p, NoProc}
    /\ \A p \in Proc : pc[p] = "updWrite" => env[p].pid = p
    /\ \A p \in Proc : pc[p] \in {"updRead", "updWrite"} => mstate[p] # "removed"

\* What a step of p does to the lock file of its task.
LEMMA LockEffect ==
    ASSUME TypeOK, PcState, NEW p \in Proc, CookStep(p) \/ Crash(p)
    PROVE  \/ lock' = lock /\ ~LockCreate(p) /\ ~UpdateWrite(p) /\ ~Unlink(p)
           \/ LockCreate(p) \/ UpdateWrite(p) \/ Unlink(p)
           \/ /\ Crash(p) /\ pc[p] \in {"lockWrite", "updWrite"} /\ pc'[p] = "exited"
              /\ lock' = [lock EXCEPT ![task[p]] = TornLock]
  <1>1. CASE Crash(p)
    BY <1>1 DEF Crash, Goto, TypeOK, LockCreate, UpdateWrite, Unlink
  <1>2. CASE CookStep(p)
    BY <1>2 DEF CookStep, Start, GitAddOk, GitAddFail, LockProbeOk,
       LockProbeThrows, WriteJournal, SpawnSucceeds, SpawnFails, Advance,
       UpdateRead, UpdateThrows, GitRemoveOk, GitRemoveFail, Exit, diskVars
  <1> QED
    BY <1>1, <1>2

\* The envelope that update writes back is the cook's own.
LEMMA UpdateWritesOwn ==
    ASSUME TypeOK, PcState, OwnLock, NEW p \in Proc, UpdateWrite(p)
    PROVE  /\ lock' = [lock EXCEPT ![task[p]] = [pid |-> p, state |-> mstate[p]]]
           /\ pc[p] = "updWrite"
  <1>1. env[p] \in Envelope /\ env[p].pid = p
    BY DEF UpdateWrite, PcState, OwnLock
  <1>2. [env[p] EXCEPT !.state = mstate[p]] = [pid |-> p, state |-> mstate[p]]
    BY <1>1 DEF Envelope
  <1> QED
    BY <1>2 DEF UpdateWrite

\* Only LockCreate and UpdateWrite put a pid into a lock, and it is the pid of
\* the cook that takes the step.
LEMMA LockNames ==
    ASSUME TypeOK, PcState, OwnLock, NEW p \in Proc, CookStep(p) \/ Crash(p),
           NEW t \in Task
    PROVE  \/ lock'[t] = lock[t]
           \/ t = task[p] /\ lock'[t].pid = NoProc
           \/ /\ t = task[p] /\ lock'[t].pid = p
              /\ LockCreate(p) \/ UpdateWrite(p)
  <1>1. CASE lock' = lock
    BY <1>1
  <1>2. CASE LockCreate(p)
    BY <1>2 DEF LockCreate, TypeOK
  <1>3. CASE UpdateWrite(p)
    BY <1>3, UpdateWritesOwn DEF TypeOK
  <1>4. CASE Unlink(p)
    BY <1>4 DEF Unlink, TypeOK, NoLock
  <1>5. CASE lock' = [lock EXCEPT ![task[p]] = TornLock]
    BY <1>5 DEF TypeOK, TornLock
  <1> QED
    BY <1>1, <1>2, <1>3, <1>4, <1>5, LockEffect

LEMMA OwnLockCookStep ==
    ASSUME TypeOK, PcState, WorktreeIsolation, OwnLock,
           NEW p \in Proc, CookStep(p) \/ Crash(p)
    PROVE  OwnLock'
  <1>0. /\ task' = task /\ task \in [Proc -> Task]
        /\ \A q \in Proc : q # p =>
              /\ HoldsLock(q)' <=> HoldsLock(q)
              /\ pc'[q] = pc[q] /\ env'[q] = env[q] /\ mstate'[q] = mstate[q]
    BY OthersStay, HoldsLockStep DEF TypeOK
  <1>1. ASSUME NEW q \in Proc, q # p, HoldsLock(q)
        PROVE  lock'[task[q]].pid \in {q, NoProc}
    <2>1. lock[task[q]].pid \in {q, NoProc}
      BY <1>1 DEF OwnLock
    <2>2. CASE LockCreate(p) \/ UpdateWrite(p)
      <3>1. Owns(p) /\ Owns(q)
        BY <1>1, <2>2 DEF LockCreate, UpdateWrite, Owns, OwnPc, HoldsLock
      <3>2. task[q] # task[p]
        BY <1>1, <3>1 DEF WorktreeIsolation, OneOwner
      <3> QED
        BY <1>0, <2>1, <3>2, LockNames
    <2>3. CASE ~(LockCreate(p) \/ UpdateWrite(p))
      BY <1>0, <2>1, <2>3, LockNames
    <2> QED
      BY <2>2, <2>3
  <1>2. HoldsLock(p)' => HoldsLock(p) \/ LockCreate(p)
    <2>1. Owns(p)' => Owns(p) \/ GitAddOk(p)
      BY OwnerStep
    <2>2. ~(HoldsLock(p)' /\ GitAddOk(p))
      BY DEF HoldsLock, GitAddOk, Goto, TypeOK
    <2>3. pc[p] \in {"lockRead", "lockWrite"} /\ HoldsLock(p)' => LockCreate(p)
      BY CookStep(p) \/ Crash(p)
         DEF HoldsLock, Owns, OwnPc, Goto, TypeOK, CookStep, Start, GitAddOk, GitAddFail,
             LockProbeOk, LockProbeThrows, WriteJournal, SpawnSucceeds, SpawnFails,
             Advance, UpdateRead, UpdateThrows, UpdateWrite, GitRemoveOk,
             GitRemoveFail, Unlink, Exit, Crash
    <2> QED
      BY <2>1, <2>2, <2>3 DEF HoldsLock
  <1>3. HoldsLock(p)' => lock'[task[p]].pid \in {p, NoProc}
    <2>1. CASE LockCreate(p)
      BY <1>0, <2>1 DEF LockCreate, TypeOK
    <2>2. CASE HoldsLock(p)
      BY <1>0, <2>2, LockNames DEF OwnLock
    <2> QED
      BY <1>2, <2>1, <2>2
  <1>4. pc'[p] = "updWrite" => env'[p].pid = p
    <2> SUFFICES ASSUME pc'[p] = "updWrite" PROVE env'[p].pid = p
      OBVIOUS
    <2>1. UpdateRead(p)
      BY CookStep(p) \/ Crash(p), AfterJournalType
         DEF Goto, TypeOK, CookStep, Start, GitAddOk, GitAddFail,
             LockProbeOk, LockProbeThrows, LockCreate, WriteJournal, SpawnSucceeds,
             SpawnFails, Advance, UpdateThrows, UpdateWrite, GitRemoveOk,
             GitRemoveFail, Unlink, Exit, Crash
    <2>2. HoldsLock(p)
      BY <2>1 DEF UpdateRead, HoldsLock, Owns, OwnPc
    <2>3. lock[task[p]] \in Envelope /\ env'[p] = lock[task[p]]
      BY <1>0, <2>1 DEF UpdateRead, TypeOK
    <2>4. lock[task[p]].pid # NoProc
      BY <2>3, ConstantsAssumption DEF Envelope
    <2> QED
      BY <2>2, <2>3, <2>4 DEF OwnLock
  <1>5. pc'[p] \in {"updRead", "updWrite"} => mstate'[p] # "removed"
    <2>1. CASE WriteJournal(p)
      BY <2>1, AfterJournalType DEF WriteJournal, Goto, TypeOK
    <2>2. CASE ~WriteJournal(p)
      BY <2>2, CookStep(p) \/ Crash(p)
         DEF OwnLock, Goto, SetState, TypeOK, CookStep, Start, GitAddOk, GitAddFail,
             LockProbeOk, LockProbeThrows, LockCreate, SpawnSucceeds,
             SpawnFails, Advance, UpdateRead, UpdateThrows, UpdateWrite, GitRemoveOk,
             GitRemoveFail, Unlink, Exit, Crash
    <2> QED
      BY <2>1, <2>2
  <1>6. ASSUME NEW q \in Proc
        PROVE  /\ HoldsLock(q)' => lock'[task'[q]].pid \in {q, NoProc}
               /\ pc'[q] = "updWrite" => env'[q].pid = q
               /\ pc'[q] \in {"updRead", "updWrite"} => mstate'[q] # "removed"
    <2>1. CASE q # p
      BY <1>0, <1>1, <2>1 DEF OwnLock
    <2>2. CASE q = p
      <3>1. HoldsLock(q)' <=> HoldsLock(p)'
        BY <1>0, <2>2 DEF HoldsLock, Owns
      <3> QED
        BY <1>0, <1>3, <1>4, <1>5, <2>2, <3>1
    <2> QED
      BY <2>1, <2>2
  <1> QED
    BY <1>6 DEF OwnLock

\* `swt cleanup` only ever takes locks away.
LEMMA CleanupLock ==
    ASSUME TypeOK, CleanupStep
    PROVE  /\ UNCHANGED <<pc, task, mstate, from, env>>
           /\ \A t \in Task : lock'[t] = lock[t] \/ lock'[t] = NoLock
  BY CleanupStep DEF TypeOK, CleanupStep, PurgeRead, ForceGit, PurgeUnlink,
     ForceJournal, ForceLock, diskVars, procVars

LEMMA OwnLockStep ==
    ASSUME TypeOK, PcState, WorktreeIsolation, OwnLock, [Next]_vars
    PROVE  OwnLock'
  <1>1. ASSUME NEW p \in Proc, CookStep(p) \/ Crash(p)
        PROVE  OwnLock'
    BY <1>1, OwnLockCookStep
  <1>2. CASE CleanupStep
    <2>1. \A p \in Proc : HoldsLock(p)' <=> HoldsLock(p)
      BY <1>2, CleanupLock DEF HoldsLock, Owns
    <2>2. \A p \in Proc : task' = task /\ task[p] \in Task
      BY <1>2, CleanupLock DEF TypeOK
    <2>3. \A p \in Proc : lock'[task[p]].pid \in {lock[task[p]].pid, NoProc}
      BY <1>2, <2>2, CleanupLock DEF NoLock
    <2>4. \A p \in Proc : HoldsLock(p)' => lock'[task'[p]].pid \in {p, NoProc}
      BY <2>1, <2>2, <2>3 DEF OwnLock
    <2> QED
      BY <1>2, <2>4, CleanupLock DEF OwnLock
  <1>3. CASE UNCHANGED vars
    BY <1>3 DEF vars, OwnLock, HoldsLock, Owns
  <1> QED
    BY <1>1, <1>2, <1>3 DEF Next

LEMMA InitOwnLock == Init => OwnLock
  BY DEF Init, OwnLock, HoldsLock, Owns, OwnPc

Released ==
    \A p \in Proc :
        mstate[p] = "removed" /\ pc[p] \notin {"unlink", "exited"}
            => lock[task[p]].pid # p

LEMMA ReleasedStep ==
    ASSUME TypeOK, PcState, OwnLock, Released, [Next]_vars
    PROVE  Released'
  <1>1. ASSUME NEW p \in Proc, CookStep(p) \/ Crash(p), NEW q \in Proc,
               mstate'[q] = "removed", pc'[q] \notin {"unlink", "exited"}
        PROVE  lock'[task'[q]].pid # q
    <2>1. /\ task' = task /\ task[q] \in Task
          /\ q # p => pc'[q] = pc[q] /\ mstate'[q] = mstate[q]
      BY <1>1, OthersStay DEF TypeOK
    <2>2. CASE q # p
      <3>1. lock[task[q]].pid # q
        BY <1>1, <2>1, <2>2 DEF Released
      <3> QED
        BY <1>1, <2>1, <2>2, <3>1, LockNames, ConstantsAssumption
    <2>3. CASE q = p /\ Unlink(p)
      BY <2>1, <2>3, ConstantsAssumption DEF Unlink, TypeOK, NoLock
    <2>4. CASE q = p /\ ~Unlink(p)
      <3>1. mstate[p] = "removed" /\ pc[p] \notin {"unlink", "exited"} /\ lock' = lock
        <4>1. CASE CookStep(p)
          BY <1>1, <2>4, <4>1
             DEF PcState, OwnLock, Goto, SetState, TypeOK, diskVars, CookStep, Start, GitAddOk,
                 GitAddFail, LockProbeOk, LockProbeThrows, LockCreate, WriteJournal,
                 SpawnSucceeds, SpawnFails, Advance, UpdateRead, UpdateThrows,
                 UpdateWrite, GitRemoveOk, GitRemoveFail, Exit, LinearState
        <4>2. CASE Crash(p)
          BY <1>1, <2>4, <4>2 DEF Crash, Goto, TypeOK
        <4> QED
          BY <1>1, <4>1, <4>2
      <3> QED
        BY <2>1, <2>4, <3>1 DEF Released
    <2> QED
      BY <2>2, <2>3, <2>4
  <1>2. CASE CleanupStep
    <2>1. \A p \in Proc : task' = task /\ task[p] \in Task
      BY <1>2, CleanupLock DEF TypeOK
    <2>2. \A p \in Proc : lock'[task[p]].pid \in {lock[task[p]].pid, NoProc}
      BY <1>2, <2>1, CleanupLock DEF NoLock
    <2>3. \A p \in Proc : p # NoProc
      BY ConstantsAssumption
    <2> QED
      BY <1>2, <2>1, <2>2, <2>3, CleanupLock DEF Released
  <1>3. CASE UNCHANGED vars
    BY <1>3 DEF vars, Released
  <1> QED
    BY <1>1, <1>2, <1>3 DEF Next, Released

\* A cook that has returned after removing its worktree has left no lock of
\* its own behind, whatever `swt cleanup` did to its lock on the way.
THEOREM LocksReleased == Disciplined => (Spec => []NoLockLeak)
  <1> SUFFICES ASSUME Disciplined PROVE Spec => []NoLockLeak
    OBVIOUS
  <1> DEFINE Inv == TypeOK /\ PcState /\ WorktreeIsolation /\ OwnLock /\ Released
  <1>1. Init => Inv
    <2>1. Init => Released
      BY DEF Init, Released
    <2> QED
      BY <2>1, InitTypes, InitIsolation, InitOwnLock
  <1>2. Inv /\ [Next]_vars => Inv'
    BY StepTypes, IsolationStep, OwnLockStep, ReleasedStep
  <1>3. Inv => NoLockLeak
    BY DEF Released, NoLockLeak
  <1> QED
    BY <1>1, <1>2, <1>3, PTL DEF Spec
-----------------------------------------------------------------------------
(***************************************************************************)
(* Crash consistency of lock and journal.  As long as journals are not     *)
(* removed, the tip of a process that goes on is what it journalled last,  *)
(* and the lock that names a process, running or dead, has the state of    *)
(* its last row or of the transition it is about to journal.               *)
(***************************************************************************)

TipJournalled == \A p \in Proc : Writing(p) => Journalled(p, task[p], Tip(p))

Lags(p, t) ==
    \E last \in MState :
        /\ Journalled(p, t, last)
        /\ lock[t].state = last \/ IsLegalTransition(last, lock[t].state)
Held(p, t) ==
    /\ t = task[p]
    /\ pc[p] \notin {"idle", "gitAdd", "lockRead", "lockWrite"}
    /\ pc[p] = "journal" => lock[t].state = mstate[p]
    /\ pc[p] \in {"updRead", "updWrite", "work", "advance", "remove", "unlink"}
         => lock[t].state = Tip(p)
    /\ Lags(p, t)
LagInv ==
    /\ sweep.step \in {"idle", "unlink"}
    /\ TipJournalled
    /\ \A p \in Proc, t \in Task : lock[t].pid = p => Held(p, t)

\* After its WriteJournal, what p journalled last is its new state.
LEMMA RowIsLast ==
    ASSUME TypeOK, PcState, NEW p \in Proc, WriteJournal(p)
    PROVE  /\ Journalled(p, task[p], mstate[p])'
           /\ \A q \in Proc, u \in Task, s \in MState :
                 q # p \/ u # task[p] => (Journalled(q, u, s)' <=> Journalled(q, u, s))
  <1> DEFINE t == task[p]
  <1>n. PICK n \in Nat : n = Len(journal[t]) + 1
    BY AppendRow
  <1>1. /\ n \in Nat /\ n \notin DOMAIN journal[t]
        /\ \A u \in Task : u # t => journal'[u] = journal[u]
        /\ \A i \in DOMAIN journal[t] :
              journal'[t][i] = journal[t][i] /\ i \in Nat /\ i < n
        /\ journal'[t][n] = [pid |-> p, from |-> from[p], to |-> mstate[p]]
        /\ RowsOf(p, t)' = RowsOf(p, t) \cup {n}
        /\ \A q \in Proc, u \in Task :
              q # p \/ u # t => RowsOf(q, u)' = RowsOf(q, u)
    BY AppendRow, <1>n
  <1>2. task' = task /\ mstate' = mstate
    BY DEF WriteJournal
  <1>3. LastRow(p, t, n)' /\ n \in RowsOf(p, t)'
    <2>1. \A j \in RowsOf(p, t) : j <= n
      BY <1>1 DEF RowsOf
    <2>2. \A j \in RowsOf(p, t)' : j <= n
      BY <1>1, <2>1
    <2> QED
      BY <1>1, <1>2, <2>2 DEF LastRow
  <1>4. Journalled(p, task[p], mstate[p])'
    BY <1>1, <1>2, <1>3 DEF Journalled, LastRow
  <1>5. ASSUME NEW q \in Proc, NEW u \in Task, NEW s \in MState, q # p \/ u # t
        PROVE  Journalled(q, u, s)' <=> Journalled(q, u, s)
    <2>1. RowsOf(q, u)' = RowsOf(q, u)
      BY <1>1, <1>5
    <2>2. \A i \in RowsOf(q, u) : journal'[u][i] = journal[u][i]
      BY <1>1 DEF RowsOf
    <2> QED
      BY <2>1, <2>2 DEF Journalled, LastRow
  <1> QED
    BY <1>4, <1>5

LEMMA SameJournal ==
    ASSUME NEW q \in Proc, NEW u \in Task, NEW s \in MState, journal'[u] = journal[u]
    PROVE  Journalled(q, u, s)' <=> Journalled(q, u, s)
  BY DEF Journalled, LastRow, RowsOf

LEMMA TipType == TypeOK => \A p \in Proc : Tip(p) \in MState
  BY DEF TypeOK, Tip

LEMMA TipJournalledStep ==
    ASSUME TypeOK, PcState, MachineSteps, TipJournalled,
           NEW p \in Proc, CookStep(p) \/ Crash(p)
    PROVE  TipJournalled'
  <1>0. /\ task' = task /\ task \in [Proc -> Task]
        /\ \A q \in Proc : Tip(q) \in MState
        /\ \A q \in Proc : q # p =>
              (Writing(q)' <=> Writing(q)) /\ Tip(q)' = Tip(q)
    BY OthersStay, TipType DEF Writing, Tip, TypeOK
  <1>1. CASE WriteJournal(p)
    <2>1. /\ Journalled(p, task[p], mstate[p])'
          /\ \A q \in Proc, u \in Task, s \in MState :
                q # p \/ u # task[p] => (Journalled(q, u, s)' <=> Journalled(q, u, s))
      BY <1>1, RowIsLast
    <2>2. Tip(p)' = mstate[p] /\ mstate' = mstate
      BY <1>1, AfterJournalType DEF WriteJournal, Goto, MidTransition, TypeOK, Tip
    <2>3. Journalled(p, task[p], Tip(p))'
      BY <2>1, <2>2 DEF Journalled
    <2>4. ASSUME NEW q \in Proc, q # p, Writing(q)'
          PROVE  Journalled(q, task[q], Tip(q))'
      <3>1. Journalled(q, task[q], Tip(q)) /\ Tip(q)' = Tip(q) /\ task[q] \in Task
        BY <1>0, <2>4 DEF TipJournalled
      <3>2. PICK s \in MState : s = Tip(q)
        BY <1>0
      <3>3. Journalled(q, task[q], s)'
        <4>1. PICK u \in Task : u = task[q]
          BY <3>1
        <4>2. Journalled(q, u, s)
          BY <3>1, <3>2, <4>1 DEF Journalled
        <4>3. Journalled(q, u, s)'
          BY <2>1, <2>4, <4>2
        <4> QED
          BY <1>0, <4>1, <4>3 DEF Journalled
      <3> QED
        BY <3>1, <3>2, <3>3 DEF Journalled
    <2> QED
      BY <2>3, <2>4 DEF TipJournalled, Journalled
  <1>2. CASE ~WriteJournal(p)
    <2>1. /\ journal' = journal
          /\ Writing(p)' => Writing(p) /\ Tip(p)' = Tip(p)
      BY <1>2, TipStep
    <2> QED
      BY <1>0, <2>1 DEF TipJournalled, Journalled, RowsOf, LastRow
  <1> QED
    BY <1>1, <1>2

\* The lock of p after p's own step.
LEMMA HeldOwnStep ==
    ASSUME TypeOK, PcState, OwnLock, MachineSteps, LagInv,
           NEW p \in Proc, CookStep(p) \/ Crash(p),
           NEW t \in Task, lock'[t].pid = p
    PROVE  Held(p, t)'
  <1>0. /\ task' = task /\ task \in [Proc -> Task] /\ task[p] \in Task
        /\ pc \in [Proc -> PcStates]
        /\ p # NoProc
        /\ TornLock.pid = NoProc /\ NoLock.pid = NoProc
    BY OthersStay, ConstantsAssumption DEF TypeOK, TornLock, NoLock
  <1>1. CASE LockCreate(p)
    <2>1. t = task[p]
      <3>1. pc[p] = "lockWrite"
        BY <1>1 DEF LockCreate
      <3>2. t # task[p] => lock'[t] = lock[t]
        BY <1>1 DEF LockCreate, TypeOK
      <3> QED
        BY <3>1, <3>2 DEF LagInv, Held
    <2>2. /\ lock'[t].state = "created" /\ mstate'[p] = "created"
          /\ pc'[p] = "journal" /\ journal' = journal
      BY <1>0, <1>1, <2>1 DEF LockCreate, SetState, Goto, TypeOK
    <2>3. mstate[p] = "none" /\ Writing(p) /\ Tip(p) = "none"
      BY <1>1 DEF LockCreate, PcState, Writing, Tip, MidTransition
    <2>4. Journalled(p, t, "none")
      BY <2>1, <2>3 DEF LagInv, TipJournalled
    <2>5. "none" \in MState /\ IsLegalTransition("none", "created")
      BY DEF MState, IsLegalTransition, Rank
    <2>6. Journalled(p, t, "none")'
      BY <2>2, <2>4, <2>5, SameJournal
    <2> QED
      BY <1>0, <2>1, <2>2, <2>5, <2>6 DEF Held, Lags
  <1>2. CASE UpdateWrite(p)
    <2>1. /\ lock' = [lock EXCEPT ![task[p]] = [pid |-> p, state |-> mstate[p]]]
          /\ pc[p] = "updWrite"
      BY <1>2, UpdateWritesOwn
    <2>2. t = task[p]
      <3>1. t # task[p] => lock'[t] = lock[t]
        BY <2>1 DEF TypeOK
      <3> QED
        BY <3>1 DEF LagInv, Held
    <2>3. /\ lock'[t].state = mstate[p] /\ mstate' = mstate
          /\ pc'[p] = "journal" /\ journal' = journal
      BY <1>0, <1>2, <2>1, <2>2 DEF UpdateWrite, Goto, TypeOK
    <2>4. Writing(p) /\ Tip(p) = from[p] /\ from[p] \in MState
      BY <2>1 DEF Writing, Tip, MidTransition, TypeOK
    <2>5. Journalled(p, t, from[p]) /\ IsLegalTransition(from[p], mstate[p])
      BY <2>1, <2>2, <2>4 DEF LagInv, TipJournalled, MachineSteps, MidTransition
    <2>6. PICK last \in MState : last = from[p]
      BY <2>4
    <2>7. Journalled(p, t, last)'
      BY <2>3, <2>5, <2>6, SameJournal
    <2> QED
      BY <1>0, <2>2, <2>3, <2>5, <2>6, <2>7 DEF Held, Lags
  <1>3. CASE ~LockCreate(p) /\ ~UpdateWrite(p)
    <2>1. lock'[t] = lock[t]
      BY <1>0, <1>3, LockNames
    <2>2. Held(p, t)
      BY <2>1 DEF LagInv
    <2>3. CASE WriteJournal(p)
      <3>1. /\ Journalled(p, task[p], mstate[p])'
            /\ lock[t].state = mstate[p] /\ t = task[p]
            /\ mstate' = mstate /\ mstate[p] \in MState
        BY <2>2, <2>3, RowIsLast DEF WriteJournal, Held, TypeOK
      <3>2. Tip(p)' = mstate[p] /\ pc'[p] \in {"work", "shared", "done", "remove", "advance"}
        BY <2>3, AfterJournalType DEF WriteJournal, Goto, MidTransition, TypeOK, Tip
      <3>3. Lags(p, t)'
        BY <1>0, <2>1, <3>1 DEF Lags, Journalled
      <3> QED
        BY <1>0, <2>1, <3>1, <3>2, <3>3 DEF Held
    <2>4. CASE ~WriteJournal(p)
      <3>1. /\ journal' = journal
            /\ Writing(p)' => Writing(p) /\ Tip(p)' = Tip(p)
        BY <2>4, TipStep
      <3>2. Lags(p, t)'
        BY <2>1, <2>2, <3>1, SameJournal DEF Lags, Held
      <3>3. t = task'[p]
        BY <1>0, <2>2 DEF Held
      <3>4. /\ pc'[p] \notin {"idle", "gitAdd", "lockRead", "lockWrite"}
            /\ pc'[p] = "journal" => Unlink(p)
            /\ pc'[p] \in {"updRead", "updWrite", "work", "advance", "remove", "unlink"}
                 => pc[p] \in {"updRead", "updWrite", "work", "advance", "remove", "unlink"}
        BY <1>0, <1>3, <2>2, <2>4, CookStep(p) \/ Crash(p)
           DEF Held, Goto, CookStep, Start, GitAddOk, GitAddFail,
               LockProbeOk, LockProbeThrows, SpawnSucceeds, SpawnFails, Advance,
               UpdateRead, UpdateThrows, GitRemoveOk, GitRemoveFail, Unlink, Exit, Crash
      <3>5. ~Unlink(p)
        BY <1>0, <3>3 DEF Unlink, TypeOK
      <3> QED
        BY <2>1, <2>2, <3>1, <3>2, <3>3, <3>4, <3>5 DEF Held, Writing
    <2> QED
      BY <2>3, <2>4
  <1> QED
    BY <1>1, <1>2, <1>3

\* The lock of q after a step of another.
LEMMA HeldOtherStep ==
    ASSUME TypeOK, PcState, OwnLock, LagInv,
           NEW p \in Proc, CookStep(p) \/ Crash(p),
           NEW q \in Proc, q # p, NEW t \in Task, lock'[t].pid = q
    PROVE  Held(q, t)'
  <1>1. lock'[t] = lock[t]
    BY LockNames, ConstantsAssumption
  <1>2. Held(q, t)
    BY <1>1 DEF LagInv
  <1>3. /\ task' = task /\ pc'[q] = pc[q] /\ mstate'[q] = mstate[q]
        /\ Tip(q)' = Tip(q)
    BY OthersStay DEF Tip
  <1>4. Lags(q, t)'
    <2>1. PICK last \in MState :
              /\ Journalled(q, t, last)
              /\ lock[t].state = last \/ IsLegalTransition(last, lock[t].state)
      BY <1>2 DEF Held, Lags
    <2>2. Journalled(q, t, last)'
      <3>1. CASE WriteJournal(p)
        BY <2>1, <3>1, RowIsLast
      <3>2. CASE ~WriteJournal(p)
        <4>1. journal' = journal
          BY <3>2, CookStep(p) \/ Crash(p)
             DEF diskVars, CookStep, Start, GitAddOk, GitAddFail, LockProbeOk,
                 LockProbeThrows, LockCreate, SpawnSucceeds, SpawnFails, Advance,
                 UpdateRead, UpdateThrows, UpdateWrite, GitRemoveOk,
                 GitRemoveFail, Unlink, Exit, Crash
        <4> QED
          BY <2>1, <4>1, SameJournal
      <3> QED
        BY <3>1, <3>2
    <2> QED
      BY <1>1, <2>1, <2>2 DEF Lags
  <1> QED
    BY <1>1, <1>2, <1>3, <1>4 DEF Held

LEMMA LagStep ==
    ASSUME "force" \notin Operator, TypeOK, TypeOK', PcState, OwnLock, MachineSteps,
           LagInv, [Next]_vars
    PROVE  LagInv'
  <1>1. ASSUME NEW p \in Proc, CookStep(p) \/ Crash(p)
        PROVE  LagInv'
    <2>1. sweep' = sweep
      BY <1>1 DEF CookStep, Start, GitAddOk, GitAddFail, LockProbeOk,
         LockProbeThrows, LockCreate, WriteJournal, SpawnSucceeds, SpawnFails,
         Advance, UpdateRead, UpdateThrows, UpdateWrite, GitRemoveOk,
         GitRemoveFail, Unlink, Exit, Crash
    <2>2. TipJournalled'
      BY <1>1, TipJournalledStep DEF LagInv
    <2>3. ASSUME NEW q \in Proc, NEW t \in Task, lock'[t].pid = q
          PROVE  Held(q, t)'
      <3>1. CASE q = p
        BY <1>1, <2>3, <3>1, HeldOwnStep
      <3>2. CASE q # p
        BY <1>1, <2>3, <3>2, HeldOtherStep
      <3> QED
        BY <3>1, <3>2
    <2> QED
      BY <2>1, <2>2, <2>3 DEF LagInv
  <1>2. CASE CleanupStep
    <2>1. /\ UNCHANGED <<pc, task, mstate, from>>
          /\ \A t \in Task : lock'[t] = lock[t] \/ lock'[t] = NoLock
      BY <1>2, CleanupLock
    <2>2. journal' = journal /\ sweep'.step \in {"idle", "unlink"}
      BY <1>2, ChooseTask DEF CleanupStep, PurgeRead, ForceGit, PurgeUnlink, ForceJournal,
         ForceLock, diskVars, SweepGoto, LagInv
    <2>3. \A p \in Proc : (Writing(p)' <=> Writing(p)) /\ Tip(p)' = Tip(p)
      BY <2>1 DEF Writing, Tip
    <2>4. TipJournalled'
      BY <2>1, <2>2, <2>3 DEF LagInv, TipJournalled, Journalled, RowsOf, LastRow
    <2>5. ASSUME NEW q \in Proc, NEW t \in Task, lock'[t].pid = q
          PROVE  Held(q, t)'
      <3>1. lock'[t] = lock[t]
        BY <2>1, <2>5, ConstantsAssumption DEF NoLock
      <3>2. Held(q, t)
        BY <2>5, <3>1 DEF LagInv
      <3>3. Lags(q, t)'
        BY <2>2, <3>1, <3>2, SameJournal DEF Held, Lags
      <3> QED
        BY <2>1, <2>3, <3>1, <3>2, <3>3 DEF Held
    <2> QED
      BY <2>2, <2>4, <2>5 DEF LagInv
  <1>3. CASE UNCHANGED vars
    BY <1>3 DEF vars, LagInv, TipJournalled, Held, Lags, Journalled, RowsOf, LastRow,
       Writing, Tip
  <1> QED
    BY <1>1, <1>2, <1>3 DEF Next

LEMMA InitLag == Init => LagInv
  <1> SUFFICES ASSUME Init PROVE LagInv
    OBVIOUS
  <1>1. \A p \in Proc, t \in Task : lock[t].pid # p
    BY ConstantsAssumption DEF Init, NoLock
  <1>2. TipJournalled
    BY DEF Init, TipJournalled, Journalled, RowsOf, Tip, MidTransition
  <1> QED
    BY <1>1, <1>2, ChooseTask DEF Init, LagInv

\* Whatever instant a cook dies at, the state in its lock is the last one it
\* journalled or one legal transition ahead of it; locks may be pruned at any
\* time, but `swt cleanup --force`, which removes journals, is not used.
THEOREM LockLagsJournal == "force" \notin Operator => (Spec => []JournalLagsLock)
  <1> SUFFICES ASSUME "force" \notin Operator PROVE Spec => []JournalLagsLock
    OBVIOUS
  <1> DEFINE Inv == /\ TypeOK /\ PcState /\ WorktreeIsolation /\ OwnLock
                    /\ PathInv /\ LagInv
  <1>1. Init => Inv
    BY InitTypes, InitIsolation, InitOwnLock, InitPath, InitLag
  <1>2. Inv /\ [Next]_vars => Inv'
    <2> SUFFICES ASSUME Inv, [Next]_vars PROVE Inv'
      OBVIOUS
    <2>1. TypeOK' /\ PcState'
      BY StepTypes
    <2>2. WorktreeIsolation' /\ OwnLock' /\ PathInv'
      BY IsolationStep, OwnLockStep, PathStep DEF Disciplined
    <2>3. LagInv'
      BY <2>1, LagStep DEF PathInv
    <2> QED
      BY <2>1, <2>2, <2>3
  <1>3. Inv => JournalLagsLock
    BY DEF LagInv, Held, Lags, JournalLagsLock
  <1> QED
    BY <1>1, <1>2, <1>3, PTL DEF Spec
=============================================================================
