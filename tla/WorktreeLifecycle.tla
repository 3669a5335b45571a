-------------------------- MODULE WorktreeLifecycle --------------------------
(***************************************************************************)
(* The life of a task's git worktree under `worktree_isolation: on`: every *)
(* cook process drives its own WorktreeManager through                     *)
(*   none -> created -> ... -> harvested -> removed   (or -> failed)       *)
(* while all processes share, per task, the directory that git keeps, the  *)
(* lock file and the journal file.  One action is one step between two     *)
(* awaits that touches something shared; `swt cleanup` runs next to them.  *)
(***************************************************************************)
EXTENDS Integers, Sequences, FiniteSets

CONSTANTS
    Proc,      \* pids; a pid runs at most one cook and is never reused
    Task,      \* task ids
    NoProc,    \* "no pid": the pid of an absent or unreadable lock
    Free,      \* see WorktreeSlots
    Abandoned, \* see WorktreeSlots
    Operator,  \* the `swt cleanup` modes the operator uses
    ForceLive  \* may `--force` be aimed at a task some cook is working on?

ASSUME ConstantsAssumption ==
    /\ {NoProc, Free, Abandoned} \cap Proc = {}
    /\ Free # Abandoned
    /\ Task # {}
    /\ Operator \subseteq {"prune", "force"}
    /\ ForceLive \in BOOLEAN

VARIABLES
    worktree,  \* worktree[t]: does git have wt-<t> ?
    lock,      \* lock[t]: the envelope in task-<t>.lock
    journal,   \* journal[t]: the lines of wt-<t>.jsonl
    pc,        \* pc[p]: what process p does next
    task,      \* task[p]: the task p works on
    mstate,    \* mstate[p]: p's WorktreeManager.states entry
    from,      \* from[p]: the state p's current transition leaves
    env,       \* env[p]: the envelope LockHandle.update has read
    sweep      \* what the running `swt cleanup` does next

vars == <<worktree, lock, journal, pc, task, mstate, from, env, sweep>>
procVars == <<pc, task, mstate, from, env>>
diskVars == <<worktree, lock, journal>>
-----------------------------------------------------------------------------
(* The finite state machine. *)

Rank == [none |-> 0, created |-> 1, claimed |-> 2, dispatched |-> 3,
         agent_running |-> 4, agent_complete |-> 5, harvested |-> 6,
         removed |-> 7]
LinearState == {"created", "claimed", "dispatched", "agent_running",
                "agent_complete", "harvested", "removed"}
WState == LinearState \cup {"failed"}
MState == WState \cup {"none"}

\* `failed` from every state that is not terminal, else one step forward.
IsLegalTransition(a, b) ==
    IF b = "failed" THEN a \notin {"removed", "failed"}
    ELSE a # "failed" /\ Rank[b] = Rank[a] + 1

(* Lock files. *)

Envelope == [pid : Proc, state : WState]
NoLock == [pid |-> NoProc, state |-> "none"]  \* ENOENT
TornLock == [pid |-> NoProc, state |-> "torn"]  \* does not parse
Entry == [pid : Proc, from : MState, to : WState]

\* process.kill(pid, 0): only a running process answers.
Live(p) == p \in Proc /\ pc[p] \notin {"idle", "exited"}

\* A read now may overlap a write of a live process (writeFile truncates,
\* then fills): it returns the old text or a text that does not parse.
BeingWritten(t, p) ==
    \E q \in Proc \ {p} : task[q] = t /\ pc[q] \in {"lockWrite", "updWrite"}

\* The worktree of task[p] is p's to work in.
OwnPc == {"lockRead", "lockWrite", "work", "advance", "updRead", "updWrite",
          "remove"}
Owns(p) ==
    \/ pc[p] \in OwnPc
    \/ /\ pc[p] = "journal"
       /\ mstate[p] # "removed"
       /\ ~(from[p] = "none" /\ mstate[p] = "failed")

PcStates == OwnPc \cup {"idle", "gitAdd", "journal", "unlink", "shared", "done",
                        "exited"}
-----------------------------------------------------------------------------
NoSweep == [step |-> "idle", task |-> CHOOSE t \in Task : TRUE]

Init ==
    /\ worktree = [t \in Task |-> FALSE]
    /\ lock = [t \in Task |-> NoLock]
    /\ journal = [t \in Task |-> <<>>]
    /\ pc = [p \in Proc |-> "idle"]
    /\ task \in [Proc -> Task]
    /\ mstate = [p \in Proc |-> "none"]
    /\ from = [p \in Proc |-> "none"]
    /\ env = [p \in Proc |-> NoLock]
    /\ sweep = NoSweep

Goto(p, label) == pc' = [pc EXCEPT ![p] = label]

\* Seeded fault: the journal's `from` is read after the state is set.
SetStateStaleFrom(p, to) ==
    /\ IsLegalTransition(mstate[p], to)
    /\ from' = [from EXCEPT ![p] = to]
    /\ mstate' = [mstate EXCEPT ![p] = to]

\* states.set(taskId, to), remembering the state that is left
SetState(p, to) ==
    /\ IsLegalTransition(mstate[p], to)
    /\ from' = [from EXCEPT ![p] = mstate[p]]
    /\ mstate' = [mstate EXCEPT ![p] = to]

(* WorktreeManager.create *)

Start(p) ==
    /\ pc[p] = "idle"
    /\ Goto(p, "gitAdd")
    /\ UNCHANGED <<diskVars, task, mstate, from, env, sweep>>

\* Seeded fault: `git worktree add --force` over an existing directory.
GitAddForced(p) ==
    /\ pc[p] = "gitAdd"
    /\ worktree' = [worktree EXCEPT ![task[p]] = TRUE]
    /\ Goto(p, "lockRead")
    /\ UNCHANGED <<lock, journal, task, mstate, from, env, sweep>>

GitAddOk(p) ==
    /\ pc[p] = "gitAdd"
    /\ ~worktree[task[p]]
    /\ worktree' = [worktree EXCEPT ![task[p]] = TRUE]
    /\ Goto(p, "lockRead")
    /\ UNCHANGED <<lock, journal, task, mstate, from, env, sweep>>

\* Seeded fault: the exit code of git is not looked at.
GitAddFailIgnored(p) ==
    /\ pc[p] = "gitAdd"
    /\ Goto(p, "lockRead")
    /\ UNCHANGED <<diskVars, task, mstate, from, env, sweep>>

\* The directory exists already, or git fails for a reason of its own.
GitAddFail(p) ==
    /\ pc[p] = "gitAdd"
    /\ SetState(p, "failed")
    /\ Goto(p, "journal")
    /\ UNCHANGED <<diskVars, task, env, sweep>>

\* Seeded fault: the holder's liveness is not probed.
LockProbeBlind(p) ==
    /\ pc[p] = "lockRead"
    /\ lock[task[p]] # TornLock
    /\ Goto(p, "lockWrite")
    /\ UNCHANGED <<diskVars, task, mstate, from, env, sweep>>

\* acquireLock, conflict probe: absent or dead holder.
LockProbeOk(p) ==
    /\ pc[p] = "lockRead"
    /\ lock[task[p]] # TornLock
    /\ ~Live(lock[task[p]].pid)
    /\ Goto(p, "lockWrite")
    /\ UNCHANGED <<diskVars, task, mstate, from, env, sweep>>

\* LockAcquireConflictError or LockFileParseError: create throws and
\* acquireWorktreeForSpawn falls back to the shared tree.
LockProbeThrows(p) ==
    /\ pc[p] = "lockRead"
    /\ \/ BeingWritten(task[p], p)
       \/ lock[task[p]] = TornLock
       \/ Live(lock[task[p]].pid)
    /\ Goto(p, "shared")
    /\ UNCHANGED <<diskVars, task, mstate, from, env, sweep>>

LockCreate(p) ==
    /\ pc[p] = "lockWrite"
    /\ lock' = [lock EXCEPT ![task[p]] = [pid |-> p, state |-> "created"]]
    /\ SetState(p, "created")
    /\ Goto(p, "journal")
    /\ UNCHANGED <<worktree, journal, task, env, sweep>>

(* writeJournal, and where the method that called it goes on *)

AfterJournal(a, b) ==
    CASE b = "created" -> "work"
      [] b = "failed" /\ a = "none" -> "shared"
      [] b \in {"failed", "removed"} -> "done"
      [] b = "harvested" -> "remove"
      [] OTHER -> "advance"

WriteJournal(p) ==
    /\ pc[p] = "journal"
    /\ journal' = [journal EXCEPT ![task[p]] =
                     Append(@, [pid |-> p, from |-> from[p], to |-> mstate[p]])]
    /\ Goto(p, AfterJournal(from[p], mstate[p]))
    /\ UNCHANGED <<worktree, lock, task, mstate, from, env, sweep>>

(* The cook turn itself, then the tail end of the machine *)

SpawnSucceeds(p) ==
    /\ pc[p] = "work"
    /\ Goto(p, "advance")
    /\ UNCHANGED <<diskVars, task, mstate, from, env, sweep>>

\* keepWorktreeForForensics -> fail
SpawnFails(p) ==
    /\ pc[p] = "work"
    /\ SetState(p, "failed")
    /\ Goto(p, "updRead")
    /\ UNCHANGED <<diskVars, task, env, sweep>>

\* Seeded fault: the journal is written without the lock update before it.
AdvanceWithoutLock(p) ==
    /\ pc[p] = "advance"
    /\ \E to \in LinearState \ {"removed"} : SetState(p, to)
    /\ Goto(p, "journal")
    /\ UNCHANGED <<diskVars, task, env, sweep>>

\* claim, dispatch, markAgentRunning, markAgentComplete, harvest
Advance(p) ==
    /\ pc[p] = "advance"
    /\ \E to \in LinearState \ {"removed"} : SetState(p, to)
    /\ Goto(p, "updRead")
    /\ UNCHANGED <<diskVars, task, env, sweep>>

\* LockHandle.update reads the envelope ...
UpdateRead(p) ==
    /\ pc[p] = "updRead"
    /\ lock[task[p]] \notin {NoLock, TornLock}
    /\ env' = [env EXCEPT ![p] = lock[task[p]]]
    /\ Goto(p, "updWrite")
    /\ UNCHANGED <<diskVars, task, mstate, from, sweep>>

\* ... or throws (ENOENT, parse error); cook prints a warning and goes on.
UpdateThrows(p) ==
    /\ pc[p] = "updRead"
    /\ BeingWritten(task[p], p) \/ lock[task[p]] \in {NoLock, TornLock}
    /\ Goto(p, "done")
    /\ UNCHANGED <<diskVars, task, mstate, from, env, sweep>>

\* ... and writes back what it read with the new state.
UpdateWrite(p) ==
    /\ pc[p] = "updWrite"
    /\ lock' = [lock EXCEPT ![task[p]] = [env[p] EXCEPT !.state = mstate[p]]]
    /\ Goto(p, "journal")
    /\ UNCHANGED <<worktree, journal, task, mstate, from, env, sweep>>

GitRemoveOk(p) ==
    /\ pc[p] = "remove"
    /\ worktree[task[p]]
    /\ worktree' = [worktree EXCEPT ![task[p]] = FALSE]
    /\ SetState(p, "removed")
    /\ Goto(p, "unlink")
    /\ UNCHANGED <<lock, journal, task, env, sweep>>

\* `git worktree remove` without --force refuses a dirty tree.
GitRemoveFail(p) ==
    /\ pc[p] = "remove"
    /\ SetState(p, "failed")
    /\ Goto(p, "updRead")
    /\ UNCHANGED <<diskVars, task, env, sweep>>

\* Seeded fault: the handle is dropped but the file stays.
UnlinkForgotten(p) ==
    /\ pc[p] = "unlink"
    /\ Goto(p, "journal")
    /\ UNCHANGED <<diskVars, task, mstate, from, env, sweep>>

\* LockHandle.release: unlink by path, whoever the lock belongs to by now.
Unlink(p) ==
    /\ pc[p] = "unlink"
    /\ lock' = [lock EXCEPT ![task[p]] = NoLock]
    /\ Goto(p, "journal")
    /\ UNCHANGED <<worktree, journal, task, mstate, from, env, sweep>>

\* The command returns (after a turn in the shared tree, or after its own).
Exit(p) ==
    /\ pc[p] \in {"shared", "done"}
    /\ Goto(p, "exited")
    /\ UNCHANGED <<diskVars, task, mstate, from, env, sweep>>

\* SIGKILL, or an exception no handler catches.
Crash(p) ==
    /\ Live(p)
    /\ Goto(p, "exited")
    /\ \/ UNCHANGED lock
       \/ /\ pc[p] \in {"lockWrite", "updWrite"}
          /\ lock' = [lock EXCEPT ![task[p]] = TornLock]
    /\ UNCHANGED <<worktree, journal, task, mstate, from, env, sweep>>
-----------------------------------------------------------------------------
(* `swt cleanup`: one at a time; each step is one file-system call. *)

SweepGoto(step, t) == sweep' = [step |-> step, task |-> t]

\* Seeded fault: purgeCorrupt is not passed on.
PurgeReadKeepsCorrupt(t) ==
    /\ "prune" \in Operator
    /\ sweep.step = "idle"
    /\ lock[t] \notin {NoLock, TornLock}
    /\ ~Live(lock[t].pid)
    /\ SweepGoto("unlink", t)
    /\ UNCHANGED <<diskVars, procVars>>

\* purgeStaleLocks({purgeCorrupt: true}): the holder read is dead, or the
\* file does not parse.
PurgeRead(t) ==
    /\ "prune" \in Operator
    /\ sweep.step = "idle"
    /\ \/ lock[t] = TornLock
       \/ lock[t] # NoLock /\ ~Live(lock[t].pid)
       \/ BeingWritten(t, NoProc)
    /\ SweepGoto("unlink", t)
    /\ UNCHANGED <<diskVars, procVars>>

PurgeUnlink ==
    /\ sweep.step = "unlink"
    /\ lock' = [lock EXCEPT ![sweep.task] = NoLock]
    /\ sweep' = NoSweep
    /\ UNCHANGED <<worktree, journal, procVars>>

\* cleanup --force: git worktree remove --force, whose failure is ignored ...
ForceGit(t) ==
    /\ "force" \in Operator
    /\ sweep.step = "idle"
    /\ ForceLive \/ \A p \in Proc : ~(Owns(p) /\ task[p] = t)
    /\ \/ UNCHANGED worktree
       \/ worktree' = [worktree EXCEPT ![t] = FALSE]
    /\ SweepGoto("rmJournal", t)
    /\ UNCHANGED <<lock, journal, procVars>>

\* ... then rm the journal, then rm the lock.
ForceJournal ==
    /\ sweep.step = "rmJournal"
    /\ journal' = [journal EXCEPT ![sweep.task] = <<>>]
    /\ SweepGoto("rmLock", sweep.task)
    /\ UNCHANGED <<worktree, lock, procVars>>

ForceLock ==
    /\ sweep.step = "rmLock"
    /\ lock' = [lock EXCEPT ![sweep.task] = NoLock]
    /\ sweep' = NoSweep
    /\ UNCHANGED <<worktree, journal, procVars>>
-----------------------------------------------------------------------------
CookStep(p) ==
    \/ Start(p) \/ GitAddOk(p) \/ GitAddFail(p)
    \/ LockProbeOk(p) \/ LockProbeThrows(p) \/ LockCreate(p)
    \/ WriteJournal(p)
    \/ SpawnSucceeds(p) \/ SpawnFails(p) \/ Advance(p)
    \/ UpdateRead(p) \/ UpdateThrows(p) \/ UpdateWrite(p)
    \/ GitRemoveOk(p) \/ GitRemoveFail(p) \/ Unlink(p)
    \/ Exit(p)

CleanupStep ==
    \/ \E t \in Task : PurgeRead(t) \/ ForceGit(t)
    \/ PurgeUnlink \/ ForceJournal \/ ForceLock

Next ==
    \/ \E p \in Proc : CookStep(p) \/ Crash(p)
    \/ CleanupStep

Spec == Init /\ [][Next]_vars
-----------------------------------------------------------------------------
(* Correctness *)

TypeOK ==
    /\ worktree \in [Task -> BOOLEAN]
    /\ lock \in [Task -> Envelope \cup {NoLock, TornLock}]
    /\ journal \in [Task -> Seq(Entry)]
    /\ pc \in [Proc -> PcStates]
    /\ task \in [Proc -> Task]
    /\ mstate \in [Proc -> MState]
    /\ from \in [Proc -> MState]
    /\ env \in [Proc -> Envelope \cup {NoLock, TornLock}]
    /\ sweep \in [step : {"idle", "unlink", "rmJournal", "rmLock"},
                   task : Task]

\* Two running cooks never work in the same worktree directory, and the
\* directory a cook works in is there (cook.ts: the orchestrator "runs in
\* its own working tree"), although the lock file alone would not keep them
\* apart: its probe and its write are separate steps.
OneOwner ==
    \A p, q \in Proc : Owns(p) /\ Owns(q) /\ task[p] = task[q] => p = q
OwnerHasWorktree == \A p \in Proc : Owns(p) => worktree[task[p]]
WorktreeIsolation == OneOwner /\ OwnerHasWorktree

\* From the end of create until remove unlinks it, the lock file of the task
\* names the cook that works on it, so that no other cook gets past the
\* conflict probe of acquireLock.
HoldsLock(p) == Owns(p) /\ pc[p] \notin {"lockRead", "lockWrite"}
LiveOwnerLocked == \A p \in Proc : HoldsLock(p) => lock[task[p]].pid = p

\* Crash consistency: whatever instant a cook dies at, the state in its lock
\* is the last one it journalled or exactly one transition ahead of it.
RowsOf(p, t) == {i \in DOMAIN journal[t] : journal[t][i].pid = p}
LastRow(p, t, i) == i \in RowsOf(p, t) /\ \A j \in RowsOf(p, t) : j <= i
Journalled(p, t, s) ==
    \/ RowsOf(p, t) = {} /\ s = "none"
    \/ \E i \in RowsOf(p, t) : LastRow(p, t, i) /\ journal[t][i].to = s
JournalLagsLock ==
    \A t \in Task :
        lock[t].pid \in Proc =>
            \E last \in MState :
                /\ Journalled(lock[t].pid, t, last)
                /\ lock[t].state = last \/ IsLegalTransition(last, lock[t].state)

\* What one cook writes into a journal that others append to as well is a
\* path of the machine without gaps (worktree-fsm.chaos.test.ts).
JournalIsFsmPath ==
    \A t \in Task, p \in Proc : \A i \in RowsOf(p, t) :
        /\ IsLegalTransition(journal[t][i].from, journal[t][i].to)
        /\ \A j \in RowsOf(p, t) :
              j < i /\ (\A k \in RowsOf(p, t) : k <= j \/ i <= k)
                  => journal[t][i].from = journal[t][j].to

\* A cook that returned after removing its worktree left no lock behind.
NoLockLeak ==
    \A p \in Proc :
        pc[p] = "done" /\ mstate[p] = "removed" => lock[task[p]].pid # p

\* The worktree slots of WorktreeSlots are what the processes implement.
SlotOf(t) ==
    IF ~worktree[t] THEN Free
    ELSE IF \E p \in Proc : Owns(p) /\ task[p] = t
         THEN CHOOSE p \in Proc : Owns(p) /\ task[p] = t
         ELSE Abandoned
Slots == INSTANCE WorktreeSlots WITH slot <- [t \in Task |-> SlotOf(t)]
ImplementsSlots == Slots!Spec

\* `swt cleanup --prune-locks` is run again and again, and each cleanup that
\* has begun comes to its end: a lock whose holder is dead or whose file does
\* not parse does not stay.
StaleLock(t) == lock[t] # NoLock /\ ~Live(lock[t].pid)
FairSpec ==
    /\ Spec
    /\ WF_vars(PurgeUnlink \/ ForceJournal \/ ForceLock)
    /\ \A t \in Task : SF_vars(PurgeRead(t))
StaleLocksGo == \A t \in Task : StaleLock(t) ~> ~StaleLock(t)

(* Claims of the documentation that the code does not keep. *)

\* lock-files.ts:240: purging deletes locks "whose holder PID is dead".
PurgeDeletesDeadOnly ==
    [][\A t \in Task :
          sweep.step = "unlink" /\ lock'[t] = NoLock /\ lock[t] # NoLock
              => ~Live(lock[t].pid) \/ pc' # pc]_vars

\* worktree-manager.ts:171: managers in two processes are safe because the
\* journal is append-only: its last line is the state of the worktree.
JournalReflectsOwner ==
    \A p \in Proc :
        pc[p] = "work" =>
            LET j == journal[task[p]] IN j[Len(j)].to = mstate[p]

\* cleanup.ts:7: --list shows every active worktree, found by its journal
\* or its lock, also after a crash.
EveryWorktreeListed ==
    \A t \in Task :
        worktree[t] /\ (\A p \in Proc : ~Owns(p) \/ task[p] # t)
            => journal[t] # <<>> \/ lock[t] \notin {NoLock, TornLock}
=============================================================================
