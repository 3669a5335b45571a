---------------------------- MODULE WorktreeSlots ----------------------------
(***************************************************************************)
(* What worktree isolation promises about `.swt-planning/parallel/wt-<id>`: *)
(* the directory of a task is a slot that at most one cook holds, that is   *)
(* handed over only by being given back, and that a failed or crashed cook  *)
(* leaves behind for forensics until the operator reaps it.                 *)
(* WorktreeLifecycle is shown to implement this module.                     *)
(***************************************************************************)
CONSTANTS
    Proc,       \* cook processes, by pid
    Task,       \* task ids, `<mode>-<phase>`
    Free,       \* the slot has no directory
    Abandoned   \* the directory exists and no live cook works in it

VARIABLE slot

Init == slot = [t \in Task |-> Free]

Acquire(p, t) ==
    /\ slot[t] = Free
    /\ \A u \in Task : slot[u] # p
    /\ slot' = [slot EXCEPT ![t] = p]

GiveBack(p, t) ==
    /\ slot[t] = p
    /\ slot' = [slot EXCEPT ![t] = Free]

Abandon(p, t) ==
    /\ slot[t] = p
    /\ slot' = [slot EXCEPT ![t] = Abandoned]

Reap(t) ==
    /\ slot[t] = Abandoned
    /\ slot' = [slot EXCEPT ![t] = Free]

Next ==
    \/ \E p \in Proc, t \in Task : Acquire(p, t) \/ GiveBack(p, t) \/ Abandon(p, t)
    \/ \E t \in Task : Reap(t)

Spec == Init /\ [][Next]_slot
=============================================================================
