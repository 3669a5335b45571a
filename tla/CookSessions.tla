----------------------------- MODULE CookSessions -----------------------------
(***************************************************************************)
(* What crash recovery promises of the cook sessions of a project           *)
(* (docs/operations/crash-recovery.md): one session runs at a time, and a   *)
(* session that crashed is noticed, by a cook.resume row in its journal,    *)
(* before another one runs.  The record cannot keep every session to this:  *)
(* some go astray, and nothing is promised of these, but that no session    *)
(* begins to run in the promised way while one of them is alive.            *)
(* CookExecution is shown to implement this module.                         *)
(***************************************************************************)
CONSTANT Session

VARIABLE state  \* state[s]: "new", "running", "ended", "crashed", "noticed",
                \* "astray" or "gone"

Init == state = [s \in Session |-> "new"]

Goto(s, x) == state' = [state EXCEPT ![s] = x]

\* No session runs, none has crashed that nobody has noticed, none is astray.
Run(s) ==
    /\ state[s] = "new"
    /\ \A r \in Session : state[r] \notin {"running", "crashed", "astray"}
    /\ Goto(s, "running")

\* A cook that is cancelled before it runs ends as well.
End(s) == state[s] \in {"new", "running"} /\ Goto(s, "ended")
Crash(s) == state[s] = "running" /\ Goto(s, "crashed")
Notice(s) == state[s] = "crashed" /\ Goto(s, "noticed")

\* Only sessions that do not run yet go astray: one whose record fails, or two
\* that start over one another.
Stray(S) ==
    /\ \A s \in S : state[s] = "new"
    /\ state' = [s \in Session |-> IF s \in S THEN "astray" ELSE state[s]]
Leave(s) == state[s] = "astray" /\ Goto(s, "gone")

Next ==
    \/ \E s \in Session : Run(s) \/ End(s) \/ Crash(s) \/ Notice(s) \/ Leave(s)
    \/ \E S \in SUBSET Session : Stray(S)

Spec == Init /\ [][Next]_state
=============================================================================
