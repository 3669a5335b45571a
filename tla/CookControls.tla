----------------------------- MODULE CookControls -----------------------------
(***************************************************************************)
(* Control signals: the dashboard writes `pause`, `resume` or `cancel` into *)
(* one small file per session; a cook reads and unlinks it at the entry of  *)
(* runMode and, once paused, at every poll.  The two sides are processes of *)
(* their own: each action is one call into the file system.                 *)
(***************************************************************************)
EXTENDS Integers, Sequences

CONSTANTS
    Session,    \* cook sessions, one process each
    NoSession,
    MaxWritten  \* bound: signals written per session

ASSUME ConstantsAssumption == NoSession \notin Session /\ MaxWritten \in Nat

VARIABLES
    sent,      \* sent[s]: the signals written for s so far
    file,      \* file[s]: which of them <s>.pending holds; or Absent, or Empty
    hand,      \* the write the dashboard is in the middle of
    pc,        \* pc[s]: where the cook is
    buf,       \* buf[s]: which signal it has read but not unlinked yet
    taken,     \* taken[s]: the signals readPendingSignal has returned to it
    recorded   \* session_id in the execution-state record

vars == <<sent, file, hand, pc, buf, taken, recorded>>

Absent == -1
Empty == 0      \* created or truncated, and not written
Action == {"pause", "resume", "cancel"}
Signal == [action : Action, by : {"user", "budget"}]

\* writeFileSync opens (and truncates) the file, then writes; `linked` until
\* the name is removed in between.
NoHand == [session |-> NoSession, signal |-> [action |-> "pause", by |-> "user"],
           linked |-> FALSE]
-----------------------------------------------------------------------------
Init ==
    /\ sent = [s \in Session |-> <<>>]
    /\ file = [s \in Session |-> Absent]
    /\ hand = NoHand
    /\ pc = [s \in Session |-> "idle"]
    /\ buf = [s \in Session |-> Empty]
    /\ taken = [s \in Session |-> <<>>]
    /\ recorded = NoSession

Goto(s, label) == pc' = [pc EXCEPT ![s] = label]

(* writePendingSignal, in the dashboard *)

Open(s, signal) ==
    /\ hand = NoHand
    /\ Len(sent[s]) < MaxWritten
    /\ hand' = [session |-> s, signal |-> signal, linked |-> TRUE]
    /\ file' = [file EXCEPT ![s] = Empty]
    /\ UNCHANGED <<sent, pc, buf, taken, recorded>>

\* POST /api/cook/:sessionId/control, from a user who has seen the session
Control(s, action) ==
    /\ pc[s] # "idle"
    /\ Open(s, [action |-> action, by |-> "user"])

\* budget.pause or budget.resume: to the session of the execution-state record
BudgetSignal(action) ==
    /\ recorded # NoSession
    /\ action \in {"pause", "resume"}
    /\ Open(recorded, [action |-> action, by |-> "budget"])

Write ==
    /\ hand # NoHand
    /\ LET s == hand.session
       IN /\ sent' = [sent EXCEPT ![s] = Append(@, hand.signal)]
          /\ file' = IF hand.linked
                     THEN [file EXCEPT ![s] = Len(sent'[s])] ELSE file
    /\ hand' = NoHand
    /\ UNCHANGED <<pc, buf, taken, recorded>>

DashboardDies ==
    /\ hand # NoHand
    /\ hand' = NoHand
    /\ UNCHANGED <<sent, file, pc, buf, taken, recorded>>

(* The cook, from its first event on *)

Start(s) ==
    /\ pc[s] = "idle"
    /\ Goto(s, "boundary")
    /\ UNCHANGED <<sent, file, hand, buf, taken, recorded>>

\* The user declines the confirmation, or the process dies.
Leave(s) ==
    /\ pc[s] \notin {"idle", "exited", "cancelled"}
    /\ Goto(s, "exited")
    /\ UNCHANGED <<sent, file, hand, buf, taken, recorded>>

\* readPendingSignal finds no file.
ReadNothing(s) ==
    /\ pc[s] = "boundary"
    /\ file[s] = Absent
    /\ Goto(s, "record")
    /\ UNCHANGED <<sent, file, hand, buf, taken, recorded>>

After == [boundary |-> "unlink", paused |-> "pausedUnlink"]

Read(s) ==
    /\ pc[s] \in DOMAIN After
    /\ file[s] # Absent
    /\ buf' = [buf EXCEPT ![s] = file[s]]
    /\ Goto(s, After[pc[s]])
    /\ UNCHANGED <<sent, file, hand, taken, recorded>>

\* Seeded fault: a paused cook listens for `cancel` only.
ObeyedCancelOnly(s) ==
    LET action == IF buf[s] = Empty THEN "none" ELSE sent[s][buf[s]].action
    IN IF action = "cancel" THEN "cancelled"
       ELSE IF action = "pause" \/ pc[s] = "pausedUnlink" THEN "paused"
       ELSE "record"

\* What checkBoundarySignal and waitForResumeOrCancel make of the text.
Obeyed(s) ==
    LET action == IF buf[s] = Empty THEN "none" ELSE sent[s][buf[s]].action
    IN CASE action = "cancel" -> "cancelled"
         [] action = "resume" -> "record"
         [] action = "pause" -> "paused"
         [] OTHER -> IF pc[s] = "unlink" THEN "record" ELSE "paused"

\* Seeded fault: the file is left where it is.
UnlinkForgotten(s) ==
    /\ pc[s] \in {"unlink", "pausedUnlink"}
    /\ taken' = [taken EXCEPT ![s] = IF buf[s] = Empty THEN @ ELSE Append(@, buf[s])]
    /\ Goto(s, Obeyed(s))
    /\ UNCHANGED <<sent, file, hand, buf, recorded>>

Unlink(s) ==
    /\ pc[s] \in {"unlink", "pausedUnlink"}
    /\ file' = [file EXCEPT ![s] = Absent]
    /\ hand' = IF hand.session = s THEN [hand EXCEPT !.linked = FALSE] ELSE hand
    /\ taken' = [taken EXCEPT ![s] = IF buf[s] = Empty THEN @ ELSE Append(@, buf[s])]
    /\ Goto(s, Obeyed(s))
    /\ UNCHANGED <<sent, buf, recorded>>

\* recordRunModeStart, after the one boundary of the run
Record(s) ==
    /\ pc[s] = "record"
    /\ recorded' = s
    /\ Goto(s, "running")
    /\ UNCHANGED <<sent, file, hand, buf, taken>>

Finish(s) ==
    /\ pc[s] = "running"
    /\ Goto(s, "exited")
    /\ UNCHANGED <<sent, file, hand, buf, taken, recorded>>
-----------------------------------------------------------------------------
CookStep(s) ==
    ReadNothing(s) \/ Read(s) \/ Unlink(s) \/ Record(s) \/ Finish(s)

Next ==
    \/ \E s \in Session :
          \/ \E action \in Action : Control(s, action)
          \/ Start(s) \/ CookStep(s) \/ Leave(s)
    \/ \E action \in Action : BudgetSignal(action)
    \/ Write \/ DashboardDies

Spec == Init /\ [][Next]_vars

\* Both processes go on with what they have begun; polls are repeated.
FairSpec ==
    /\ Spec
    /\ WF_vars(Write)
    /\ \A s \in Session : WF_vars(CookStep(s))
-----------------------------------------------------------------------------
(* Correctness *)

TypeOK ==
    /\ sent \in [Session -> Seq(Signal)]
    /\ file \in [Session -> Int]
    /\ hand \in [session : Session \cup {NoSession}, signal : Signal,
                 linked : BOOLEAN]
    /\ pc \in [Session -> {"idle", "boundary", "unlink", "paused", "pausedUnlink",
                           "record", "running", "exited", "cancelled"}]
    /\ buf \in [Session -> Nat]
    /\ taken \in [Session -> Seq(Nat)]
    /\ recorded \in Session \cup {NoSession}
    /\ \A s \in Session : file[s] \in Absent..Len(sent[s])

\* A signal is handed over once at most, and never after a newer one, for all
\* the overwriting, truncating and unlinking of one file by two processes.
Slot == INSTANCE SignalSlot
            WITH written <- [s \in Session |-> Len(sent[s])]
ImplementsSlot == Slot!Spec

\* A paused cook comes out of the pause when the last signal it is sent tells
\* it to.
Settled(s) == hand.session # s /\ Len(sent[s]) = MaxWritten
Told(s) == file[s] > 0 /\ sent[s][file[s]].action \in {"resume", "cancel"}
PausedCookObeys ==
    \A s \in Session :
        pc[s] = "paused" /\ Settled(s) /\ Told(s)
            ~> pc[s] \notin {"paused", "pausedUnlink"}

(* Claims of the documentation that the code does not keep. *)

\* cook-controls.ts:9: the cook "consumes it atomically via readPendingSignal
\* (read-then-unlink so each signal is delivered exactly once)".
ExactlyOnce ==
    \A s \in Session :
        LET n == Len(sent[s])
        IN n > 0 /\ hand.session # s => n \in {file[s], buf[s]} \cup {taken[s][k] : k \in DOMAIN taken[s]}

\* budget-routes.ts:19: what the budget gate writes is consumed by the cook "at
\* the next inter-agent boundary".
FromBudget(s) == file[s] > 0 /\ sent[s][file[s]].by = "budget"
BudgetSignalReaches ==
    \A s \in Session : pc[s] = "running" /\ FromBudget(s) ~> ~FromBudget(s)
=============================================================================
