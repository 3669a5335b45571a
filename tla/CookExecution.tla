---------------------------- MODULE CookExecution ----------------------------
(***************************************************************************)
(* swt cook processes of one project: the resume probe at entry, the        *)
(* execution-state record they share, the event journal of each session.    *)
(* An action is what runs between two accesses to a shared file.  A process *)
(* is its session (a UUID of its own) and may be killed at every step.      *)
(***************************************************************************)
EXTENDS Integers, Sequences

CONSTANTS
    Proc,      \* the cook processes; pids are not reused
    NoProc     \* "no pid"

ASSUME ConstantsAssumption == NoProc \notin Proc

VARIABLES
    record,   \* .execution-state.json: status, pid and session of its owner
    journal,  \* journal[p]: cook-<session>-<startTs>.jsonl
    pc,       \* pc[p]: the next access of p to a shared file
    seen,     \* seen[p]: the record p has read
    to,       \* to[p]: the status markCompleted or markCrashed will write
    astray    \* history: the cooks that the record could not keep apart

vars == <<record, journal, pc, seen, to, astray>>

ResumeRow == {"resume:unknown", "resume:task", "resume:next"}
Row == {"decision", "start", "commit", "complete", "fail", "completion"}
           \cup ResumeRow
NoRecord == [status |-> "none", owner |-> NoProc]
Status == {"in_progress", "completed", "crashed"}

Has(p, row) == \E n \in DOMAIN journal[p] : journal[p][n] = row
Noticed(p) == \E row \in ResumeRow : Has(p, row)

\* From the entry of the handler until the in_progress record is written.
Starting == {"probeRead", "probe", "resume", "flipRead", "flipWrite", "route",
             "boundary", "record"}
\* From the record until its status is flipped.
Running == {"start", "spawn", "commit", "complete", "fail", "completion",
            "markRead", "markWrite"}
Dead == {"aborted", "exited", "killed", "crashed"}
Alive(p) == pc[p] \in Starting \cup Running
-----------------------------------------------------------------------------
Init ==
    /\ record = NoRecord
    /\ journal = [p \in Proc |-> <<>>]
    /\ pc = [p \in Proc |-> "idle"]
    /\ seen = [p \in Proc |-> NoRecord]
    /\ to = [p \in Proc |-> "completed"]
    /\ astray = {}

Goto(p, label) == pc' = [pc EXCEPT ![p] = label]
Emit(p, row) == journal' = [journal EXCEPT ![p] = Append(@, row)]
Read(p) == seen' = [seen EXCEPT ![p] = record]
Drop(p) == seen' = [seen EXCEPT ![p] = NoRecord]

\* What a function has read goes with its return.
Return(p) == Drop(p) /\ to' = [to EXCEPT ![p] = "completed"]

(* probeForResume *)

\* The cooks whose record is not there to be read by one that starts now, though
\* they run or may soon run.
Unseen == {q \in Proc : pc[q] \in Starting \/ (q \in astray /\ Alive(q))}

Start(p) ==
    /\ pc[p] = "idle"
    /\ Goto(p, "probeRead")
    /\ astray' = IF Unseen = {} THEN astray ELSE astray \cup Unseen \cup {p}
    /\ UNCHANGED <<record, journal, seen, to>>

ProbeRead(p) ==
    /\ pc[p] = "probeRead"
    /\ Read(p)
    /\ Goto(p, "probe")
    /\ UNCHANGED <<record, journal, to, astray>>

InProgress(p) == pc[p] = "probe" /\ seen[p].status = "in_progress"

ProbeFresh(p) ==
    /\ pc[p] = "probe"
    /\ seen[p].status # "in_progress"
    /\ Goto(p, "route")
    /\ Return(p)
    /\ UNCHANGED <<record, journal, astray>>

\* Seeded fault: a recorded pid counts as running, dead or not.
ProbeAbortBlind(p) ==
    /\ InProgress(p)
    /\ Goto(p, "aborted")
    /\ Return(p)
    /\ UNCHANGED <<record, journal, astray>>

\* abort_another_cook_running
ProbeAbort(p) ==
    /\ InProgress(p)
    /\ Alive(seen[p].owner)
    /\ Goto(p, "aborted")
    /\ Return(p)
    /\ UNCHANGED <<record, journal, astray>>

\* Seeded fault: the journal is looked at before the pid.
ProbeCompletedFirst(p) ==
    /\ InProgress(p)
    /\ Has(seen[p].owner, "completion")
    /\ Return(p)
    /\ Goto(p, "flipRead")
    /\ UNCHANGED <<record, journal, astray>>

\* fresh_run, prior_completed: markCompleted follows.
ProbeCompleted(p) ==
    /\ InProgress(p)
    /\ ~Alive(seen[p].owner)
    /\ Has(seen[p].owner, "completion")
    /\ Return(p)
    /\ Goto(p, "flipRead")
    /\ UNCHANGED <<record, journal, astray>>

\* Seeded fault: a dead owner is enough for a fresh run.
ProbeIgnoresCrash(p) ==
    /\ InProgress(p)
    /\ ~Alive(seen[p].owner)
    /\ ~Has(seen[p].owner, "completion")
    /\ Goto(p, "route")
    /\ Return(p)
    /\ UNCHANGED <<record, journal, astray>>

\* Seeded fault: the recorded pid is not probed.
ProbeCrashedBlind(p) ==
    /\ InProgress(p)
    /\ ~Has(seen[p].owner, "completion")
    /\ Goto(p, "resume")
    /\ UNCHANGED <<record, journal, seen, to, astray>>

\* Seeded fault: a session that completed is not told from one that did not.
ProbeCrashedNoJournal(p) ==
    /\ InProgress(p)
    /\ ~Alive(seen[p].owner)
    /\ Goto(p, "resume")
    /\ UNCHANGED <<record, journal, seen, to, astray>>

\* resume
ProbeCrashed(p) ==
    /\ InProgress(p)
    /\ ~Alive(seen[p].owner)
    /\ ~Has(seen[p].owner, "completion")
    /\ Goto(p, "resume")
    /\ UNCHANGED <<record, journal, seen, to, astray>>

\* Where the crashed session is to be taken up: a session has one task.
FromTask(s) ==
    IF Has(s, "commit") THEN "resume:next"
    ELSE IF Has(s, "start") THEN "resume:task" ELSE "resume:unknown"

(* The handler, up to runMode *)

\* Reads the record again, and writes to the journal of the session it names,
\* whatever has become of it.
ResumeEmit(p) ==
    /\ pc[p] = "resume"
    /\ record.owner # NoProc
    /\ Emit(record.owner, FromTask(seen[p].owner))
    /\ to' = [to EXCEPT ![p] = "crashed"]
    /\ Drop(p)
    /\ Goto(p, "flipRead")
    /\ UNCHANGED <<record, astray>>

FlipRead(p) ==
    /\ pc[p] = "flipRead"
    /\ Read(p)
    /\ Goto(p, "flipWrite")
    /\ UNCHANGED <<record, journal, to, astray>>

Flip(p) == record' = [seen[p] EXCEPT !.status = to[p]]

FlipWrite(p) ==
    /\ pc[p] = "flipWrite"
    /\ Flip(p)
    /\ Goto(p, "route")
    /\ Return(p)
    /\ UNCHANGED <<journal, astray>>

\* "best-effort": the cook goes on with the record as it was.
FlipFails(p) ==
    /\ pc[p] \in {"flipRead", "flipWrite"}
    /\ Goto(p, "route")
    /\ Return(p)
    /\ UNCHANGED <<record, journal, astray>>

\* The routing decision, after which the user may have to confirm.
Route(p) ==
    /\ pc[p] = "route"
    /\ Emit(p, "decision")
    /\ Goto(p, "boundary")
    /\ UNCHANGED <<record, seen, to, astray>>

\* Nothing to run (swt init first, a usage error), or the user says no.
Decline(p) ==
    /\ pc[p] \in {"route", "boundary"}
    /\ Goto(p, "exited")
    /\ UNCHANGED <<record, journal, seen, to, astray>>

(* runMode *)

\* checkBoundarySignal found no signal, or a pause and then a resume.
Proceed(p) ==
    /\ pc[p] = "boundary"
    /\ Goto(p, "record")
    /\ UNCHANGED <<record, journal, seen, to, astray>>

Cancel(p) ==
    /\ pc[p] = "boundary"
    /\ Emit(p, "completion")
    /\ Goto(p, "exited")
    /\ UNCHANGED <<record, seen, to, astray>>

RecordStart(p) ==
    /\ pc[p] = "record"
    /\ record' = [status |-> "in_progress", owner |-> p]
    /\ Goto(p, "start")
    /\ UNCHANGED <<journal, seen, to, astray>>

\* "best-effort": the cook runs without a record of its own.
RecordFails(p) ==
    /\ pc[p] = "record"
    /\ Goto(p, "start")
    /\ astray' = astray \cup {p}
    /\ UNCHANGED <<record, journal, seen, to>>

TaskStart(p) ==
    /\ pc[p] = "start"
    /\ Emit(p, "start")
    /\ Goto(p, "spawn")
    /\ UNCHANGED <<record, seen, to, astray>>

\* The orchestrator session succeeds; `git log -1` may find no commit.
SpawnSucceeds(p) ==
    /\ pc[p] = "spawn"
    /\ to' = [to EXCEPT ![p] = "completed"]
    /\ \E label \in {"commit", "complete"} : Goto(p, label)
    /\ UNCHANGED <<record, journal, seen, astray>>

\* The session fails, is blocked or throws, or the budget refuses it.
SpawnFails(p) ==
    /\ pc[p] = "spawn"
    /\ to' = [to EXCEPT ![p] = "crashed"]
    /\ Goto(p, "fail")
    /\ UNCHANGED <<record, journal, seen, astray>>

After == [commit |-> "complete", complete |-> "completion", fail |-> "completion",
          completion |-> "markRead"]

\* cook.task_commit, task_complete or task_fail, and cook.completion
TaskRow(p) ==
    /\ pc[p] \in DOMAIN After
    /\ Emit(p, pc[p])
    /\ Goto(p, After[pc[p]])
    /\ UNCHANGED <<record, seen, to, astray>>

\* Without any record there is nothing to flip.
MarkRead(p) ==
    /\ pc[p] = "markRead"
    /\ IF record = NoRecord THEN Goto(p, "exited") /\ Return(p)
       ELSE Goto(p, "markWrite") /\ Read(p) /\ UNCHANGED to
    /\ UNCHANGED <<record, journal, astray>>

MarkWrite(p) ==
    /\ pc[p] = "markWrite"
    /\ Flip(p)
    /\ Goto(p, "exited")
    /\ Return(p)
    /\ UNCHANGED <<journal, astray>>

MarkFails(p) ==
    /\ pc[p] \in {"markRead", "markWrite"}
    /\ Goto(p, "exited")
    /\ Return(p)
    /\ UNCHANGED <<record, journal, astray>>

\* SIGKILL, or a throw that nobody catches
Die(p) ==
    /\ Alive(p)
    /\ Goto(p, IF pc[p] \in Running THEN "crashed" ELSE "killed")
    /\ Return(p)
    /\ UNCHANGED <<record, journal, astray>>
-----------------------------------------------------------------------------
Handler(p) ==
    \/ Start(p) \/ ProbeRead(p)
    \/ ProbeFresh(p) \/ ProbeAbort(p) \/ ProbeCompleted(p) \/ ProbeCrashed(p)
    \/ ResumeEmit(p) \/ FlipRead(p) \/ FlipWrite(p) \/ FlipFails(p)
    \/ Route(p) \/ Decline(p)
RunMode(p) ==
    \/ Proceed(p) \/ Cancel(p) \/ RecordStart(p) \/ RecordFails(p) \/ TaskStart(p)
    \/ SpawnSucceeds(p) \/ SpawnFails(p) \/ TaskRow(p)
    \/ MarkRead(p) \/ MarkWrite(p) \/ MarkFails(p)

Next == \E p \in Proc : Handler(p) \/ RunMode(p) \/ Die(p)

Spec == Init /\ [][Next]_vars

\* A cook that has been started runs on; nobody need start one, and the user
\* may leave it waiting for a confirmation, or paused.
FairSpec ==
    /\ Spec
    /\ \A p \in Proc :
          WF_vars(\/ ProbeRead(p)
                  \/ ProbeFresh(p) \/ ProbeAbort(p)
                  \/ ProbeCompleted(p) \/ ProbeCrashed(p)
                  \/ ResumeEmit(p) \/ FlipRead(p) \/ FlipWrite(p)
                  \/ Route(p))
-----------------------------------------------------------------------------
(* Correctness *)

TypeOK ==
    /\ record \in [status : Status, owner : Proc] \cup {NoRecord}
    /\ journal \in [Proc -> Seq(Row)]
    /\ pc \in [Proc -> {"idle"} \cup Starting \cup Running \cup Dead]
    /\ seen \in [Proc -> [status : Status, owner : Proc] \cup {NoRecord}]
    /\ to \in [Proc -> {"completed", "crashed"}]
    /\ astray \subseteq Proc

\* No two cooks run against the same execution state (cook.ts:171 "refuse to
\* race two cooks against the same execution-state"), unless neither could see
\* the other: they were starting at the same time, the probe and the record
\* being far apart, or one has no record and the other came after it.
OneCook ==
    \A p, q \in Proc :
        p # q /\ pc[p] \in Running /\ pc[q] \in Running => {p, q} \subseteq astray

\* But for cooks that are astray, one process at a time is about to write the
\* record, which is what atomicWriteJSON, with its one name for the temporary
\* file, relies on.
Writing == {"flipWrite", "record", "markWrite"}
OneWriter ==
    \A p, q \in Proc :
        p # q /\ pc[p] \in Writing /\ pc[q] \in Writing => {p, q} \subseteq astray

\* A session with a cook.completion row is not resumed (condition (c) of the
\* probe), also not by a cook that read the record before the row was there.
\* Only a cook astray can: the record it reads again may be another session's.
Mistaken(s) == Has(s, "completion") /\ Noticed(s)
ResumeRight ==
    \A s \in Proc \ astray :
        Mistaken(s)' => Mistaken(s) \/ \E p \in astray : pc[p] = "resume" /\ pc'[p] = "flipRead"
CompletedNotResumed == [][ResumeRight]_vars

\* The record of a running cook is changed by that cook alone: neither the
\* clean-up of an earlier crash, nor a new record, nor the end of a cook that
\* has no record goes over it.
RecordKept ==
    LET o == record.owner
    IN  /\ record.status = "in_progress" /\ pc[o] \in Running /\ o \notin astray
        /\ record' # record
        => pc[o] = "markWrite" /\ pc'[o] = "exited"
LiveRecordKept == [][RecordKept]_vars

\* The sessions of a project follow CookSessions: no crash goes unnoticed.
SessionState(p) ==
    IF p \in astray THEN IF Alive(p) THEN "astray" ELSE "gone"
    ELSE IF Has(p, "completion") THEN "ended"
    ELSE IF pc[p] \in Running THEN "running"
    ELSE IF pc[p] # "crashed" THEN "new"
    ELSE IF Noticed(p) THEN "noticed" ELSE "crashed"
Sessions == INSTANCE CookSessions
                WITH Session <- Proc, state <- [p \in Proc |-> SessionState(p)]
ImplementsSessions == Sessions!Spec

\* What a dead cook has left behind keeps nobody from starting.
StaleRecordYields ==
    \A p \in Proc :
        pc[p] = "probeRead" /\ (\A q \in Proc : pc[q] \notin Running)
            ~> \/ pc[p] \in {"boundary", "exited", "killed"}
               \/ pc[p] = "aborted" /\ p \in astray

(* A claim of the documentation that the code does not keep. *)

\* cook.ts:317: "If the last started task never reached complete/commit, resume
\* points at that task [...]. Otherwise resume points at the next task".
ResumePoint == \A p \in Proc : Has(p, "resume:task") => ~Has(p, "complete")
=============================================================================
