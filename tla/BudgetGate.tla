------------------------------ MODULE BudgetGate ------------------------------
(***************************************************************************)
(* The budget gate and what feeds it: cook sessions keep a running total of *)
(* their cost in a file each, a watcher reports added and changed files, the*)
(* file-meter adapter turns totals into differences, and the gate compares  *)
(* what it has been told with two thresholds.  The user bumps the ceiling.  *)
(***************************************************************************)
EXTENDS Integers, Sequences

CONSTANTS
    Session,      \* one session-<id>.json each
    Cost,         \* cost_usd of one agent result
    Delta,        \* the amounts by which the ceiling is bumped
    Milestone,    \* milestone_usd, the ceiling to begin with
    Warn, Pause,  \* the thresholds, in per cent
    MaxTotal,     \* bound: what the sessions record together
    MaxBumps      \* bound: how often the ceiling is bumped

ASSUME ConstantsAssumption ==
    /\ Cost \subseteq Nat /\ Delta \subseteq Int
    /\ Milestone \in Nat \ {0}
    /\ Warn \in 0..100 /\ Pause \in 0..100
    /\ MaxTotal \in Nat /\ MaxBumps \in Nat

VARIABLES
    file,      \* file[s]: cost_usd in the file of s
    known,     \* known[s]: has the watcher reported the file (and not its end)?
    dirty,     \* dirty[s]: was it written since the last report?
    lastSeen,  \* lastSeen[s]: the adapter's snapshot of the file
    recorded,  \* what all sessions together have recorded
    leftover,  \* leftover[s]: what an earlier milestone left in the file of s, until
               \* an event has told of the file
    inherited, \* the leftovers of files whose first event could not be read (history)
    spent, ceiling, status,  \* the gate
    events     \* the events it has emitted, and "bump" for each bump

gate == <<spent, ceiling, status, events>>
files == <<file, known, dirty, lastSeen, recorded, leftover, inherited>>
vars == <<files, gate>>

None == -1  \* no file; no snapshot
OrZero(n) == IF n = None THEN 0 ELSE n

\* pressure() >= th / 100, where the pressure on no ceiling is 0
Reaches(money, limit, th) ==
    IF limit > 0 THEN 100 * money >= th * limit ELSE th = 0

Event == {"warning", "pause", "resume", "bump"}
-----------------------------------------------------------------------------
Init ==
    /\ file \in [Session -> {None} \cup Cost]
    /\ known = [s \in Session |-> FALSE]
    /\ dirty = [s \in Session |-> FALSE]
    /\ lastSeen = [s \in Session |-> None]
    /\ recorded = 0
    /\ leftover = [s \in Session |-> OrZero(file[s])]
    /\ inherited = 0
    /\ spent = 0
    /\ ceiling = Milestone
    /\ status = "ok"
    /\ events = <<>>

\* recordUsage, in the cook: fold into the file, which is replaced atomically
RecordUsage(s) ==
    /\ \E c \in Cost :
          /\ recorded + c <= MaxTotal
          /\ file' = [file EXCEPT ![s] = OrZero(@) + c]
          /\ recorded' = recorded + c
    /\ dirty' = [dirty EXCEPT ![s] = TRUE]
    /\ UNCHANGED <<known, lastSeen, leftover, inherited, gate>>

\* The user clears .metrics/.
RemoveFile(s) ==
    /\ file[s] # None
    /\ file' = [file EXCEPT ![s] = None]
    /\ leftover' = [leftover EXCEPT ![s] = 0]
    /\ UNCHANGED <<known, dirty, lastSeen, recorded, inherited, gate>>

(* The watcher's callbacks, in the adapter *)

\* Nobody listens to `unlink`: the snapshot stays.
Unlinked(s) ==
    /\ known[s] /\ file[s] = None
    /\ known' = [known EXCEPT ![s] = FALSE]
    /\ UNCHANGED <<file, dirty, lastSeen, recorded, leftover, inherited, gate>>

Appears(s) == ~known[s] /\ file[s] # None
Snapshot(s) == lastSeen' = [lastSeen EXCEPT ![s] = file[s]]
Reported(s) ==
    /\ known' = [known EXCEPT ![s] = TRUE]
    /\ dirty' = [dirty EXCEPT ![s] = FALSE]

\* Seeded fault: a pause is announced at every tick.
EvaluateAgain(money) ==
    LET warns == status = "ok" /\ Reaches(money, ceiling, Warn)
        pauses == Reaches(money, ceiling, Pause)
    IN /\ status' = IF pauses THEN "paused" ELSE IF warns THEN "warning" ELSE status
       /\ events' = events \o (IF warns THEN <<"warning">> ELSE <<>>)
                           \o (IF pauses THEN <<"pause">> ELSE <<>>)

\* evaluate: ok -> warning, then anything -> paused, in one tick if need be
Evaluate(money) ==
    LET warns == status = "ok" /\ Reaches(money, ceiling, Warn)
        pauses == status # "paused" /\ Reaches(money, ceiling, Pause)
    IN /\ status' = IF pauses THEN "paused" ELSE IF warns THEN "warning" ELSE status
       /\ events' = events \o (IF warns THEN <<"warning">> ELSE <<>>)
                           \o (IF pauses THEN <<"pause">> ELSE <<>>)

Tick(cost) ==
    /\ spent' = spent + cost
    /\ Evaluate(spent')
    /\ UNCHANGED ceiling

\* Seeded fault: a file that appears is charged in full.
AddCounts(s) ==
    /\ Appears(s)
    /\ Snapshot(s)
    /\ Reported(s)
    /\ leftover' = [leftover EXCEPT ![s] = 0]
    /\ Tick(file[s])
    /\ UNCHANGED <<file, recorded, inherited>>

\* The total found in a file that appears is the baseline: it is not charged.
Add(s) ==
    /\ Appears(s)
    /\ Snapshot(s)
    /\ Reported(s)
    /\ leftover' = [leftover EXCEPT ![s] = 0]
    /\ UNCHANGED <<file, recorded, inherited, gate>>

\* The file cannot be read: a warning, and no baseline but an older one.
AddFails(s) ==
    /\ Appears(s)
    /\ Reported(s)
    /\ inherited' = IF lastSeen[s] = None THEN inherited + leftover[s] ELSE inherited
    /\ leftover' = [leftover EXCEPT ![s] = 0]
    /\ UNCHANGED <<file, lastSeen, recorded, gate>>

\* A total that has grown is charged for the difference, or in full if there is
\* no snapshot.
Change(s) ==
    /\ known[s] /\ dirty[s] /\ file[s] # None
    /\ Snapshot(s)
    /\ Reported(s)
    /\ IF file[s] > OrZero(lastSeen[s])
       THEN Tick(file[s] - OrZero(lastSeen[s]))
       ELSE UNCHANGED gate
    /\ UNCHANGED <<file, recorded, leftover, inherited>>

\* The file cannot be read, or is gone by now: a warning.
ChangeFails(s) ==
    /\ known[s] /\ dirty[s]
    /\ Reported(s)
    /\ UNCHANGED <<file, lastSeen, recorded, leftover, inherited, gate>>

(* POST /api/budget/bump *)

Bumps == Len(SelectSeq(events, LAMBDA e : e = "bump"))

\* Seeded fault: the ceiling is compared before it is raised.
LevelStale(limit) ==
    IF ~Reaches(spent, ceiling, Warn) THEN "ok"
    ELSE IF ~Reaches(spent, ceiling, Pause) THEN "warning" ELSE status

\* The status that goes with the new ceiling; a bump never raises it to paused.
Level(limit) ==
    IF ~Reaches(spent, limit, Warn) THEN "ok"
    ELSE IF ~Reaches(spent, limit, Pause) THEN "warning" ELSE status

BumpCeiling ==
    /\ Bumps < MaxBumps
    /\ \E d \in Delta : ceiling' = ceiling + d
    /\ status' = Level(ceiling')
    /\ events' = events \o <<"bump">>
                     \o (IF status # "ok" /\ status' = "ok" THEN <<"resume">> ELSE <<>>)
    /\ UNCHANGED <<files, spent>>
-----------------------------------------------------------------------------
Report(s) == Unlinked(s) \/ Add(s) \/ AddFails(s) \/ Change(s) \/ ChangeFails(s)

Next ==
    \/ \E s \in Session : RecordUsage(s) \/ RemoveFile(s) \/ Report(s)
    \/ BumpCeiling

Spec == Init /\ [][Next]_vars
-----------------------------------------------------------------------------
(* Correctness *)

TypeOK ==
    /\ file \in [Session -> Nat \cup {None}]
    /\ known \in [Session -> BOOLEAN]
    /\ dirty \in [Session -> BOOLEAN]
    /\ lastSeen \in [Session -> Nat \cup {None}]
    /\ recorded \in Nat
    /\ leftover \in [Session -> Nat]
    /\ inherited \in Nat
    /\ spent \in Nat
    /\ ceiling \in Int
    /\ status \in {"ok", "warning", "paused"}
    /\ events \in Seq(Event)

\* The status is the one the thresholds give for what has been spent, after
\* every mixture of ticks and bumps, as long as the ceiling is only raised and
\* the thresholds are in order: no crossing is missed, none is reported early.
StatusIsPressure ==
    /\ status = "ok" <=> ~Reaches(spent, ceiling, Warn)
    /\ status = "paused" <=> Reaches(spent, ceiling, Pause)

\* Each threshold is announced once per crossing (gate.ts:21): a second warning
\* takes a resume in between, a second pause a bump; also when the ceiling is
\* lowered.
Between(e, m, n, S) ==
    events[m] = e /\ events[n] = e /\ m < n => \E k \in m..n : events[k] \in S
OncePerCrossing ==
    \A m, n \in DOMAIN events :
        /\ Between("warning", m, n, {"resume"})
        /\ Between("pause", m, n, {"bump"})

\* Nobody is charged twice, whatever the watcher merges, whichever reads fail and
\* whenever files go and come back; nor for what an earlier milestone left behind
\* (file-meter-adapter.ts:186), but for files whose add event could not be read:
\* without a baseline, the next change charges their whole total (line 135).
NeverOvercharged == spent <= recorded + inherited

(* A claim of the documentation that the code does not keep. *)

\* docs/operations/budget.md:14: the gate "watches every token usage event":
\* once every file has been reported, it has charged all that was recorded.
AllReported ==
    \A s \in Session : file[s] # None => known[s] /\ ~dirty[s]
EveryUsageCharged == AllReported => spent = recorded
=============================================================================
