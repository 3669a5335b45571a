------------------------- MODULE CookExecutionProofs -------------------------
(***************************************************************************)
(* CookExecution, for every set of processes.  Whatever cooks are started   *)
(* over one another, and whichever writes fail: of the cooks that are not   *)
(* astray one runs at a time, next to nobody; its record is its own; and no *)
(* crash of theirs goes unnoticed (CookSessions is implemented).  A step is *)
(* first brought into one of a few shapes.                                  *)
(***************************************************************************)
EXTENDS CookExecution, TLAPS

Step(p) == Handler(p) \/ RunMode(p) \/ Die(p)

\* What the journals say, as two sets.
Completed == {p \in Proc : Has(p, "completion")}
Resumed == {p \in Proc : Noticed(p)}
Unstarted == {"idle"} \cup Starting

LEMMA SilentStep ==
  ASSUME UNCHANGED journal
  PROVE  Completed' = Completed /\ Resumed' = Resumed
  BY DEF Completed, Resumed, Noticed, Has

LEMMA EmitStep ==
  ASSUME journal \in [Proc -> Seq(Row)], NEW q \in Proc, NEW row \in Row, Emit(q, row)
  PROVE  /\ journal' \in [Proc -> Seq(Row)]
         /\ Completed' = Completed \cup (IF row = "completion" THEN {q} ELSE {})
         /\ Resumed' = Resumed \cup (IF row \in ResumeRow THEN {q} ELSE {})
  <1>1. journal' = [journal EXCEPT ![q] = Append(journal[q], row)]
    BY DEF Emit
  <1>2. journal' \in [Proc -> Seq(Row)]
    BY <1>1
  <1>3. ASSUME NEW p \in Proc, NEW r \in Row
        PROVE  (\E n \in DOMAIN journal'[p] : journal'[p][n] = r)
                 <=> Has(p, r) \/ (p = q /\ r = row)
    <2>1. CASE p # q
      BY <1>1, <2>1 DEF Has
    <2>2. CASE p = q
      <3>1. journal'[p] = Append(journal[p], row) /\ journal[p] \in Seq(Row)
        BY <1>1, <2>2
      <3>2. DOMAIN journal'[p] = 1..(Len(journal[p]) + 1) /\ DOMAIN journal[p] = 1..Len(journal[p])
        BY <3>1
      <3>3. journal'[p][Len(journal[p]) + 1] = row
        BY <3>1
      <3>4. \A n \in 1..Len(journal[p]) : journal'[p][n] = journal[p][n]
        BY <3>1
      <3>5. Len(journal[p]) \in Nat
        BY <3>1
      <3> QED
        BY <2>2, <3>2, <3>3, <3>4, <3>5 DEF Has
    <2> QED
      BY <2>1, <2>2
  <1>4. "completion" \in Row /\ ResumeRow \subseteq Row
    BY DEF Row, ResumeRow
  <1>5. Completed' = Completed \cup (IF row = "completion" THEN {q} ELSE {})
    BY <1>3, <1>4 DEF Completed, Has
  <1>6. Resumed' = Resumed \cup (IF row \in ResumeRow THEN {q} ELSE {})
    <2>1. ASSUME NEW p \in Proc
          PROVE  Noticed(p)' <=> Noticed(p) \/ (p = q /\ row \in ResumeRow)
      <3>1. \A r \in ResumeRow : Has(p, r)' <=> Has(p, r) \/ (p = q /\ r = row)
        BY <1>3, <1>4 DEF Has
      <3> QED
        BY <3>1 DEF Noticed
    <2> QED
      BY <2>1 DEF Resumed
  <1> QED
    BY <1>2, <1>5, <1>6
-----------------------------------------------------------------------------
(* Types. *)

ARecord == [status : Status, owner : Proc]

\* Once there is a record there always is one, so that what the two marks
\* write back is one.
RecordStays ==
    /\ \A p \in Proc : seen[p] # NoRecord => record # NoRecord
    /\ \A p \in Proc : pc[p] \in {"resume", "flipRead"} => record # NoRecord
    /\ \A p \in Proc : pc[p] \in {"resume", "flipWrite", "markWrite"} => seen[p] # NoRecord

TypeInv == TypeOK /\ RecordStays

LEMMA TypeInit == Init => TypeInv
  BY DEF Init, TypeInv, TypeOK, RecordStays, NoRecord, Starting, Running, Dead

\* Emit keeps the journals in type, whatever else a step does.
LEMMA FromTaskRow == ASSUME NEW s PROVE FromTask(s) \in ResumeRow
  BY DEF FromTask, ResumeRow

LEMMA JournalType ==
  ASSUME TypeInv, NEW p \in Proc, Step(p)
  PROVE  journal' \in [Proc -> Seq(Row)]
  <1>0. journal \in [Proc -> Seq(Row)]
    BY DEF TypeInv, TypeOK
  <1>1. CASE ResumeEmit(p)
    <2>1. record.owner \in Proc
      BY <1>1 DEF ResumeEmit, TypeInv, TypeOK, NoRecord
    <2>2. FromTask(seen[p].owner) \in Row
      BY FromTaskRow DEF Row
    <2> QED
      BY <1>0, <1>1, <2>1, <2>2, EmitStep DEF ResumeEmit
  <1>2. CASE Route(p)
    BY <1>0, <1>2, EmitStep DEF Route, Row
  <1>3. CASE Cancel(p)
    BY <1>0, <1>3, EmitStep DEF Cancel, Row
  <1>4. CASE TaskStart(p)
    BY <1>0, <1>4, EmitStep DEF TaskStart, Row
  <1>5. CASE TaskRow(p)
    <2>1. pc[p] \in Row /\ Emit(p, pc[p])
      BY <1>5 DEF TaskRow, After, Row
    <2> QED
      BY <1>0, <2>1, EmitStep
  <1>6. CASE UNCHANGED journal
    BY <1>0, <1>6
  <1>7. ResumeEmit(p) \/ Route(p) \/ Cancel(p) \/ TaskStart(p) \/ TaskRow(p) \/ UNCHANGED journal
    BY DEF Step, Handler, RunMode, Start, ProbeRead, ProbeFresh, ProbeAbort,
       ProbeCompleted, ProbeCrashed, FlipRead, FlipWrite, FlipFails, Decline, Proceed,
       RecordStart, RecordFails, SpawnSucceeds, SpawnFails, MarkRead, MarkWrite,
       MarkFails, Die
  <1> QED
    BY <1>1, <1>2, <1>3, <1>4, <1>5, <1>6, <1>7

Labels == {"idle"} \cup Starting \cup Running \cup Dead

\* What a step does to the program counters, to the record and to what is read.
LEMMA PcStep ==
  ASSUME TypeInv, NEW p \in Proc, Step(p)
  PROVE  \E label \in Labels :
            pc' = [pc EXCEPT ![p] = label] /\ pc'[p] = label
            /\ \A q \in Proc : q # p => pc'[q] = pc[q]
  <1> SUFFICES \E label \in Labels : Goto(p, label)
    BY DEF Goto, TypeInv, TypeOK
  <1> USE DEF Labels, Starting, Running, Dead
  <1>1. CASE Handler(p)
    BY <1>1 DEF Handler, Start, ProbeRead, ProbeFresh, ProbeAbort, ProbeCompleted,
       ProbeCrashed, ResumeEmit, FlipRead, FlipWrite, FlipFails, Route, Decline
  <1>2. CASE RunMode(p)
    <2>1. CASE TaskRow(p)
      BY <2>1 DEF TaskRow, After
    <2>2. CASE ~TaskRow(p)
      BY <1>2, <2>2 DEF RunMode, Proceed, Cancel, RecordStart, RecordFails, TaskStart,
         SpawnSucceeds, SpawnFails, MarkRead, MarkWrite, MarkFails
    <2> QED
      BY <2>1, <2>2
  <1>3. CASE Die(p)
    BY <1>3 DEF Die
  <1> QED
    BY <1>1, <1>2, <1>3 DEF Step

\* What a step makes of the record and of what the processes have read.
LEMMA ReadStep ==
  ASSUME TypeInv, NEW p \in Proc, Step(p)
  PROVE  /\ record' = record \/ (record' \in ARecord /\ pc[p] \in Writing)
         /\ \/ seen' = seen
            \/ seen' = [seen EXCEPT ![p] = record]
            \/ seen' = [seen EXCEPT ![p] = NoRecord]
  <1> USE DEF Read, Drop, Return
  <1>1. CASE FlipWrite(p) \/ MarkWrite(p)
    <2>1. seen[p] \in ARecord
      BY <1>1 DEF FlipWrite, MarkWrite, TypeInv, TypeOK, RecordStays, ARecord
    <2>2. record' = [seen[p] EXCEPT !.status = to[p]] /\ to[p] \in Status
      BY <1>1 DEF FlipWrite, MarkWrite, Flip, TypeInv, TypeOK, Status
    <2>3. record' \in ARecord
      BY <2>1, <2>2 DEF ARecord
    <2> QED
      BY <1>1, <2>3 DEF FlipWrite, MarkWrite, Writing
  <1>2. CASE RecordStart(p)
    BY <1>2 DEF RecordStart, ARecord, Status, Writing
  <1>3. CASE MarkRead(p)
    BY <1>3 DEF MarkRead
  <1>4. CASE Handler(p) /\ ~FlipWrite(p)
    BY <1>4 DEF Handler, Start, ProbeRead, ProbeFresh, ProbeAbort, ProbeCompleted,
       ProbeCrashed, ResumeEmit, FlipRead, FlipFails, Route, Decline
  <1>5. CASE (RunMode(p) /\ ~RecordStart(p) /\ ~MarkRead(p) /\ ~MarkWrite(p)) \/ Die(p)
    BY <1>5 DEF RunMode, Proceed, Cancel, RecordFails, TaskStart, SpawnSucceeds,
       SpawnFails, TaskRow, MarkFails, Die
  <1> QED
    BY <1>1, <1>2, <1>3, <1>4, <1>5 DEF Step

\* Where the labels at which a record has been read come from.
LEMMA ReaderStep ==
  ASSUME TypeInv, NEW p \in Proc, Step(p)
  PROVE  /\ pc'[p] \in {"resume", "flipRead"} => record # NoRecord
         /\ pc'[p] \in {"resume", "flipWrite", "markWrite"} => seen'[p] # NoRecord
  <1> USE DEF Goto
  <1>1. CASE ProbeCompleted(p) \/ ProbeCrashed(p)
    <2>1. seen[p] # NoRecord
      BY <1>1 DEF ProbeCompleted, ProbeCrashed, InProgress, NoRecord
    <2> QED
      BY <1>1, <2>1 DEF ProbeCompleted, ProbeCrashed, TypeInv, TypeOK, RecordStays
  <1>2. CASE ResumeEmit(p)
    BY <1>2 DEF ResumeEmit, TypeInv, TypeOK, RecordStays
  <1>3. CASE FlipRead(p) \/ MarkRead(p)
    BY <1>3 DEF FlipRead, MarkRead, Read, TypeInv, TypeOK, RecordStays
  <1>4. CASE Handler(p) /\ ~ProbeCompleted(p) /\ ~ProbeCrashed(p) /\ ~ResumeEmit(p) /\ ~FlipRead(p)
    BY <1>4 DEF Handler, Start, ProbeRead, ProbeFresh, ProbeAbort, FlipWrite, FlipFails,
       Route, Decline, TypeInv, TypeOK
  <1>5. CASE RunMode(p) /\ ~MarkRead(p)
    BY <1>5 DEF RunMode, Proceed, Cancel, RecordStart, RecordFails, TaskStart,
       SpawnSucceeds, SpawnFails, TaskRow, After, MarkWrite, MarkFails, TypeInv, TypeOK
  <1>6. CASE Die(p)
    BY <1>6 DEF Die, TypeInv, TypeOK
  <1> QED
    BY <1>1, <1>2, <1>3, <1>4, <1>5, <1>6 DEF Step

LEMMA TypeStep ==
  ASSUME TypeInv, NEW p \in Proc, Step(p)
  PROVE  TypeInv'
  <1>0. journal' \in [Proc -> Seq(Row)]
    BY JournalType
  <1>1. PICK label \in Labels : pc' = [pc EXCEPT ![p] = label] /\ pc'[p] = label
            /\ \A q \in Proc : q # p => pc'[q] = pc[q]
    BY PcStep
  <1>2. pc' \in [Proc -> Labels]
    BY <1>1 DEF TypeInv, TypeOK, Labels
  <1>3. to' \in [Proc -> {"completed", "crashed"}]
    <2> USE DEF TypeInv, TypeOK, Return
    <2>1. CASE Handler(p)
      BY <2>1 DEF Handler, Start, ProbeRead, ProbeFresh, ProbeAbort, ProbeCompleted,
         ProbeCrashed, ResumeEmit, FlipRead, FlipWrite, FlipFails, Route, Decline
    <2>2. CASE RunMode(p) \/ Die(p)
      BY <2>2 DEF RunMode, Proceed, Cancel, RecordStart, RecordFails, TaskStart,
         SpawnSucceeds, SpawnFails, TaskRow, MarkRead, MarkWrite, MarkFails, Die
    <2> QED
      BY <2>1, <2>2 DEF Step
  <1>4. astray' \subseteq Proc
    BY DEF TypeInv, TypeOK, Step, Handler, RunMode, Start, Unseen, ProbeRead, ProbeFresh,
       ProbeAbort, ProbeCompleted, ProbeCrashed, ResumeEmit, FlipRead, FlipWrite,
       FlipFails, Route, Decline, Proceed, Cancel, RecordStart, RecordFails, TaskStart,
       SpawnSucceeds, SpawnFails, TaskRow, MarkRead, MarkWrite, MarkFails, Die
  <1>5. record' \in ARecord \cup {NoRecord} /\ (record # NoRecord => record' # NoRecord)
    BY ReadStep, ConstantsAssumption DEF TypeInv, TypeOK, ARecord, NoRecord
  <1>6. seen' \in [Proc -> ARecord \cup {NoRecord}]
    BY ReadStep DEF TypeInv, TypeOK, ARecord
  <1>7. ASSUME NEW q \in Proc, seen'[q] # NoRecord
        PROVE  record' # NoRecord
    <2>1. seen[q] # NoRecord \/ record # NoRecord
      BY <1>7, ReadStep DEF TypeInv, TypeOK
    <2> QED
      BY <1>5, <2>1 DEF TypeInv, RecordStays
  <1>8. ASSUME NEW q \in Proc, pc'[q] \in {"resume", "flipRead"}
        PROVE  record' # NoRecord
    BY <1>1, <1>5, <1>8, ReaderStep DEF TypeInv, RecordStays
  <1>9. ASSUME NEW q \in Proc, pc'[q] \in {"resume", "flipWrite", "markWrite"}
        PROVE  seen'[q] # NoRecord
    <2>1. CASE q # p
      <3>1. seen'[q] = seen[q]
        BY <2>1, ReadStep DEF TypeInv, TypeOK
      <3> QED
        BY <1>1, <1>9, <2>1, <3>1 DEF TypeInv, RecordStays
    <2> QED
      BY <1>9, <2>1, ReaderStep
  <1> QED
    BY <1>0, <1>2, <1>3, <1>4, <1>5, <1>6, <1>7, <1>8, <1>9
       DEF TypeInv, TypeOK, RecordStays, ARecord, Labels

LEMMA TypeInductive == TypeInv /\ [Next]_vars => TypeInv'
  <1> SUFFICES ASSUME TypeInv, [Next]_vars
               PROVE  TypeInv'
    OBVIOUS
  <1>1. CASE UNCHANGED vars
    BY <1>1 DEF TypeInv, TypeOK, RecordStays, vars
  <1>2. CASE Next
    BY <1>2, TypeStep DEF Next, Step
  <1> QED
    BY <1>1, <1>2

\* The record, the journals and what the processes hold keep their types.
THEOREM TypeCorrect == Spec => []TypeOK
  <1>1. TypeInv => TypeOK
    BY DEF TypeInv
  <1> QED
    BY <1>1, TypeInit, TypeInductive, PTL DEF Spec
-----------------------------------------------------------------------------
(* Cooks that have not gone astray. *)

Kept == Proc \ astray

\* Of two cooks that start at a time, neither is kept; nor is one that starts
\* beside a cook astray.
OneStarting ==
    \A p, q \in Proc : p # q /\ pc[p] \in Starting /\ pc[q] \in Starting => p \in astray
NoneBeside == \A p \in Kept, q \in astray : pc[p] \in Starting => ~Alive(q)

AstrayStarted == \A p \in astray : pc[p] # "idle"

\* Whoever owns a record has come past its own start.
OwnersRan ==
    /\ record # NoRecord => pc[record.owner] \in Running \cup Dead
    /\ \A p \in Proc : seen[p] # NoRecord => pc[seen[p].owner] \in Running \cup Dead

\* What is in the journal of a session, by where its process is.
JournalPhases ==
    /\ \A p \in Proc : pc[p] \in Unstarted \cup (Running \ {"markRead", "markWrite"})
                          => p \notin Completed
    /\ \A p \in Proc : pc[p] \in {"markRead", "markWrite"} => p \in Completed
    /\ \A p \in Kept : pc[p] \in Unstarted \cup Running => p \notin Resumed

\* Sessions that the record must tell of: they run, or crashed unnoticed.
InProgressOf(p) == [status |-> "in_progress", owner |-> p]
Unnoticed == {p \in Proc : pc[p] = "crashed" /\ p \notin Completed \cup Resumed}
Guarded == {p \in Kept : pc[p] \in Running \/ p \in Unnoticed}

\* The record of such a session is in place, and whoever starts has read it or
\* will: nobody is past the probe, but for one that is about to notice a crash.
Cleared == {"flipRead", "flipWrite", "route", "boundary", "record"}
Guards(x, p) ==
    /\ pc[p] \notin Cleared \cup Running
    /\ pc[p] \in {"probe", "resume"} => seen[p] = InProgressOf(x)
    /\ pc[x] \in Running => pc[p] # "resume"
GuardedAlone ==
    \A x \in Guarded : record = InProgressOf(x) /\ \A p \in Proc \ {x} : Guards(x, p)

\* What a starting cook knows: between its two reads, the owner of the record
\* may only have finished, and on the way to the resume row nothing changes.
Probing(p) ==
    \/ seen[p] = record
    \/ /\ seen[p].status = "in_progress" /\ seen[p].owner \in Completed
       /\ record.status # "in_progress"
StarterKnows ==
    \A p \in Kept :
        /\ pc[p] = "probe" => Probing(p)
        /\ pc[p] = "resume" => /\ seen[p] = record /\ record.status = "in_progress"
                                /\ record.owner \notin Completed
                                /\ pc[record.owner] \in Dead

IInv == /\ TypeInv /\ OneStarting /\ NoneBeside /\ AstrayStarted /\ OwnersRan
        /\ JournalPhases /\ GuardedAlone /\ StarterKnows

LEMMA InvInit == Init => IInv
  <1> SUFFICES ASSUME Init PROVE IInv
    OBVIOUS
  <1>1. TypeInv
    BY TypeInit
  <1>2. OneStarting /\ NoneBeside /\ AstrayStarted /\ OwnersRan
    BY DEF Init, OneStarting, NoneBeside, AstrayStarted, OwnersRan, Starting, Running
  <1>3. Completed = {} /\ Resumed = {}
    BY DEF Init, Completed, Resumed, Noticed, Has
  <1>4. Guarded = {}
    BY DEF Init, Guarded, Unnoticed, Kept, Running
  <1>5. JournalPhases /\ GuardedAlone /\ StarterKnows
    BY <1>3, <1>4 DEF Init, JournalPhases, GuardedAlone, StarterKnows, Kept, Running
  <1> QED
    BY <1>1, <1>2, <1>5 DEF IInv

\* A process that runs, or has come to its end, does not start again.
LEMMA RanStays ==
  ASSUME TypeInv, NEW p \in Proc, Step(p), NEW q \in Proc, pc[q] \in Running \cup Dead
  PROVE  pc'[q] \in Running \cup Dead
  <1> USE DEF Running, Dead, Starting, Goto, TypeInv, TypeOK
  <1>1. CASE Handler(p)
    BY <1>1 DEF Handler, Start, ProbeRead, ProbeFresh, ProbeAbort, ProbeCompleted,
       ProbeCrashed, ResumeEmit, FlipRead, FlipWrite, FlipFails, Route, Decline, InProgress
  <1>2. CASE RunMode(p)
    BY <1>2 DEF RunMode, Proceed, Cancel, RecordStart, RecordFails, TaskStart,
       SpawnSucceeds, SpawnFails, TaskRow, After, MarkRead, MarkWrite, MarkFails
  <1>3. CASE Die(p)
    BY <1>3 DEF Die
  <1> QED
    BY <1>1, <1>2, <1>3 DEF Step

LEMMA OwnersRanStep ==
  ASSUME TypeInv, TypeInv', OwnersRan, NEW p \in Proc, Step(p)
  PROVE  OwnersRan'
  <1>1. \/ record' = record
        \/ record'.owner = p /\ pc'[p] = "start"
        \/ seen[p] # NoRecord /\ record'.owner = seen[p].owner
    <2>1. CASE FlipWrite(p) \/ MarkWrite(p)
      BY <2>1 DEF FlipWrite, MarkWrite, Flip, TypeInv, TypeOK, RecordStays, NoRecord
    <2>2. CASE RecordStart(p)
      BY <2>2 DEF RecordStart, Goto, TypeInv, TypeOK
    <2> QED
      BY <2>1, <2>2
         DEF Step, Handler, RunMode, Start, ProbeRead, ProbeFresh, ProbeAbort,
             ProbeCompleted, ProbeCrashed, ResumeEmit, FlipRead, FlipFails, Route, Decline,
             Proceed, Cancel, RecordFails, TaskStart, SpawnSucceeds, SpawnFails, TaskRow,
             MarkRead, MarkFails, Die
  <1>3. /\ record # NoRecord => record.owner \in Proc
        /\ \A q \in Proc : seen[q] # NoRecord => seen[q].owner \in Proc
    BY DEF TypeInv, TypeOK
  <1>4. ASSUME record' # NoRecord PROVE pc'[record'.owner] \in Running \cup Dead
    BY <1>1, <1>3, <1>4, RanStays DEF OwnersRan, Running
  <1>5. ASSUME NEW q \in Proc, seen'[q] # NoRecord
        PROVE  pc'[seen'[q].owner] \in Running \cup Dead
    <2>1. seen'[q] = seen[q] \/ seen'[q] = record
      BY <1>5, ReadStep DEF TypeInv, TypeOK
    <2> QED
      BY <1>3, <1>5, <2>1, RanStays DEF OwnersRan
  <1> QED
    BY <1>4, <1>5 DEF OwnersRan

\* What the steps that write a row to a journal make of the two sets.
LEMMA RowStep ==
  ASSUME TypeInv, NEW p \in Proc
  PROVE  /\ Route(p) \/ TaskStart(p) => Completed' = Completed /\ Resumed' = Resumed
         /\ Cancel(p) => Completed' = Completed \cup {p} /\ Resumed' = Resumed
         /\ ResumeEmit(p) => /\ Completed' = Completed
                             /\ Resumed' = Resumed \cup {record.owner}
         /\ TaskRow(p) =>
               /\ Completed' = Completed \cup (IF pc[p] = "completion" THEN {p} ELSE {})
               /\ Resumed' = Resumed
  <1>0. journal \in [Proc -> Seq(Row)]
    BY DEF TypeInv, TypeOK
  <1>1. ASSUME NEW q \in Proc, NEW row \in Row \ ResumeRow, Emit(q, row)
        PROVE  /\ Completed' = Completed \cup (IF row = "completion" THEN {q} ELSE {})
               /\ Resumed' = Resumed
    <2>1. row \in Row /\ row \notin ResumeRow
      OBVIOUS
    <2>2. Resumed' = Resumed \cup {}
      BY <1>0, <1>1, <2>1, EmitStep
    <2> QED
      BY <1>0, <1>1, <2>1, <2>2, EmitStep
  <1>2. \A row \in {"decision", "start", "commit", "complete", "fail", "completion"} :
           row \in Row \ ResumeRow
    BY DEF Row, ResumeRow
  <1>3. ASSUME Route(p) \/ TaskStart(p)
        PROVE  Completed' = Completed /\ Resumed' = Resumed
    <2>1. Emit(p, "decision") \/ Emit(p, "start")
      BY <1>3 DEF Route, TaskStart
    <2> QED
      BY <1>1, <1>2, <2>1
  <1>4. ASSUME Cancel(p)
        PROVE  Completed' = Completed \cup {p} /\ Resumed' = Resumed
    <2>1. Emit(p, "completion")
      BY <1>4 DEF Cancel
    <2> QED
      BY <1>1, <1>2, <2>1
  <1>5. ASSUME TaskRow(p)
        PROVE  /\ Completed' = Completed \cup (IF pc[p] = "completion" THEN {p} ELSE {})
               /\ Resumed' = Resumed
    <2>1. /\ Emit(p, pc[p])
          /\ pc[p] \in {"decision", "start", "commit", "complete", "fail", "completion"}
      BY <1>5 DEF TaskRow, After
    <2> QED
      BY <1>1, <1>2, <2>1
  <1>6. ASSUME ResumeEmit(p)
        PROVE  Completed' = Completed /\ Resumed' = Resumed \cup {record.owner}
    <2> DEFINE row == FromTask(seen[p].owner)
    <2>1. row \in ResumeRow /\ row \in Row /\ row # "completion"
      BY FromTaskRow DEF Row, ResumeRow
    <2>2. record.owner \in Proc /\ Emit(record.owner, row)
      BY <1>6 DEF ResumeEmit, TypeInv, TypeOK, NoRecord
    <2> HIDE DEF row
    <2>3. Completed' = Completed \cup {}
      BY <1>0, <2>1, <2>2, EmitStep
    <2> QED
      BY <1>0, <2>1, <2>2, <2>3, EmitStep
  <1> QED
    BY <1>3, <1>4, <1>5, <1>6

-----------------------------------------------------------------------------
(* The shapes of a step of p: from which labels to which, and what it does   *)
(* to the record, to the sets of journals and to the cooks astray.           *)

Silent == Completed' = Completed /\ Resumed' = Resumed
Quiet == record' = record /\ Silent /\ astray' = astray

Begins(p) ==
    /\ pc[p] = "idle" /\ pc'[p] = "probeRead" /\ record' = record /\ Silent
    /\ astray \subseteq astray'
    /\ \A q \in astray' : q \in astray \/ q = p \/ pc[q] \in Starting
    /\ p \in astray' \/ \A q \in astray : ~Alive(q)
    /\ \A q \in Proc : pc[q] \in Starting => p \in astray' /\ q \in astray'
Looks(p) == pc[p] = "probeRead" /\ pc'[p] = "probe" /\ seen'[p] = record /\ Quiet
Passes(p) ==
    /\ pc[p] = "probe" /\ pc'[p] \in Cleared /\ Quiet
    /\ seen[p].status = "in_progress" => ~Alive(seen[p].owner) /\ seen[p].owner \in Completed
FindsCrash(p) ==
    /\ pc[p] = "probe" /\ pc'[p] = "resume" /\ seen'[p] = seen[p] /\ Quiet
    /\ seen[p].status = "in_progress" /\ ~Alive(seen[p].owner) /\ seen[p].owner \notin Completed
Resumes(p) ==
    /\ pc[p] = "resume" /\ pc'[p] = "flipRead" /\ record' = record /\ astray' = astray
    /\ record.owner \in Proc
    /\ Completed' = Completed /\ Resumed' = Resumed \cup {record.owner}
GoesOn(p) == pc[p] \in Cleared /\ pc'[p] \in Cleared /\ Silent /\ astray' = astray
Records(p) ==
    /\ pc[p] = "record" /\ pc'[p] = "start" /\ Silent /\ astray' = astray
    /\ record' = InProgressOf(p)
RecordsNot(p) ==
    /\ pc[p] = "record" /\ pc'[p] = "start" /\ Silent /\ record' = record
    /\ astray' = astray \cup {p}
Works(p) ==
    /\ pc[p] \in Running /\ pc'[p] \in Running
    /\ record' = record /\ Resumed' = Resumed /\ astray' = astray
    /\ IF pc[p] = "completion" THEN pc'[p] = "markRead" /\ Completed' = Completed \cup {p}
       ELSE /\ Completed' = Completed
            /\ pc[p] \in {"markRead", "markWrite"} <=> pc'[p] \in {"markRead", "markWrite"}
Finishes(p) ==
    /\ pc[p] \in {"markRead", "markWrite"} /\ pc'[p] = "exited" /\ Silent /\ astray' = astray
    /\ record' = record \/ record'.status # "in_progress"
Leaves(p) ==
    /\ pc[p] \in Starting /\ pc'[p] \in {"aborted", "exited", "killed"}
    /\ record' = record /\ Resumed' = Resumed /\ astray' = astray
    /\ Completed' \in {Completed, Completed \cup {p}}
Crashes(p) == pc[p] \in Running /\ pc'[p] = "crashed" /\ Quiet

Shapes(p) ==
    \/ Begins(p) \/ Looks(p) \/ Passes(p) \/ FindsCrash(p) \/ Resumes(p) \/ GoesOn(p)
    \/ Records(p) \/ RecordsNot(p) \/ Works(p) \/ Finishes(p) \/ Leaves(p) \/ Crashes(p)

\* The others stay where they are, with what they have read.
Alone(p) == \A q \in Proc : q # p => pc'[q] = pc[q] /\ seen'[q] = seen[q]

LEMMA AloneStep ==
  ASSUME TypeInv, NEW p \in Proc, Step(p)
  PROVE  Alone(p)
  BY PcStep, ReadStep DEF Alone, TypeInv, TypeOK

LEMMA HandlerShape ==
  ASSUME TypeInv, NEW p \in Proc, Handler(p)
  PROVE  Shapes(p)
  <1> USE DEF Goto, Silent, Quiet, Cleared
  <1>0. pc \in [Proc -> Labels] /\ seen \in [Proc -> ARecord \cup {NoRecord}]
    BY DEF TypeInv, TypeOK, Labels, ARecord
  <1>a. UNCHANGED journal => Silent
    BY SilentStep
  <1>1. CASE Start(p)
    <2>1. pc[p] = "idle" /\ pc'[p] = "probeRead" /\ record' = record /\ Silent
      BY <1>0, <1>1, <1>a DEF Start
    <2>2. astray' = IF Unseen = {} THEN astray ELSE astray \cup Unseen \cup {p}
      BY <1>1 DEF Start
    <2>3. astray \subseteq Proc
      BY DEF TypeInv, TypeOK
    <2>4. CASE Unseen = {}
      <3>1. astray' = astray
        BY <2>2, <2>4
      <3>2. \A q \in Proc : pc[q] \notin Starting /\ (q \in astray => ~Alive(q))
        BY <2>4 DEF Unseen
      <3> QED
        BY <2>1, <2>3, <3>1, <3>2 DEF Begins, Shapes
    <2>5. CASE Unseen # {}
      <3>1. astray' = astray \cup Unseen \cup {p}
        BY <2>2, <2>5
      <3>2. \A q \in Unseen : q \in astray \/ pc[q] \in Starting
        BY DEF Unseen
      <3>3. \A q \in Proc : pc[q] \in Starting => q \in Unseen
        BY DEF Unseen
      <3> QED
        BY <2>1, <3>1, <3>2, <3>3 DEF Begins, Shapes
    <2> QED
      BY <2>4, <2>5
  <1>2. CASE ProbeRead(p)
    <2>1. Looks(p)
      BY <1>0, <1>2, <1>a DEF ProbeRead, Read, Looks
    <2> QED
      BY <2>1 DEF Shapes
  <1>3. CASE ProbeFresh(p)
    <2>1. Passes(p)
      BY <1>0, <1>3, <1>a DEF ProbeFresh, Passes
    <2> QED
      BY <2>1 DEF Shapes
  <1>4. CASE ProbeAbort(p) \/ Decline(p)
    <2>1. Leaves(p)
      BY <1>0, <1>4, <1>a DEF ProbeAbort, InProgress, Decline, Leaves, Starting
    <2> QED
      BY <2>1 DEF Shapes
  <1>5. CASE ProbeCompleted(p)
    <2>1. seen[p].owner \in Completed
      BY <1>0, <1>5 DEF ProbeCompleted, InProgress, Completed, ARecord, NoRecord
    <2>2. Passes(p)
      BY <1>0, <1>5, <1>a, <2>1 DEF ProbeCompleted, InProgress, Passes
    <2> QED
      BY <2>2 DEF Shapes
  <1>6. CASE ProbeCrashed(p)
    <2>1. seen[p].owner \notin Completed
      BY <1>6 DEF ProbeCrashed, Completed
    <2>2. FindsCrash(p)
      BY <1>0, <1>6, <1>a, <2>1 DEF ProbeCrashed, InProgress, FindsCrash
    <2> QED
      BY <2>2 DEF Shapes
  <1>7. CASE ResumeEmit(p)
    <2>1. record.owner \in Proc
      BY <1>7 DEF ResumeEmit, TypeInv, TypeOK, NoRecord
    <2>2. Completed' = Completed /\ Resumed' = Resumed \cup {record.owner}
      BY <1>7, RowStep
    <2>3. Resumes(p)
      BY <1>0, <1>7, <2>1, <2>2 DEF ResumeEmit, Resumes
    <2> QED
      BY <2>3 DEF Shapes
  <1>8. CASE FlipRead(p) \/ FlipWrite(p) \/ FlipFails(p)
    <2>1. GoesOn(p)
      BY <1>0, <1>8, <1>a DEF FlipRead, FlipWrite, FlipFails, GoesOn
    <2> QED
      BY <2>1 DEF Shapes
  <1>9. CASE Route(p)
    <2>1. Silent
      BY <1>9, RowStep
    <2>2. GoesOn(p)
      BY <1>0, <1>9, <2>1 DEF Route, GoesOn
    <2> QED
      BY <2>2 DEF Shapes
  <1> QED
    BY <1>1, <1>2, <1>3, <1>4, <1>5, <1>6, <1>7, <1>8, <1>9 DEF Handler

LEMMA RunModeShape ==
  ASSUME TypeInv, NEW p \in Proc, RunMode(p) \/ Die(p)
  PROVE  Shapes(p)
  <1> USE DEF Goto, Silent, Quiet, Cleared
  <1>0. pc \in [Proc -> Labels] /\ seen \in [Proc -> ARecord \cup {NoRecord}]
    BY DEF TypeInv, TypeOK, Labels, ARecord
  <1>a. UNCHANGED journal => Silent
    BY SilentStep
  <1>1. CASE Proceed(p)
    <2>1. GoesOn(p)
      BY <1>0, <1>1, <1>a DEF Proceed, GoesOn
    <2> QED
      BY <2>1 DEF Shapes
  <1>2. CASE Cancel(p)
    <2>1. Completed' = Completed \cup {p} /\ Resumed' = Resumed
      BY <1>2, RowStep
    <2>2. Leaves(p)
      BY <1>0, <1>2, <2>1 DEF Cancel, Leaves, Starting
    <2> QED
      BY <2>2 DEF Shapes
  <1>3. CASE RecordStart(p)
    <2>1. Records(p)
      BY <1>0, <1>3, <1>a DEF RecordStart, Records, InProgressOf
    <2> QED
      BY <2>1 DEF Shapes
  <1>4. CASE RecordFails(p)
    <2>1. RecordsNot(p)
      BY <1>0, <1>4, <1>a DEF RecordFails, RecordsNot
    <2> QED
      BY <2>1 DEF Shapes
  <1>5. CASE TaskStart(p)
    <2>1. Silent
      BY <1>5, RowStep
    <2>2. Works(p)
      BY <1>0, <1>5, <2>1 DEF TaskStart, Works, Running
    <2> QED
      BY <2>2 DEF Shapes
  <1>6. CASE SpawnSucceeds(p) \/ SpawnFails(p)
    <2>1. Works(p)
      BY <1>0, <1>6, <1>a DEF SpawnSucceeds, SpawnFails, Works, Running
    <2> QED
      BY <2>1 DEF Shapes
  <1>7. CASE TaskRow(p)
    <2>1. /\ Completed' = Completed \cup (IF pc[p] = "completion" THEN {p} ELSE {})
          /\ Resumed' = Resumed
      BY <1>7, RowStep
    <2>2. /\ pc[p] \in {"commit", "complete", "fail", "completion"} /\ pc'[p] = After[pc[p]]
          /\ record' = record /\ astray' = astray
      BY <1>0, <1>7 DEF TaskRow, After
    <2>3. Works(p)
      BY <2>1, <2>2 DEF Works, After, Running
    <2> QED
      BY <2>3 DEF Shapes
  <1>8. CASE MarkRead(p)
    <2>1. Works(p) \/ Finishes(p)
      BY <1>0, <1>8, <1>a DEF MarkRead, Works, Finishes, Running
    <2> QED
      BY <2>1 DEF Shapes
  <1>9. CASE MarkWrite(p)
    <2>1. seen[p] \in ARecord /\ to[p] \in {"completed", "crashed"}
      BY <1>0, <1>9 DEF MarkWrite, TypeInv, TypeOK, RecordStays
    <2>2. record'.status # "in_progress"
      BY <1>9, <2>1 DEF MarkWrite, Flip, ARecord
    <2>3. Finishes(p)
      BY <1>0, <1>9, <1>a, <2>2 DEF MarkWrite, Finishes
    <2> QED
      BY <2>3 DEF Shapes
  <1>10. CASE MarkFails(p)
    <2>1. Finishes(p)
      BY <1>0, <1>10, <1>a DEF MarkFails, Finishes
    <2> QED
      BY <2>1 DEF Shapes
  <1>11. CASE Die(p)
    <2>1. Leaves(p) \/ Crashes(p)
      BY <1>0, <1>11, <1>a DEF Die, Alive, Leaves, Crashes
    <2> QED
      BY <2>1 DEF Shapes
  <1> QED
    BY <1>1, <1>2, <1>3, <1>4, <1>5, <1>6, <1>7, <1>8, <1>9, <1>10, <1>11 DEF RunMode

LEMMA ShapeStep ==
  ASSUME TypeInv, NEW p \in Proc, Step(p)
  PROVE  Shapes(p) /\ Alone(p)
  BY HandlerShape, RunModeShape, AloneStep DEF Step
-----------------------------------------------------------------------------
(* Every step preserves the invariant. *)

\* No two cooks start at a time but astray, none beside a cook astray.
LEMMA StartingStep ==
  ASSUME IInv, TypeInv', NEW p \in Proc, Shapes(p), Alone(p)
  PROVE  OneStarting' /\ NoneBeside' /\ AstrayStarted'
  <1> USE DEF IInv, OneStarting, NoneBeside, AstrayStarted, Kept, Alive,
          Alone, Silent, Quiet, Cleared, Starting, Running
  <1>0. astray \subseteq Proc
    BY DEF TypeInv, TypeOK
  <1>1. CASE Begins(p)
    <2>0. astray' \subseteq Proc
      BY DEF TypeInv, TypeOK
    <2>1. pc[p] = "idle" /\ pc'[p] = "probeRead" /\ astray \subseteq astray'
      BY <1>1 DEF Begins
    <2>2. ASSUME NEW q \in astray' PROVE pc'[q] # "idle"
      BY <1>1, <2>0, <2>1, <2>2 DEF Begins
    <2>3. ASSUME NEW q \in Kept', NEW r \in Proc, q # r, pc'[q] \in Starting, pc'[r] \in Starting
          PROVE  FALSE
      BY <1>1, <2>1, <2>3 DEF Begins
    <2>4. ASSUME NEW q \in Kept', NEW r \in astray', pc'[q] \in Starting, Alive(r)'
          PROVE  FALSE
      <3>1. CASE q = p
        BY <1>1, <2>0, <2>1, <2>4, <3>1 DEF Begins
      <3>2. CASE q # p
        BY <1>1, <2>1, <2>4, <3>2 DEF Begins
      <3> QED
        BY <3>1, <3>2
    <2> QED
      BY <2>2, <2>3, <2>4
  <1>2. CASE Looks(p) \/ Passes(p) \/ FindsCrash(p)
    BY <1>0, <1>2 DEF Looks, Passes, FindsCrash
  <1>3. CASE Resumes(p) \/ GoesOn(p)
    BY <1>0, <1>3 DEF Resumes, GoesOn
  <1>4. CASE Records(p)
    BY <1>0, <1>4 DEF Records
  <1>5. CASE RecordsNot(p)
    BY <1>0, <1>5 DEF RecordsNot
  <1>6. CASE Works(p) \/ Finishes(p)
    BY <1>0, <1>6 DEF Works, Finishes
  <1>7. CASE Leaves(p) \/ Crashes(p)
    BY <1>0, <1>7 DEF Leaves, Crashes
  <1> QED
    BY <1>1, <1>2, <1>3, <1>4, <1>5, <1>6, <1>7 DEF Shapes

\* Nobody else runs or is past the probe while a guarded session's owner runs,
\* and the owner of the record one resumes from is past its start.
LEMMA PhasesStep ==
  ASSUME IInv, TypeInv', NEW p \in Proc, Shapes(p), Alone(p)
  PROVE  JournalPhases'
  <1> USE DEF IInv, JournalPhases, Kept, Alone, Silent, Quiet, Cleared, Unstarted,
          Starting, Running
  <1>1. CASE Begins(p)
    BY <1>1 DEF Begins
  <1>2. CASE Looks(p) \/ Passes(p) \/ FindsCrash(p)
    BY <1>2 DEF Looks, Passes, FindsCrash
  <1>3. CASE Resumes(p)
    <2>1. record.owner \in Proc /\ pc[record.owner] \in Running \cup Dead
      BY <1>3, ConstantsAssumption DEF Resumes, OwnersRan, NoRecord
    <2>2. record.owner \in Kept => pc[record.owner] \notin Running
      BY <1>3, <2>1 DEF Resumes, GuardedAlone, Guarded, Guards
    <2> QED
      BY <1>3, <2>1, <2>2 DEF Resumes, Dead
  <1>4. CASE GoesOn(p) \/ Records(p) \/ RecordsNot(p)
    BY <1>4 DEF GoesOn, Records, RecordsNot
  <1>5. CASE Works(p)
    BY <1>5 DEF Works
  <1>6. CASE Finishes(p) \/ Leaves(p) \/ Crashes(p)
    BY <1>6 DEF Finishes, Leaves, Crashes
  <1> QED
    BY <1>1, <1>2, <1>3, <1>4, <1>5, <1>6 DEF Shapes

\* A cook that comes to run finds everybody else before its start or at its end.
LEMMA RecordsAlone ==
  ASSUME IInv, NEW p \in Kept, pc[p] = "record", NEW q \in Proc \ {p}
  PROVE  pc[q] \notin Starting \cup Running
  <1> USE DEF IInv, Kept
  <1>1. pc[q] \notin Starting
    BY DEF OneStarting, Starting
  <1>2. q \in astray => pc[q] \notin Running
    BY DEF NoneBeside, Alive, Starting
  <1>3. q \notin astray => pc[q] \notin Running
    BY DEF GuardedAlone, Guarded, Guards, Cleared
  <1> QED
    BY <1>1, <1>2, <1>3

\* The record of a guarded session stays in place, and nobody slips past it.
LEMMA GuardedStep ==
  ASSUME IInv, TypeInv', NEW p \in Proc, Shapes(p), Alone(p)
  PROVE  GuardedAlone'
  <1> USE DEF IInv, Alone, Silent, Quiet
  <1>0. GuardedAlone /\ astray \subseteq Proc
    BY DEF TypeInv, TypeOK
  <1>a. ASSUME pc[p] \in Cleared PROVE Guarded = {}
    <2>1. pc[p] \notin Running /\ pc[p] # "crashed"
      BY <1>a DEF Cleared, Running
    <2> QED
      BY <1>0, <1>a, <2>1 DEF GuardedAlone, Guarded, Guards, Unnoticed
  <1>b. ASSUME Guarded' \subseteq Guarded \ {p}, record' = record,
               \A x \in Guarded \ {p} : Guards(x, p)'
        PROVE  GuardedAlone'
    <2> SUFFICES ASSUME NEW x \in Guarded'
                 PROVE  /\ record' = InProgressOf(x)
                        /\ \A q \in Proc \ {x} : Guards(x, q)'
      BY DEF GuardedAlone, InProgressOf
    <2>1. x \in Guarded /\ x # p /\ x \in Proc
      BY <1>b DEF Guarded, Kept
    <2>2. record' = InProgressOf(x)
      BY <1>0, <1>b, <2>1 DEF GuardedAlone
    <2>3. ASSUME NEW q \in Proc \ {x}, q # p
          PROVE  Guards(x, q)'
      <3>1. Guards(x, q)
        BY <1>0, <2>1 DEF GuardedAlone
      <3>2. pc'[q] = pc[q] /\ seen'[q] = seen[q] /\ pc'[x] = pc[x]
        BY <2>1, <2>3
      <3> QED
        BY <3>1, <3>2 DEF Guards, InProgressOf
    <2> QED
      BY <1>b, <2>1, <2>2, <2>3
  <1>1. CASE Begins(p)
    <2>1. Guarded' \subseteq Guarded \ {p}
      BY <1>1 DEF Begins, Guarded, Unnoticed, Kept, Running
    <2> QED
      BY <1>1, <1>b, <2>1 DEF Begins, Guards, Cleared, Running
  <1>2. CASE Looks(p)
    <2>1. Guarded' \subseteq Guarded \ {p}
      BY <1>2 DEF Looks, Guarded, Unnoticed, Kept, Running
    <2>2. \A x \in Guarded \ {p} : Guards(x, p)'
      BY <1>0, <1>2 DEF Looks, GuardedAlone, Guards, Cleared, Running, InProgressOf
    <2> QED
      BY <1>2, <1>b, <2>1, <2>2 DEF Looks
  <1>3. CASE Passes(p)
    <2>1. Guarded' \subseteq Guarded \ {p}
      BY <1>3 DEF Passes, Guarded, Unnoticed, Kept, Running, Cleared
    <2>2. Guarded = {}
      <3> SUFFICES ASSUME NEW x \in Guarded PROVE FALSE
        OBVIOUS
      <3>1. x # p
        BY <1>3 DEF Passes, Guarded, Unnoticed, Running
      <3>2. seen[p] = InProgressOf(x)
        BY <1>0, <1>3, <3>1 DEF Passes, GuardedAlone, Guards
      <3>3. ~Alive(x) /\ x \in Completed
        BY <1>3, <3>2 DEF Passes, InProgressOf
      <3> QED
        BY <3>3 DEF Guarded, Unnoticed, Alive
    <2> QED
      BY <2>1, <2>2 DEF GuardedAlone
  <1>4. CASE FindsCrash(p)
    <2>1. Guarded' \subseteq Guarded \ {p}
      BY <1>4 DEF FindsCrash, Guarded, Unnoticed, Kept, Running
    <2>2. ASSUME NEW x \in Guarded, x # p
          PROVE  record' = InProgressOf(x) /\ \A q \in Proc \ {x} : Guards(x, q)'
      <3>1. seen[p] = InProgressOf(x)
        BY <1>0, <1>4, <2>2 DEF FindsCrash, GuardedAlone, Guards
      <3>2. x \in Proc /\ pc[x] \notin Running /\ pc'[x] = pc[x]
        BY <1>4, <2>2, <3>1 DEF FindsCrash, InProgressOf, Alive, Guarded, Kept
      <3>3. Guards(x, p)'
        BY <1>4, <3>1, <3>2 DEF FindsCrash, Guards, Cleared, Running, InProgressOf
      <3>4. ASSUME NEW q \in Proc \ {x}, q # p PROVE Guards(x, q)'
        BY <1>0, <2>2, <3>2, <3>4 DEF GuardedAlone, Guards, InProgressOf
      <3>5. record' = InProgressOf(x)
        BY <1>0, <1>4, <2>2 DEF FindsCrash, GuardedAlone
      <3> QED
        BY <3>3, <3>4, <3>5
    <2> QED
      BY <2>1, <2>2 DEF GuardedAlone, InProgressOf
  <1>5. CASE Resumes(p)
    <2>1. Guarded' \subseteq Guarded \ {p}
      BY <1>5 DEF Resumes, Guarded, Unnoticed, Kept, Running
    <2>2. Guarded' = {}
      <3> SUFFICES ASSUME NEW x \in Guarded', x \in Guarded \ {p} PROVE FALSE
        BY <2>1
      <3>1. record = InProgressOf(x) /\ pc[x] \notin Running
        BY <1>0, <1>5 DEF Resumes, GuardedAlone, Guards
      <3>2. x \in Resumed' /\ pc'[x] = pc[x]
        BY <1>5, <3>1 DEF Resumes, InProgressOf, Guarded, Kept
      <3> QED
        BY <3>1, <3>2 DEF Guarded, Unnoticed
    <2> QED
      BY <2>2 DEF GuardedAlone
  <1>6. CASE GoesOn(p) \/ RecordsNot(p)
    <2>1. pc[p] \in Cleared
      BY <1>6 DEF GoesOn, RecordsNot, Cleared
    <2>2. Guarded' \subseteq Guarded
      BY <1>6 DEF GoesOn, RecordsNot, Guarded, Unnoticed, Kept, Running, Cleared
    <2> QED
      BY <1>a, <2>1, <2>2 DEF GuardedAlone
  <1>7. CASE Records(p)
    <2>1. pc[p] \in Cleared
      BY <1>7 DEF Records, Cleared
    <2>2. Guarded' \subseteq {p}
      BY <1>7, <1>a, <2>1 DEF Records, Guarded, Unnoticed, Kept
    <2>3. ASSUME p \in Guarded', NEW q \in Proc \ {p}
          PROVE  Guards(p, q)'
      <3>1. p \in Kept
        BY <1>7, <2>3 DEF Records, Guarded, Kept
      <3>2. pc[q] \notin Starting \cup Running
        BY <1>7, <3>1, RecordsAlone DEF Records
      <3> QED
        BY <3>2 DEF Guards, Cleared, Starting
    <2> QED
      BY <1>7, <2>2, <2>3 DEF Records, GuardedAlone, InProgressOf
  <1>8. CASE Works(p)
    <2>1. Guarded' \subseteq Guarded
      BY <1>8 DEF Works, Guarded, Unnoticed, Kept, Running
    <2>2. \A x \in Guarded : pc'[x] \in Running => pc[x] \in Running
      BY <1>8 DEF Works, Guarded, Kept
    <2>3. \A x \in Guarded : x = p
      BY <1>0, <1>8 DEF Works, GuardedAlone, Guards
    <2> QED
      BY <1>0, <1>8, <2>1, <2>2, <2>3 DEF Works, GuardedAlone, Guards, InProgressOf
  <1>9. CASE Finishes(p)
    <2>1. \A x \in Guarded : x = p
      BY <1>0, <1>9 DEF Finishes, GuardedAlone, Guards, Running
    <2>2. Guarded' \subseteq Guarded \ {p}
      BY <1>9 DEF Finishes, Guarded, Unnoticed, Kept, Running
    <2> QED
      BY <2>1, <2>2 DEF GuardedAlone
  <1>10. CASE Leaves(p)
    <2>1. Guarded' \subseteq Guarded \ {p}
      BY <1>10 DEF Leaves, Guarded, Unnoticed, Kept, Running
    <2> QED
      BY <1>10, <1>b, <2>1 DEF Leaves, Guards, Cleared, Running
  <1>11. CASE Crashes(p)
    <2>1. \A x \in Guarded : x = p
      BY <1>0, <1>11 DEF Crashes, GuardedAlone, Guards
    <2>2. Guarded' \subseteq Guarded
      BY <1>11 DEF Crashes, Guarded, Unnoticed, Kept, Running
    <2>3. "crashed" \notin Running
      BY DEF Running
    <2> QED
      BY <1>0, <1>11, <2>1, <2>2, <2>3 DEF Crashes, GuardedAlone, Guards, InProgressOf
  <1> QED
    BY <1>1, <1>2, <1>3, <1>4, <1>5, <1>6, <1>7, <1>8, <1>9, <1>10, <1>11 DEF Shapes

\* Two cooks do not both know the record while one of them changes it.
LEMMA KnowsStep ==
  ASSUME IInv, TypeInv', NEW p \in Proc, Shapes(p), Alone(p)
  PROVE  StarterKnows'
  <1> USE DEF IInv, Alone, Silent, Quiet
  <1>0. StarterKnows /\ GuardedAlone /\ astray \subseteq Proc
    BY DEF TypeInv, TypeOK
  <1>a. ASSUME NEW q \in Kept, pc[q] \in {"probe", "resume"}, q # p
        PROVE  /\ pc[p] \notin Starting
               /\ p \in astray => pc[p] \notin Running
               /\ p \notin astray /\ pc[p] \in Running
                      => pc[q] = "probe" /\ seen[q] = InProgressOf(p)
    <2>1. pc[p] \notin Starting
      BY <1>a DEF OneStarting, Kept, Starting
    <2>2. p \in astray => pc[p] \notin Running
      BY <1>a DEF NoneBeside, Alive, Starting
    <2>3. p \notin astray /\ pc[p] \in Running
            => pc[q] = "probe" /\ seen[q] = InProgressOf(p)
      BY <1>0, <1>a DEF GuardedAlone, Guarded, Guards, Kept
    <2> QED
      BY <2>1, <2>2, <2>3
  <1>b. ASSUME pc[p] \in Starting, astray' = astray
        PROVE  \A q \in Kept' : q # p => pc'[q] \notin {"probe", "resume"}
    BY <1>a, <1>b DEF Kept
  <1>1. CASE Begins(p)
    <2> SUFFICES ASSUME NEW q \in Kept', pc'[q] \in {"probe", "resume"} PROVE FALSE
      BY DEF StarterKnows
    <2>1. q # p /\ q \in Proc /\ pc[q] \in Starting
      BY <1>1 DEF Begins, Kept, Starting
    <2> QED
      BY <1>1, <2>1 DEF Begins, Kept
  <1>2. CASE Looks(p)
    <2>1. \A q \in Kept' : q # p => pc'[q] \notin {"probe", "resume"}
      BY <1>2, <1>b DEF Looks, Starting
    <2> QED
      BY <1>2, <2>1 DEF Looks, StarterKnows, Probing
  <1>3. CASE Passes(p) \/ GoesOn(p) \/ Leaves(p)
    <2>1. \A q \in Kept' : q # p => pc'[q] \notin {"probe", "resume"}
      BY <1>3, <1>b DEF Passes, GoesOn, Leaves, Starting, Cleared
    <2>2. pc'[p] \notin {"probe", "resume"}
      BY <1>3 DEF Passes, GoesOn, Leaves, Cleared
    <2> QED
      BY <2>1, <2>2 DEF StarterKnows
  <1>4. CASE FindsCrash(p)
    <2>1. \A q \in Kept' : q # p => pc'[q] \notin {"probe", "resume"}
      BY <1>4, <1>b DEF FindsCrash, Starting
    <2>2. ASSUME p \in Kept'
          PROVE  /\ seen'[p] = record' /\ record'.status = "in_progress"
                 /\ record'.owner \notin Completed' /\ pc'[record'.owner] \in Dead
      <3>1. seen[p] = record
        BY <1>0, <1>4, <2>2 DEF FindsCrash, StarterKnows, Probing, Kept
      <3>2. record # NoRecord
        BY <1>4, <3>1 DEF FindsCrash, NoRecord
      <3>3. record.owner \in Proc /\ pc[record.owner] \in Dead
        BY <1>4, <3>1, <3>2 DEF FindsCrash, OwnersRan, Alive, TypeInv, TypeOK
      <3>4. record.owner # p
        BY <1>4, <3>3 DEF FindsCrash, Dead
      <3> QED
        BY <1>4, <3>1, <3>3, <3>4 DEF FindsCrash
    <2> QED
      BY <1>4, <2>1, <2>2 DEF FindsCrash, StarterKnows
  <1>5. CASE Resumes(p)
    <2>1. \A q \in Kept' : q # p => pc'[q] \notin {"probe", "resume"}
      BY <1>5, <1>b DEF Resumes, Starting
    <2> QED
      BY <1>5, <2>1 DEF Resumes, StarterKnows
  <1>6. CASE Records(p) \/ RecordsNot(p)
    <2>1. \A q \in Kept' : q # p => pc'[q] \notin {"probe", "resume"}
      BY <1>6, <1>a DEF Records, RecordsNot, Kept, Starting
    <2> QED
      BY <1>6, <2>1 DEF Records, RecordsNot, StarterKnows
  <1>7. CASE Works(p) \/ Finishes(p) \/ Crashes(p)
    <2>0. /\ pc[p] \in Running /\ pc'[p] \notin {"probe", "resume"} /\ astray' = astray
          /\ Completed \subseteq Completed' /\ Resumed' = Resumed
      BY <1>7 DEF Works, Finishes, Crashes, Running
    <2>1. SUFFICES ASSUME NEW q \in Kept', q # p, pc'[q] \in {"probe", "resume"}
                   PROVE  pc'[q] = "probe" /\ Probing(q)'
      BY <2>0 DEF StarterKnows
    <2>2. q \in Kept /\ pc[q] = "probe" /\ seen'[q] = InProgressOf(p)
      BY <1>a, <2>0, <2>1 DEF Kept
    <2>3. record = InProgressOf(p)
      BY <1>0, <1>a, <2>0, <2>2 DEF GuardedAlone, Guarded, Kept
    <2>4. record' = record \/ (record'.status # "in_progress" /\ p \in Completed')
      BY <1>7 DEF Works, Finishes, Crashes, JournalPhases
    <2>5. pc'[q] = "probe" /\ seen'[q] = InProgressOf(p)
      BY <2>1, <2>2, <2>0 DEF Kept
    <2>6. CASE record' = record
      BY <2>3, <2>5, <2>6 DEF Probing
    <2>7. CASE record'.status # "in_progress" /\ p \in Completed'
      BY <2>5, <2>7 DEF Probing, InProgressOf
    <2> QED
      BY <2>4, <2>6, <2>7
  <1> QED
    BY <1>1, <1>2, <1>3, <1>4, <1>5, <1>6, <1>7 DEF Shapes

LEMMA InvStep ==
  ASSUME IInv, NEW p \in Proc, Step(p)
  PROVE  IInv'
  <1>1. TypeInv /\ TypeInv' /\ OwnersRan'
    BY TypeStep, OwnersRanStep DEF IInv
  <1>2. Shapes(p) /\ Alone(p)
    BY <1>1, ShapeStep
  <1> QED
    BY <1>1, <1>2, StartingStep, PhasesStep, GuardedStep, KnowsStep DEF IInv

LEMMA Inductive == IInv /\ [Next]_vars => IInv'
  <1> SUFFICES ASSUME IInv, [Next]_vars
               PROVE  IInv'
    OBVIOUS
  <1>1. CASE UNCHANGED vars
    <2>1. Completed' = Completed /\ Resumed' = Resumed
      BY <1>1, SilentStep DEF vars
    <2>2. TypeInv'
      BY <1>1, TypeInductive DEF IInv
    <2> QED
      BY <1>1, <2>1, <2>2
         DEF vars, IInv, OneStarting, NoneBeside, AstrayStarted, OwnersRan, JournalPhases,
             GuardedAlone, Guarded, Guards, StarterKnows, Unnoticed, Probing, Kept, Alive
  <1>2. CASE Next
    BY <1>2, InvStep DEF Next, Step
  <1> QED
    BY <1>1, <1>2

LEMMA Invariance == Spec => []IInv
  BY InvInit, Inductive, PTL DEF Spec
-----------------------------------------------------------------------------
(* What follows for the cooks. *)

\* A cook that runs, and is not astray, runs alone: the probe keeps the others
\* from passing (cook.ts:171), however they are started and whichever writes of
\* the record fail.
THEOREM OneCookRuns == Spec => []OneCook
  <1>1. IInv => OneCook
    BY DEF IInv, GuardedAlone, Guarded, Guards, Kept, OneCook
  <1> QED
    BY <1>1, Invariance, PTL

\* The record has one writer at a time but for cooks that are astray, as
\* RegisterImplemented of AtomicWriteProofs asks of whoever calls atomicWriteJSON.
THEOREM OneWriterAtATime == Spec => []OneWriter
  <1>1. ASSUME IInv, NEW p \in Proc, NEW q \in Proc, p # q,
               pc[p] \in Writing, pc[q] \in Writing, p \notin astray
        PROVE  FALSE
    <2> USE DEF IInv, Kept
    <2>1. CASE pc[p] = "markWrite"
      BY <1>1, <2>1 DEF GuardedAlone, Guarded, Guards, Writing, Cleared, Running
    <2>2. CASE pc[p] \in {"flipWrite", "record"} /\ pc[q] \in {"flipWrite", "record"}
      BY <1>1, <2>2 DEF OneStarting, Starting
    <2>3. CASE pc[p] \in {"flipWrite", "record"} /\ pc[q] = "markWrite"
      <3>1. q \notin astray
        BY <1>1, <2>3 DEF NoneBeside, Alive, Starting, Running
      <3> QED
        BY <1>1, <2>3, <3>1 DEF GuardedAlone, Guarded, Guards, Cleared, Running
    <2> QED
      BY <1>1, <2>1, <2>2, <2>3 DEF Writing
  <1>2. IInv => OneWriter
    BY <1>1 DEF OneWriter
  <1> QED
    BY <1>2, Invariance, PTL

\* A session that completed is not resumed (cook.ts:158-179, condition (c)), but
\* by a cook astray.
THEOREM NoResumeOfCompleted == Spec => CompletedNotResumed
  <1>1. IInv /\ [Next]_vars => [ResumeRight]_vars
    <2> SUFFICES ASSUME IInv, Next, NEW s \in Proc \ astray, Mistaken(s)', ~Mistaken(s)
                 PROVE  \E p \in astray : pc[p] = "resume" /\ pc'[p] = "flipRead"
      BY DEF ResumeRight
    <2>1. PICK p \in Proc : Step(p)
      BY DEF Next, Step
    <2>2. Shapes(p)
      BY <2>1, ShapeStep DEF IInv
    <2>3. s \in Completed' /\ s \in Resumed' /\ (s \notin Completed \/ s \notin Resumed)
      BY DEF Mistaken, Completed, Resumed
    <2>4. CASE Resumes(p)
      <3>1. s = record.owner /\ s \in Completed
        BY <2>3, <2>4 DEF Resumes
      <3>2. p \in astray
        BY <2>4, <3>1 DEF Resumes, IInv, StarterKnows, Kept
      <3> QED
        BY <2>4, <3>2 DEF Resumes
    <2>5. CASE ~Resumes(p)
      <3>1. /\ Resumed' = Resumed
            /\ Completed' = Completed
                 \/ (Completed' = Completed \cup {p} /\ pc[p] \in Unstarted \cup Running)
        BY <2>2, <2>5
           DEF Shapes, Begins, Looks, Passes, FindsCrash, GoesOn, Records, RecordsNot, Works,
               Finishes, Leaves, Crashes, Silent, Quiet, Unstarted
      <3>2. s = p /\ p \in Kept /\ pc[p] \in Unstarted \cup Running
        BY <2>3, <3>1 DEF Kept
      <3> QED
        BY <2>3, <3>1, <3>2 DEF IInv, JournalPhases
    <2> QED
      BY <2>4, <2>5
  <1> QED
    BY <1>1, Invariance, PTL DEF Spec, CompletedNotResumed

\* Nobody changes the record of a running cook but the cook itself.
THEOREM RecordIsKept == Spec => LiveRecordKept
  <1>1. IInv /\ [Next]_vars => [RecordKept]_vars
    <2> SUFFICES ASSUME IInv, Next, record' # record, record.status = "in_progress",
                        pc[record.owner] \in Running, record.owner \notin astray
                 PROVE  pc[record.owner] = "markWrite" /\ pc'[record.owner] = "exited"
      BY DEF RecordKept
    <2>1. PICK p \in Proc : Step(p)
      BY DEF Next, Step
    <2>2. record.owner \in Guarded
      BY DEF IInv, TypeInv, TypeOK, NoRecord, Guarded, Kept
    <2>3. pc[p] \in Writing /\ Shapes(p) /\ Alone(p)
      BY <2>1, ReadStep, ShapeStep DEF IInv
    <2>4. record.owner = p
      BY <2>2, <2>3 DEF IInv, GuardedAlone, Guards, Writing, Cleared, Running
    <2>5. pc[p] = "markWrite"
      BY <2>3, <2>4 DEF Writing, Running
    <2>6. Finishes(p)
      BY <2>3, <2>5 DEF Shapes, Begins, Looks, Passes, FindsCrash, Resumes, GoesOn, Records,
         RecordsNot, Works, Leaves, Crashes, Quiet, Cleared, Starting
    <2> QED
      BY <2>4, <2>5, <2>6 DEF Finishes
  <1> QED
    BY <1>1, Invariance, PTL DEF Spec, LiveRecordKept
-----------------------------------------------------------------------------
(* The sessions. *)

State == [p \in Proc |-> SessionState(p)]

\* The state of a session by the sets of journals.
StateBySets ==
    State = [p \in Proc |-> IF p \in astray THEN IF Alive(p) THEN "astray" ELSE "gone"
                            ELSE IF p \in Completed THEN "ended"
                            ELSE IF pc[p] \in Running THEN "running"
                            ELSE IF pc[p] # "crashed" THEN "new"
                            ELSE IF p \in Resumed THEN "noticed" ELSE "crashed"]
LEMMA StateIs == StateBySets
  BY DEF State, StateBySets, SessionState, Completed, Resumed

LEMMA StateInit == Init => State = [p \in Proc |-> "new"]
  BY DEF Init, State, SessionState, Has, Noticed, Running

\* What a step may make of the states.
SessionStep ==
    \/ State' = State
    \/ \E s \in Proc :
          \/ /\ State[s] = "new" /\ State' = [State EXCEPT ![s] = "running"]
             /\ \A r \in Proc : State[r] \notin {"running", "crashed", "astray"}
          \/ State[s] \in {"new", "running"} /\ State' = [State EXCEPT ![s] = "ended"]
          \/ State[s] = "running" /\ State' = [State EXCEPT ![s] = "crashed"]
          \/ State[s] = "crashed" /\ State' = [State EXCEPT ![s] = "noticed"]
          \/ State[s] = "astray" /\ State' = [State EXCEPT ![s] = "gone"]
    \/ \E S \in SUBSET Proc :
          /\ \A s \in S : State[s] = "new"
          /\ State' = [s \in Proc |-> IF s \in S THEN "astray" ELSE State[s]]

LEMMA StateStep ==
  ASSUME IInv, NEW p \in Proc, Step(p)
  PROVE  SessionStep
  <1>0. TypeInv /\ IInv' /\ astray \subseteq Proc /\ pc \in [Proc -> Labels]
    BY InvStep DEF IInv, TypeInv, TypeOK, Labels
  <1>1. StateBySets /\ StateBySets'
    <2>1. StateBySets
      BY StateIs
    <2>2. StateBySets'
      BY StateIs, PTL
    <2> QED
      BY <2>1, <2>2
  <1>2. Shapes(p) /\ Alone(p)
    BY <1>0, ShapeStep
  <1> USE DEF Silent, Quiet
  \* One process goes astray, or the step is silent, unless its own state changes.
  <1>a. ASSUME astray' = astray, Completed' \in {Completed, Completed \cup {p}}, Resumed' = Resumed
        PROVE  \A q \in Proc : q # p => State'[q] = State[q]
    BY <1>1, <1>2, <1>a DEF StateBySets, Alone, Alive
  <1>b. ASSUME NEW x, \A q \in Proc : q # p => State'[q] = State[q], State'[p] = x
        PROVE  State' = [State EXCEPT ![p] = x]
    BY <1>1, <1>b DEF StateBySets
  <1>c. ASSUME \A q \in Proc : State'[q] = State[q]
        PROVE  State' = State
    BY <1>1, <1>c DEF StateBySets
  <1>3. CASE Begins(p)
    <2> DEFINE S == astray' \ astray
    <2>1. astray' \subseteq Proc
      BY <1>0 DEF IInv, TypeInv, TypeOK
    <2>2. ASSUME NEW s \in S PROVE State[s] = "new"
      <3>1. s \in Proc /\ pc[s] \in Unstarted /\ s \notin astray
        BY <1>3, <2>1 DEF Begins, Unstarted
      <3>2. s \notin Completed /\ pc[s] \notin Running /\ pc[s] # "crashed"
        BY <1>0, <3>1 DEF IInv, JournalPhases, Unstarted, Starting, Running
      <3> QED
        BY <1>1, <3>1, <3>2 DEF StateBySets
    <2>3. ASSUME NEW q \in Proc
          PROVE  State'[q] = IF q \in S THEN "astray" ELSE State[q]
      <3>1. CASE q \in S
        <4>1. q \in astray' /\ pc'[q] \in Starting
          BY <1>2, <1>3, <3>1 DEF Begins, Alone, Starting
        <4> QED
          BY <1>1, <3>1, <4>1 DEF StateBySets, Alive
      <3>2. CASE q \notin S /\ q # p
        BY <1>1, <1>2, <1>3, <3>2 DEF Begins, Alone, StateBySets, Alive
      <3>3. CASE q \notin S /\ q = p
        <4>1. p \in astray <=> p \in astray'
          BY <1>3, <3>3 DEF Begins
        <4>2. p \notin astray'
          <5>1. CASE p \in astray
            BY <1>0, <1>3, <5>1 DEF IInv, AstrayStarted, Begins
          <5> QED
            BY <4>1, <5>1
        <4> QED
          BY <1>1, <1>3, <3>3, <4>1, <4>2 DEF Begins, StateBySets, Running
      <3> QED
        BY <3>1, <3>2, <3>3
    <2>4. State' = [s \in Proc |-> IF s \in S THEN "astray" ELSE State[s]]
      BY <1>1, <2>3 DEF StateBySets
    <2> HIDE DEF S
    <2>5. S \in SUBSET Proc
      BY <2>1 DEF S
    <2> QED
      BY <2>2, <2>4, <2>5 DEF SessionStep
  <1>4. CASE Looks(p) \/ Passes(p) \/ FindsCrash(p) \/ GoesOn(p)
    <2>1. /\ Silent /\ astray' = astray
          /\ pc[p] \in Starting /\ pc'[p] \in Starting
      BY <1>4 DEF Looks, Passes, FindsCrash, GoesOn, Cleared, Starting
    <2>2. \A q \in Proc : q # p => State'[q] = State[q]
      BY <1>a, <2>1
    <2>3. State'[p] = State[p]
      BY <1>1, <2>1 DEF StateBySets, Alive, Starting, Running
    <2> QED
      BY <1>c, <2>2, <2>3 DEF SessionStep
  <1>5. CASE Resumes(p)
    <2> DEFINE o == record.owner
    <2>1. o \in Proc /\ pc[p] \in Starting /\ pc'[p] \in Starting /\ pc[o] \in Running \cup Dead
          /\ astray' = astray /\ Completed' = Completed /\ Resumed' = Resumed \cup {o}
      BY <1>5, ConstantsAssumption DEF Resumes, IInv, OwnersRan, NoRecord, Starting
    <2>2. o # p
      BY <1>5, <2>1 DEF Resumes, Running, Dead
    <2>3. pc'[o] = pc[o]
      BY <1>2, <2>1, <2>2 DEF Alone
    <2> HIDE DEF o
    <2>4. \A q \in Proc : q # o => State'[q] = State[q]
      BY <1>1, <1>2, <2>1 DEF Alone, StateBySets, Alive, Starting, Running
    <2>5. CASE State[o] = "crashed"
      <3>1. State'[o] = "noticed"
        BY <1>1, <2>1, <2>3, <2>5 DEF StateBySets
      <3>2. State' = [State EXCEPT ![o] = "noticed"]
        BY <1>1, <2>1, <2>4, <3>1 DEF StateBySets
      <3> QED
        BY <2>1, <2>5, <3>2 DEF SessionStep
    <2>6. CASE State[o] # "crashed"
      <3>1. State'[o] = State[o]
        BY <1>1, <2>1, <2>3, <2>6 DEF StateBySets, Alive
      <3> QED
        BY <1>c, <2>4, <3>1 DEF SessionStep
    <2> QED
      BY <2>5, <2>6
  <1>6. CASE Records(p)
    <2>1. pc[p] = "record" /\ pc'[p] = "start" /\ Silent /\ astray' = astray
      BY <1>6 DEF Records
    <2>2. \A q \in Proc : q # p => State'[q] = State[q]
      BY <1>a, <2>1
    <2>3. CASE p \in astray
      <3>1. State'[p] = State[p]
        BY <1>1, <2>1, <2>3 DEF StateBySets, Alive, Starting, Running
      <3> QED
        BY <1>c, <2>2, <3>1 DEF SessionStep
    <2>4. CASE p \notin astray
      <3>1. p \notin Completed
        BY <2>1 DEF IInv, JournalPhases, Unstarted, Starting
      <3>2. State[p] = "new" /\ State'[p] = "running"
        BY <1>1, <2>1, <2>4, <3>1 DEF StateBySets, Running
      <3>3. ASSUME NEW r \in Proc PROVE State[r] \notin {"running", "crashed", "astray"}
        <4>1. CASE r = p
          BY <3>2, <4>1
        <4>2. CASE r # p
          <5>1. pc[r] \notin Starting \cup Running
            BY <2>1, <2>4, <4>2, RecordsAlone DEF Kept
          <5>2. r \notin Guarded
            BY <2>1, <4>2 DEF IInv, GuardedAlone, Guards, Cleared
          <5> QED
            BY <1>1, <5>1, <5>2 DEF StateBySets, Alive, Guarded, Unnoticed, Kept
        <4> QED
          BY <4>1, <4>2
      <3>4. State' = [State EXCEPT ![p] = "running"]
        BY <1>b, <2>2, <3>2
      <3> QED
        BY <3>2, <3>3, <3>4 DEF SessionStep
    <2> QED
      BY <2>3, <2>4
  <1>7. CASE RecordsNot(p)
    <2>1. pc[p] = "record" /\ pc'[p] = "start" /\ Silent /\ astray' = astray \cup {p}
      BY <1>7 DEF RecordsNot
    <2>2. \A q \in Proc : q # p => State'[q] = State[q]
      BY <1>1, <1>2, <2>1 DEF StateBySets, Alone, Alive
    <2>3. State'[p] = "astray"
      BY <1>1, <2>1 DEF StateBySets, Alive, Running
    <2>4. CASE p \in astray
      <3>1. State[p] = "astray"
        BY <1>1, <2>1, <2>4 DEF StateBySets, Alive, Starting
      <3> QED
        BY <1>c, <2>2, <2>3, <3>1 DEF SessionStep
    <2>5. CASE p \notin astray
      <3>1. State[p] = "new"
        BY <1>1, <2>1, <2>5 DEF StateBySets, IInv, JournalPhases, Unstarted, Starting, Running
      <3>2. State' = [s \in Proc |-> IF s \in {p} THEN "astray" ELSE State[s]]
        BY <1>1, <2>2, <2>3 DEF StateBySets
      <3>3. {p} \in SUBSET Proc /\ \A s \in {p} : State[s] = "new"
        BY <3>1
      <3> QED
        BY <3>2, <3>3 DEF SessionStep
    <2> QED
      BY <2>4, <2>5
  <1>8. CASE Works(p) \/ Finishes(p) \/ Leaves(p) \/ Crashes(p)
    <2>1. /\ astray' = astray /\ Resumed' = Resumed
          /\ Completed' \in {Completed, Completed \cup {p}}
      BY <1>8 DEF Works, Finishes, Leaves, Crashes
    <2>2. \A q \in Proc : q # p => State'[q] = State[q]
      BY <1>a, <2>1
    <2>3. Alive(p)
      BY <1>8 DEF Works, Finishes, Leaves, Crashes, Alive, Running
    <2>4. CASE p \in astray
      <3>1. State[p] = "astray" /\ State'[p] \in {"astray", "gone"}
        BY <1>1, <2>1, <2>3, <2>4 DEF StateBySets
      <3> QED
        BY <1>b, <1>c, <2>2, <3>1 DEF SessionStep
    <2>5. CASE p \notin astray
      <3>1. CASE Works(p)
        <4>1. \/ State'[p] = State[p]
              \/ State[p] = "running" /\ State'[p] = "ended"
          BY <1>1, <2>1, <2>5, <3>1 DEF StateBySets, Works
        <4> QED
          BY <1>b, <1>c, <2>2, <4>1 DEF SessionStep
      <3>2. CASE Finishes(p)
        <4>1. p \in Completed
          BY <3>2 DEF Finishes, IInv, JournalPhases
        <4>2. State'[p] = State[p]
          BY <1>1, <2>1, <2>5, <4>1 DEF StateBySets
        <4> QED
          BY <1>c, <2>2, <4>2 DEF SessionStep
      <3>3. CASE Leaves(p)
        <4>1. p \notin Completed
          BY <3>3 DEF Leaves, IInv, JournalPhases, Unstarted
        <4>2. State[p] = "new" /\ State'[p] \in {"new", "ended"}
          BY <1>1, <2>1, <2>5, <3>3, <4>1 DEF StateBySets, Leaves, Starting, Running
        <4> QED
          BY <1>b, <1>c, <2>2, <4>2 DEF SessionStep
      <3>4. CASE Crashes(p)
        <4>1. p \notin Resumed
          BY <2>5, <3>4 DEF Crashes, IInv, JournalPhases, Kept
        <4>2. \/ State'[p] = State[p]
              \/ State[p] = "running" /\ State'[p] = "crashed"
          BY <1>1, <2>1, <2>5, <3>4, <4>1 DEF StateBySets, Crashes, Running
        <4> QED
          BY <1>b, <1>c, <2>2, <4>2 DEF SessionStep
      <3> QED
        BY <1>8, <3>1, <3>2, <3>3, <3>4
    <2> QED
      BY <2>4, <2>5
  <1> QED
    BY <1>2, <1>3, <1>4, <1>5, <1>6, <1>7, <1>8 DEF Shapes

\* Of the sessions that are not astray one runs at a time, and no crash goes
\* unnoticed: the probe, the two marks and the journals implement CookSessions.
THEOREM SessionsImplemented == Spec => ImplementsSessions
  <1>1. Init => Sessions!Init
    BY StateInit DEF Sessions!Init, State
  <1>2. IInv /\ [Next]_vars => [Sessions!Next]_([p \in Proc |-> SessionState(p)])
    <2> SUFFICES ASSUME IInv, [Next]_vars
                 PROVE  Sessions!Next \/ UNCHANGED State
      BY DEF State
    <2>1. CASE UNCHANGED vars
      BY <2>1 DEF vars, State, SessionState, Has, Noticed, Alive
    <2>2. CASE Next
      <3>1. PICK p \in Proc : Step(p)
        BY <2>2 DEF Next, Step
      <3>2. SessionStep
        BY <3>1, StateStep
      <3> QED
        BY <3>2 DEF SessionStep, State, Sessions!Next, Sessions!Run, Sessions!End,
           Sessions!Crash, Sessions!Notice, Sessions!Stray, Sessions!Leave, Sessions!Goto
    <2> QED
      BY <2>1, <2>2
  <1>3. Spec => []IInv
    BY Invariance
  <1>4. Spec => Sessions!Spec
    BY <1>1, <1>2, <1>3, PTL DEF Spec, Sessions!Spec
  <1> QED
    BY <1>4 DEF ImplementsSessions
=============================================================================
