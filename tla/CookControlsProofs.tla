-------------------------- MODULE CookControlsProofs --------------------------
(***************************************************************************)
(* CookControls, for every set of sessions and every number of signals:     *)
(* types, and the refinement of SignalSlot.                                 *)
(***************************************************************************)
EXTENDS CookControls, TLAPS

Step(s) ==
    \/ \E action \in Action : Control(s, action)
    \/ Start(s) \/ CookStep(s) \/ Leave(s)

PcStates == {"idle", "boundary", "unlink", "paused", "pausedUnlink",
             "record", "running", "exited", "cancelled"}

\* What the dashboard is in the middle of has an addressee.
HandAddressed == hand = NoHand \/ hand.session \in Session

\* The signal a cook has read is one that was written.
BufSent == \A s \in Session : buf[s] \in 0..Len(sent[s])

TInv == TypeOK /\ HandAddressed /\ BufSent

LEMMA SignalType == ASSUME NEW action \in Action, NEW by \in {"user", "budget"}
                    PROVE  [action |-> action, by |-> by] \in Signal
  BY DEF Signal

LEMMA TypeInit == Init => TInv
  BY DEF Init, TInv, TypeOK, HandAddressed, BufSent, NoHand, Signal, Action,
         Absent, Empty

LEMMA OpenType ==
  ASSUME TInv, NEW s \in Session, NEW signal \in Signal, Open(s, signal)
  PROVE  TInv'
  <1> USE DEF TInv, Open
  <1>1. TypeOK'
    BY DEF TypeOK, Absent, Empty
  <1>2. HandAddressed' /\ BufSent'
    BY DEF HandAddressed, BufSent
  <1> QED
    BY <1>1, <1>2

LEMMA WriteType ==
  ASSUME TInv, Write
  PROVE  TInv'
  <1>1. PICK s \in Session : s = hand.session
    BY DEF TInv, HandAddressed, Write
  <1>2. hand.signal \in Signal
    BY DEF TInv, TypeOK
  <1>3. /\ sent' = [sent EXCEPT ![s] = Append(@, hand.signal)]
        /\ file' = IF hand.linked THEN [file EXCEPT ![s] = Len(sent'[s])] ELSE file
        /\ hand' = NoHand
        /\ UNCHANGED <<pc, buf, taken, recorded>>
    BY <1>1 DEF Write
  <1>4. /\ sent[s] \in Seq(Signal)
        /\ sent'[s] = Append(sent[s], hand.signal)
        /\ \A r \in Session \ {s} : sent'[r] = sent[r]
        /\ sent' \in [Session -> Seq(Signal)]
    BY <1>2, <1>3 DEF TInv, TypeOK
  <1>5. /\ \A r \in Session : Len(sent[r]) \in Nat
        /\ \A r \in Session : Len(sent'[r]) \in Nat /\ Len(sent'[r]) >= Len(sent[r])
    <2>1. \A r \in Session : Len(sent[r]) \in Nat
      BY DEF TInv, TypeOK
    <2>2. Len(sent'[s]) = Len(sent[s]) + 1
      BY <1>2, <1>4
    <2> QED
      BY <1>4, <2>1, <2>2
  <1>6. /\ file' \in [Session -> Int]
        /\ \A r \in Session : file'[r] \in Absent..Len(sent'[r])
    BY <1>3, <1>5 DEF TInv, TypeOK, Absent
  <1>7. BufSent'
    BY <1>3, <1>5 DEF TInv, BufSent, TypeOK
  <1>8. hand' \in [session : Session \cup {NoSession}, signal : Signal,
                   linked : BOOLEAN]
    BY <1>3, SignalType DEF NoHand, Action
  <1> QED
    BY <1>3, <1>4, <1>6, <1>7, <1>8 DEF TInv, TypeOK, HandAddressed

LEMMA UnlinkType ==
  ASSUME TInv, NEW s \in Session, Unlink(s)
  PROVE  TInv'
  <1>1. buf[s] \in Nat
    BY DEF TInv, TypeOK
  <1>2. Obeyed(s) \in {"cancelled", "record", "paused"}
    BY DEF Obeyed
  <1>3. pc' \in [Session -> PcStates]
    BY <1>2 DEF Unlink, Goto, TInv, TypeOK, PcStates
  <1>4. taken' \in [Session -> Seq(Nat)]
    BY <1>1 DEF Unlink, TInv, TypeOK
  <1>5. /\ file' \in [Session -> Int]
        /\ \A r \in Session : file'[r] \in Absent..Len(sent'[r])
    BY DEF Unlink, TInv, TypeOK, Absent
  <1>6. /\ hand' \in [session : Session \cup {NoSession}, signal : Signal,
                      linked : BOOLEAN]
        /\ HandAddressed'
    BY DEF Unlink, TInv, TypeOK, HandAddressed
  <1> QED
    BY <1>3, <1>4, <1>5, <1>6 DEF Unlink, TInv, TypeOK, PcStates, BufSent

LEMMA TypeStep ==
  ASSUME TInv, NEW s \in Session, Step(s)
  PROVE  TInv'
  <1>1. CASE \E action \in Action : Control(s, action)
    BY <1>1, OpenType, SignalType DEF Control
  <1>2. CASE Unlink(s)
    BY <1>2, UnlinkType
  <1>3. CASE Read(s)
    <2>1. file[s] \in 0..Len(sent[s])
      BY <1>3 DEF Read, TInv, TypeOK, Absent
    <2>2. pc' \in [Session -> PcStates]
      BY <1>3 DEF Read, After, Goto, TInv, TypeOK, PcStates
    <2>3. buf' \in [Session -> Nat] /\ BufSent'
      BY <1>3, <2>1 DEF Read, TInv, TypeOK, BufSent
    <2> QED
      BY <1>3, <2>2, <2>3 DEF Read, TInv, TypeOK, PcStates, HandAddressed
  <1>4. CASE Start(s) \/ Leave(s) \/ ReadNothing(s) \/ Record(s) \/ Finish(s)
    <2> USE DEF TInv, TypeOK, HandAddressed, BufSent, Goto
    <2>1. CASE Start(s)
      BY <2>1 DEF Start
    <2>2. CASE Leave(s)
      BY <2>2 DEF Leave
    <2>3. CASE ReadNothing(s)
      BY <2>3 DEF ReadNothing
    <2>4. CASE Record(s)
      BY <2>4 DEF Record
    <2>5. CASE Finish(s)
      BY <2>5 DEF Finish
    <2> QED
      BY <1>4, <2>1, <2>2, <2>3, <2>4, <2>5
  <1> QED
    BY <1>1, <1>2, <1>3, <1>4 DEF Step, CookStep

LEMMA BudgetType ==
  ASSUME TInv, NEW action \in Action, BudgetSignal(action)
  PROVE  TInv'
  BY OpenType, SignalType DEF BudgetSignal, TInv, TypeOK

LEMMA TypeNext == TInv /\ [Next]_vars => TInv'
  <1> SUFFICES ASSUME TInv, [Next]_vars
               PROVE  TInv'
    OBVIOUS
  <1>1. CASE UNCHANGED vars
    BY <1>1 DEF TInv, TypeOK, HandAddressed, BufSent, vars
  <1>2. CASE \E s \in Session : Step(s)
    BY <1>2, TypeStep
  <1>3. CASE \E action \in Action : BudgetSignal(action)
    BY <1>3, BudgetType
  <1>4. CASE Write
    BY <1>4, WriteType
  <1>5. CASE DashboardDies
    BY <1>5, SignalType DEF DashboardDies, TInv, TypeOK, HandAddressed, BufSent,
                            NoHand, Action
  <1> QED
    BY <1>1, <1>2, <1>3, <1>4, <1>5 DEF Next, Step

\* The variables keep their types, and the file never names a signal that was
\* not written (readPendingSignal and writePendingSignal, cook-controls.ts:50).
THEOREM TypeCorrect == Spec => []TypeOK
  <1>1. TInv => TypeOK
    BY DEF TInv
  <1> QED
    BY <1>1, TypeInit, TypeNext, PTL DEF Spec
-----------------------------------------------------------------------------
(* No signal twice. *)

Newer(s, n) == \A k \in DOMAIN taken[s] : taken[s][k] < n

\* What a session has been handed was sent to it; the file, and the signal a
\* cook is about to unlink, are newer than all of it.
Fresh ==
    \A s \in Session :
        /\ Newer(s, Len(sent[s]) + 1)
        /\ file[s] > 0 => Newer(s, file[s])
        /\ pc[s] \in {"unlink", "pausedUnlink"} /\ buf[s] > 0 => Newer(s, buf[s])

IInv == TInv /\ Fresh

LEMMA FreshNext ==
  ASSUME IInv, [Next]_vars
  PROVE  Fresh'
  <1> USE DEF IInv
  <1>0. /\ \A r \in Session : Len(sent[r]) \in Nat
        /\ \A r \in Session : file[r] \in Int /\ buf[r] \in Nat
        /\ \A r \in Session : taken[r] \in Seq(Nat)
    BY DEF TInv, TypeOK
  <1>1. CASE UNCHANGED vars
    BY <1>1 DEF Fresh, Newer, vars
  <1>2. ASSUME NEW s \in Session, NEW signal \in Signal, Open(s, signal)
        PROVE  Fresh'
    BY <1>0, <1>2 DEF Open, Fresh, Newer, TInv, TypeOK, Empty
  <1>3. CASE Write
    <2>1. PICK s \in Session : s = hand.session
      BY <1>3 DEF TInv, HandAddressed, Write
    <2>2. hand.signal \in Signal
      BY DEF TInv, TypeOK
    <2>3. /\ \A r \in Session \ {s} : Len(sent'[r]) = Len(sent[r])
          /\ Len(sent'[s]) = Len(sent[s]) + 1
      BY <1>3, <2>1, <2>2 DEF Write, TInv, TypeOK
    <2>4. file' = file \/ file' = [file EXCEPT ![s] = Len(sent'[s])]
      BY <1>3, <2>1 DEF Write
    <2>5. \A r \in Session : file'[r] = file[r] \/ (r = s /\ file'[r] = Len(sent'[r]))
      <3>1. file \in [Session -> Int]
        BY DEF TInv, TypeOK
      <3>2. CASE file' = file
        BY <3>2
      <3>3. CASE file' = [file EXCEPT ![s] = Len(sent'[s])]
        BY <3>1, <3>3
      <3> QED
        BY <2>4, <3>2, <3>3
    <2>6. UNCHANGED <<pc, buf, taken>>
      BY <1>3 DEF Write
    <2>7. /\ \A r \in Session : Newer(r, Len(sent[r]) + 1)
          /\ \A r \in Session : file[r] > 0 => Newer(r, file[r])
          /\ \A r \in Session : pc[r] \in {"unlink", "pausedUnlink"} /\ buf[r] > 0
                                => Newer(r, buf[r])
      BY DEF Fresh
    <2>8. ASSUME NEW r \in Session
          PROVE  Newer(r, Len(sent[r]) + 1)'
      <3>1. \A k \in DOMAIN taken[r] : taken[r][k] \in Nat
        BY <1>0
      <3> QED
        <4> DEFINE m == Len(sent[r])
        <4>1. m \in Nat /\ (Len(sent'[r]) = m \/ Len(sent'[r]) = m + 1)
          BY <1>0, <2>3
        <4>2. \A k \in DOMAIN taken[r] : taken[r][k] < m + 1
          BY <2>7 DEF Newer
        <4>3. taken'[r] = taken[r]
          BY <2>6
        <4> HIDE DEF m
        <4>4. \A k \in DOMAIN taken[r] : taken[r][k] < Len(sent'[r]) + 1
          BY <3>1, <4>1, <4>2
        <4> QED
          BY <4>3, <4>4 DEF Newer
    <2>9. ASSUME NEW r \in Session, file'[r] > 0
          PROVE  Newer(r, file[r])'
      <3>1. CASE file'[r] = file[r]
        BY <2>6, <2>7, <2>9, <3>1 DEF Newer
      <3>2. CASE r = s /\ file'[r] = Len(sent[r]) + 1
        BY <2>6, <2>7, <3>2 DEF Newer
      <3> QED
        BY <2>3, <2>5, <3>1, <3>2
    <2> QED
      BY <2>6, <2>7, <2>8, <2>9 DEF Fresh, Newer
  <1>4. ASSUME NEW s \in Session, Unlink(s)
        PROVE  Fresh'
    <2>1. /\ file' = [file EXCEPT ![s] = Absent]
          /\ taken' = [taken EXCEPT ![s] = IF buf[s] = Empty THEN @
                                           ELSE Append(@, buf[s])]
          /\ pc'[s] \notin {"unlink", "pausedUnlink"}
          /\ \A r \in Session \ {s} : pc'[r] = pc[r]
          /\ UNCHANGED <<sent, buf>>
      BY <1>4 DEF Unlink, Goto, Obeyed, TInv, TypeOK
    <2>2. \A r \in Session \ {s} : taken'[r] = taken[r] /\ file'[r] = file[r]
      BY <2>1 DEF TInv, TypeOK
    <2>3. file'[s] = Absent
      BY <2>1 DEF TInv, TypeOK
    <2>4. Newer(s, Len(sent[s]) + 1)'
      <3>1. buf[s] <= Len(sent[s])
        BY <1>0 DEF TInv, BufSent
      <3>2. CASE buf[s] = Empty
        BY <2>1, <3>2 DEF Fresh, Newer, TInv, TypeOK
      <3>3. CASE buf[s] # Empty
        <4>1. taken'[s] = Append(taken[s], buf[s])
          BY <2>1, <3>3 DEF TInv, TypeOK
        <4>2. \A k \in DOMAIN taken[s] : taken[s][k] < Len(sent[s]) + 1
          BY DEF Fresh, Newer
        <4> QED
          BY <1>0, <2>1, <3>1, <4>1, <4>2 DEF Newer
      <3> QED
        BY <3>2, <3>3
    <2> QED
      BY <2>1, <2>2, <2>3, <2>4 DEF Fresh, Newer, Absent
  <1>5. ASSUME NEW s \in Session, Read(s)
        PROVE  Fresh'
    <2>1. /\ buf' = [buf EXCEPT ![s] = file[s]]
          /\ \A r \in Session \ {s} : pc'[r] = pc[r]
          /\ UNCHANGED <<sent, file, taken>>
      BY <1>5 DEF Read, Goto, TInv, TypeOK
    <2> QED
      BY <2>1 DEF Fresh, Newer, TInv, TypeOK
  <1>6. ASSUME NEW s \in Session,
               Start(s) \/ Leave(s) \/ ReadNothing(s) \/ Record(s) \/ Finish(s)
        PROVE  Fresh'
    <2>1. /\ \A r \in Session : pc'[r] \in {"unlink", "pausedUnlink"} => pc'[r] = pc[r]
          /\ UNCHANGED <<sent, file, buf, taken>>
      BY <1>6 DEF Start, Leave, ReadNothing, Record, Finish, Goto, TInv, TypeOK
    <2> QED
      BY <2>1 DEF Fresh, Newer
  <1>7. CASE \E s \in Session, action \in Action : Control(s, action)
    BY <1>2, <1>7, SignalType DEF Control
  <1>8. CASE \E action \in Action : BudgetSignal(action)
    BY <1>2, <1>8, SignalType DEF BudgetSignal, TInv, TypeOK
  <1>9. CASE DashboardDies
    BY <1>9 DEF DashboardDies, Fresh, Newer
  <1> QED
    BY <1>1, <1>3, <1>4, <1>5, <1>6, <1>7, <1>8, <1>9 DEF Next, CookStep

LEMMA Invariance == Spec => []IInv
  <1>1. Init => IInv
    BY TypeInit DEF Init, IInv, Fresh, Newer, Absent
  <1>2. IInv /\ [Next]_vars => IInv'
    BY TypeNext, FreshNext DEF IInv
  <1> QED
    BY <1>1, <1>2, PTL DEF Spec

written == [s \in Session |-> Len(sent[s])]

LEMMA SlotStep ==
  ASSUME IInv, Next
  PROVE  [Slot!Next]_<<written, taken>>
  <1> USE DEF IInv, written
  <1>0. /\ \A r \in Session : Len(sent[r]) \in Nat
        /\ \A r \in Session : buf[r] \in Nat
    BY DEF TInv, TypeOK
  <1>1. CASE Write
    <2>1. PICK s \in Session : s = hand.session
      BY <1>1 DEF TInv, HandAddressed, Write
    <2>2. hand.signal \in Signal
      BY DEF TInv, TypeOK
    <2>3. /\ \A r \in Session \ {s} : Len(sent'[r]) = Len(sent[r])
          /\ Len(sent'[s]) = Len(sent[s]) + 1
      BY <1>1, <2>1, <2>2 DEF Write, TInv, TypeOK
    <2>4. written' = [written EXCEPT ![s] = @ + 1]
      BY <2>3
    <2> QED
      BY <1>1, <2>4 DEF Slot!Next, Slot!Write, Write
  <1>2. ASSUME NEW s \in Session, Unlink(s)
        PROVE  [Slot!Next]_<<written, taken>>
    <2>1. UNCHANGED written
      BY <1>2 DEF Unlink
    <2>2. CASE buf[s] = Empty
      BY <1>2, <2>1, <2>2 DEF Unlink, TInv, TypeOK
    <2>3. CASE buf[s] # Empty
      <3>1. buf[s] \in 1..written[s]
        BY <1>0, <2>3 DEF TInv, BufSent, Empty
      <3>2. \A k \in DOMAIN taken[s] : taken[s][k] < buf[s]
        BY <1>0, <1>2, <2>3 DEF Fresh, Newer, Unlink, Empty
      <3>3. taken' = [taken EXCEPT ![s] = Append(@, buf[s])]
        BY <1>2, <2>3 DEF Unlink
      <3> QED
        BY <2>1, <3>1, <3>2, <3>3 DEF Slot!Next, Slot!Take
    <2> QED
      BY <2>2, <2>3
  <1>3. ASSUME NEW s \in Session,
               Start(s) \/ Leave(s) \/ ReadNothing(s) \/ Read(s) \/ Record(s)
                  \/ Finish(s)
        PROVE  UNCHANGED <<written, taken>>
    BY <1>3 DEF Start, Leave, ReadNothing, Read, Record, Finish
  <1>4. CASE \E s \in Session, action \in Action : Control(s, action)
    BY <1>4 DEF Control, Open
  <1>5. CASE \E action \in Action : BudgetSignal(action)
    BY <1>5 DEF BudgetSignal, Open
  <1>6. CASE DashboardDies
    BY <1>6 DEF DashboardDies
  <1> QED
    BY <1>1, <1>2, <1>3, <1>4, <1>5, <1>6 DEF Next, CookStep

\* However the two processes overwrite, truncate and unlink the one file, no
\* signal is handed over twice, and none after a newer one.
THEOREM SlotImplemented == Spec => ImplementsSlot
  <1>1. IInv /\ [Next]_vars
          => [Slot!Next]_<<[s \in Session |-> Len(sent[s])], taken>>
    BY SlotStep DEF vars, written
  <1>2. Init => Slot!Init
    BY DEF Init, Slot!Init
  <1>3. Spec => Slot!Spec
    BY <1>1, <1>2, Invariance, PTL DEF Spec, Slot!Spec
  <1> QED
    BY <1>3 DEF ImplementsSlot
=============================================================================
