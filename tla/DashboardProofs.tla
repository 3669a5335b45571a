--------------------------- MODULE DashboardProofs ---------------------------
(***************************************************************************)
(* What cook spends and the dashboard shows.  BudgetGate, for every set of  *)
(* sessions, costs and thresholds: types, one announcement per crossing,    *)
(* and no dollar charged twice, always; the status that the pressure calls  *)
(* for, when the ceiling is only raised.  ChatSessions, for every set of    *)
(* turns, chats and bindings: no session is forgotten or mixed up.          *)
(* EventFeed, for every bound: no line is skipped, losses are announced,    *)
(* and a client is up to date or has missed what it is recorded to miss.    *)
(***************************************************************************)
EXTENDS BudgetGate, ChatSessions, EventFeed, FiniteSetTheorems, TLAPS

LEMMA ShortSequences ==
  /\ <<>> \in Seq(Event)
  /\ \A e \in Event : <<e>> \in Seq(Event)
  OBVIOUS

LEMMA EvaluateType ==
  ASSUME TypeOK, NEW money, Evaluate(money)
  PROVE  status' \in {"ok", "warning", "paused"} /\ events' \in Seq(Event)
  <1> USE DEF TypeOK, Event
  <1>1. status' \in {"ok", "warning", "paused"}
    BY DEF Evaluate
  <1>3. PICK u \in {<<>>, <<"warning">>}, v \in {<<>>, <<"pause">>} :
            events' = events \o u \o v
    BY DEF Evaluate
  <1>4. u \in Seq(Event) /\ v \in Seq(Event)
    BY ShortSequences
  <1> QED
    BY <1>1, <1>3, <1>4

LEMMA TickType ==
  ASSUME TypeOK, NEW cost \in Nat, Tick(cost)
  PROVE  /\ spent' \in Nat /\ spent' = spent + cost
         /\ ceiling' = ceiling
         /\ status' \in {"ok", "warning", "paused"} /\ events' \in Seq(Event)
  BY EvaluateType DEF Tick, TypeOK

LEMMA BumpType ==
  ASSUME TypeOK, BumpCeiling
  PROVE  /\ \E d \in Delta : ceiling' = ceiling + d
         /\ ceiling' \in Int
         /\ status' \in {"ok", "warning", "paused"} /\ events' \in Seq(Event)
  <1> USE DEF TypeOK, Event
  <1>1. PICK u \in {<<>>, <<"resume">>} : events' = events \o <<"bump">> \o u
    BY DEF BumpCeiling
  <1>2. <<"bump">> \in Seq(Event) /\ u \in Seq(Event)
    BY ShortSequences
  <1>3. \E d \in Delta : ceiling' = ceiling + d
    BY DEF BumpCeiling
  <1>4. ceiling' \in Int
    BY <1>3, ConstantsAssumption
  <1>5. status' \in {"ok", "warning", "paused"}
    BY DEF BumpCeiling, Level
  <1> QED
    BY <1>1, <1>2, <1>3, <1>4, <1>5

LEMMA ChangeType ==
  ASSUME TypeOK, NEW s \in Session, Change(s)
  PROVE  \/ /\ file[s] > OrZero(lastSeen[s])
            /\ file[s] - OrZero(lastSeen[s]) \in Nat
            /\ Tick(file[s] - OrZero(lastSeen[s]))
         \/ UNCHANGED gate
  <1>1. file[s] \in Nat /\ OrZero(lastSeen[s]) \in Nat
    BY DEF Change, TypeOK, OrZero, None
  <1> QED
    BY <1>1 DEF Change

LEMMA TypeInit == Init => TypeOK
  <1> SUFFICES ASSUME Init
               PROVE  TypeOK
    OBVIOUS
  <1>1. file \in [Session -> Nat \cup {None}] /\ leftover \in [Session -> Nat]
    BY ConstantsAssumption DEF Init, OrZero, None
  <1>2. ceiling \in Int /\ events \in Seq(Event)
    BY ConstantsAssumption, ShortSequences DEF Init
  <1> QED
    BY <1>1, <1>2 DEF Init, TypeOK

LEMMA TypeStep ==
  ASSUME TypeOK, [Next]_vars
  PROVE  TypeOK'
  <1>1. CASE UNCHANGED vars
    BY <1>1 DEF TypeOK, vars, files, gate
  <1>2. ASSUME NEW s \in Session, RecordUsage(s)
        PROVE  TypeOK'
    <2>1. OrZero(file[s]) \in Nat
      BY DEF TypeOK, OrZero, None
    <2> QED
      BY <1>2, <2>1, ConstantsAssumption DEF RecordUsage, gate, TypeOK
  <1>3. ASSUME NEW s \in Session,
               \/ RemoveFile(s) \/ Unlinked(s) \/ Add(s) \/ AddFails(s) \/ ChangeFails(s)
        PROVE  TypeOK'
    <2>1. UNCHANGED <<recorded, gate>>
      BY <1>3 DEF RemoveFile, Unlinked, Add, AddFails, ChangeFails
    <2>2. CASE RemoveFile(s) \/ Unlinked(s) \/ Add(s)
      <3>1. lastSeen' \in [Session -> Nat \cup {None}]
        BY <2>2 DEF RemoveFile, Unlinked, Add, Appears, Snapshot, TypeOK
      <3>2. leftover' \in [Session -> Nat] /\ inherited' \in Nat
        BY <2>2 DEF RemoveFile, Unlinked, Add, TypeOK
      <3>3. /\ file' \in [Session -> Nat \cup {None}]
            /\ known' \in [Session -> BOOLEAN] /\ dirty' \in [Session -> BOOLEAN]
        BY <2>2 DEF RemoveFile, Unlinked, Add, Reported, TypeOK
      <3> QED
        BY <2>1, <3>1, <3>2, <3>3 DEF gate, TypeOK
    <2>3. CASE AddFails(s) \/ ChangeFails(s)
      <3>1. leftover' \in [Session -> Nat] /\ inherited' \in Nat
        BY <2>3 DEF AddFails, ChangeFails, TypeOK
      <3>2. /\ UNCHANGED <<file, lastSeen>>
            /\ known' \in [Session -> BOOLEAN] /\ dirty' \in [Session -> BOOLEAN]
        BY <2>3 DEF AddFails, ChangeFails, Reported, TypeOK
      <3> QED
        BY <2>1, <3>1, <3>2 DEF gate, TypeOK
    <2> QED
      BY <1>3, <2>2, <2>3
  <1>4. ASSUME NEW s \in Session, Change(s)
        PROVE  TypeOK'
    <2>1. /\ spent' \in Nat /\ ceiling' = ceiling
          /\ status' \in {"ok", "warning", "paused"} /\ events' \in Seq(Event)
      BY <1>4, ChangeType, TickType DEF gate, TypeOK
    <2> QED
      BY <1>4, <2>1 DEF Change, Snapshot, Reported, TypeOK
  <1>5. CASE BumpCeiling
    <2>1. UNCHANGED <<files, spent>>
      BY <1>5 DEF BumpCeiling
    <2> QED
      BY <1>5, <2>1, BumpType DEF files, TypeOK
  <1> QED
    BY <1>1, <1>2, <1>3, <1>4, <1>5 DEF Next, Report

\* The variables keep their types; in particular the money spent never becomes
\* negative, whatever happens to the files (file-meter-adapter.ts:146).
THEOREM TypeCorrect == Spec => []TypeOK
  BY TypeInit, TypeStep, PTL DEF Spec
-----------------------------------------------------------------------------
(* One announcement per crossing. *)

\* Since the last warning there has been a resume, since the last pause a bump,
\* whenever the next one may come.
Rearmed ==
    /\ status = "ok" =>
         \A m \in DOMAIN events : events[m] = "warning" =>
             \E k \in DOMAIN events : k > m /\ events[k] = "resume"
    /\ status # "paused" =>
         \A m \in DOMAIN events : events[m] = "pause" =>
             \E k \in DOMAIN events : k > m /\ events[k] = "bump"

CInv == TypeOK /\ Rearmed /\ OncePerCrossing

LEMMA Appended ==
  ASSUME NEW s \in Seq(Event), NEW e \in Event
  PROVE  LET t == s \o <<e>>
         IN  /\ t \in Seq(Event)
             /\ DOMAIN t = DOMAIN s \cup {Len(s) + 1}
             /\ DOMAIN s = 1..Len(s) /\ Len(s) \in Nat
             /\ \A k \in DOMAIN s : t[k] = s[k]
             /\ t[Len(s) + 1] = e
  <1>1. <<e>> \in Seq(Event) /\ Len(<<e>>) = 1 /\ <<e>>[1] = e
    OBVIOUS
  <1> QED
    BY <1>1

\* The three facts for a sequence and the status that goes with it.
Good(s, st) ==
    /\ st = "ok" =>
         \A m \in DOMAIN s : s[m] = "warning" =>
             \E k \in DOMAIN s : k > m /\ s[k] = "resume"
    /\ st # "paused" =>
         \A m \in DOMAIN s : s[m] = "pause" =>
             \E k \in DOMAIN s : k > m /\ s[k] = "bump"
    /\ \A m, n \in DOMAIN s :
         s[m] = "warning" /\ s[n] = "warning" /\ m < n =>
             \E k \in m..n : s[k] = "resume"
    /\ \A m, n \in DOMAIN s :
         s[m] = "pause" /\ s[n] = "pause" /\ m < n =>
             \E k \in m..n : s[k] = "bump"

LEMMA GoodIsInv == Rearmed /\ OncePerCrossing <=> Good(events, status)
  BY DEF Rearmed, OncePerCrossing, Between, Good

LEMMA GoodWarning ==
  ASSUME NEW s \in Seq(Event), Good(s, "ok")
  PROVE  Good(s \o <<"warning">>, "warning")
  <1> DEFINE t == s \o <<"warning">>
  <1>1. /\ DOMAIN t = DOMAIN s \cup {Len(s) + 1}
        /\ DOMAIN s = 1..Len(s) /\ Len(s) \in Nat
        /\ \A k \in DOMAIN s : t[k] = s[k]
        /\ t[Len(s) + 1] = "warning"
    BY Appended DEF Event
  <1> HIDE DEF t
  <1>2. \A m \in DOMAIN t : t[m] = "pause" =>
            \E k \in DOMAIN t : k > m /\ t[k] = "bump"
    BY <1>1 DEF Good
  <1>3. \A m, n \in DOMAIN t :
            t[m] = "warning" /\ t[n] = "warning" /\ m < n =>
                \E k \in m..n : t[k] = "resume"
    <2> SUFFICES ASSUME NEW m \in DOMAIN t, NEW n \in DOMAIN t,
                        t[m] = "warning", t[n] = "warning", m < n
                 PROVE  \E k \in m..n : t[k] = "resume"
      OBVIOUS
    <2>1. CASE n \in DOMAIN s
      BY <1>1, <2>1 DEF Good
    <2>2. CASE n = Len(s) + 1
      <3>1. m \in DOMAIN s /\ s[m] = "warning"
        BY <1>1, <2>2
      <3> QED
        BY <1>1, <2>2, <3>1 DEF Good
    <2> QED
      BY <1>1, <2>1, <2>2
  <1>4. \A m, n \in DOMAIN t :
            t[m] = "pause" /\ t[n] = "pause" /\ m < n =>
                \E k \in m..n : t[k] = "bump"
    BY <1>1 DEF Good
  <1> QED
    BY <1>2, <1>3, <1>4 DEF Good, t

LEMMA GoodPause ==
  ASSUME NEW s \in Seq(Event), NEW st \in {"ok", "warning"}, Good(s, st)
  PROVE  Good(s \o <<"pause">>, "paused")
  <1> DEFINE t == s \o <<"pause">>
  <1>1. /\ DOMAIN t = DOMAIN s \cup {Len(s) + 1}
        /\ DOMAIN s = 1..Len(s) /\ Len(s) \in Nat
        /\ \A k \in DOMAIN s : t[k] = s[k]
        /\ t[Len(s) + 1] = "pause"
    BY Appended DEF Event
  <1> HIDE DEF t
  <1> QED
    <2>1. \A m \in DOMAIN s : s[m] = "pause" =>
             \E k \in DOMAIN s : k > m /\ s[k] = "bump"
      BY DEF Good
    <2>2. \A m, n \in DOMAIN t :
             t[m] = "pause" /\ t[n] = "pause" /\ m < n =>
                 \E k \in m..n : t[k] = "bump"
      <3> SUFFICES ASSUME NEW m \in DOMAIN t, NEW n \in DOMAIN t,
                          t[m] = "pause", t[n] = "pause", m < n
                   PROVE  \E k \in m..n : t[k] = "bump"
        OBVIOUS
      <3>1. m \in DOMAIN s
        BY <1>1
      <3>2. CASE n \in DOMAIN s
        <4>1. PICK k \in m..n : s[k] = "bump"
          BY <1>1, <3>1, <3>2 DEF Good
        <4> QED
          BY <1>1, <3>1, <3>2, <4>1
      <3>3. CASE n = Len(s) + 1
        <4>1. PICK k \in DOMAIN s : k > m /\ s[k] = "bump"
          BY <1>1, <2>1, <3>1
        <4> QED
          BY <1>1, <3>1, <3>3, <4>1
      <3> QED
        BY <1>1, <3>2, <3>3
    <2>3. \A m, n \in DOMAIN t :
             t[m] = "warning" /\ t[n] = "warning" /\ m < n =>
                 \E k \in m..n : t[k] = "resume"
      BY <1>1 DEF Good
    <2>4. Good(t, "paused")
      BY <2>2, <2>3 DEF Good
    <2> QED
      BY <2>4 DEF t

\* A bump by itself: any status that is not an unannounced "ok".
LEMMA GoodBump ==
  ASSUME NEW s \in Seq(Event), NEW st, Good(s, st),
         NEW st2 \in {"ok", "warning", "paused"}, st2 = "ok" => st = "ok"
  PROVE  Good(s \o <<"bump">>, st2)
  <1> DEFINE t == s \o <<"bump">>
  <1>1. /\ DOMAIN t = DOMAIN s \cup {Len(s) + 1}
        /\ DOMAIN s = 1..Len(s) /\ Len(s) \in Nat
        /\ \A k \in DOMAIN s : t[k] = s[k]
        /\ t[Len(s) + 1] = "bump"
    BY Appended DEF Event
  <1> HIDE DEF t
  <1> QED
    BY <1>1 DEF Good

LEMMA GoodResume ==
  ASSUME NEW s \in Seq(Event), Good(s, "warning")
  PROVE  Good(s \o <<"resume">>, "ok")
  <1> DEFINE t == s \o <<"resume">>
  <1>1. /\ DOMAIN t = DOMAIN s \cup {Len(s) + 1}
        /\ DOMAIN s = 1..Len(s) /\ Len(s) \in Nat
        /\ \A k \in DOMAIN s : t[k] = s[k]
        /\ t[Len(s) + 1] = "resume"
    BY Appended DEF Event
  <1> HIDE DEF t
  <1> QED
    BY <1>1 DEF Good

LEMMA AppendNothing == ASSUME NEW s \in Seq(Event) PROVE s \o <<>> = s
  OBVIOUS

LEMMA GoodEvaluate ==
  ASSUME TypeOK, NEW money, Evaluate(money), Good(events, status)
  PROVE  Good(events', status')
  <1> DEFINE w == status = "ok" /\ Reaches(money, ceiling, Warn)
             p == status # "paused" /\ Reaches(money, ceiling, Pause)
             s == IF w THEN events \o <<"warning">> ELSE events
             st == IF w THEN "warning" ELSE status
  <1>1. events \in Seq(Event) /\ status \in {"ok", "warning", "paused"}
    BY DEF TypeOK
  <1>2. s \in Seq(Event)
    BY <1>1, Appended DEF Event
  <1>3. Good(s, st)
    BY <1>1, GoodWarning
  <1>4. events' = (IF p THEN s \o <<"pause">> ELSE s)
    <2>1. events' = events \o (IF w THEN <<"warning">> ELSE <<>>)
                           \o (IF p THEN <<"pause">> ELSE <<>>)
      BY DEF Evaluate
    <2>2. s = events \o (IF w THEN <<"warning">> ELSE <<>>)
      BY <1>1, AppendNothing
    <2> HIDE DEF w, p, s
    <2> QED
      BY <1>2, <2>1, <2>2, AppendNothing
  <1>5. status' = IF p THEN "paused" ELSE st
    BY DEF Evaluate
  <1>6. p => st \in {"ok", "warning"}
    BY <1>1
  <1> HIDE DEF s, st, p
  <1> QED
    BY <1>2, <1>3, <1>4, <1>5, <1>6, GoodPause

LEMMA GoodStep ==
  ASSUME TypeOK, Good(events, status), [Next]_vars
  PROVE  Good(events', status')
  <1>1. CASE UNCHANGED <<events, status>>
    BY <1>1
  <1>2. ASSUME NEW s \in Session, Change(s)
        PROVE  Good(events', status')
    BY <1>1, <1>2, ChangeType, GoodEvaluate DEF Tick, gate
  <1>3. CASE BumpCeiling
    <2>1. /\ events \in Seq(Event) /\ events \o <<"bump">> \in Seq(Event)
          /\ status' \in {"ok", "warning", "paused"}
      BY <1>3, BumpType, Appended DEF TypeOK, Event
    <2>2. CASE status # "ok" /\ status' = "ok"
      <3>1. events' = events \o <<"bump">> \o <<"resume">>
        BY <1>3, <2>2 DEF BumpCeiling
      <3>2. Good(events \o <<"bump">>, "warning")
        BY <2>1, GoodBump DEF TypeOK
      <3> QED
        BY <2>1, <2>2, <3>1, <3>2, GoodResume
    <2>3. CASE ~(status # "ok" /\ status' = "ok")
      <3>1. events' = events \o <<"bump">> \o <<>>
        BY <1>3, <2>3 DEF BumpCeiling
      <3>2. events' = events \o <<"bump">>
        BY <2>1, <3>1, AppendNothing
      <3> QED
        BY <2>1, <2>3, <3>2, GoodBump DEF TypeOK
    <2> QED
      BY <2>2, <2>3
  <1> QED
    BY <1>1, <1>2, <1>3 DEF Next, Report, RecordUsage, RemoveFile, Unlinked, Add, AddFails,
       ChangeFails, vars, gate

\* Each threshold is announced once per crossing, for ticks and bumps in every
\* order and of every size (gate.ts:21).
THEOREM Announcements == Spec => []OncePerCrossing
  <1>1. Init => CInv
    BY TypeInit DEF Init, CInv, Rearmed, OncePerCrossing, Between
  <1>2. CInv /\ [Next]_vars => CInv'
    <2> SUFFICES ASSUME CInv, [Next]_vars
                 PROVE  CInv'
      OBVIOUS
    <2>1. Good(events', status')
      BY GoodStep, GoodIsInv DEF CInv
    <2>2. (Rearmed /\ OncePerCrossing)'
      BY <2>1 DEF Rearmed, OncePerCrossing, Between, Good
    <2> QED
      BY <2>2, TypeStep DEF CInv
  <1>3. CInv => OncePerCrossing
    BY DEF CInv
  <1> QED
    BY <1>1, <1>2, <1>3, PTL DEF Spec
-----------------------------------------------------------------------------
(* The status, when the ceiling is only raised. *)

LEMMA Products ==
  /\ \A a, b, c \in Nat : a <= b => a * c <= b * c
  /\ \A a, b, c \in Nat : a <= b => c * a <= c * b
  /\ \A a, b \in Nat \ {0} : a * b > 0
  /\ \A a, b \in Nat : a * b \in Nat
  OBVIOUS

PInv == TypeOK /\ ceiling \in Nat \ {0} /\ StatusIsPressure

LEMMA TickStatus ==
  ASSUME PInv, Warn \in 1..Pause, NEW cost \in Nat, Tick(cost)
  PROVE  StatusIsPressure'
  <1>1. spent' \in Nat /\ spent' >= spent /\ ceiling' = ceiling
    BY TickType DEF PInv, TypeOK
  <1>2. Warn * ceiling <= Pause * ceiling /\ Warn * ceiling \in Nat
                                          /\ Pause * ceiling \in Nat
    BY Products, ConstantsAssumption DEF PInv
  <1> DEFINE a == Warn * ceiling
             b == Pause * ceiling
  <1>3. \A m \in Nat : /\ Reaches(m, ceiling, Warn) <=> 100 * m >= a
                       /\ Reaches(m, ceiling, Pause) <=> 100 * m >= b
    BY DEF Reaches, PInv
  <1> HIDE DEF a, b
  <1>4. spent \in Nat /\ status \in {"ok", "warning", "paused"}
    BY DEF PInv, TypeOK
  <1>5. /\ status' = IF status # "paused" /\ Reaches(spent', ceiling, Pause) THEN "paused"
                     ELSE IF status = "ok" /\ Reaches(spent', ceiling, Warn)
                          THEN "warning" ELSE status
    BY DEF Tick, Evaluate
  <1>6. a <= b /\ a \in Nat /\ b \in Nat
    BY <1>2 DEF a, b
  <1> QED
    BY <1>1, <1>3, <1>4, <1>5, <1>6 DEF StatusIsPressure, PInv

LEMMA BumpStatus ==
  ASSUME PInv, Warn \in 1..Pause, Delta \subseteq Nat, BumpCeiling
  PROVE  ceiling' \in Nat \ {0} /\ StatusIsPressure'
  <1>1. ceiling' \in Nat \ {0} /\ ceiling' >= ceiling /\ spent' = spent
    BY DEF BumpCeiling, PInv
  <1> DEFINE a == Warn * ceiling
             b == Pause * ceiling
             a2 == Warn * ceiling'
             b2 == Pause * ceiling'
  <1>2. a <= b /\ a2 <= b2 /\ a <= a2 /\ b <= b2
        /\ a \in Nat /\ b \in Nat /\ a2 \in Nat /\ b2 \in Nat
    <2>1. Warn \in Nat /\ Pause \in Nat /\ Warn <= Pause
          /\ ceiling \in Nat /\ ceiling' \in Nat /\ ceiling <= ceiling'
      BY <1>1, ConstantsAssumption DEF PInv
    <2>2. a \in Nat /\ b \in Nat /\ a2 \in Nat /\ b2 \in Nat
      BY <2>1, Products
    <2>3. a <= b
      BY <2>1, Products
    <2>4. a2 <= b2
      BY <2>1, Products
    <2>5. a <= a2
      BY <2>1, Products
    <2>6. b <= b2
      BY <2>1, Products
    <2> QED
      BY <2>2, <2>3, <2>4, <2>5, <2>6
  <1>3. /\ Reaches(spent, ceiling, Warn) <=> 100 * spent >= a
        /\ Reaches(spent, ceiling, Pause) <=> 100 * spent >= b
        /\ Reaches(spent, ceiling', Warn) <=> 100 * spent >= a2
        /\ Reaches(spent, ceiling', Pause) <=> 100 * spent >= b2
    BY <1>1 DEF Reaches, PInv
  <1> HIDE DEF a, b, a2, b2
  <1>4. spent \in Nat /\ status \in {"ok", "warning", "paused"}
    BY DEF PInv, TypeOK
  <1>5. status' = Level(ceiling')
    BY DEF BumpCeiling
  <1> QED
    BY <1>1, <1>2, <1>3, <1>4, <1>5 DEF StatusIsPressure, PInv, Level

\* For thresholds in order and bumps that raise the ceiling, the status is at
\* every moment the one the pressure calls for.
THEOREM Status ==
  ASSUME Warn \in 1..Pause, Delta \subseteq Nat
  PROVE  Spec => []StatusIsPressure
  <1>1. Init => PInv
    <2> SUFFICES ASSUME Init
                 PROVE  PInv
      OBVIOUS
    <2>1. Warn * Milestone > 0 /\ Pause * Milestone > 0
      BY Products, ConstantsAssumption
    <2> QED
      BY <2>1, TypeInit, ConstantsAssumption
      DEF Init, PInv, StatusIsPressure, Reaches
  <1>2. PInv /\ [Next]_vars => PInv'
    <2> SUFFICES ASSUME PInv, [Next]_vars
                 PROVE  PInv'
      OBVIOUS
    <2>1. TypeOK'
      BY TypeStep DEF PInv
    <2>2. CASE UNCHANGED <<spent, ceiling, status>>
      BY <2>1, <2>2 DEF PInv, StatusIsPressure
    <2>3. ASSUME NEW s \in Session, Change(s)
          PROVE  PInv'
      BY <2>1, <2>2, <2>3, ChangeType, TickStatus, TickType DEF PInv, gate
    <2>4. CASE BumpCeiling
      BY <2>1, <2>4, BumpStatus DEF PInv
    <2> QED
      BY <2>2, <2>3, <2>4 DEF Next, Report, RecordUsage, RemoveFile, Unlinked, Add, AddFails,
       ChangeFails, vars, gate
  <1>3. PInv => StatusIsPressure
    BY DEF PInv
  <1> QED
    BY <1>1, <1>2, <1>3, PTL DEF Spec
-----------------------------------------------------------------------------
(***************************************************************************)
(* Nobody is overcharged.  What a session's file has grown by since the    *)
(* adapter's snapshot may still be charged, or all that is recorded in it  *)
(* if there is none; the sum of that over the sessions is the number of    *)
(* elements of Owed, a set with one element for each dollar of each        *)
(* session, which a step changes for one session.                          *)
(***************************************************************************)

Pending(s) ==
    IF lastSeen[s] = None THEN OrZero(file[s]) - leftover[s]
    ELSE IF OrZero(file[s]) <= lastSeen[s] THEN 0
    ELSE OrZero(file[s]) - lastSeen[s]
Owed == {x \in Session \X Nat : x[2] \in 1..Pending(x[1])}

\* A leftover is part of the file, and of no file that has been reported.
Leftovers ==
    \A s \in Session :
        /\ leftover[s] <= OrZero(file[s])
        /\ known[s] => leftover[s] = 0

ChargeInv ==
    /\ TypeOK
    /\ Leftovers
    /\ IsFiniteSet(Owed)
    /\ spent + Cardinality(Owed) <= recorded + inherited

PendingIsNat == \A s \in Session : Pending(s) \in Nat

\* Of one session: f, l and o are what it has of file, lastSeen and leftover.
LEMMA PendingNumber ==
  ASSUME NEW f \in Nat \cup {None}, NEW l \in Nat \cup {None}, NEW o \in Nat,
         o <= OrZero(f)
  PROVE  (IF l = None THEN OrZero(f) - o
          ELSE IF OrZero(f) <= l THEN 0 ELSE OrZero(f) - l) \in Nat
  BY DEF OrZero, None

LEMMA PendingType == TypeOK /\ Leftovers => PendingIsNat
  <1> SUFFICES ASSUME TypeOK, Leftovers, NEW s \in Session
               PROVE  Pending(s) \in Nat
    BY DEF PendingIsNat
  <1>1. /\ file[s] \in Nat \cup {None} /\ lastSeen[s] \in Nat \cup {None}
        /\ leftover[s] \in Nat /\ leftover[s] <= OrZero(file[s])
    BY DEF TypeOK, Leftovers
  <1> QED
    BY <1>1, PendingNumber DEF Pending

LEMMA PendingTypeNext == TypeOK' /\ Leftovers' => PendingIsNat'
  <1> SUFFICES ASSUME TypeOK', Leftovers', NEW s \in Session
               PROVE  Pending(s)' \in Nat
    BY DEF PendingIsNat
  <1>1. /\ file'[s] \in Nat \cup {None} /\ lastSeen'[s] \in Nat \cup {None}
        /\ leftover'[s] \in Nat /\ leftover'[s] <= OrZero(file'[s])
    BY DEF TypeOK, Leftovers, OrZero, None
  <1> QED
    BY <1>1, PendingNumber DEF Pending, OrZero, None

\* The dollars a..b of one session.
LEMMA Dollars ==
  ASSUME NEW s, NEW a \in Nat, NEW b \in Nat, a <= b + 1
  PROVE  /\ IsFiniteSet({s} \X (a..b))
         /\ Cardinality({s} \X (a..b)) = b - a + 1
  <1>1. IsFiniteSet({s}) /\ Cardinality({s}) = 1
    BY FS_Singleton
  <1>2. IsFiniteSet(a..b) /\ Cardinality(a..b) = b - a + 1
    BY FS_Interval
  <1>3. /\ IsFiniteSet({s} \X (a..b))
        /\ Cardinality({s} \X (a..b)) = Cardinality({s}) * Cardinality(a..b)
    BY <1>1, <1>2, FS_Product
  <1> QED
    BY <1>1, <1>2, <1>3

\* A step after which no session owes more.
LEMMA OwesLess ==
  ASSUME ChargeInv, TypeOK', Leftovers', UNCHANGED <<spent, recorded, inherited>>,
         \A s \in Session : Pending(s)' <= Pending(s)
  PROVE  ChargeInv'
  <1>1. \A s \in Session : Pending(s) \in Nat /\ Pending(s)' \in Nat
    BY PendingType, PendingTypeNext DEF ChargeInv, PendingIsNat
  <1>2. Owed' \subseteq Owed
    BY <1>1 DEF Owed
  <1>3. /\ IsFiniteSet(Owed') /\ Cardinality(Owed') <= Cardinality(Owed)
        /\ Cardinality(Owed') \in Nat /\ Cardinality(Owed) \in Nat
    BY <1>2, FS_Subset, FS_CardinalityType DEF ChargeInv
  <1> QED
    BY <1>3 DEF ChargeInv, TypeOK

\* A step after which one session owes at most c dollars more, all of which are
\* recorded or inherited.
LEMMA OwesMore ==
  ASSUME ChargeInv, TypeOK', Leftovers', NEW s \in Session, NEW c \in Nat,
         spent' = spent, recorded' + inherited' = recorded + inherited + c,
         Pending(s) <= Pending(s)', Pending(s)' <= Pending(s) + c,
         \A r \in Session : r # s => Pending(r)' = Pending(r)
  PROVE  ChargeInv'
  <1>3. /\ \A r \in Session : Pending(r) \in Nat /\ Pending(r)' \in Nat
        /\ TypeOK
    BY PendingType, PendingTypeNext DEF ChargeInv, PendingIsNat
  <1>6. PICK a \in Nat, b \in Nat : a = Pending(s) + 1 /\ b = Pending(s)' /\ a <= b + 1
    BY <1>3
  <1> DEFINE X == {s} \X (a..b)
  <1>7. IsFiniteSet(X) /\ Cardinality(X) = b - a + 1 /\ b - a + 1 <= c
    <2>1. b - a + 1 <= c
      BY <1>3, <1>6
    <2>2. a \in Nat /\ b \in Nat /\ a <= b + 1
      BY <1>6
    <2> QED
      BY <2>1, <2>2, Dollars
  <1>8. Owed' \subseteq Owed \cup X
    <2> SUFFICES ASSUME NEW r \in Session, NEW i \in Nat, i \in 1..Pending(r)'
                 PROVE  <<r, i>> \in Owed \cup X
      BY DEF Owed
    <2>1. CASE r # s
      BY <2>1 DEF Owed
    <2>2. CASE r = s
      <3>1. Pending(r)' = b /\ Pending(r) = a - 1
        BY <1>3, <1>6, <2>2 DEF Pending
      <3> QED
        BY <1>3, <1>6, <2>2, <3>1 DEF Owed
    <2> QED
      BY <2>1, <2>2
  <1> HIDE DEF X
  <1>9. IsFiniteSet(Owed) /\ spent + Cardinality(Owed) <= recorded + inherited
    BY DEF ChargeInv
  <1>10. /\ IsFiniteSet(Owed \cup X)
         /\ Cardinality(Owed \cup X) = Cardinality(Owed) + Cardinality(X) - Cardinality(Owed \cap X)
    BY <1>7, <1>9, FS_Union
  <1>11. IsFiniteSet(Owed \cap X) /\ Cardinality(Owed \cap X) \in Nat
         /\ Cardinality(Owed) \in Nat
    BY <1>9, FS_Intersection, FS_CardinalityType
  <1>12. IsFiniteSet(Owed') /\ Cardinality(Owed') <= Cardinality(Owed \cup X)
         /\ Cardinality(Owed') \in Nat
    BY <1>8, <1>10, FS_Subset, FS_CardinalityType
  <1>13. spent \in Nat /\ recorded \in Nat /\ inherited \in Nat
    BY <1>3 DEF TypeOK
  <1>14. spent' + Cardinality(Owed') <= recorded' + inherited'
    BY <1>7, <1>9, <1>10, <1>11, <1>12, <1>13
  <1> QED
    BY <1>12, <1>14 DEF ChargeInv

\* A usage of c dollars adds at most c to what its session owes.
LEMMA ChargeRecord ==
  ASSUME ChargeInv, TypeOK', NEW s \in Session, RecordUsage(s)
  PROVE  ChargeInv'
  <1>1. PICK c \in Cost : /\ file' = [file EXCEPT ![s] = OrZero(file[s]) + c]
                          /\ recorded' = recorded + c
    BY DEF RecordUsage
  <1>2. c \in Nat /\ spent' = spent /\ UNCHANGED <<lastSeen, known, leftover, inherited>>
    BY ConstantsAssumption DEF RecordUsage, gate
  <1>3. TypeOK /\ Leftovers
    BY DEF ChargeInv
  <1>4. \A r \in Session : r # s => Pending(r)' = Pending(r)
    BY <1>1, <1>2, <1>3 DEF Pending, TypeOK
  <1>5. OrZero(file[s]) \in Nat /\ file'[s] = OrZero(file[s]) + c
    BY <1>1, <1>3 DEF OrZero, TypeOK, None
  <1>6. OrZero(file'[s]) = OrZero(file[s]) + c
    BY <1>2, <1>5 DEF OrZero, None
  <1>7. Leftovers'
    <2> SUFFICES ASSUME NEW r \in Session
                 PROVE  /\ leftover'[r] <= OrZero(file[r])'
                        /\ known'[r] => leftover'[r] = 0
      BY DEF Leftovers
    <2>1. CASE r = s
      <3>1. leftover[s] \in Nat /\ leftover[s] <= OrZero(file[s])
        BY <1>3 DEF Leftovers, TypeOK
      <3>2. leftover'[r] <= OrZero(file[r])'
        BY <1>2, <1>5, <1>6, <2>1, <3>1 DEF OrZero
      <3> QED
        BY <1>2, <1>3, <3>2 DEF Leftovers
    <2>2. CASE r # s
      <3>1. file'[r] = file[r]
        BY <1>1, <1>3, <2>2 DEF TypeOK
      <3> QED
        BY <1>2, <1>3, <3>1 DEF Leftovers, OrZero
    <2> QED
      BY <2>1, <2>2
  <1>8. Pending(s) <= Pending(s)' /\ Pending(s)' <= Pending(s) + c
    <2>1. lastSeen[s] \in Nat \cup {None} /\ leftover[s] \in Nat
          /\ lastSeen'[s] = lastSeen[s] /\ leftover'[s] = leftover[s]
      BY <1>2, <1>3 DEF TypeOK
    <2> QED
      BY <1>2, <1>3, <1>5, <1>6, <2>1 DEF Pending, Leftovers
  <1>9. recorded' + inherited' = recorded + inherited + c
    BY <1>1, <1>2, <1>3 DEF TypeOK
  <1> QED
    BY <1>2, <1>4, <1>7, <1>8, <1>9, OwesMore

\* Without a baseline its session owes the leftover of the file too, which is
\* inherited.
LEMMA ChargeAddFails ==
  ASSUME ChargeInv, TypeOK', NEW s \in Session, AddFails(s)
  PROVE  ChargeInv'
  <1>1. TypeOK /\ Leftovers
    BY DEF ChargeInv
  <1>2. /\ UNCHANGED <<file, lastSeen, recorded, spent>>
        /\ known' = [known EXCEPT ![s] = TRUE]
        /\ leftover' = [leftover EXCEPT ![s] = 0]
        /\ inherited' = IF lastSeen[s] = None THEN inherited + leftover[s] ELSE inherited
    BY DEF AddFails, Reported, gate
  <1>3. Leftovers'
    BY <1>1, <1>2 DEF Leftovers, TypeOK, OrZero, None
  <1>4. \A r \in Session : r # s => Pending(r)' = Pending(r)
    BY <1>1, <1>2 DEF Pending, TypeOK
  <1>5. CASE lastSeen[s] = None
    <2>1. leftover[s] \in Nat /\ OrZero(file[s]) \in Nat
          /\ leftover[s] <= OrZero(file[s])
      <3>1. leftover[s] \in Nat /\ file[s] \in Nat \cup {None}
        BY <1>1 DEF TypeOK
      <3> QED
        BY <1>1, <3>1 DEF Leftovers, OrZero, None
    <2>2. Pending(s) = OrZero(file[s]) - leftover[s] /\ Pending(s)' = OrZero(file[s])
      BY <1>1, <1>2, <1>5, <2>1 DEF Pending, TypeOK
    <2>3. recorded' + inherited' = recorded + inherited + leftover[s]
      BY <1>1, <1>2, <1>5, <2>1 DEF TypeOK
    <2> QED
      BY <1>2, <1>3, <1>4, <2>1, <2>2, <2>3, OwesMore
  <1>6. CASE lastSeen[s] # None
    <2>1. Pending(s)' = Pending(s)
      BY <1>1, <1>2, <1>6 DEF Pending, TypeOK
    <2>2. \A r \in Session : Pending(r)' <= Pending(r)
      BY <1>1, <1>4, <2>1, PendingType DEF PendingIsNat
    <2> QED
      BY <1>2, <1>3, <1>6, <2>2, OwesLess
  <1> QED
    BY <1>5, <1>6

\* What Change charges its session for is what the session owed.
LEMMA ChargeChange ==
  ASSUME ChargeInv, TypeOK', NEW s \in Session, Change(s)
  PROVE  ChargeInv'
  <1>0. TypeOK /\ Leftovers
    BY DEF ChargeInv
  <1>2. /\ UNCHANGED <<file, recorded, leftover, inherited>>
        /\ lastSeen' = [lastSeen EXCEPT ![s] = file[s]]
        /\ known[s] /\ known' = [known EXCEPT ![s] = TRUE]
        /\ file[s] \in Nat /\ lastSeen[s] \in Nat \cup {None}
        /\ spent \in Nat /\ recorded \in Nat /\ inherited \in Nat
    BY <1>0 DEF Change, Snapshot, Reported, TypeOK
  <1>l. Leftovers'
    BY <1>0, <1>2 DEF Leftovers, TypeOK
  <1>1. \A r \in Session : Pending(r) \in Nat /\ Pending(r)' \in Nat
    BY <1>0, <1>l, PendingType, PendingTypeNext DEF PendingIsNat
  <1>3. \A r \in Session : r # s => Pending(r)' = Pending(r)
    BY <1>0, <1>1, <1>2 DEF Pending, TypeOK
  <1>4. OrZero(file[s]) = file[s] /\ leftover[s] = 0
    <2>1. OrZero(file[s]) = file[s]
      BY <1>2 DEF OrZero, None
    <2> QED
      BY <1>0, <1>2, <2>1 DEF Leftovers
  <1>5. Pending(s)' = 0
    BY <1>0, <1>1, <1>2, <1>4 DEF Pending, TypeOK, OrZero, None
  <1>p. Pending(s) = IF file[s] > OrZero(lastSeen[s]) THEN file[s] - OrZero(lastSeen[s]) ELSE 0
    BY <1>2, <1>4 DEF Pending, OrZero, None
  <1>6. spent' = spent + Pending(s)
    <2>1. CASE file[s] > OrZero(lastSeen[s])
      <3>1. Tick(file[s] - OrZero(lastSeen[s]))
        BY <2>1 DEF Change
      <3> QED
        BY <1>p, <2>1, <3>1 DEF Tick
    <2>2. CASE ~(file[s] > OrZero(lastSeen[s]))
      <3>1. spent' = spent
        BY <2>2 DEF Change, gate
      <3> QED
        BY <1>2, <1>p, <2>2, <3>1
    <2> QED
      BY <2>1, <2>2
  <1>7. PICK b \in Nat : b = Pending(s)
    BY <1>1
  <1> DEFINE X == {s} \X (1..b)
  <1>8. IsFiniteSet(X) /\ Cardinality(X) = b
    BY Dollars, 1 \in Nat
  <1>9. X \subseteq Owed
    BY <1>7 DEF Owed
  <1>10. Owed' \subseteq Owed \ X
    <2> SUFFICES ASSUME NEW r \in Session, NEW i \in Nat, i \in 1..Pending(r)'
                 PROVE  <<r, i>> \in Owed \ X
      BY DEF Owed
    <2>1. r # s
      <3> SUFFICES ASSUME r = s PROVE FALSE
        OBVIOUS
      <3>1. Pending(r)' = 0
        BY <1>5 DEF Pending
      <3> QED
        BY <3>1
    <2> QED
      BY <1>3, <2>1 DEF Owed
  <1> HIDE DEF X
  <1>11. /\ IsFiniteSet(Owed) /\ spent + Cardinality(Owed) <= recorded + inherited
         /\ Owed \cap X = X
    BY <1>9 DEF ChargeInv
  <1>12. /\ IsFiniteSet(Owed \ X)
         /\ Cardinality(Owed \ X) = Cardinality(Owed) - b
    BY <1>8, <1>11, FS_Difference
  <1>13. /\ IsFiniteSet(Owed') /\ Cardinality(Owed') <= Cardinality(Owed \ X)
         /\ Cardinality(Owed') \in Nat /\ Cardinality(Owed) \in Nat
    BY <1>10, <1>11, <1>12, FS_Subset, FS_CardinalityType
  <1>14. spent' + Cardinality(Owed') <= recorded' + inherited'
    BY <1>2, <1>6, <1>7, <1>11, <1>12, <1>13
  <1> QED
    BY <1>l, <1>13, <1>14 DEF ChargeInv

LEMMA ChargeStep ==
  ASSUME ChargeInv, [Next]_vars
  PROVE  ChargeInv'
  <1>0. TypeOK /\ TypeOK' /\ Leftovers
    BY TypeStep DEF ChargeInv
  <1>1. ASSUME NEW s \in Session, RecordUsage(s) \/ AddFails(s) \/ Change(s)
        PROVE  ChargeInv'
    BY <1>0, <1>1, ChargeRecord, ChargeAddFails, ChargeChange
  <1>2. ASSUME NEW s \in Session,
               RemoveFile(s) \/ Unlinked(s) \/ Add(s) \/ ChangeFails(s)
        PROVE  ChargeInv'
    <2>1. Leftovers'
      <3>1. CASE RemoveFile(s)
        BY <1>0, <3>1 DEF RemoveFile, Leftovers, OrZero, None, TypeOK
      <3>2. CASE Unlinked(s)
        BY <1>0, <3>2 DEF Unlinked, Leftovers, OrZero, TypeOK
      <3>3. CASE Add(s)
        BY <1>0, <3>3 DEF Add, Reported, Leftovers, OrZero, None, TypeOK
      <3>4. CASE ChangeFails(s)
        BY <1>0, <3>4 DEF ChangeFails, Reported, Leftovers, OrZero, TypeOK
      <3> QED
        BY <1>2, <3>1, <3>2, <3>3, <3>4
    <2>2. \A r \in Session : Pending(r)' <= Pending(r)
      <3>1. PendingIsNat
        BY <1>0, PendingType
      <3>2. CASE Unlinked(s) \/ ChangeFails(s)
        <4>1. UNCHANGED <<file, lastSeen, leftover>>
          BY <3>2 DEF Unlinked, ChangeFails
        <4> QED
          BY <3>1, <4>1 DEF Pending, PendingIsNat
      <3>4. CASE RemoveFile(s)
        BY <1>0, <3>1, <3>4 DEF RemoveFile, Pending, PendingIsNat, OrZero, None, TypeOK
      <3>3. CASE Add(s)
        BY <1>0, <3>1, <3>3
           DEF Add, Appears, Snapshot, Pending, PendingIsNat, OrZero, None, TypeOK
      <3> QED
        BY <1>2, <3>2, <3>3, <3>4
    <2>3. UNCHANGED <<spent, recorded, inherited>>
      BY <1>2 DEF RemoveFile, Unlinked, Add, ChangeFails, gate
    <2> QED
      BY <1>0, <2>1, <2>2, <2>3, OwesLess
  <1>4. CASE BumpCeiling \/ UNCHANGED vars
    <2>1. UNCHANGED <<files, spent>>
      BY <1>4 DEF BumpCeiling, vars, gate
    <2>2. Owed' = Owed /\ Leftovers'
      BY <1>0, <2>1 DEF files, Owed, Pending, Leftovers
    <2> QED
      BY <1>0, <2>1, <2>2 DEF files, ChargeInv
  <1> QED
    BY <1>1, <1>2, <1>4 DEF Next, Report

\* What the gate has been told never exceeds what the cooks have recorded, for
\* any number of sessions, whatever the watcher merges, whichever reads fail and
\* whenever files go and come back: no dollar is charged twice, and none of an
\* earlier milestone but in a file whose add event could not be read.
THEOREM NotOvercharged == Spec => []NeverOvercharged
  <1>1. Init => ChargeInv
    <2> SUFFICES ASSUME Init PROVE ChargeInv
      OBVIOUS
    <2>1. TypeOK
      BY TypeInit
    <2>2. Leftovers
      <3>1. ASSUME NEW s \in Session PROVE leftover[s] <= OrZero(file[s])
        <4>1. leftover[s] = OrZero(file[s]) /\ leftover[s] \in Nat
          BY <2>1 DEF Init, TypeOK
        <4> QED
          BY <4>1
      <3>2. ASSUME NEW s \in Session PROVE ~known[s]
        BY DEF Init
      <3> QED
        BY <3>1, <3>2, Zenon DEF Leftovers
    <2>3. \A s \in Session : Pending(s) = 0
      <3> SUFFICES ASSUME NEW s \in Session PROVE Pending(s) = 0
        OBVIOUS
      <3>1. lastSeen[s] = None /\ leftover[s] = OrZero(file[s]) /\ leftover[s] \in Nat
        BY <2>1 DEF Init, TypeOK
      <3> QED
        BY <3>1 DEF Pending
    <2>4. Owed = {}
      BY <2>3 DEF Owed
    <2> QED
      BY <2>1, <2>2, <2>4, FS_EmptySet DEF Init, ChargeInv
  <1>2. ChargeInv /\ [Next]_vars => ChargeInv'
    BY ChargeStep
  <1>3. ChargeInv => NeverOvercharged
    BY FS_CardinalityType DEF ChargeInv, NeverOvercharged, TypeOK
  <1> QED
    BY <1>1, <1>2, <1>3, PTL DEF Spec
-----------------------------------------------------------------------------
(* Chat sessions *)

\* Where a turn may be whose session has been created, and is never created
\* again.
Past == {"starting", "prompting", "done", "threw"}

ChatTypeOK ==
    /\ selected \in Binding
    /\ pc \in [Turn -> Past \cup {"idle", "credential", "creating", "failed"}]
    /\ chat \in [Turn -> Chat]
    /\ binding \in [Turn -> Binding]
    /\ uses \in [Turn -> Turn \cup {Nobody}]
    /\ open \subseteq Turn
    /\ bound \in [Turn -> Binding]
    /\ registry \in [Chat -> Turn \cup {Nobody}]
    /\ stale \subseteq Chat
    /\ closed \in BOOLEAN

\* A session that is open, or that a turn talks to, has been created: what it
\* is bound to does not change any more.
CreatedOnce ==
    /\ \A s \in open : pc[s] \in Past
    /\ \A t \in Turn : uses[t] # Nobody => pc[uses[t]] \in Past

ChatInv == ChatTypeOK /\ CreatedOnce /\ SessionsAccounted /\ BindingHonoured

LEMMA ChatInitInv == ChatInit => ChatInv
  BY ChatAssumption
  DEF ChatInit, ChatInv, ChatTypeOK, Past, CreatedOnce, SessionsAccounted, BindingHonoured

\* The steps of a turn that touch no session.
LEMMA QuietTurn ==
  ASSUME ChatInv, NEW t \in Turn, NEW l \in {"creating", "done", "failed", "prompting"},
         Goto(t, l), pc[t] \in {"credential", "creating", "starting", "prompting"},
         l \in Past \/ pc[t] \notin Past, l = "prompting" => pc[t] = "starting",
         UNCHANGED <<selected, chat, binding, uses, sessions>>
  PROVE  ChatInv'
  <1> USE DEF ChatInv, Goto, Past, sessions
  <1>1. ChatTypeOK'
    BY DEF ChatTypeOK
  <1>2. CreatedOnce'
    BY DEF CreatedOnce, ChatTypeOK
  <1>3. SessionsAccounted'
    BY DEF SessionsAccounted, ChatTypeOK
  <1>4. BindingHonoured'
    BY DEF BindingHonoured, ChatTypeOK
  <1> QED
    BY <1>1, <1>2, <1>3, <1>4

LEMMA ReuseInv ==
  ASSUME ChatInv, NEW t \in Turn, Reuse(t)
  PROVE  ChatInv'
  <1> USE DEF ChatInv, Goto, Past
  <1> DEFINE s == registry[chat[t]]
  <1>1. /\ s \in open /\ s \in Turn /\ chat[s] = chat[t] /\ bound[s] = selected
        /\ pc[s] \in Past /\ s # Nobody
    BY DEF Reuse, Matches, SessionsAccounted, ChatTypeOK, CreatedOnce
  <1> HIDE DEF s
  <1>2. /\ pc[t] = "idle"
        /\ pc' = [pc EXCEPT ![t] = "starting"]
        /\ uses' = [uses EXCEPT ![t] = s]
        /\ binding' = [binding EXCEPT ![t] = selected]
        /\ stale' = stale \ {chat[t]}
        /\ UNCHANGED <<selected, chat, bound, open, registry, closed>>
    BY DEF Reuse, Begin, s
  <1>3. ChatTypeOK'
    BY <1>1, <1>2 DEF ChatTypeOK
  <1>4. CreatedOnce'
    BY <1>1, <1>2 DEF CreatedOnce, ChatTypeOK
  <1>5. SessionsAccounted'
    BY <1>2 DEF SessionsAccounted, ChatTypeOK
  <1>6. BindingHonoured'
    BY <1>1, <1>2 DEF BindingHonoured, ChatTypeOK
  <1> QED
    BY <1>3, <1>4, <1>5, <1>6

\* A session that the registry disposes of and forgets.
LEMMA Disposed ==
  ASSUME ChatInv, NEW C \in SUBSET Chat,
         open' = open \ {registry[ch] : ch \in C},
         registry' = [ch \in Chat |-> IF ch \in C THEN Nobody ELSE registry[ch]],
         chat' = chat,
         \A s \in open : pc'[s] = pc[s]
  PROVE  SessionsAccounted'
  BY ChatAssumption DEF ChatInv, SessionsAccounted, ChatTypeOK

LEMMA MissInv ==
  ASSUME ChatInv, NEW t \in Turn, Miss(t)
  PROVE  ChatInv'
  <1> USE DEF ChatInv, Goto, Past
  <1>1. /\ pc[t] = "idle"
        /\ pc' = [pc EXCEPT ![t] = "credential"]
        /\ binding' = [binding EXCEPT ![t] = selected]
        /\ stale' = stale \ {chat[t]}
        /\ UNCHANGED <<selected, chat, uses, bound, closed>>
        /\ chat[t] \in Chat
        /\ open' = open \ {registry[chat[t]]}
        /\ registry' = [registry EXCEPT ![chat[t]] = Nobody]
    BY DEF Miss, Begin, ChatTypeOK
  <1>2. ChatTypeOK'
    BY <1>1 DEF ChatTypeOK
  <1>3. CreatedOnce'
    BY <1>1 DEF CreatedOnce, ChatTypeOK
  <1>4. SessionsAccounted'
    <2>1. open' = open \ {registry[ch] : ch \in {chat[t]}}
      BY <1>1
    <2>2. registry' = [ch \in Chat |-> IF ch \in {chat[t]} THEN Nobody ELSE registry[ch]]
      BY <1>1 DEF ChatTypeOK
    <2>3. \A s \in open : pc'[s] = pc[s]
      BY <1>1 DEF CreatedOnce, ChatTypeOK
    <2> QED
      BY <1>1, <2>1, <2>2, <2>3, Disposed
  <1>5. BindingHonoured'
    BY <1>1 DEF BindingHonoured, ChatTypeOK
  <1> QED
    BY <1>2, <1>3, <1>4, <1>5

LEMMA CreateInv ==
  ASSUME ChatInv, NEW t \in Turn, Create(t)
  PROVE  ChatInv'
  <1> USE DEF ChatInv, Past
  <1> DEFINE old == registry[chat[t]]
  <1>1. /\ pc[t] = "creating" /\ chat[t] \in Chat
        /\ pc' = [pc EXCEPT ![t] = "starting"]
        /\ uses' = [uses EXCEPT ![t] = t]
        /\ open' = (open \cup {t}) \ {old}
        /\ bound' = [bound EXCEPT ![t] = binding[t]]
        /\ registry' = [registry EXCEPT ![chat[t]] = t]
        /\ stale' = stale \ {chat[t]}
        /\ UNCHANGED <<selected, chat, binding, closed>>
    BY DEF Create, Goto, Replaced, ChatTypeOK
  <1>2. old # t /\ t \notin open /\ t # Nobody
    BY <1>1, ChatAssumption DEF CreatedOnce, SessionsAccounted
  <1>3. \A ch \in Chat : registry[ch] = old /\ old # Nobody => ch = chat[t]
    BY <1>1 DEF SessionsAccounted
  <1> HIDE DEF old
  <1>4. ChatTypeOK'
    BY <1>1 DEF ChatTypeOK
  <1>5. CreatedOnce'
    BY <1>1, <1>2 DEF CreatedOnce, ChatTypeOK
  <1>6. SessionsAccounted'
    <2>1. ASSUME NEW s \in open'
          PROVE  registry'[chat'[s]] = s \/ pc'[s] = "threw"
      <3>1. CASE s = t
        BY <1>1, <3>1 DEF ChatTypeOK
      <3>2. CASE s # t
        BY <1>1, <2>1, <3>2 DEF ChatTypeOK, SessionsAccounted, old
      <3> QED
        BY <3>1, <3>2
    <2>2. ASSUME NEW ch \in Chat, registry'[ch] # Nobody
          PROVE  registry'[ch] \in open' /\ chat'[registry'[ch]] = ch
      <3>1. CASE ch = chat[t]
        BY <1>1, <1>2, <3>1 DEF ChatTypeOK
      <3>2. CASE ch # chat[t]
        <4>1. registry'[ch] = registry[ch]
          BY <1>1, <3>2 DEF ChatTypeOK
        <4> QED
          BY <1>1, <1>3, <2>2, <3>2, <4>1 DEF SessionsAccounted
      <3> QED
        BY <3>1, <3>2
    <2> QED
      BY <2>1, <2>2 DEF SessionsAccounted
  <1>7. BindingHonoured'
    <2>1. \A u \in Turn : u # t /\ pc'[u] \in {"starting", "prompting"} =>
              /\ pc[u] = pc'[u] /\ uses'[u] = uses[u] /\ uses[u] # t
              /\ bound'[uses[u]] = bound[uses[u]]
      BY <1>1 DEF BindingHonoured, CreatedOnce, ChatTypeOK
    <2> QED
      BY <1>1, <1>2, <2>1 DEF BindingHonoured, ChatTypeOK
  <1> QED
    BY <1>4, <1>5, <1>6, <1>7

LEMMA CreateClosedInv ==
  ASSUME ChatInv, NEW t \in Turn, CreateClosed(t)
  PROVE  ChatInv'
  <1> USE DEF ChatInv, Past
  <1>1. /\ pc[t] = "creating"
        /\ pc' = [pc EXCEPT ![t] = "threw"]
        /\ open' = open \cup {t}
        /\ bound' = [bound EXCEPT ![t] = binding[t]]
        /\ UNCHANGED <<selected, chat, binding, uses, registry, stale, closed>>
    BY DEF CreateClosed, Goto
  <1>2. ChatTypeOK'
    BY <1>1 DEF ChatTypeOK
  <1>3. CreatedOnce'
    BY <1>1 DEF CreatedOnce, ChatTypeOK
  <1>4. SessionsAccounted'
    BY <1>1 DEF SessionsAccounted, ChatTypeOK
  <1>5. BindingHonoured'
    <2>1. \A u \in Turn : pc'[u] \in {"starting", "prompting"} =>
              pc[u] = pc'[u] /\ uses[u] # t /\ bound'[uses[u]] = bound[uses[u]]
      BY <1>1 DEF BindingHonoured, CreatedOnce, ChatTypeOK
    <2> QED
      BY <1>1, <2>1 DEF BindingHonoured
  <1> QED
    BY <1>2, <1>3, <1>4, <1>5

LEMMA TurnInv ==
  ASSUME ChatInv, NEW t \in Turn, TurnStep(t)
  PROVE  ChatInv'
  <1>1. CASE Refuse(t)
    <2>1. /\ pc[t] = "idle"
          /\ pc' = [pc EXCEPT ![t] = "done"]
          /\ binding' = [binding EXCEPT ![t] = selected]
          /\ UNCHANGED <<selected, chat, uses, bound, closed, open, registry, stale>>
      BY <1>1 DEF Refuse, Begin, Goto
    <2>2. ChatTypeOK'
      BY <2>1 DEF ChatInv, ChatTypeOK, Past
    <2>3. CreatedOnce' /\ SessionsAccounted'
      BY <2>1 DEF ChatInv, ChatTypeOK, Past, CreatedOnce, SessionsAccounted
    <2>4. BindingHonoured'
      BY <2>1 DEF ChatInv, ChatTypeOK, BindingHonoured
    <2> QED
      BY <2>2, <2>3, <2>4 DEF ChatInv
  <1>2. CASE Credential(t) \/ CreateFails(t) \/ Start(t) \/ PromptEnds(t)
    <2>1. PICK l \in {"creating", "done", "failed", "prompting"} :
              /\ Goto(t, l) /\ pc[t] \in {"credential", "creating", "starting", "prompting"}
              /\ l \in Past \/ pc[t] \notin Past
              /\ l = "prompting" => pc[t] = "starting"
      BY <1>2 DEF Credential, CreateFails, Start, PromptEnds, Past
    <2>2. UNCHANGED <<selected, chat, binding, uses, sessions>>
      BY <1>2 DEF Credential, CreateFails, Start, PromptEnds
    <2> QED
      BY <2>1, <2>2, QuietTurn
  <1> QED
    BY <1>1, <1>2, ReuseInv, MissInv, CreateInv, CreateClosedInv DEF TurnStep

LEMMA RegistryInv ==
  ASSUME ChatInv, (\E ch \in Chat : Age(ch)) \/ SelectBinding \/ Sweep \/ Close
  PROVE  ChatInv'
  <1>1. CASE SelectBinding \/ \E ch \in Chat : Age(ch)
    <2>1. /\ UNCHANGED <<turns, open, bound, registry, closed>>
          /\ selected' \in Binding /\ stale' \subseteq Chat
      BY <1>1 DEF SelectBinding, Age, sessions, ChatInv, ChatTypeOK
    <2> QED
      BY <2>1 DEF turns, ChatInv, ChatTypeOK, CreatedOnce, SessionsAccounted, BindingHonoured
  <1>2. ASSUME NEW C \in SUBSET Chat,
               open' = open \ {registry[ch] : ch \in C},
               registry' = [ch \in Chat |-> IF ch \in C THEN Nobody ELSE registry[ch]],
               stale' = {}, closed' \in BOOLEAN,
               UNCHANGED <<selected, turns, bound>>
        PROVE  ChatInv'
    <2>1. ChatTypeOK'
      BY <1>2 DEF ChatInv, ChatTypeOK, turns
    <2>2. CreatedOnce' /\ BindingHonoured'
      BY <1>2 DEF ChatInv, CreatedOnce, BindingHonoured, turns
    <2>3. SessionsAccounted'
      BY <1>2, Disposed DEF turns
    <2> QED
      BY <2>1, <2>2, <2>3 DEF ChatInv
  <1>3. CASE Sweep
    <2>1. stale \in SUBSET Chat /\ closed' \in BOOLEAN
      BY <1>3 DEF ChatInv, ChatTypeOK, Sweep
    <2> QED
      BY <1>2, <1>3, <2>1 DEF Sweep
  <1>4. CASE Close
    <2>1. registry' = [ch \in Chat |-> IF ch \in Chat THEN Nobody ELSE registry[ch]]
      BY <1>4 DEF Close
    <2> QED
      BY <1>2, <1>4, <2>1 DEF Close
  <1> QED
    BY <1>1, <1>3, <1>4

LEMMA ChatStep == ChatInv /\ [ChatNext]_chatVars => ChatInv'
  <1>1. ASSUME ChatInv, UNCHANGED chatVars
        PROVE  ChatInv'
    BY <1>1 DEF chatVars, turns, sessions, ChatInv, ChatTypeOK, CreatedOnce,
                SessionsAccounted, BindingHonoured
  <1> QED
    BY <1>1, TurnInv, RegistryInv DEF ChatNext

LEMMA ChatInvariant == ChatSpec => []ChatInv
  BY ChatInitInv, ChatStep, PTL DEF ChatSpec

\* The variables of the chat sessions keep their types: a turn uses a session of
\* a turn or none, and what is registered is one (chat.ts).
THEOREM ChatTypes == ChatSpec => []ChatTypeOK
  <1>1. ChatInv => ChatTypeOK
    BY DEF ChatInv
  <1> QED
    BY <1>1, ChatInvariant, PTL

\* However the turns of a chat interleave, an open session is one the registry
\* will dispose of, or one that came after close() (ChatSessionRegistry).
THEOREM SessionsKept == ChatSpec => []SessionsAccounted
  <1>1. ChatInv => SessionsAccounted
    BY DEF ChatInv
  <1> QED
    BY <1>1, ChatInvariant, PTL

\* A turn talks to the provider and the model that were selected when it began,
\* whatever is selected later and whoever registers a session meanwhile.
THEOREM SelectionHonoured == ChatSpec => []BindingHonoured
  <1>1. ChatInv => BindingHonoured
    BY DEF ChatInv
  <1> QED
    BY <1>1, ChatInvariant, PTL
-----------------------------------------------------------------------------
(* From the events file to a browser *)

BusEvents == [type : {"overflow", "notice", "log.append", "state.changed", "error"}, line : Nat]
Line == [line : Nat, whole : BOOLEAN]
Limiter == [over : BOOLEAN, consumed : Nat, dropped : Nat]
Feed == [phase : {"closed", "opening", "live"}, queue : Seq(BusEvents), hand : Seq(BusEvents),
         overflowed : BOOLEAN, told : BOOLEAN,
         lost : SUBSET {"overflow", "notice", "log.append", "state.changed", "error"},
         frame : Nat, again : BOOLEAN, missed : Nat]

FeedTypeOK ==
    /\ written \in Nat /\ changed \in BOOLEAN
    /\ offset \in Nat /\ reads \in Seq([from : Nat, to : Nat]) /\ unread \in BOOLEAN
    /\ limiter \in Limiter /\ feed \in Feed /\ passed \subseteq Nat
    /\ view \in Nat /\ fetches \in Seq([answered : BOOLEAN, snapshot : Nat])
    /\ due \in BOOLEAN /\ cached \in Nat
    /\ faults \in Nat /\ windows \in Nat

\* All lines that end within the first n halves have been handed on.
HandedTo(n, done) == \A k \in Nat \ {0} : 2 * k <= n => k \in done

\* A read begins where the tailer was once, between two lines.
BetweenLines(n) == n = 2 * (n \div 2)

\* All that lies before the tailer, or before where a read began, is handed on.
Stretches ==
    /\ offset <= written /\ BetweenLines(offset) /\ HandedTo(offset, passed)
    /\ \A r \in DOMAIN reads :
           /\ BetweenLines(reads[r].from) /\ HandedTo(reads[r].from, passed)
           /\ reads[r].from <= reads[r].to /\ reads[r].to <= written

Plain(q) == {i \in DOMAIN q : q[i].type \notin Errors}
Changes(q) == {i \in DOMAIN q : q[i].type = "state.changed"}

\* Only a live connection has events, and its writer waits for none of them.
Waits(f) ==
    /\ f.phase # "live" => f.queue = <<>> /\ f.hand = <<>> /\ f.lost = {} /\ ~f.overflowed
    /\ Len(f.hand) <= 1
    /\ f.hand = <<>> => f.queue = <<>>

\* Whether an overflow has been announced is decided before what is lost.
Announced(f) ==
    /\ f.lost \cap Errors = {}
    /\ f.lost # {} => f.overflowed
    /\ f.overflowed =>
         f.told \/ f.hand = <<Overflow>> \/ \E i \in DOMAIN f.queue : f.queue[i] = Overflow
    /\ Cardinality(Plain(f.queue)) <= MaxQueue

\* The last snapshot on its way, if any is, is snapshot c.
Newest(f, c) ==
    \/ \E i \in Changes(f.queue) : f.queue[i].line = c /\ \A j \in Changes(f.queue) : j <= i
    \/ /\ Changes(f.queue) = {} /\ f.hand # <<>>
       /\ f.hand[1].type = "state.changed" /\ f.hand[1].line = c

\* The client has snapshot c, will have it, or has missed it.
UpToDate(f, v, c) ==
    /\ f.missed <= c
    /\ \A i \in Changes(f.queue) : f.queue[i].line <= c
    /\ \A i \in Changes(f.hand) : f.hand[i].line <= c
    /\ f.phase = "opening" => f.frame = c \/ f.missed = c
    /\ f.phase = "live" =>
         \/ f.missed = c
         \/ Newest(f, c)
         \/ v = c /\ Changes(f.queue) = {} /\ Changes(f.hand) = {}

FeedGood(f, v, c) == f \in Feed /\ Waits(f) /\ Announced(f) /\ UpToDate(f, v, c)

\* No snapshot is newer than what the server holds, or the file.
NotAhead ==
    /\ cached <= written /\ view <= cached /\ feed.frame <= cached
    /\ \A i \in DOMAIN fetches : fetches[i].snapshot <= cached

FeedInv == FeedTypeOK /\ Stretches /\ NotAhead /\ FeedGood(feed, view, cached)
-----------------------------------------------------------------------------
(***************************************************************************)
(* The lines of a read are handed on one by one, by a recursive function.  *)
(* That it exists, and what holds after its last line, follow from the     *)
(* least line at which they would fail.                                    *)
(***************************************************************************)

LEMMA FeedBelowWellFounded == IsWellFoundedOn({p \in Nat \X Nat : p[1] < p[2]}, Nat)
  BY NatLessThanWellFounded DEF OpToRel

\* The least-number principle.
LEMMA Least ==
  ASSUME NEW T \in SUBSET Nat, T # {}
  PROVE  \E n \in T : \A m \in T : ~(m < n)
  <1> DEFINE R == {p \in Nat \X Nat : p[1] < p[2]}
  <1>1. IsWellFoundedOn(R, Nat)
    BY FeedBelowWellFounded
  <1>2. \A x, y \in Nat : <<y, x>> \in R <=> y < x
    OBVIOUS
  <1> HIDE DEF R
  <1>3. PICK x \in T : \A y \in T : ~(<<y, x>> \in R)
    BY <1>1, WFMin
  <1> QED
    BY <1>2, <1>3

\* The state after each line of a read.
Trace(st, lines, n, f) ==
    f = [i \in 0 .. n |-> IF i = 0 THEN st ELSE OnLine(f[i - 1], lines[i])]

LEMMA TraceExists ==
  ASSUME NEW st, NEW lines, NEW n \in Nat
  PROVE  \E f : Trace(st, lines, n, f)
  <1> DEFINE T == {m \in Nat : ~ \E f : Trace(st, lines, m, f)}
  <1> SUFFICES ASSUME T # {} PROVE FALSE
    OBVIOUS
  <1>1. PICK m \in T : \A k \in T : ~(k < m)
    BY Least
  <1>2. CASE m = 0
    <2>1. Trace(st, lines, 0, [i \in 0 .. 0 |-> st])
      BY DEF Trace
    <2> QED
      BY <1>2, <2>1
  <1>3. CASE m # 0
    <2>1. m - 1 \in Nat /\ m - 1 < m
      BY <1>3
    <2>2. PICK f : Trace(st, lines, m - 1, f)
      BY <1>1, <2>1
    <2> DEFINE g == [i \in 0 .. m |-> IF i = m THEN OnLine(f[m - 1], lines[m]) ELSE f[i]]
    <2>3. \A i \in 0 .. m - 1 : f[i] = IF i = 0 THEN st ELSE OnLine(f[i - 1], lines[i])
      BY <2>2 DEF Trace
    <2>4. \A i \in 0 .. m : g[i] = IF i = 0 THEN st ELSE OnLine(g[i - 1], lines[i])
      <3> TAKE i \in 0 .. m
      <3>1. CASE i = m
        <4>1. g[i - 1] = f[m - 1] /\ g[i] = OnLine(f[m - 1], lines[m])
          BY <1>3, <2>1, <3>1
        <4> QED
          BY <1>3, <3>1, <4>1
      <3>2. CASE i # m
        <4>1. g[i] = f[i] /\ i \in 0 .. m - 1
          BY <3>2, <2>1
        <4>2. CASE i = 0
          BY <2>3, <4>1, <4>2
        <4>3. CASE i # 0
          <5>1. g[i - 1] = f[i - 1]
            BY <4>1, <4>3
          <5> QED
            BY <2>3, <4>1, <4>3, <5>1
        <4> QED
          BY <4>2, <4>3
      <3> QED
        BY <3>1, <3>2
    <2>5. g = [i \in 0 .. m |-> IF i = 0 THEN st ELSE OnLine(g[i - 1], lines[i])]
      <3> DEFINE h == [i \in 0 .. m |-> IF i = 0 THEN st ELSE OnLine(g[i - 1], lines[i])]
      <3>1. \A i \in 0 .. m : h[i] = g[i]
        BY <2>4
      <3>2. DOMAIN h = 0 .. m /\ DOMAIN g = 0 .. m
        OBVIOUS
      <3>3. h = [i \in 0 .. m |-> h[i]] /\ g = [i \in 0 .. m |-> g[i]]
        OBVIOUS
      <3> HIDE DEF g, h
      <3>4. h = g
        BY <3>1, <3>3
      <3> QED
        BY <3>4 DEF h
    <2> HIDE DEF g
    <2>6. Trace(st, lines, m, g)
      BY <2>5 DEF Trace
    <2> QED
      BY <2>6
  <1> QED
    BY <1>2, <1>3

\* HandedOn is where the trace of its lines ends.
LEMMA HandedOnTrace ==
  ASSUME NEW st, NEW lines, Len(lines) \in Nat
  PROVE  \E f : Trace(st, lines, Len(lines), f) /\ HandedOn(st, lines) = f[Len(lines)]
  <1> DEFINE after == CHOOSE f : f = [i \in 0 .. Len(lines) |->
                                         IF i = 0 THEN st ELSE OnLine(f[i - 1], lines[i])]
  <1>1. \E f : f = [i \in 0 .. Len(lines) |-> IF i = 0 THEN st ELSE OnLine(f[i - 1], lines[i])]
    <2>1. \E f : Trace(st, lines, Len(lines), f)
      BY TraceExists
    <2> QED
      BY <2>1 DEF Trace
  <1>2. after = [i \in 0 .. Len(lines) |-> IF i = 0 THEN st ELSE OnLine(after[i - 1], lines[i])]
    BY <1>1
  <1>3. HandedOn(st, lines) = after[Len(lines)]
    BY DEF HandedOn
  <1> QED
    BY <1>2, <1>3 DEF Trace
-----------------------------------------------------------------------------
(* Sequences that lose or gain an event *)

LEMMA Element ==
  ASSUME NEW S, NEW q \in Seq(S), NEW i \in DOMAIN q
  PROVE  q[i] \in S
  OBVIOUS

LEMMA Joined ==
  ASSUME NEW S, NEW p \in Seq(S), NEW q \in Seq(S)
  PROVE  /\ \A i \in DOMAIN p : i \in DOMAIN (p \o q) /\ (p \o q)[i] = p[i]
         /\ \A i \in DOMAIN q :
                Len(p) + i \in DOMAIN (p \o q) /\ (p \o q)[Len(p) + i] = q[i]
  <1>1. /\ Len(p) \in Nat /\ Len(q) \in Nat /\ DOMAIN p = 1 .. Len(p) /\ DOMAIN q = 1 .. Len(q)
        /\ DOMAIN (p \o q) = 1 .. Len(p) + Len(q)
    OBVIOUS
  <1>2. \A i \in 1 .. Len(p) + Len(q) :
            (p \o q)[i] = IF i <= Len(p) THEN p[i] ELSE q[i - Len(p)]
    OBVIOUS
  <1>3. \A i \in DOMAIN p : i \in DOMAIN (p \o q) /\ (p \o q)[i] = p[i]
    BY <1>1, <1>2
  <1>4. ASSUME NEW i \in DOMAIN q
        PROVE  Len(p) + i \in DOMAIN (p \o q) /\ (p \o q)[Len(p) + i] = q[i]
    <2>1. Len(p) + i \in 1 .. Len(p) + Len(q) /\ ~(Len(p) + i <= Len(p))
           /\ (Len(p) + i) - Len(p) = i
      BY <1>1
    <2> QED
      BY <1>1, <1>2, <2>1
  <1> QED
    BY <1>3, <1>4

LEMMA OnlyOne ==
  ASSUME NEW S, NEW q \in Seq(S), q # <<>>, Len(q) <= 1
  PROVE  Len(q) = 1 /\ DOMAIN q = {1} /\ q[1] \in S /\ Head(q) = q[1] /\ q = <<q[1]>>
  <1>1. Len(q) \in Nat /\ Len(q) # 0 /\ DOMAIN q = 1 .. Len(q)
    OBVIOUS
  <1>2. Len(q) = 1 /\ DOMAIN q = {1}
    BY <1>1
  <1> QED
    BY <1>2

LEMMA WithoutOne ==
  ASSUME NEW S, NEW q \in Seq(S), NEW d \in 1 .. Len(q)
  PROVE  LET rest == RemoveAt(q, d)
         IN  /\ rest \in Seq(S) /\ Len(rest) = Len(q) - 1
             /\ \A i \in 1 .. Len(q) - 1 : rest[i] = IF i < d THEN q[i] ELSE q[i + 1]
  <1>1. SubSeq(q, 1, d - 1) \in Seq(S) /\ Len(SubSeq(q, 1, d - 1)) = d - 1
    OBVIOUS
  <1>2. SubSeq(q, d + 1, Len(q)) \in Seq(S) /\ Len(SubSeq(q, d + 1, Len(q))) = Len(q) - d
    OBVIOUS
  <1>3. \A i \in 1 .. d - 1 : SubSeq(q, 1, d - 1)[i] = q[i]
    OBVIOUS
  <1>4. \A i \in 1 .. Len(q) - d : SubSeq(q, d + 1, Len(q))[i] = q[d + i]
    OBVIOUS
  <1>5. RemoveAt(q, d) = SubSeq(q, 1, d - 1) \o SubSeq(q, d + 1, Len(q))
    BY DEF RemoveAt
  <1> DEFINE a == SubSeq(q, 1, d - 1)
             b == SubSeq(q, d + 1, Len(q))
  <1>6. a \in Seq(S) /\ b \in Seq(S) /\ Len(a) = d - 1 /\ Len(b) = Len(q) - d
    BY <1>1, <1>2
  <1>7. (\A i \in 1 .. d - 1 : a[i] = q[i]) /\ (\A i \in 1 .. Len(q) - d : b[i] = q[d + i])
    BY <1>3, <1>4
  <1> HIDE DEF a, b
  <1>8. (a \o b) \in Seq(S) /\ Len(a \o b) = Len(q) - 1
    BY <1>6
  <1>9. ASSUME NEW i \in 1 .. Len(q) - 1
        PROVE  (a \o b)[i] = IF i < d THEN q[i] ELSE q[i + 1]
    <2>1. CASE i < d
      BY <1>6, <1>7, <2>1
    <2>2. CASE ~(i < d)
      <3>1. (a \o b)[i] = b[i - (d - 1)] /\ i - (d - 1) \in 1 .. Len(q) - d
        BY <1>6, <2>2
      <3>2. d + (i - (d - 1)) = i + 1
        OBVIOUS
      <3> QED
        BY <1>7, <2>2, <3>1, <3>2
    <2> QED
      BY <2>1, <2>2
  <1> QED
    BY <1>5, <1>8, <1>9 DEF a, b

LEMMA WithOneMore ==
  ASSUME NEW S, NEW q \in Seq(S), NEW e \in S
  PROVE  LET more == Append(q, e)
         IN  /\ more \in Seq(S) /\ Len(more) = Len(q) + 1 /\ Len(q) \in Nat
             /\ DOMAIN q = 1 .. Len(q) /\ DOMAIN more = 1 .. Len(q) + 1
             /\ \A i \in 1 .. Len(q) : more[i] = q[i]
             /\ more[Len(q) + 1] = e
  OBVIOUS

\* How many events that are no errors a queue holds, and one gained or lost.
LEMMA PlainFinite ==
  ASSUME NEW q \in Seq(BusEvents)
  PROVE  /\ IsFiniteSet(Plain(q)) /\ Cardinality(Plain(q)) \in Nat
         /\ Cardinality(Plain(q)) <= Len(q)
  <1>1. Len(q) \in Nat /\ DOMAIN q = 1 .. Len(q)
    OBVIOUS
  <1>2. IsFiniteSet(1 .. Len(q)) /\ Cardinality(1 .. Len(q)) = Len(q)
    BY <1>1, FS_Interval
  <1>3. Plain(q) \subseteq 1 .. Len(q)
    BY <1>1 DEF Plain
  <1>4. IsFiniteSet(Plain(q)) /\ Cardinality(Plain(q)) <= Cardinality(1 .. Len(q))
    BY <1>2, <1>3, FS_Subset
  <1> QED
    BY <1>2, <1>4, FS_CardinalityType

LEMMA PlainAppend ==
  ASSUME NEW q \in Seq(BusEvents), NEW e \in BusEvents
  PROVE  Cardinality(Plain(Append(q, e))) =
           Cardinality(Plain(q)) + (IF e.type \in Errors THEN 0 ELSE 1)
  <1> DEFINE more == Append(q, e)
  <1>1. /\ Len(q) \in Nat /\ DOMAIN q = 1 .. Len(q) /\ DOMAIN more = 1 .. Len(q) + 1
        /\ \A i \in 1 .. Len(q) : more[i] = q[i]
        /\ more[Len(q) + 1] = e
    BY WithOneMore
  <1> HIDE DEF more
  <1>2. CASE e.type \in Errors
    <2>1. Plain(more) = Plain(q)
      BY <1>1, <1>2 DEF Plain
    <2> QED
      BY <1>2, <2>1, PlainFinite DEF more
  <1>3. CASE e.type \notin Errors
    <2>1. Plain(more) = Plain(q) \cup {Len(q) + 1} /\ Len(q) + 1 \notin Plain(q)
      BY <1>1, <1>3 DEF Plain
    <2>2. IsFiniteSet(Plain(q))
      BY PlainFinite
    <2>3. Cardinality(Plain(more)) = Cardinality(Plain(q)) + 1
      BY <2>1, <2>2, FS_AddElement
    <2> QED
      BY <1>3, <2>3 DEF more
  <1> QED
    BY <1>2, <1>3

LEMMA PlainRemove ==
  ASSUME NEW q \in Seq(BusEvents), NEW d \in 1 .. Len(q)
  PROVE  Cardinality(Plain(RemoveAt(q, d))) =
           Cardinality(Plain(q)) - (IF d \in Plain(q) THEN 1 ELSE 0)
  <1> DEFINE rest == RemoveAt(q, d)
             P == Plain(rest)
             Q == Plain(q) \ {d}
  <1>1. d \in 1 .. Len(q) /\ Len(q) \in Nat
    OBVIOUS
  <1>2. /\ rest \in Seq(BusEvents) /\ Len(rest) = Len(q) - 1
        /\ \A i \in 1 .. Len(q) - 1 : rest[i] = IF i < d THEN q[i] ELSE q[i + 1]
    BY <1>1, WithoutOne
  <1> HIDE DEF rest
  <1>3. \A i : i \in P <=> i \in 1 .. Len(q) - 1 /\ rest[i].type \notin Errors
    BY <1>2 DEF Plain
  <1>4. \A i : i \in Q <=> i \in 1 .. Len(q) /\ q[i].type \notin Errors /\ i # d
    BY DEF Plain
  <1>5. IsFiniteSet(P) /\ IsFiniteSet(Plain(q)) /\ Cardinality(Plain(q)) \in Nat
    BY <1>2, PlainFinite
  <1>6. /\ IsFiniteSet(Q)
        /\ Cardinality(Q) = Cardinality(Plain(q)) - (IF d \in Plain(q) THEN 1 ELSE 0)
    BY <1>5, FS_RemoveElement
  <1> HIDE DEF P, Q
  <1> DEFINE g == [i \in P |-> IF i < d THEN i ELSE i + 1]
  <1>7. ASSUME NEW i \in P
        PROVE  g[i] \in Q
    <2>1. CASE i < d
      BY <1>1, <1>2, <1>3, <1>4, <2>1
    <2>2. CASE ~(i < d)
      <3>1. i + 1 \in 1 .. Len(q) /\ i + 1 # d /\ rest[i] = q[i + 1]
        BY <1>1, <1>2, <1>3, <2>2
      <3> QED
        BY <1>3, <1>4, <2>2, <3>1
    <2> QED
      BY <2>1, <2>2
  <1>8. ASSUME NEW i \in P, NEW j \in P, g[i] = g[j]
        PROVE  i = j
    <2>1. i \in Int /\ j \in Int /\ d \in Int
      BY <1>1, <1>3
    <2> QED
      BY <1>8, <2>1
  <1>9. ASSUME NEW k \in Q
        PROVE  \E i \in P : g[i] = k
    <2>1. CASE k < d
      <3>1. k \in 1 .. Len(q) - 1 /\ rest[k] = q[k]
        BY <1>1, <1>2, <1>4, <2>1
      <3>2. k \in P
        BY <1>3, <1>4, <3>1
      <3> QED
        BY <2>1, <3>2
    <2>2. CASE ~(k < d)
      <3>1. k - 1 \in 1 .. Len(q) - 1 /\ ~(k - 1 < d) /\ (k - 1) + 1 = k
        BY <1>1, <1>4, <2>2
      <3>2. k - 1 \in P
        BY <1>2, <1>3, <1>4, <3>1
      <3> QED
        BY <3>1, <3>2
    <2> QED
      BY <2>1, <2>2
  <1>10. g \in [P -> Q]
    BY <1>7
  <1> HIDE DEF g
  <1>11. g \in Bijection(P, Q)
    BY <1>8, <1>9, <1>10 DEF Bijection, Injection, Surjection, IsInjective
  <1>12. ExistsBijection(P, Q)
    BY <1>11 DEF ExistsBijection
  <1>13. Cardinality(P) = Cardinality(Q)
    BY <1>5, <1>12, FS_Bijection
  <1> QED
    BY <1>6, <1>13 DEF P, rest
-----------------------------------------------------------------------------
(* A client, and what is pushed to it *)

LEMMA FeedFields ==
  ASSUME NEW f \in Feed
  PROVE  /\ f.phase \in {"closed", "opening", "live"}
         /\ f.queue \in Seq(BusEvents) /\ f.hand \in Seq(BusEvents)
         /\ f.overflowed \in BOOLEAN /\ f.told \in BOOLEAN
         /\ f.lost \subseteq {"overflow", "notice", "log.append", "state.changed", "error"}
         /\ f.frame \in Nat /\ f.again \in BOOLEAN /\ f.missed \in Nat
         /\ Len(f.queue) \in Nat /\ DOMAIN f.queue = 1 .. Len(f.queue)
         /\ \A i \in DOMAIN f.queue : f.queue[i] \in BusEvents
  BY DEF Feed

LEMMA DroppableFirst ==
  ASSUME NEW q \in Seq(BusEvents)
  PROVE  \/ Droppable(q) = 0 /\ Plain(q) = {}
         \/ Droppable(q) \in Plain(q) /\ Droppable(q) \in 1 .. Len(q)
  <1>1. CASE Plain(q) = {}
    BY <1>1 DEF Droppable, Plain
  <1>2. CASE Plain(q) # {}
    <2>1. Plain(q) \subseteq Nat /\ Plain(q) \subseteq 1 .. Len(q)
      BY DEF Plain
    <2>2. PICK d \in Plain(q) : \A m \in Plain(q) : ~(m < d)
      BY <1>2, <2>1, Least
    <2>3. \A m \in Plain(q) : d <= m
      BY <2>1, <2>2
    <2>4. Droppable(q) = CHOOSE i \in Plain(q) : \A j \in Plain(q) : i <= j
      BY <1>2 DEF Droppable, Plain
    <2>5. Droppable(q) \in Plain(q)
      BY <2>3, <2>4
    <2> QED
      BY <2>1, <2>5
  <1> QED
    BY <1>1, <1>2

\* What Overrun makes of a feed, field by field.
LEMMA OverrunFields ==
  ASSUME NEW f \in Feed
  PROVE  LET drop == Droppable(f.queue)
             rest == IF drop = 0 THEN f.queue ELSE RemoveAt(f.queue, drop)
             g == Overrun(f)
         IN  /\ g.phase = f.phase /\ g.hand = f.hand /\ g.told = f.told
             /\ g.frame = f.frame /\ g.again = f.again
             /\ g.overflowed = TRUE
             /\ g.queue = IF f.overflowed THEN rest ELSE Append(rest, Overflow)
             /\ g.lost = IF drop = 0 THEN f.lost ELSE f.lost \cup {f.queue[drop].type}
             /\ g.missed = IF drop = 0 \/ f.queue[drop].type # "state.changed" THEN f.missed
                           ELSE Later(f.missed, f.queue[drop].line)
             /\ g \in [phase : {g.phase}, queue : {g.queue}, hand : {g.hand},
                       overflowed : {g.overflowed}, told : {g.told}, lost : {g.lost},
                       frame : {g.frame}, again : {g.again}, missed : {g.missed}]
  BY DEF Overrun, Feed

LEMMA OverflowEvent == Overflow \in BusEvents /\ Overflow.type = "overflow"
  BY DEF Overflow, BusEvent, BusEvents

LEMMA OverrunType ==
  ASSUME NEW f \in Feed
  PROVE  Overrun(f) \in Feed
  <1> DEFINE drop == Droppable(f.queue)
             rest == IF drop = 0 THEN f.queue ELSE RemoveAt(f.queue, drop)
             g == Overrun(f)
  <1>1. drop = 0 \/ drop \in 1 .. Len(f.queue)
    BY FeedFields, DroppableFirst
  <1>2. rest \in Seq(BusEvents)
    BY <1>1, FeedFields, WithoutOne
  <1>3. Append(rest, Overflow) \in Seq(BusEvents)
    BY <1>2, OverflowEvent, WithOneMore
  <1>4. g.queue \in Seq(BusEvents)
    <2>1. g.queue = IF f.overflowed THEN rest ELSE Append(rest, Overflow)
      BY OverrunFields
    <2> HIDE DEF g, rest
    <2> QED
      BY <1>2, <1>3, <2>1
  <1>5. drop # 0 => f.queue[drop] \in BusEvents
    BY <1>1, FeedFields
  <1>6. g.lost \subseteq {"overflow", "notice", "log.append", "state.changed", "error"}
    <2>1. g.lost = IF drop = 0 THEN f.lost ELSE f.lost \cup {f.queue[drop].type}
      BY OverrunFields
    <2> HIDE DEF g, drop
    <2>2. f.lost \subseteq {"overflow", "notice", "log.append", "state.changed", "error"}
      BY FeedFields
    <2>3. drop # 0 =>
            f.queue[drop].type \in {"overflow", "notice", "log.append", "state.changed", "error"}
      BY <1>5 DEF BusEvents
    <2> QED
      BY <2>1, <2>2, <2>3
  <1>7. g.missed \in Nat
    BY <1>5, OverrunFields, FeedFields DEF BusEvents, Later
  <1> HIDE DEF drop, rest
  <1>8. /\ g.phase = f.phase /\ g.hand = f.hand /\ g.told = f.told
        /\ g.frame = f.frame /\ g.again = f.again /\ g.overflowed = TRUE
        /\ g \in [phase : {g.phase}, queue : {g.queue}, hand : {g.hand},
                  overflowed : {g.overflowed}, told : {g.told}, lost : {g.lost},
                  frame : {g.frame}, again : {g.again}, missed : {g.missed}]
    BY OverrunFields
  <1> HIDE DEF g
  <1>9. g \in Feed
    BY <1>4, <1>6, <1>7, <1>8, FeedFields DEF Feed
  <1> QED
    BY <1>9 DEF g
LEMMA ChangesAppend ==
  ASSUME NEW q \in Seq(BusEvents), NEW e \in BusEvents
  PROVE  /\ Changes(Append(q, e)) =
              IF e.type = "state.changed" THEN Changes(q) \cup {Len(q) + 1} ELSE Changes(q)
         /\ \A i \in Changes(q) : Append(q, e)[i] = q[i] /\ i <= Len(q) /\ i \in Nat
         /\ Append(q, e)[Len(q) + 1] = e
  <1> DEFINE more == Append(q, e)
  <1>1. /\ Len(q) \in Nat /\ DOMAIN q = 1 .. Len(q) /\ DOMAIN more = 1 .. Len(q) + 1
        /\ \A i \in 1 .. Len(q) : more[i] = q[i]
        /\ more[Len(q) + 1] = e
    BY WithOneMore
  <1> HIDE DEF more
  <1>2. CASE e.type = "state.changed"
    BY <1>1, <1>2 DEF Changes, more
  <1>3. CASE e.type # "state.changed"
    BY <1>1, <1>3 DEF Changes, more
  <1> QED
    BY <1>2, <1>3

LEMMA ChangesRemove ==
  ASSUME NEW q \in Seq(BusEvents), NEW d \in 1 .. Len(q)
  PROVE  LET rest == RemoveAt(q, d)
         IN  /\ \A i \in Changes(q) : i < d => i \in Changes(rest) /\ rest[i] = q[i]
             /\ \A i \in Changes(q) : i > d => i - 1 \in Changes(rest) /\ rest[i - 1] = q[i]
             /\ \A j \in Changes(rest) :
                  j \in Nat /\ \E i \in Changes(q) :
                                  i # d /\ rest[j] = q[i] /\ i = IF j < d THEN j ELSE j + 1
             /\ Changes(q) \subseteq Nat
  <1> DEFINE rest == RemoveAt(q, d)
  <1>1. /\ rest \in Seq(BusEvents) /\ Len(rest) = Len(q) - 1
        /\ \A i \in 1 .. Len(q) - 1 : rest[i] = IF i < d THEN q[i] ELSE q[i + 1]
    BY WithoutOne
  <1> Len(q) \in Nat
    OBVIOUS
  <1> HIDE DEF rest
  <1>2. /\ \A i : i \in Changes(rest) <=> i \in 1 .. Len(q) - 1 /\ rest[i].type = "state.changed"
        /\ \A i : i \in Changes(q) <=> i \in 1 .. Len(q) /\ q[i].type = "state.changed"
    BY <1>1 DEF Changes
  <1>3. ASSUME NEW i \in Changes(q), i < d
        PROVE  i \in Changes(rest) /\ rest[i] = q[i]
    <2>1. i \in 1 .. Len(q) - 1 /\ rest[i] = q[i]
      BY <1>1, <1>2, <1>3
    <2> QED
      BY <1>2, <2>1
  <1>4. ASSUME NEW i \in Changes(q), i > d
        PROVE  i - 1 \in Changes(rest) /\ rest[i - 1] = q[i]
    <2>1. i - 1 \in 1 .. Len(q) - 1 /\ ~(i - 1 < d) /\ (i - 1) + 1 = i
      BY <1>1, <1>2, <1>4
    <2>2. rest[i - 1] = q[i]
      BY <1>1, <2>1
    <2> QED
      BY <1>2, <2>1, <2>2
  <1>5. ASSUME NEW j \in Changes(rest)
        PROVE  j \in Nat /\ \E i \in Changes(q) :
                               i # d /\ rest[j] = q[i] /\ i = IF j < d THEN j ELSE j + 1
    <2>1. j \in 1 .. Len(q) - 1 /\ rest[j].type = "state.changed"
      BY <1>2
    <2>2. CASE j < d
      <3>1. rest[j] = q[j] /\ j \in 1 .. Len(q) /\ j # d
        BY <1>1, <2>1, <2>2
      <3> QED
        BY <1>2, <2>1, <2>2, <3>1
    <2>3. CASE ~(j < d)
      <3>1. rest[j] = q[j + 1] /\ j + 1 \in 1 .. Len(q) /\ j + 1 # d
        BY <1>1, <2>1, <2>3
      <3>2. j + 1 \in Changes(q)
        BY <1>2, <2>1, <3>1
      <3> QED
        BY <2>1, <2>3, <3>1, <3>2
    <2> QED
      BY <2>2, <2>3
  <1>6. Changes(q) \subseteq Nat
    BY <1>1, <1>2
  <1> QED
    BY <1>3, <1>4, <1>5, <1>6 DEF rest

\* A queue at its limit has room for one more that is no error, after Overrun.
LEMMA OverrunAnnounced ==
  ASSUME NEW f \in Feed, Announced(f)
  PROVE  Announced(Overrun(f)) /\ Cardinality(Plain(Overrun(f).queue)) < MaxQueue
  <1> DEFINE q == f.queue
             drop == Droppable(q)
             rest == IF drop = 0 THEN q ELSE RemoveAt(q, drop)
             g == Overrun(f)
  <1>1. q \in Seq(BusEvents) /\ MaxQueue \in Nat /\ MaxQueue > 0
    BY FeedFields, FeedAssumption
  <1>2. (drop = 0 /\ Plain(q) = {}) \/ (drop \in Plain(q) /\ drop \in 1 .. Len(q) /\ drop # 0)
    <2>1. (drop = 0 /\ Plain(q) = {}) \/ (drop \in Plain(q) /\ drop \in 1 .. Len(q))
      BY <1>1, DroppableFirst
    <2> HIDE DEF drop
    <2> QED
      BY <1>1, <2>1
  <1>3. g.lost = IF drop = 0 THEN f.lost ELSE f.lost \cup {q[drop].type}
    BY OverrunFields
  <1>4. /\ g.queue = IF f.overflowed THEN rest ELSE Append(rest, Overflow)
        /\ g.overflowed = TRUE /\ g.hand = f.hand /\ g.told = f.told
    BY OverrunFields
  <1> HIDE DEF g
  <1>5. rest \in Seq(BusEvents)
    BY <1>1, <1>2, WithoutOne
  <1>6. Cardinality(Plain(rest)) < MaxQueue /\ Cardinality(Plain(rest)) \in Nat
    <2>1. CASE drop = 0
      <3>1. Cardinality(Plain(rest)) = 0
        BY <1>2, <2>1, FS_EmptySet
      <3> QED
        BY <1>1, <3>1
    <2>2. CASE drop # 0
      <3>1. Cardinality(Plain(rest)) = Cardinality(Plain(q)) - 1
        <4>1. drop \in 1 .. Len(q) /\ drop \in Plain(q) /\ rest = RemoveAt(q, drop)
          BY <1>2, <2>2
        <4>2. Cardinality(Plain(RemoveAt(q, drop))) =
                Cardinality(Plain(q)) - (IF drop \in Plain(q) THEN 1 ELSE 0)
          BY <1>1, <4>1, PlainRemove
        <4> QED
          BY <4>1, <4>2
      <3>2. Cardinality(Plain(q)) <= MaxQueue
        BY DEF Announced
      <3>3. Cardinality(Plain(q)) \in Nat /\ Cardinality(Plain(rest)) \in Nat
        BY <1>1, <1>5, PlainFinite
      <3> QED
        BY <1>1, <3>1, <3>2, <3>3
    <2> QED
      BY <2>1, <2>2
  <1>7. Cardinality(Plain(g.queue)) < MaxQueue
    <2>1. Overflow.type \in Errors
      BY OverflowEvent DEF Errors
    <2>2. Cardinality(Plain(Append(rest, Overflow))) = Cardinality(Plain(rest)) + 0
      BY <1>5, <2>1, OverflowEvent, PlainAppend
    <2> HIDE DEF rest
    <2> QED
      BY <1>4, <1>6, <2>2
  <1>8. g.lost \cap Errors = {}
    BY <1>2, <1>3 DEF Announced, Plain
  <1>9. g.told \/ g.hand = <<Overflow>> \/ \E i \in DOMAIN g.queue : g.queue[i] = Overflow
    <2>1. CASE ~f.overflowed
      <3>1. Append(rest, Overflow)[Len(rest) + 1] = Overflow
             /\ Len(rest) + 1 \in DOMAIN Append(rest, Overflow)
        BY <1>5
      <3> QED
        BY <1>4, <2>1, <3>1
    <2>2. CASE f.overflowed
      <3>1. CASE f.told \/ f.hand = <<Overflow>> \/ drop = 0
        BY <1>4, <2>2, <3>1 DEF Announced
      <3>2. CASE drop # 0 /\ \E i \in DOMAIN q : q[i] = Overflow
        <4>1. PICK i \in DOMAIN q : q[i] = Overflow
          BY <3>2
        <4>2. i # drop /\ i \in 1 .. Len(q) /\ drop \in 1 .. Len(q)
          BY <1>1, <1>2, <3>2, <4>1, OverflowEvent DEF Plain, Errors
        <4>3. /\ Len(rest) = Len(q) - 1
              /\ \A k \in 1 .. Len(q) - 1 : rest[k] = IF k < drop THEN q[k] ELSE q[k + 1]
          BY <1>1, <3>2, <4>2, WithoutOne
        <4>4. g.queue = rest /\ DOMAIN rest = 1 .. Len(q) - 1 /\ Len(q) \in Nat
          BY <1>1, <1>4, <1>5, <2>2, <4>3
        <4> HIDE DEF rest, drop, q
        <4>5. \E k \in 1 .. Len(q) - 1 : rest[k] = Overflow
          <5>1. CASE i < drop
            BY <4>1, <4>2, <4>3, <4>4, <5>1
          <5>2. CASE i > drop
            <6>1. i - 1 \in 1 .. Len(q) - 1 /\ ~(i - 1 < drop) /\ (i - 1) + 1 = i
              BY <4>2, <4>4, <5>2
            <6> QED
              BY <4>1, <4>3, <6>1
          <5> QED
            BY <4>2, <4>4, <5>1, <5>2
        <4> QED
          BY <4>4, <4>5
      <3> QED
        BY <2>2, <3>1, <3>2 DEF Announced
    <2> QED
      BY <2>1, <2>2
  <1>10. Cardinality(Plain(g.queue)) <= MaxQueue
    <2>1. g.queue \in Seq(BusEvents)
      BY OverrunType, FeedFields DEF g
    <2>2. Cardinality(Plain(g.queue)) \in Nat
      BY <2>1, PlainFinite
    <2> QED
      BY <1>1, <1>7, <2>2
  <1> QED
    BY <1>4, <1>7, <1>8, <1>9, <1>10 DEF Announced, g
LEMMA OverrunUpToDate ==
  ASSUME NEW f \in Feed, NEW v \in Nat, NEW c \in Nat, UpToDate(f, v, c), f.phase = "live"
  PROVE  UpToDate(Overrun(f), v, c)
  <1> DEFINE q == f.queue
             drop == Droppable(q)
             rest == IF drop = 0 THEN q ELSE RemoveAt(q, drop)
             g == Overrun(f)
  <1>1. q \in Seq(BusEvents) /\ Len(q) \in Nat /\ f.missed \in Nat
    BY FeedFields
  <1>2. (drop = 0 /\ Plain(q) = {}) \/ (drop \in Plain(q) /\ drop \in 1 .. Len(q))
    BY <1>1, DroppableFirst
  <1>3. /\ g.phase = f.phase /\ g.hand = f.hand /\ g.frame = f.frame
        /\ g.queue = IF f.overflowed THEN rest ELSE Append(rest, Overflow)
        /\ g.missed = IF drop = 0 \/ q[drop].type # "state.changed" THEN f.missed
                      ELSE Later(f.missed, q[drop].line)
    BY OverrunFields
  <1> HIDE DEF g
  <1>4. rest \in Seq(BusEvents)
    BY <1>1, <1>2, WithoutOne
  <1>5. /\ Changes(g.queue) = Changes(rest) /\ Changes(rest) \subseteq Nat
        /\ \A i \in Changes(rest) : g.queue[i] = rest[i]
    <2> HIDE DEF rest
    <2>1. Overflow \in BusEvents /\ Overflow.type # "state.changed"
      BY OverflowEvent
    <2>2. /\ Changes(Append(rest, Overflow)) = Changes(rest)
          /\ \A i \in Changes(rest) : Append(rest, Overflow)[i] = rest[i] /\ i \in Nat
      BY <1>4, <2>1, ChangesAppend
    <2> QED
      BY <1>3, <2>2
  <1>6. CASE drop = 0
    <2>1. Changes(q) = {}
      BY <1>1, <1>2, <1>6 DEF Plain, Changes, Errors
    <2>2. rest = q /\ g.missed = f.missed
      BY <1>3, <1>6
    <2> HIDE DEF rest, drop
    <2>3. Changes(g.queue) = {}
      BY <1>5, <2>1, <2>2
    <2> QED
      BY <1>3, <2>1, <2>2, <2>3 DEF UpToDate, Newest, g
  <1>7. CASE drop # 0
    <2>1. drop \in 1 .. Len(q) /\ rest = RemoveAt(q, drop)
      BY <1>2, <1>7
    <2>2. q[drop].type = "state.changed" =>
            q[drop].line \in Nat /\ q[drop].line <= c /\ drop \in Changes(q)
      <3>1. drop \in DOMAIN q /\ q[drop] \in BusEvents
        BY <1>1, <2>1
      <3> HIDE DEF rest, drop
      <3>2. q[drop].line \in Nat
        BY <3>1 DEF BusEvents
      <3>3. q[drop].type = "state.changed" => drop \in Changes(q)
        BY <3>1 DEF Changes
      <3> QED
        BY <3>2, <3>3 DEF UpToDate
    <2>3. /\ \A i \in Changes(q) : i < drop => i \in Changes(rest) /\ rest[i] = q[i]
          /\ \A i \in Changes(q) : i > drop => i - 1 \in Changes(rest) /\ rest[i - 1] = q[i]
          /\ \A j \in Changes(rest) :
               j \in Nat /\ \E i \in Changes(q) : i # drop /\ rest[j] = q[i]
                                                 /\ i = IF j < drop THEN j ELSE j + 1
          /\ Changes(q) \subseteq Nat
      BY <1>1, <2>1, ChangesRemove
    <2> HIDE DEF rest, drop
    <2>4. /\ \A i \in Changes(q) : q[i].line <= c
          /\ \A i \in Changes(f.hand) : f.hand[i].line <= c
          /\ f.missed <= c
      BY DEF UpToDate
    <2>5. g.missed <= c /\ (f.missed = c => g.missed = c)
      BY <1>1, <1>3, <2>2, <2>4 DEF Later
    <2>6. \A j \in Changes(g.queue) : g.queue[j].line <= c
      BY <1>5, <2>3, <2>4
    <2>7. g.missed = c \/ Newest(g, c) \/ (v = c /\ Changes(g.queue) = {} /\ Changes(g.hand) = {})
      <3>1. CASE f.missed = c
        BY <2>5, <3>1
      <3>2. ASSUME NEW i \in Changes(q), q[i].line = c, \A j \in Changes(q) : j <= i
            PROVE  g.missed = c \/ Newest(g, c)
        <4>1. CASE i = drop
          <5>1. q[drop].type = "state.changed"
            BY <4>1 DEF Changes
          <5>2. g.missed = Later(f.missed, c)
            BY <1>3, <1>7, <3>2, <4>1, <5>1
          <5> QED
            BY <1>1, <2>4, <5>2 DEF Later
        <4>2. CASE i > drop
          <5>1. i - 1 \in Changes(g.queue) /\ g.queue[i - 1].line = c
            BY <1>5, <2>3, <3>2, <4>2
          <5>2. \A j \in Changes(g.queue) : j <= i - 1
            <6> TAKE j \in Changes(g.queue)
            <6>1. PICK k \in Changes(q) : k # drop /\ k = IF j < drop THEN j ELSE j + 1
              BY <1>5, <2>3
            <6>2. j \in Nat /\ i \in Nat /\ k \in Nat /\ drop \in Nat /\ k <= i
              BY <1>5, <2>1, <2>3, <3>2
            <6> QED
              BY <4>2, <6>1, <6>2
          <5> QED
            BY <5>1, <5>2 DEF Newest
        <4>3. CASE i < drop
          <5>1. i \in Changes(g.queue) /\ g.queue[i].line = c
            BY <1>5, <2>3, <3>2, <4>3
          <5>2. \A j \in Changes(g.queue) : j <= i
            <6> TAKE j \in Changes(g.queue)
            <6>1. PICK k \in Changes(q) : k # drop /\ k = IF j < drop THEN j ELSE j + 1
              BY <1>5, <2>3
            <6>2. j \in Nat /\ i \in Nat /\ k \in Nat /\ drop \in Nat /\ k <= i
              BY <1>5, <2>1, <2>3, <3>2
            <6> QED
              BY <4>3, <6>1, <6>2
          <5> QED
            BY <5>1, <5>2 DEF Newest
        <4>4. i \in Nat /\ drop \in Nat
          BY <2>1, <2>3
        <4> QED
          BY <4>1, <4>2, <4>3, <4>4
      <3>3. ASSUME Changes(q) = {}
            PROVE  Changes(g.queue) = {}
        BY <1>5, <2>3, <3>3
      <3>4. CASE Newest(f, c)
        <4>1. CASE Changes(q) = {}
          BY <1>3, <3>3, <3>4, <4>1 DEF Newest
        <4>2. CASE Changes(q) # {}
          BY <3>2, <3>4, <4>2 DEF Newest
        <4> QED
          BY <4>1, <4>2
      <3>5. CASE v = c /\ Changes(q) = {} /\ Changes(f.hand) = {}
        BY <1>3, <3>3, <3>5
      <3> QED
        BY <3>1, <3>4, <3>5 DEF UpToDate
    <2> QED
      BY <1>3, <2>4, <2>5, <2>6, <2>7 DEF UpToDate, g
  <1> QED
    BY <1>6, <1>7

\* The events that a feed is given one by one: an event that is a snapshot is
\* the newest there is.
LEMMA PushedQueue ==
  ASSUME NEW f \in Feed, NEW v \in Nat, NEW c \in Nat, NEW d \in Nat, NEW e \in BusEvents,
         FeedGood(f, v, c), f.phase = "live", f.hand # <<>>,
         Cardinality(Plain(f.queue)) < MaxQueue,
         c <= d, e.type = "state.changed" => e.line = d, e.type # "state.changed" => d = c
  PROVE  FeedGood([f EXCEPT !.queue = Append(@, e)], v, d)
  <1> DEFINE g == [f EXCEPT !.queue = Append(@, e)]
             q == f.queue
  <1>1. /\ g.phase = f.phase /\ g.hand = f.hand /\ g.overflowed = f.overflowed
        /\ g.told = f.told /\ g.lost = f.lost /\ g.frame = f.frame /\ g.missed = f.missed
        /\ g.queue = Append(q, e)
    BY DEF Feed
  <1>2. q \in Seq(BusEvents) /\ Len(q) \in Nat /\ DOMAIN q = 1 .. Len(q) /\ f.missed \in Nat
    BY FeedFields
  <1>3. Append(q, e) \in Seq(BusEvents)
    BY <1>2, WithOneMore
  <1>4. g \in Feed
    BY <1>3 DEF Feed
  <1> HIDE DEF g
  <1>5. Waits(g)
    BY <1>1 DEF FeedGood, Waits
  <1>6. Announced(g)
    <2>1. Cardinality(Plain(g.queue)) <= MaxQueue
      <3>1. Cardinality(Plain(Append(q, e))) =
              Cardinality(Plain(q)) + (IF e.type \in Errors THEN 0 ELSE 1)
        BY <1>2, PlainAppend
      <3>2. Cardinality(Plain(q)) \in Nat /\ MaxQueue \in Nat
        BY <1>2, PlainFinite, FeedAssumption
      <3> QED
        BY <1>1, <3>1, <3>2
    <2>2. \A i \in DOMAIN q : i \in DOMAIN g.queue /\ g.queue[i] = q[i]
      BY <1>1, <1>2, WithOneMore
    <2> QED
      BY <1>1, <2>1, <2>2 DEF FeedGood, Announced
  <1>7. /\ Changes(g.queue) =
             IF e.type = "state.changed" THEN Changes(q) \cup {Len(q) + 1} ELSE Changes(q)
        /\ \A i \in Changes(q) : g.queue[i] = q[i] /\ i <= Len(q) /\ i \in Nat
        /\ g.queue[Len(q) + 1] = e
    <2>1. /\ Changes(Append(q, e)) =
               IF e.type = "state.changed" THEN Changes(q) \cup {Len(q) + 1} ELSE Changes(q)
          /\ \A i \in Changes(q) : Append(q, e)[i] = q[i] /\ i <= Len(q) /\ i \in Nat
          /\ Append(q, e)[Len(q) + 1] = e
      BY <1>2, ChangesAppend
    <2> QED
      BY <1>1, <2>1
  <1>8. UpToDate(g, v, d)
    <2>1. CASE e.type = "state.changed"
      <3>1. /\ g.missed <= d
            /\ \A i \in Changes(g.hand) : g.hand[i].line <= d
            /\ \A i \in Changes(g.queue) : g.queue[i].line <= d
        <4>1. \A i \in Changes(q) : q[i].line \in Nat /\ q[i].line <= c
          <5>1. \A i \in Changes(q) : q[i] \in BusEvents
            BY <1>2 DEF Changes
          <5> QED
            BY <5>1 DEF FeedGood, UpToDate, BusEvents
        <4>2. \A i \in Changes(f.hand) : f.hand[i].line \in Nat /\ f.hand[i].line <= c
          <5>1. f.hand \in Seq(BusEvents)
            BY FeedFields
          <5>2. \A i \in Changes(f.hand) : f.hand[i] \in BusEvents
            BY <5>1 DEF Changes
          <5> QED
            BY <5>2 DEF FeedGood, UpToDate, BusEvents
        <4>3. f.missed <= c
          BY DEF FeedGood, UpToDate
        <4>4. g.missed <= d /\ \A i \in Changes(g.hand) : g.hand[i].line <= d
          BY <1>1, <1>2, <4>2, <4>3
        <4>5. ASSUME NEW i \in Changes(g.queue)
              PROVE  g.queue[i].line <= d
          <5>1. CASE i \in Changes(q)
            BY <1>7, <4>1, <5>1
          <5>2. CASE i = Len(q) + 1
            BY <1>7, <2>1, <5>2
          <5> QED
            BY <1>7, <2>1, <5>1, <5>2
        <4> QED
          BY <4>4, <4>5
      <3>2. Newest(g, d)
        <4>1. /\ Len(q) + 1 \in Changes(g.queue) /\ g.queue[Len(q) + 1].line = d
              /\ \A j \in Changes(g.queue) : j <= Len(q) + 1
          BY <1>2, <1>7, <2>1
        <4> QED
          BY <4>1 DEF Newest
      <3> QED
        BY <1>1, <3>1, <3>2 DEF UpToDate
    <2>2. CASE e.type # "state.changed"
      <3>1. /\ d = c /\ Changes(g.queue) = Changes(q)
            /\ \A i \in Changes(q) : g.queue[i] = q[i]
        BY <1>7, <2>2
      <3>2. Newest(f, c) => Newest(g, c)
        BY <1>1, <3>1 DEF Newest
      <3> QED
        BY <1>1, <3>1, <3>2 DEF FeedGood, UpToDate
    <2> QED
      BY <2>1, <2>2
  <1> QED
    BY <1>4, <1>5, <1>6, <1>8 DEF FeedGood, g

LEMMA PushedGood ==
  ASSUME NEW f, NEW v \in Nat, NEW c \in Nat, NEW d \in Nat, NEW e \in BusEvents,
         FeedGood(f, v, c),
         c <= d, e.type = "state.changed" => e.line = d, e.type # "state.changed" => d = c
  PROVE  FeedGood(Pushed(f, e), v, d)
  <1>1. f \in Feed /\ f.missed \in Nat /\ f.missed <= c
    BY FeedFields DEF FeedGood, UpToDate
  <1>2. CASE f.phase # "live"
    <2> DEFINE m == IF f.phase = "opening" /\ e.type = "state.changed" THEN e.line ELSE f.missed
               g == [f EXCEPT !.missed = m]
    <2>1. Pushed(f, e) = g
      BY <1>2 DEF Pushed
    <2>2. /\ m \in Nat /\ m <= d
          /\ e.type = "state.changed" /\ f.phase = "opening" => m = d
          /\ e.type # "state.changed" => m = f.missed
      BY <1>1 DEF BusEvents
    <2> HIDE DEF m
    <2>3. /\ g.phase = f.phase /\ g.hand = f.hand /\ g.overflowed = f.overflowed
          /\ g.told = f.told /\ g.lost = f.lost /\ g.frame = f.frame /\ g.missed = m
          /\ g.queue = f.queue /\ g \in Feed
      BY <1>1, <2>2 DEF Feed
    <2> HIDE DEF g
    <2>4. f.queue = <<>> /\ f.hand = <<>>
      BY <1>2 DEF FeedGood, Waits
    <2>5. Waits(g) /\ Announced(g)
      BY <2>3 DEF FeedGood, Waits, Announced
    <2>6. Changes(g.queue) = {} /\ Changes(g.hand) = {}
      BY <2>3, <2>4 DEF Changes
    <2>7. g.phase = "opening" => g.frame = d \/ g.missed = d
      BY <2>2, <2>3 DEF FeedGood, UpToDate
    <2>8. UpToDate(g, v, d)
      BY <1>2, <2>2, <2>3, <2>6, <2>7 DEF UpToDate
    <2> QED
      BY <2>1, <2>3, <2>5, <2>8 DEF FeedGood
  <1>3. CASE f.phase = "live" /\ f.hand = <<>>
    <2> DEFINE g == [f EXCEPT !.hand = <<e>>]
    <2>1. Pushed(f, e) = g
      BY <1>3 DEF Pushed
    <2>2. <<e>> \in Seq(BusEvents) /\ Len(<<e>>) = 1 /\ <<e>>[1] = e /\ <<e>> # <<>>
          /\ DOMAIN <<e>> = {1}
      OBVIOUS
    <2>3. /\ g.phase = f.phase /\ g.hand = <<e>> /\ g.overflowed = f.overflowed
          /\ g.told = f.told /\ g.lost = f.lost /\ g.frame = f.frame /\ g.missed = f.missed
          /\ g.queue = f.queue /\ g \in Feed
      BY <1>1, <2>2 DEF Feed
    <2> HIDE DEF g
    <2>4. f.queue = <<>>
      BY <1>3 DEF FeedGood, Waits
    <2>5. Waits(g)
      BY <1>3, <2>2, <2>3 DEF Waits
    <2>6. Announced(g)
      <3>1. f.hand # <<Overflow>>
        BY <1>3
      <3> QED
        BY <2>3, <3>1 DEF FeedGood, Announced
    <2>7. Changes(g.queue) = {} /\ Changes(f.hand) = {}
      BY <1>3, <2>3, <2>4 DEF Changes
    <2>8. Changes(g.hand) = IF e.type = "state.changed" THEN {1} ELSE {}
      BY <2>2, <2>3 DEF Changes
    <2>9. g.hand # <<>> /\ g.hand[1] = e
      BY <2>2, <2>3
    <2>10. UpToDate(g, v, d)
      <3>1. CASE e.type = "state.changed"
        <4>1. Newest(g, d)
          BY <2>7, <2>9, <3>1 DEF Newest
        <4> QED
          BY <1>1, <1>3, <2>3, <2>7, <2>8, <2>9, <3>1, <4>1 DEF UpToDate
      <3>2. CASE e.type # "state.changed"
        <4>1. ~Newest(f, c)
          BY <1>3, <2>3, <2>7 DEF Newest
        <4> QED
          BY <1>3, <2>3, <2>7, <2>8, <3>2, <4>1 DEF FeedGood, UpToDate
      <3> QED
        BY <3>1, <3>2
    <2> QED
      BY <2>1, <2>3, <2>5, <2>6, <2>10 DEF FeedGood
  <1>4. CASE f.phase = "live" /\ f.hand # <<>>
    <2> DEFINE h == IF Len(f.queue) >= MaxQueue THEN Overrun(f) ELSE f
    <2>1. Pushed(f, e) = [h EXCEPT !.queue = Append(@, e)]
      BY <1>4 DEF Pushed
    <2>2. CASE Len(f.queue) >= MaxQueue
      <3>1. h = Overrun(f)
        BY <2>2
      <3>2. Announced(h) /\ Cardinality(Plain(h.queue)) < MaxQueue
        BY <1>1, <3>1, OverrunAnnounced DEF FeedGood
      <3>3. UpToDate(h, v, c)
        BY <1>1, <1>4, <3>1, OverrunUpToDate DEF FeedGood
      <3>4. h.phase = "live" /\ h.hand # <<>> /\ h.hand = f.hand
        BY <1>1, <1>4, <3>1, OverrunFields
      <3>5. h \in Feed
        BY <1>1, <3>1, OverrunType
      <3> HIDE DEF h
      <3>6. Waits(h)
        BY <3>4 DEF FeedGood, Waits
      <3>7. FeedGood(h, v, c)
        BY <3>2, <3>3, <3>5, <3>6 DEF FeedGood
      <3> QED
        BY <2>1, <3>2, <3>4, <3>5, <3>7, PushedQueue
    <2>3. CASE ~(Len(f.queue) >= MaxQueue)
      <3>1. h = f
        BY <2>3
      <3>2. Cardinality(Plain(f.queue)) < MaxQueue
        <4>1. f.queue \in Seq(BusEvents) /\ Len(f.queue) \in Nat /\ MaxQueue \in Nat
          BY <1>1, FeedFields, FeedAssumption
        <4>2. Cardinality(Plain(f.queue)) \in Nat /\ Cardinality(Plain(f.queue)) <= Len(f.queue)
          BY <4>1, PlainFinite
        <4> QED
          BY <2>3, <4>1, <4>2
      <3> QED
        BY <1>1, <1>4, <2>1, <3>1, <3>2, PushedQueue
    <2> QED
      BY <2>2, <2>3
  <1> QED
    BY <1>2, <1>3, <1>4
-----------------------------------------------------------------------------
(* The lines of a read *)

LineState == [limiter : Limiter, feed : Feed, passed : SUBSET Nat]

LEMMA PushedFrame ==
  ASSUME NEW f, NEW e \in BusEvents, f \in Feed
  PROVE  Pushed(f, e).frame = f.frame
  <1>1. CASE f.phase # "live" \/ f.hand = <<>>
    BY <1>1 DEF Pushed, Feed
  <1>2. CASE f.phase = "live" /\ f.hand # <<>>
    <2> DEFINE h == IF Len(f.queue) >= MaxQueue THEN Overrun(f) ELSE f
    <2>1. Pushed(f, e) = [h EXCEPT !.queue = Append(@, e)]
      BY <1>2 DEF Pushed
    <2>2. h \in Feed /\ h.frame = f.frame
      BY OverrunType, OverrunFields
    <2> HIDE DEF h
    <2>3. [h EXCEPT !.queue = Append(@, e)].frame = h.frame
      BY <2>2 DEF Feed
    <2> QED
      BY <2>1, <2>2, <2>3
  <1> QED
    BY <1>1, <1>2

\* What a line does to the client, if it is published, and to the rate limit.
LEMMA NextWindowGood ==
  ASSUME NEW st \in LineState, NEW v \in Nat, NEW c \in Nat, FeedGood(st.feed, v, c)
  PROVE  /\ NextWindow(st) \in LineState
         /\ FeedGood(NextWindow(st).feed, v, c)
         /\ NextWindow(st).feed.frame = st.feed.frame
         /\ NextWindow(st).passed = st.passed
  <1> DEFINE f == IF st.limiter.dropped > 0 THEN Pushed(st.feed, BusEvent("notice", 0)) ELSE st.feed
             l == [over |-> FALSE, consumed |-> 0, dropped |-> 0]
  <1>1. /\ BusEvent("notice", 0) \in BusEvents /\ BusEvent("notice", 0).type = "notice"
        /\ st.feed \in Feed
    BY DEF BusEvent, BusEvents, LineState
  <1>2. FeedGood(Pushed(st.feed, BusEvent("notice", 0)), v, c)
    BY <1>1, PushedGood
  <1>3. FeedGood(f, v, c) /\ f.frame = st.feed.frame
    BY <1>1, <1>2, PushedFrame
  <1>4. f \in Feed /\ l \in Limiter
    BY <1>3 DEF FeedGood, Limiter
  <1>5. CASE ~st.limiter.over
    BY <1>5 DEF NextWindow
  <1>6. CASE st.limiter.over
    <2>1. NextWindow(st) = [st EXCEPT !.feed = f, !.limiter = l]
      BY <1>6 DEF NextWindow
    <2> HIDE DEF f, l
    <2> DEFINE g == [st EXCEPT !.feed = f, !.limiter = l]
    <2>2. g \in LineState /\ g.feed = f /\ g.passed = st.passed
      BY <1>4 DEF LineState
    <2> HIDE DEF g
    <2>3. FeedGood(g.feed, v, c) /\ g.feed.frame = st.feed.frame
      BY <1>3, <2>2
    <2> QED
      BY <2>1, <2>2, <2>3 DEF g
  <1> QED
    BY <1>5, <1>6

LEMMA OnLineGood ==
  ASSUME NEW st \in LineState, NEW line \in Line, NEW v \in Nat, NEW c \in Nat,
         FeedGood(st.feed, v, c)
  PROVE  /\ OnLine(st, line) \in LineState
         /\ FeedGood(OnLine(st, line).feed, v, c)
         /\ OnLine(st, line).feed.frame = st.feed.frame
         /\ OnLine(st, line).passed =
              IF line.whole THEN st.passed \cup {line.line} ELSE st.passed
  <1> DEFINE next == NextWindow(st)
             seen == [next EXCEPT !.passed = @ \cup {line.line}]
             e == BusEvent("log.append", line.line)
             f == Pushed(next.feed, e)
  <1>1. /\ next \in LineState /\ FeedGood(next.feed, v, c)
        /\ next.feed.frame = st.feed.frame /\ next.passed = st.passed
    BY NextWindowGood
  <1>2. CASE ~line.whole
    BY <1>2 DEF OnLine
  <1>3. CASE line.whole
    <2>1. line.line \in Nat
      BY DEF Line
    <2>2. OnLine(st, line) =
            IF next.limiter.consumed >= LogLimit THEN [seen EXCEPT !.limiter.dropped = @ + 1]
            ELSE [seen EXCEPT !.limiter.consumed = @ + 1, !.feed = Pushed(@, e)]
      BY <1>3 DEF OnLine, Dropped
    <2> HIDE DEF next
    <2>3. /\ seen \in LineState /\ seen.feed = next.feed /\ seen.limiter = next.limiter
          /\ seen.passed = st.passed \cup {line.line}
      BY <1>1, <2>1 DEF LineState
    <2> HIDE DEF seen
    <2>4. /\ e \in BusEvents /\ e.type = "log.append" /\ next.feed \in Feed
      BY <1>1, <2>1 DEF BusEvent, BusEvents, LineState
    <2>5. FeedGood(f, v, c) /\ f.frame = st.feed.frame
      <3> HIDE DEF e
      <3> QED
        BY <1>1, <2>4, PushedGood, PushedFrame
    <2>6. f \in Feed
      BY <2>5 DEF FeedGood
    <2>7. CASE next.limiter.consumed >= LogLimit
      <3> DEFINE g == [seen EXCEPT !.limiter.dropped = @ + 1]
      <3>1. g \in LineState /\ g.feed = seen.feed /\ g.passed = seen.passed
        BY <2>3 DEF LineState, Limiter
      <3> HIDE DEF g
      <3>2. OnLine(st, line) = g
        BY <2>2, <2>7 DEF g
      <3>3. g.feed = next.feed
        BY <2>3, <3>1
      <3> QED
        BY <1>1, <1>3, <2>3, <3>1, <3>2, <3>3
    <2>8. CASE ~(next.limiter.consumed >= LogLimit)
      <3> HIDE DEF e
      <3> DEFINE g == [seen EXCEPT !.limiter.consumed = @ + 1, !.feed = Pushed(@, e)]
      <3>1. g.feed = Pushed(seen.feed, e) /\ g.passed = seen.passed
        BY <2>3 DEF LineState, Limiter
      <3>2. g.feed = f
        BY <2>3, <3>1
      <3>3. g \in LineState
        <4>1. g = [seen EXCEPT !.limiter.consumed = @ + 1, !.feed = f]
          BY <2>3
        <4>2. [seen.limiter EXCEPT !.consumed = @ + 1] \in Limiter
          BY <2>3 DEF LineState, Limiter
        <4> HIDE DEF f
        <4>3. g = [seen EXCEPT !.limiter = [seen.limiter EXCEPT !.consumed = @ + 1], !.feed = f]
          BY <2>3, <4>1 DEF LineState
        <4> HIDE DEF g
        <4> QED
          BY <2>3, <2>6, <4>2, <4>3 DEF LineState
      <3> HIDE DEF g, f
      <3>4. OnLine(st, line) = g
        BY <2>2, <2>8 DEF g
      <3>5. FeedGood(g.feed, v, c)
        BY <2>5, <3>2
      <3> QED
        BY <1>1, <1>3, <2>3, <2>5, <3>1, <3>2, <3>3, <3>4, <3>5
    <2> QED
      BY <2>7, <2>8
  <1> QED
    BY <1>2, <1>3

LEMMA HandedOnGood ==
  ASSUME NEW st \in LineState, NEW lines \in Seq(Line), NEW v \in Nat, NEW c \in Nat,
         FeedGood(st.feed, v, c)
  PROVE  LET end == HandedOn(st, lines)
         IN  /\ end \in LineState /\ FeedGood(end.feed, v, c)
             /\ end.feed.frame = st.feed.frame
             /\ st.passed \subseteq end.passed
             /\ \A i \in DOMAIN lines : lines[i].whole => lines[i].line \in end.passed
  <1>1. Len(lines) \in Nat /\ DOMAIN lines = 1 .. Len(lines)
    OBVIOUS
  <1>2. PICK f : Trace(st, lines, Len(lines), f) /\ HandedOn(st, lines) = f[Len(lines)]
    BY <1>1, HandedOnTrace
  <1>3. \A i \in 0 .. Len(lines) : f[i] = IF i = 0 THEN st ELSE OnLine(f[i - 1], lines[i])
    BY <1>2 DEF Trace
  <1> DEFINE Fine(n) ==
               /\ f[n] \in LineState /\ FeedGood(f[n].feed, v, c)
               /\ f[n].feed.frame = st.feed.frame
               /\ st.passed \subseteq f[n].passed
               /\ \A i \in 1 .. n : lines[i].whole => lines[i].line \in f[n].passed
             T == {n \in Nat : n <= Len(lines) /\ ~Fine(n)}
  <1>4. T = {}
    <2> SUFFICES ASSUME T # {} PROVE FALSE
      OBVIOUS
    <2>1. PICK n \in T : \A m \in T : ~(m < n)
      <3> HIDE DEF Fine
      <3>1. T \subseteq Nat
        OBVIOUS
      <3> HIDE DEF T
      <3> QED
        BY <3>1, Least
    <2>2. n \in Nat /\ n <= Len(lines) /\ ~Fine(n)
      BY <2>1
    <2>3. CASE n = 0
      <3>1. f[0] = st
        BY <1>1, <1>3
      <3> QED
        BY <2>2, <2>3, <3>1
    <2>4. CASE n # 0
      <3>1. n - 1 \in Nat /\ n - 1 < n /\ n - 1 <= Len(lines) /\ n \in 1 .. Len(lines)
            /\ n \in 0 .. Len(lines)
        BY <1>1, <2>2, <2>4
      <3>2. Fine(n - 1)
        <4> HIDE DEF Fine
        <4> QED
          BY <2>1, <3>1
      <3>3. f[n] = OnLine(f[n - 1], lines[n]) /\ lines[n] \in Line
        BY <1>1, <1>3, <2>4, <3>1
      <3>4. /\ f[n] \in LineState /\ FeedGood(f[n].feed, v, c)
            /\ f[n].feed.frame = f[n - 1].feed.frame
            /\ f[n].passed = IF lines[n].whole THEN f[n - 1].passed \cup {lines[n].line}
                             ELSE f[n - 1].passed
        <4> DEFINE p == f[n - 1]
                   l == lines[n]
        <4>1. p \in LineState /\ FeedGood(p.feed, v, c) /\ l \in Line /\ f[n] = OnLine(p, l)
          BY <3>2, <3>3
        <4> HIDE DEF p, l
        <4>2. /\ OnLine(p, l) \in LineState /\ FeedGood(OnLine(p, l).feed, v, c)
              /\ OnLine(p, l).feed.frame = p.feed.frame
              /\ OnLine(p, l).passed = IF l.whole THEN p.passed \cup {l.line} ELSE p.passed
          BY <4>1, OnLineGood
        <4> QED
          BY <4>1, <4>2 DEF p, l
      <3>5. \A i \in 1 .. n : i = n \/ i \in 1 .. n - 1
        BY <2>2
      <3>6. Fine(n)
        BY <3>2, <3>4, <3>5
      <3> QED
        BY <2>2, <3>6
    <2> QED
      BY <2>3, <2>4
  <1>5. Fine(Len(lines))
    <2> HIDE DEF Fine
    <2> QED
      BY <1>1, <1>4
  <1> QED
    BY <1>1, <1>2, <1>5
-----------------------------------------------------------------------------
(* What the tailer has behind it *)

LEMMA Half ==
  ASSUME NEW n \in Nat
  PROVE  n \div 2 \in Nat /\ 2 * (n \div 2) <= n /\ n <= 2 * (n \div 2) + 1
  OBVIOUS

LEMMA Double == \A n \in Nat : BetweenLines(2 * n)
  <1> SUFFICES ASSUME NEW n \in Nat
               PROVE  2 * n = 2 * ((2 * n) \div 2)
    BY DEF BetweenLines
  <1>1. (2 * n) \div 2 \in Nat /\ 2 * ((2 * n) \div 2) <= 2 * n /\ 2 * n <= 2 * ((2 * n) \div 2) + 1
    BY Half
  <1> QED
    BY <1>1

\* A read that begins between two lines finds all that end in it, and whole.
LEMMA LinesFound ==
  ASSUME NEW read \in [from : Nat, to : Nat], BetweenLines(read.from), read.from <= read.to
  PROVE  /\ LinesIn(read) \in Seq(Line)
         /\ \A k \in Nat \ {0} : read.from < 2 * k /\ 2 * k <= read.to =>
              \E i \in DOMAIN LinesIn(read) :
                  LinesIn(read)[i].line = k /\ LinesIn(read)[i].whole
  <1> DEFINE a == read.from \div 2
             b == read.to \div 2
             n == (read.to \div 2) + 1 - (a + 1)
  <1>1. /\ read.from \in Nat /\ read.to \in Nat /\ read.from = 2 * a
        /\ a \in Nat /\ b \in Nat /\ 2 * b <= read.to /\ read.to <= 2 * b + 1
    BY Half DEF BetweenLines
  <1>2. n = b - a /\ n \in Nat
    BY <1>1
  <1>3. LinesIn(read) = [i \in 1 .. n |->
            [line |-> a + 1 + i - 1, whole |-> read.from <= 2 * (a + 1 + i - 2)]]
    BY DEF LinesIn
  <1> HIDE DEF a, b, n
  <1>4. \A i \in 1 .. n :
            [line |-> a + 1 + i - 1, whole |-> read.from <= 2 * (a + 1 + i - 2)] \in Line
    BY <1>1, <1>2 DEF Line
  <1>5. LinesIn(read) \in Seq(Line)
    BY <1>2, <1>3, <1>4
  <1>6. ASSUME NEW k \in Nat \ {0}, read.from < 2 * k, 2 * k <= read.to
        PROVE  \E i \in DOMAIN LinesIn(read) :
                  LinesIn(read)[i].line = k /\ LinesIn(read)[i].whole
    <2>1. k - a \in 1 .. n /\ a + 1 + (k - a) - 1 = k /\ read.from <= 2 * (a + 1 + (k - a) - 2)
      BY <1>1, <1>2, <1>6
    <2>2. k - a \in DOMAIN LinesIn(read)
      BY <1>3, <2>1
    <2> DEFINE l == a + 1 + (k - a) - 1
               w == read.from <= 2 * (a + 1 + (k - a) - 2)
    <2>3. LinesIn(read)[k - a] = [line |-> l, whole |-> w]
      BY <1>3, <2>1
    <2>4. l = k /\ w
      BY <2>1
    <2> HIDE DEF l, w
    <2>5. w = TRUE
      BY <2>4
    <2>6. LinesIn(read)[k - a] = [line |-> k, whole |-> TRUE]
      BY <2>3, <2>4, <2>5
    <2>7. LinesIn(read)[k - a].line = k /\ LinesIn(read)[k - a].whole
      BY <2>6
    <2> QED
      BY <2>2, <2>7
  <1> QED
    BY <1>5, <1>6

LEMMA Remaining ==
  ASSUME NEW S, NEW q \in Seq(S), NEW d \in DOMAIN q
  PROVE  /\ RemoveAt(q, d) \in Seq(S)
         /\ \A i \in DOMAIN RemoveAt(q, d) : \E j \in DOMAIN q : RemoveAt(q, d)[i] = q[j]
  <1>1. d \in 1 .. Len(q) /\ Len(q) \in Nat /\ DOMAIN q = 1 .. Len(q)
    OBVIOUS
  <1> DEFINE rest == RemoveAt(q, d)
  <1>2. /\ rest \in Seq(S) /\ Len(rest) = Len(q) - 1
        /\ \A i \in 1 .. Len(q) - 1 : rest[i] = IF i < d THEN q[i] ELSE q[i + 1]
    BY <1>1, WithoutOne
  <1> HIDE DEF rest
  <1>3. DOMAIN rest = 1 .. Len(q) - 1
    BY <1>2
  <1>4. \A i \in DOMAIN rest : \E j \in DOMAIN q : rest[i] = q[j]
    <2> TAKE i \in DOMAIN rest
    <2>1. CASE i < d
      <3>1. i \in DOMAIN q /\ rest[i] = q[i]
        BY <1>1, <1>2, <1>3, <2>1
      <3> QED
        BY <3>1
    <2>2. CASE ~(i < d)
      <3>1. i + 1 \in DOMAIN q /\ rest[i] = q[i + 1]
        BY <1>1, <1>2, <1>3, <2>2
      <3> QED
        BY <3>1
    <2> QED
      BY <2>1, <2>2
  <1> QED
    BY <1>2, <1>4 DEF rest

LEMMA SpareFeed ==
  ASSUME NEW v \in Nat, NEW c \in Nat
  PROVE  /\ FeedGood(NoFeed, v, c)
         /\ FeedGood([NoFeed EXCEPT !.again = TRUE], v, c)
         /\ FeedGood([NoFeed EXCEPT !.phase = "opening", !.frame = c], v, c)
  <1>1. /\ <<>> \in Seq(BusEvents) /\ DOMAIN <<>> = {} /\ Len(<<>>) = 0
        /\ Plain(<<>>) = {} /\ Changes(<<>>) = {}
    BY DEF Plain, Changes
  <1>2. Cardinality(Plain(<<>>)) = 0 /\ MaxQueue \in Nat
    BY <1>1, FS_EmptySet, FeedAssumption
  <1>3. ASSUME NEW f, f \in Feed, f.queue = <<>>, f.hand = <<>>, f.lost = {}, ~f.overflowed,
               f.missed = 0, f.phase # "live", f.phase = "opening" => f.frame = c
        PROVE  FeedGood(f, v, c)
    <2>1. Waits(f)
      BY <1>1, <1>3 DEF Waits
    <2>2. Announced(f)
      BY <1>2, <1>3 DEF Announced
    <2>3. UpToDate(f, v, c)
      BY <1>1, <1>3 DEF UpToDate
    <2> QED
      BY <1>3, <2>1, <2>2, <2>3 DEF FeedGood
  <1>4. NoFeed \in Feed
    BY <1>1 DEF NoFeed, Feed
  <1>5. FeedGood(NoFeed, v, c)
    BY <1>3, <1>4 DEF NoFeed
  <1>6. FeedGood([NoFeed EXCEPT !.again = TRUE], v, c)
    <2> DEFINE f == [NoFeed EXCEPT !.again = TRUE]
    <2>1. /\ f \in Feed /\ f.queue = <<>> /\ f.hand = <<>> /\ f.lost = {} /\ f.overflowed = FALSE
          /\ f.missed = 0 /\ f.phase = "closed"
      BY <1>4 DEF NoFeed, Feed
    <2> HIDE DEF f
    <2> QED
      BY <1>3, <2>1 DEF f
  <1>7. FeedGood([NoFeed EXCEPT !.phase = "opening", !.frame = c], v, c)
    <2> DEFINE f == [NoFeed EXCEPT !.phase = "opening", !.frame = c]
    <2>1. /\ f \in Feed /\ f.queue = <<>> /\ f.hand = <<>> /\ f.lost = {} /\ f.overflowed = FALSE
          /\ f.missed = 0 /\ f.phase = "opening" /\ f.frame = c
      BY <1>4 DEF NoFeed, Feed
    <2> HIDE DEF f
    <2> QED
      BY <1>3, <2>1 DEF f
  <1> QED
    BY <1>5, <1>6, <1>7

LEMMA FeedInitInv == FeedInit => FeedInv
  <1> SUFFICES ASSUME FeedInit
               PROVE  FeedInv
    OBVIOUS
  <1>1. /\ <<>> \in Seq([from : Nat, to : Nat])
        /\ <<>> \in Seq([answered : BOOLEAN, snapshot : Nat])
        /\ DOMAIN <<>> = {}
    OBVIOUS
  <1>2. FeedGood(feed, view, cached)
    BY SpareFeed DEF FeedInit
  <1>3. limiter \in Limiter /\ feed.frame = 0
    BY DEF FeedInit, Limiter, NoFeed
  <1>4. FeedTypeOK
    BY <1>1, <1>2, <1>3 DEF FeedInit, FeedTypeOK, FeedGood
  <1>5. Stretches
    BY <1>1 DEF FeedInit, Stretches, BetweenLines, HandedTo
  <1>6. NotAhead
    BY <1>1, <1>3 DEF FeedInit, NotAhead
  <1> QED
    BY <1>2, <1>4, <1>5, <1>6 DEF FeedInv
-----------------------------------------------------------------------------
(* The steps *)

\* What is there of the file, and of what the tailer has behind it, is there
\* after any step that neither reads nor takes away.
LEMMA StretchesKept ==
  ASSUME FeedInv, written \in Nat, written' \in Nat, written <= written',
         UNCHANGED <<offset, reads>>, passed \subseteq passed'
  PROVE  Stretches'
  <1>1. Stretches /\ offset \in Nat /\ \A r \in DOMAIN reads : reads[r].to \in Nat
    <2>1. Stretches /\ offset \in Nat /\ reads \in Seq([from : Nat, to : Nat])
      BY DEF FeedInv, FeedTypeOK
    <2>2. \A r \in DOMAIN reads : reads[r] \in [from : Nat, to : Nat]
      BY <2>1, Element
    <2> QED
      BY <2>1, <2>2
  <1> QED
    BY <1>1 DEF Stretches, HandedTo, BetweenLines

LEMMA WriterInv ==
  ASSUME FeedInv, WindowEnds \/ Write
  PROVE  FeedInv'
  <1> USE DEF FeedInv, eventsFile, tail, out, client
  <1>1. CASE WindowEnds
    <2>1. limiter' \in Limiter
      BY <1>1 DEF WindowEnds, FeedTypeOK, Limiter
    <2>2. FeedTypeOK'
      BY <1>1, <2>1 DEF WindowEnds, FeedTypeOK
    <2>3. Stretches'
      BY <1>1, StretchesKept DEF WindowEnds, FeedTypeOK
    <2>4. NotAhead' /\ FeedGood(feed, view, cached)'
      BY <1>1 DEF WindowEnds, NotAhead
    <2> QED
      BY <2>2, <2>3, <2>4
  <1>2. CASE Write
    <2>1. FeedTypeOK'
      BY <1>2 DEF Write, FeedTypeOK
    <2>2. Stretches'
      BY <1>2, StretchesKept DEF Write, FeedTypeOK
    <2>3. NotAhead' /\ FeedGood(feed, view, cached)'
      BY <1>2 DEF Write, NotAhead, FeedTypeOK
    <2> QED
      BY <2>1, <2>2, <2>3
  <1> QED
    BY <1>1, <1>2

LEMMA StartReadInv ==
  ASSUME FeedInv, StartRead
  PROVE  FeedInv'
  <1> USE DEF FeedInv, eventsFile, tail, out, client
  <1>1. /\ written \in Nat /\ offset \in Nat /\ offset <= written
        /\ reads \in Seq([from : Nat, to : Nat])
    BY DEF FeedTypeOK, Stretches
  <1>2. /\ changed' = FALSE /\ unread' = FALSE
        /\ UNCHANGED <<written, due, limiter, feed, passed, view, fetches, cached, faults, windows>>
    BY DEF StartRead
  <1>3. NotAhead' /\ FeedGood(feed, view, cached)'
    BY <1>2 DEF NotAhead
  <1>4. CASE written > offset
    <2> DEFINE new == [from |-> offset, to |-> written]
    <2>1. reads' = Append(reads, new) /\ offset' = offset
      BY <1>4 DEF StartRead
    <2>2. new \in [from : Nat, to : Nat] /\ new.from = offset /\ new.to = written
      BY <1>1
    <2> HIDE DEF new
    <2>3. /\ reads' \in Seq([from : Nat, to : Nat])
          /\ DOMAIN reads = 1 .. Len(reads) /\ DOMAIN reads' = 1 .. Len(reads) + 1
          /\ Len(reads) \in Nat
          /\ \A i \in 1 .. Len(reads) : reads'[i] = reads[i]
          /\ reads'[Len(reads) + 1] = new
      BY <1>1, <2>1, <2>2, WithOneMore
    <2>4. \A r \in DOMAIN reads' :
              (r \in DOMAIN reads /\ reads'[r] = reads[r]) \/ reads'[r] = new
      BY <2>3
    <2>5. Stretches'
      <3>1. ASSUME NEW r \in DOMAIN reads'
            PROVE  /\ BetweenLines(reads'[r].from) /\ HandedTo(reads'[r].from, passed)
                   /\ reads'[r].from <= reads'[r].to /\ reads'[r].to <= written
        <4>1. CASE r \in DOMAIN reads /\ reads'[r] = reads[r]
          BY <4>1 DEF Stretches
        <4>2. CASE reads'[r] = new
          BY <1>1, <2>2, <4>2 DEF Stretches
        <4> QED
          BY <2>4, <4>1, <4>2
      <3> QED
        BY <1>2, <2>1, <3>1 DEF Stretches
    <2>6. FeedTypeOK'
      BY <1>1, <1>2, <2>1, <2>3 DEF FeedTypeOK
    <2> QED
      BY <1>3, <2>5, <2>6
  <1>5. CASE ~(written > offset)
    <2>1. offset' = offset /\ reads' = reads
      BY <1>1, <1>5 DEF StartRead
    <2>2. Stretches'
      BY <1>1, <1>2, <2>1, StretchesKept
    <2>3. FeedTypeOK'
      BY <1>2, <2>1 DEF FeedTypeOK
    <2> QED
      BY <1>3, <2>2, <2>3
  <1> QED
    BY <1>4, <1>5

LEMMA EndReadInv ==
  ASSUME FeedInv, NEW r \in DOMAIN reads, EndRead(r)
  PROVE  FeedInv'
  <1> USE DEF FeedInv, eventsFile, tail, out, client
  <1> DEFINE now == [limiter |-> limiter, feed |-> feed, passed |-> passed]
             read == reads[r]
             st == HandedOn(now, LinesIn(read))
  <1>1. /\ limiter' = st.limiter /\ feed' = st.feed /\ passed' = st.passed
        /\ offset' = Rewound(read) /\ reads' = RemoveAt(reads, r)
        /\ UNCHANGED <<written, changed, due, unread, view, fetches, cached, faults, windows>>
    BY DEF EndRead
  <1>2. /\ reads \in Seq([from : Nat, to : Nat]) /\ written \in Nat
        /\ read \in [from : Nat, to : Nat] /\ read.from \in Nat /\ read.to \in Nat
    <2>1. reads \in Seq([from : Nat, to : Nat]) /\ written \in Nat
      BY DEF FeedTypeOK
    <2>2. read \in [from : Nat, to : Nat]
      BY <2>1, Element
    <2> HIDE DEF read
    <2> QED
      BY <2>1, <2>2
  <1>3. /\ BetweenLines(read.from) /\ HandedTo(read.from, passed)
        /\ read.from <= read.to /\ read.to <= written
    BY DEF Stretches
  <1>4. /\ now \in LineState /\ now.feed = feed /\ now.passed = passed
        /\ view \in Nat /\ cached \in Nat
    BY DEF FeedTypeOK, LineState
  <1>5. FeedGood(now.feed, view, cached)
    BY <1>4
  <1>6. LinesIn(read) \in Seq(Line)
    BY <1>2, <1>3, LinesFound
  <1> HIDE DEF now, read
  <1>7. /\ st \in LineState /\ FeedGood(st.feed, view, cached)
        /\ st.feed.frame = now.feed.frame
        /\ now.passed \subseteq st.passed
        /\ \A i \in DOMAIN LinesIn(read) :
               LinesIn(read)[i].whole => LinesIn(read)[i].line \in st.passed
    BY <1>4, <1>5, <1>6, HandedOnGood
  <1> HIDE DEF st
  <1>8. /\ FeedGood(feed', view, cached) /\ feed'.frame = feed.frame
        /\ passed \subseteq passed' /\ passed' \subseteq Nat
        /\ limiter' \in Limiter /\ feed' \in Feed
    BY <1>1, <1>4, <1>7 DEF LineState
  <1>9. /\ offset' \in Nat /\ offset' <= written /\ BetweenLines(offset')
        /\ offset' = 2 * (read.to \div 2)
    <2>1. /\ read.to \div 2 \in Nat /\ 2 * (read.to \div 2) <= read.to
          /\ offset' = 2 * (read.to \div 2)
      BY <1>1, <1>2, Half DEF Rewound
    <2>2. BetweenLines(2 * (read.to \div 2))
      BY <2>1, Double
    <2>3. BetweenLines(offset')
      BY <2>1, <2>2
    <2> QED
      BY <1>2, <1>3, <2>1, <2>3
  <1>10. HandedTo(offset', passed')
    <2> SUFFICES ASSUME NEW k \in Nat \ {0}, 2 * k <= offset'
                 PROVE  k \in passed'
      BY DEF HandedTo
    <2>1. 2 * k <= read.to
      BY <1>2, <1>9, Half
    <2>2. CASE 2 * k <= read.from
      BY <1>3, <1>8, <2>2 DEF HandedTo
    <2>3. CASE ~(2 * k <= read.from)
      <3>1. read.from < 2 * k
        BY <1>2, <2>3
      <3>2. PICK i \in DOMAIN LinesIn(read) : LinesIn(read)[i].line = k /\ LinesIn(read)[i].whole
        BY <1>2, <1>3, <2>1, <3>1, LinesFound
      <3> QED
        BY <1>1, <1>7, <3>2
    <2> QED
      BY <2>2, <2>3
  <1>11. /\ reads' \in Seq([from : Nat, to : Nat])
         /\ \A i \in DOMAIN reads' : \E j \in DOMAIN reads : reads'[i] = reads[j]
    BY <1>1, <1>2, Remaining
  <1>12. Stretches'
    <2>1. ASSUME NEW i \in DOMAIN reads'
          PROVE  /\ BetweenLines(reads'[i].from) /\ HandedTo(reads'[i].from, passed')
                 /\ reads'[i].from <= reads'[i].to /\ reads'[i].to <= written
      <3>1. PICK j \in DOMAIN reads : reads'[i] = reads[j]
        BY <1>11
      <3> QED
        BY <1>8, <3>1 DEF Stretches, HandedTo
    <2> QED
      BY <1>1, <1>9, <1>10, <2>1 DEF Stretches
  <1>13. FeedTypeOK'
    BY <1>1, <1>8, <1>9, <1>11 DEF FeedTypeOK
  <1>14. NotAhead' /\ FeedGood(feed, view, cached)'
    BY <1>1, <1>8 DEF NotAhead
  <1> QED
    BY <1>12, <1>13, <1>14

LEMMA ReadFailsInv ==
  ASSUME FeedInv, NEW r \in DOMAIN reads, ReadFails(r)
  PROVE  FeedInv'
  <1> USE DEF FeedInv, eventsFile, tail, out, client
  <1>1. /\ reads' = RemoveAt(reads, r) /\ unread' = TRUE /\ faults' = faults + 1
        /\ UNCHANGED <<written, changed, due, offset, limiter, feed, passed, view, fetches,
                       cached, windows>>
    BY DEF ReadFails
  <1>2. /\ reads' \in Seq([from : Nat, to : Nat])
        /\ \A i \in DOMAIN reads' : \E j \in DOMAIN reads : reads'[i] = reads[j]
    BY <1>1, Remaining DEF FeedTypeOK
  <1>3. Stretches'
    BY <1>1, <1>2 DEF Stretches
  <1>4. FeedTypeOK'
    BY <1>1, <1>2 DEF FeedTypeOK
  <1>5. NotAhead' /\ FeedGood(feed, view, cached)'
    BY <1>1 DEF NotAhead
  <1> QED
    BY <1>3, <1>4, <1>5
LEMMA RebuildInv ==
  ASSUME FeedInv, Rebuild \/ RebuildFails
  PROVE  FeedInv'
  <1> USE DEF FeedInv, tail, client
  <1>1. /\ view \in Nat /\ cached \in Nat /\ written \in Nat /\ faults \in Nat
        /\ view <= cached /\ cached <= written /\ feed.frame <= cached /\ feed \in Feed
        /\ feed.frame \in Nat
        /\ fetches \in Seq([answered : BOOLEAN, snapshot : Nat])
        /\ \A i \in DOMAIN fetches : fetches[i].snapshot <= cached
    BY FeedFields DEF FeedTypeOK, NotAhead
  <1>2. /\ due' = FALSE
        /\ UNCHANGED <<written, changed, offset, reads, unread, limiter, passed,
                       view, fetches, windows>>
    BY DEF Rebuild, RebuildFails
  <1>3. Stretches'
    BY <1>1, <1>2, StretchesKept
  <1>4. ASSUME cached' \in Nat, cached <= cached', cached' <= written, faults' \in Nat,
               FeedGood(feed', view, cached'), feed'.frame = feed.frame
        PROVE  FeedInv'
    <2>1. feed' \in Feed
      BY <1>4 DEF FeedGood
    <2>2. FeedTypeOK'
      BY <1>1, <1>2, <1>4, <2>1 DEF FeedTypeOK
    <2>3. \A i \in DOMAIN fetches : fetches[i].snapshot \in Nat
      <3>1. \A i \in DOMAIN fetches : fetches[i] \in [answered : BOOLEAN, snapshot : Nat]
        BY <1>1, Element
      <3> QED
        BY <3>1
    <2>4. NotAhead'
      BY <1>1, <1>2, <1>4, <2>3 DEF NotAhead
    <2>5. FeedGood(feed, view, cached)'
      BY <1>2, <1>4
    <2> QED
      BY <1>3, <2>2, <2>4, <2>5
  <1>5. CASE RebuildFails
    <2> DEFINE e == BusEvent("error", 0)
    <2>1. e \in BusEvents /\ e.type = "error"
      BY DEF BusEvent, BusEvents
    <2>2. feed' = Pushed(feed, e) /\ cached' = cached /\ faults' = faults + 1
      BY <1>5 DEF RebuildFails
    <2> HIDE DEF e
    <2>3. FeedGood(Pushed(feed, e), view, cached) /\ Pushed(feed, e).frame = feed.frame
      BY <1>1, <2>1, PushedGood, PushedFrame
    <2> QED
      BY <1>1, <1>4, <2>2, <2>3
  <1>6. CASE Rebuild
    <2> DEFINE e == BusEvent("state.changed", written)
    <2>1. e \in BusEvents /\ e.type = "state.changed" /\ e.line = written
      BY <1>1 DEF BusEvent, BusEvents
    <2>2. /\ cached' = written /\ faults' = faults
          /\ feed' = IF cached = written THEN feed ELSE Pushed(feed, e)
      BY <1>6 DEF Rebuild
    <2> HIDE DEF e
    <2>3. FeedGood(Pushed(feed, e), view, written) /\ Pushed(feed, e).frame = feed.frame
      BY <1>1, <2>1, PushedGood, PushedFrame
    <2> QED
      BY <1>1, <1>4, <2>2, <2>3
  <1> QED
    BY <1>5, <1>6

\* The steps of the client change nothing but what it has and asks for.
LEMMA ClientInv ==
  ASSUME FeedInv,
         UNCHANGED <<written, changed, due, offset, reads, unread, limiter, passed,
                     cached, windows>>,
         faults' \in Nat, view' \in Nat, view' <= cached,
         fetches' \in Seq([answered : BOOLEAN, snapshot : Nat]),
         \A i \in DOMAIN fetches' : fetches'[i].snapshot <= cached,
         FeedGood(feed', view', cached), feed'.frame <= cached
  PROVE  FeedInv'
  <1> USE DEF FeedInv
  <1>1. feed' \in Feed
    BY DEF FeedGood
  <1>2. FeedTypeOK'
    BY <1>1 DEF FeedTypeOK
  <1>3. Stretches'
    BY StretchesKept DEF FeedTypeOK
  <1>4. NotAhead'
    BY DEF NotAhead
  <1> QED
    BY <1>2, <1>3, <1>4

LEMMA ClientFacts ==
  ASSUME FeedInv
  PROVE  /\ faults \in Nat /\ view \in Nat /\ cached \in Nat /\ view <= cached
         /\ feed \in Feed /\ feed.frame \in Nat /\ feed.frame <= cached
         /\ fetches \in Seq([answered : BOOLEAN, snapshot : Nat])
         /\ \A i \in DOMAIN fetches : fetches[i].snapshot \in Nat /\ fetches[i].snapshot <= cached
         /\ FeedGood(feed, view, cached)
  <1>1. fetches \in Seq([answered : BOOLEAN, snapshot : Nat])
    BY DEF FeedInv, FeedTypeOK
  <1>2. \A i \in DOMAIN fetches : fetches[i] \in [answered : BOOLEAN, snapshot : Nat]
    BY <1>1, Element
  <1>3. feed \in Feed
    BY DEF FeedInv, FeedTypeOK
  <1>4. feed.frame \in Nat
    BY <1>3, FeedFields
  <1> QED
    BY <1>1, <1>2, <1>3, <1>4 DEF FeedInv, FeedTypeOK, NotAhead

LEMMA ConnectInv ==
  ASSUME FeedInv, Connect \/ Break
  PROVE  FeedInv'
  <1> USE DEF eventsFile, tail, out, client
  <1> USE ClientFacts
  <1>1. CASE Connect
    <2> DEFINE f == [NoFeed EXCEPT !.phase = "opening", !.frame = cached]
    <2>1. /\ feed' = f
          /\ UNCHANGED <<written, changed, due, offset, reads, unread, limiter, passed, view,
                         cached, faults, windows>>
          /\ fetches' = IF feed.again THEN Append(fetches, Unanswered) ELSE fetches
      BY <1>1 DEF Connect
    <2>2. f.frame = cached
      BY DEF NoFeed
    <2>3. FeedGood(f, view, cached)
      BY SpareFeed
    <2>4. Unanswered \in [answered : BOOLEAN, snapshot : Nat] /\ Unanswered.snapshot = 0
      BY DEF Unanswered
    <2> HIDE DEF f
    <2> DEFINE more == Append(fetches, Unanswered)
    <2>5. /\ more \in Seq([answered : BOOLEAN, snapshot : Nat])
          /\ \A i \in DOMAIN more :
                 (i \in DOMAIN fetches /\ more[i] = fetches[i]) \/ more[i] = Unanswered
      <3>1. /\ more \in Seq([answered : BOOLEAN, snapshot : Nat])
            /\ Len(fetches) \in Nat /\ DOMAIN fetches = 1 .. Len(fetches)
            /\ DOMAIN more = 1 .. Len(fetches) + 1
            /\ \A i \in 1 .. Len(fetches) : more[i] = fetches[i]
            /\ more[Len(fetches) + 1] = Unanswered
        BY <2>4, WithOneMore
      <3> HIDE DEF more
      <3> QED
        BY <3>1
    <2>6. \A i \in DOMAIN more : more[i].snapshot <= cached
      <3> HIDE DEF more
      <3>1. /\ \A i \in DOMAIN fetches : fetches[i].snapshot <= cached
            /\ 0 <= cached
        OBVIOUS
      <3> TAKE i \in DOMAIN more
      <3>2. CASE i \in DOMAIN fetches /\ more[i] = fetches[i]
        BY <3>1, <3>2
      <3>3. CASE more[i] = Unanswered
        BY <2>4, <3>1, <3>3
      <3> QED
        BY <2>5, <3>2, <3>3
    <2> HIDE DEF more
    <2>7. fetches' = more \/ fetches' = fetches
      BY <2>1 DEF more
    <2>8. /\ fetches' \in Seq([answered : BOOLEAN, snapshot : Nat])
          /\ \A i \in DOMAIN fetches' : fetches'[i].snapshot <= cached
      BY <2>5, <2>6, <2>7
    <2> QED
      BY <2>1, <2>2, <2>3, <2>8, ClientInv
  <1>2. CASE Break
    <2> DEFINE f == [NoFeed EXCEPT !.again = TRUE]
    <2>1. /\ feed' = f /\ faults' = faults + 1
          /\ UNCHANGED <<written, changed, due, offset, reads, unread, limiter, passed, view,
                         fetches, cached, windows>>
      BY <1>2 DEF Break
    <2>2. f.frame = 0
      BY DEF NoFeed
    <2>3. FeedGood(f, view, cached)
      BY SpareFeed
    <2> HIDE DEF f
    <2> QED
      BY <2>1, <2>2, <2>3, ClientInv
  <1> QED
    BY <1>1, <1>2

LEMMA SubscribeInv ==
  ASSUME FeedInv, Subscribe
  PROVE  FeedInv'
  <1> USE DEF eventsFile, tail, out, client
  <1> DEFINE f == [feed EXCEPT !.phase = "live", !.frame = 0]
             g == feed
  <1>1. /\ feed' = f /\ view' = feed.frame /\ feed.phase = "opening"
        /\ UNCHANGED <<written, changed, due, offset, reads, unread, limiter, passed, fetches,
                       cached, faults, windows>>
    BY DEF Subscribe
  <1>2. /\ f.phase = "live" /\ f.frame = 0 /\ f.hand = feed.hand /\ f.queue = feed.queue
        /\ f.lost = feed.lost /\ f.overflowed = feed.overflowed /\ f.told = feed.told
        /\ f.missed = feed.missed /\ f \in Feed
    BY ClientFacts DEF Feed
  <1> HIDE DEF f
  <1>3. FeedGood(feed, view, cached)
    BY ClientFacts
  <1>4. feed.queue = <<>> /\ feed.hand = <<>>
    BY <1>1, <1>3 DEF FeedGood, Waits
  <1>5. Waits(f) /\ Announced(f)
    BY <1>2, <1>3, <1>4 DEF FeedGood, Waits, Announced
  <1>6. UpToDate(f, feed.frame, cached)
    <2>1. Changes(f.queue) = {} /\ Changes(f.hand) = {}
      BY <1>2, <1>4 DEF Changes
    <2> QED
      BY <1>1, <1>2, <1>3, <2>1 DEF FeedGood, UpToDate
  <1>7. FeedGood(feed', view', cached)
    BY <1>1, <1>2, <1>5, <1>6 DEF FeedGood
  <1> QED
    BY <1>1, <1>2, <1>7, ClientFacts, ClientInv

LEMMA FetchInv ==
  ASSUME FeedInv, NEW i \in DOMAIN fetches, FetchAnswered(i) \/ FetchApplied(i) \/ FetchFails(i)
  PROVE  FeedInv'
  <1> USE DEF eventsFile, tail, out, client
  <1> USE ClientFacts
  <1>1. /\ RemoveAt(fetches, i) \in Seq([answered : BOOLEAN, snapshot : Nat])
        /\ \A k \in DOMAIN RemoveAt(fetches, i) : RemoveAt(fetches, i)[k].snapshot <= cached
    <2>1. /\ RemoveAt(fetches, i) \in Seq([answered : BOOLEAN, snapshot : Nat])
          /\ \A k \in DOMAIN RemoveAt(fetches, i) :
                 \E j \in DOMAIN fetches : RemoveAt(fetches, i)[k] = fetches[j]
      BY Remaining
    <2> QED
      BY <2>1
  <1>2. CASE FetchAnswered(i)
    <2> DEFINE a == [answered |-> TRUE, snapshot |-> cached]
    <2>1. /\ fetches' = [fetches EXCEPT ![i] = a]
          /\ UNCHANGED <<written, changed, due, offset, reads, unread, limiter, feed, passed,
                         view, cached, faults, windows>>
      BY <1>2 DEF FetchAnswered
    <2>2. a \in [answered : BOOLEAN, snapshot : Nat] /\ a.snapshot = cached
      OBVIOUS
    <2> HIDE DEF a
    <2>3. fetches' \in Seq([answered : BOOLEAN, snapshot : Nat])
      BY <2>1, <2>2
    <2>4. \A k \in DOMAIN fetches' : fetches'[k].snapshot <= cached
      BY <2>1, <2>2
    <2> QED
      BY <2>1, <2>3, <2>4, ClientInv
  <1>3. CASE FetchFails(i)
    <2>1. /\ fetches' = RemoveAt(fetches, i)
          /\ UNCHANGED <<written, changed, due, offset, reads, unread, limiter, feed, passed,
                         view, cached, faults, windows>>
      BY <1>3 DEF FetchFails
    <2> QED
      BY <1>1, <2>1, ClientInv
  <1>4. CASE FetchApplied(i)
    <2> DEFINE m == IF view' < view THEN Later(feed.missed, view) ELSE feed.missed
               f == [feed EXCEPT !.missed = m]
    <2>1. /\ fetches' = RemoveAt(fetches, i) /\ view' = fetches[i].snapshot
          /\ UNCHANGED <<written, changed, due, offset, reads, unread, limiter, passed, cached,
                         faults, windows>>
          /\ feed' = f
      BY <1>4 DEF FetchApplied
    <2>2. view' \in Nat /\ view' <= cached
      BY <2>1
    <2>3. feed.missed \in Nat /\ feed.missed <= cached
      BY FeedFields DEF FeedGood, UpToDate
    <2>4. /\ m \in Nat /\ m <= cached
          /\ feed.missed = cached => m = cached
          /\ view = cached /\ view' # cached => m = cached
      BY <2>2, <2>3 DEF Later
    <2> HIDE DEF m
    <2>5. /\ f.phase = feed.phase /\ f.frame = feed.frame /\ f.hand = feed.hand
          /\ f.queue = feed.queue /\ f.lost = feed.lost /\ f.overflowed = feed.overflowed
          /\ f.told = feed.told /\ f.missed = m /\ f \in Feed
      BY <2>4 DEF Feed
    <2> HIDE DEF f
    <2>6. Waits(f) /\ Announced(f)
      BY <2>5 DEF FeedGood, Waits, Announced
    <2>7. Newest(feed, cached) => Newest(f, cached)
      BY <2>5 DEF Newest
    <2>8. UpToDate(f, view', cached)
      BY <2>4, <2>5, <2>7 DEF FeedGood, UpToDate
    <2>9. FeedGood(feed', view', cached)
      BY <2>1, <2>5, <2>6, <2>8 DEF FeedGood
    <2> QED
      BY <1>1, <2>1, <2>2, <2>5, <2>9, ClientInv
  <1> QED
    BY <1>2, <1>3, <1>4
\* The queue that has given its first event away.
LEMMA TailFacts ==
  ASSUME NEW q \in Seq(BusEvents), q # <<>>
  PROVE  /\ Tail(q) \in Seq(BusEvents) /\ q[1] \in BusEvents /\ Head(q) = q[1] /\ Len(q) \in Nat
         /\ Cardinality(Plain(Tail(q))) <= Cardinality(Plain(q))
         /\ \A i \in DOMAIN q : i # 1 => i - 1 \in DOMAIN Tail(q) /\ Tail(q)[i - 1] = q[i]
         /\ \A j \in DOMAIN Tail(q) : j \in Nat /\ j + 1 \in DOMAIN q /\ Tail(q)[j] = q[j + 1]
  <1>1. /\ Len(q) \in Nat /\ 1 \in 1 .. Len(q) /\ DOMAIN q = 1 .. Len(q)
        /\ Tail(q) \in Seq(BusEvents) /\ Len(Tail(q)) = Len(q) - 1
        /\ DOMAIN Tail(q) = 1 .. Len(q) - 1 /\ q[1] \in BusEvents /\ Head(q) = q[1]
    OBVIOUS
  <1>2. \A j \in 1 .. Len(q) - 1 : Tail(q)[j] = q[j + 1]
    BY <1>1
  <1> DEFINE rest == RemoveAt(q, 1)
             t == Tail(q)
             n == Len(q) - 1
  <1>3. /\ rest \in Seq(BusEvents) /\ Len(rest) = Len(q) - 1
        /\ \A i \in 1 .. Len(q) - 1 : rest[i] = IF i < 1 THEN q[i] ELSE q[i + 1]
    BY <1>1, WithoutOne
  <1>4. Cardinality(Plain(rest)) <= Cardinality(Plain(q))
    <2>1. Cardinality(Plain(rest)) = Cardinality(Plain(q)) - (IF 1 \in Plain(q) THEN 1 ELSE 0)
      BY <1>1, PlainRemove
    <2>2. Cardinality(Plain(q)) \in Nat
      BY PlainFinite
    <2> HIDE DEF rest
    <2> QED
      BY <2>1, <2>2
  <1> HIDE DEF rest
  <1>5. Plain(Tail(q)) = Plain(rest)
    <2>1. DOMAIN rest = 1 .. Len(q) - 1
      BY <1>3
    <2>2. \A j \in 1 .. Len(q) - 1 : rest[j] = Tail(q)[j]
      BY <1>1, <1>2, <1>3
    <2> QED
      BY <1>1, <2>1, <2>2 DEF Plain
  <1>6. ASSUME NEW i \in DOMAIN q, i # 1
        PROVE  i - 1 \in DOMAIN Tail(q) /\ Tail(q)[i - 1] = q[i]
    <2>1. i - 1 \in 1 .. Len(q) - 1 /\ (i - 1) + 1 = i
      BY <1>1, <1>6
    <2>2. Tail(q)[i - 1] = q[(i - 1) + 1]
      BY <1>2, <2>1
    <2> QED
      BY <1>1, <2>1, <2>2
  <1>7. \A j \in DOMAIN Tail(q) : j \in Nat /\ j + 1 \in DOMAIN q /\ Tail(q)[j] = q[j + 1]
    BY <1>1, <1>2
  <1> QED
    BY <1>1, <1>4, <1>5, <1>6, <1>7

LEMMA SentInv ==
  ASSUME FeedInv, Sent
  PROVE  FeedInv'
  <1> USE DEF eventsFile, tail, out, client
  <1> USE ClientFacts
  <1> DEFINE q == feed.queue
             h == feed.hand[1]
             newHand == IF q = <<>> THEN <<>> ELSE <<Head(q)>>
             newQueue == IF q = <<>> THEN <<>> ELSE Tail(q)
             newTold == feed.told \/ feed.hand = <<Overflow>>
             f == [feed EXCEPT !.told = newTold, !.hand = newHand, !.queue = newQueue]
  <1>1. /\ feed.hand # <<>> /\ feed' = f
        /\ view' = IF Head(feed.hand).type = "state.changed" THEN Head(feed.hand).line ELSE view
        /\ UNCHANGED <<written, changed, due, offset, reads, unread, limiter, passed, fetches,
                       cached, faults, windows>>
    BY DEF Sent
  <1>2. /\ q \in Seq(BusEvents) /\ feed.hand \in Seq(BusEvents) /\ DOMAIN q = 1 .. Len(q)
        /\ Len(q) \in Nat /\ newTold \in BOOLEAN
        /\ feed.missed \in Nat
    BY FeedFields
  <1>3. /\ Waits(feed) /\ Announced(feed) /\ UpToDate(feed, view, cached)
    BY DEF FeedGood
  <1>4. /\ feed.phase = "live" /\ Len(feed.hand) = 1 /\ DOMAIN feed.hand = {1}
        /\ h \in BusEvents /\ Head(feed.hand) = h /\ feed.hand = <<h>>
    <2>1. feed.phase = "live" /\ Len(feed.hand) <= 1
      BY <1>1, <1>3 DEF Waits
    <2> QED
      BY <1>1, <1>2, <2>1, OnlyOne
  <1>5. newQueue \in Seq(BusEvents) /\ newHand \in Seq(BusEvents)
    <2>1. CASE q = <<>>
      BY <1>2, <2>1
    <2>2. CASE q # <<>>
      <3>1. Tail(q) \in Seq(BusEvents) /\ Head(q) \in BusEvents
        BY <1>2, <2>2, TailFacts
      <3> QED
        BY <2>2, <3>1
    <2> QED
      BY <2>1, <2>2
  <1> HIDE DEF newHand, newQueue, newTold
  <1>6. /\ f.phase = feed.phase /\ f.frame = feed.frame /\ f.hand = newHand
        /\ f.queue = newQueue /\ f.lost = feed.lost /\ f.overflowed = feed.overflowed
        /\ f.told = newTold /\ f.missed = feed.missed /\ f \in Feed
    BY <1>2, <1>5 DEF Feed
  <1> HIDE DEF f
  <1>7. view' = IF h.type = "state.changed" THEN h.line ELSE view
    BY <1>1, <1>4
  <1>8. view' \in Nat /\ view' <= cached
    <2>1. h.line \in Nat /\ (h.type = "state.changed" => h.line <= cached)
      BY <1>3, <1>4 DEF UpToDate, Changes, BusEvents
    <2> QED
      BY <1>7, <2>1
  <1>9. CASE q = <<>>
    <2>1. newHand = <<>> /\ newQueue = <<>>
      BY <1>9 DEF newHand, newQueue
    <2>2. Waits(f)
      BY <1>4, <1>6, <2>1 DEF Waits
    <2>3. Announced(f)
      BY <1>3, <1>6, <1>9, <2>1 DEF Announced, newTold
    <2>4. Changes(f.queue) = {} /\ Changes(f.hand) = {} /\ Changes(feed.queue) = {}
      BY <1>6, <1>9, <2>1 DEF Changes
    <2>5. UpToDate(f, view', cached)
      <3>1. CASE feed.missed = cached
        BY <1>3, <1>4, <1>6, <2>4, <3>1 DEF UpToDate
      <3>2. CASE Newest(feed, cached)
        <4>1. view' = cached
          BY <1>7, <2>4, <3>2 DEF Newest
        <4> QED
          BY <1>3, <1>4, <1>6, <2>4, <4>1 DEF UpToDate
      <3>3. CASE view = cached /\ Changes(feed.hand) = {}
        <4>1. h.type # "state.changed"
          BY <1>4, <3>3 DEF Changes
        <4>2. view' = cached
          BY <1>7, <3>3, <4>1
        <4> QED
          BY <1>3, <1>4, <1>6, <2>4, <4>2 DEF UpToDate
      <3> QED
        BY <1>3, <1>4, <3>1, <3>2, <3>3 DEF UpToDate
    <2>6. FeedGood(feed', view', cached)
      BY <1>1, <1>6, <2>2, <2>3, <2>5 DEF FeedGood
    <2> QED
      BY <1>1, <1>6, <1>8, <2>6, ClientInv
  <1>10. CASE q # <<>>
    <2> DEFINE t == Tail(q)
    <2>1. newHand = <<q[1]>> /\ newQueue = t /\ q[1] \in BusEvents
      BY <1>2, <1>10, TailFacts DEF newHand, newQueue
    <2>2. /\ t \in Seq(BusEvents)
          /\ Cardinality(Plain(t)) <= Cardinality(Plain(q))
          /\ \A i \in DOMAIN q : i # 1 => i - 1 \in DOMAIN t /\ t[i - 1] = q[i]
          /\ \A j \in DOMAIN t : j \in Nat /\ j + 1 \in DOMAIN q /\ t[j] = q[j + 1]
          /\ 1 \in DOMAIN q
      BY <1>2, <1>10, TailFacts
    <2> HIDE DEF t
    <2>3. f.hand # <<>> /\ f.hand[1] = q[1] /\ Len(f.hand) = 1 /\ DOMAIN f.hand = {1}
      BY <1>6, <2>1
    <2>4. Waits(f)
      BY <1>4, <1>6, <2>3 DEF Waits
    <2>5. Announced(f)
      <3>1. Cardinality(Plain(f.queue)) <= MaxQueue
        <4>1. /\ Cardinality(Plain(t)) \in Nat /\ Cardinality(Plain(q)) \in Nat
              /\ MaxQueue \in Nat
          BY <1>2, <2>2, PlainFinite, FeedAssumption
        <4> QED
          BY <1>3, <1>6, <2>1, <2>2, <4>1 DEF Announced
      <3>2. feed.overflowed =>
              f.told \/ f.hand = <<Overflow>> \/ \E i \in DOMAIN f.queue : f.queue[i] = Overflow
        <4>1. CASE feed.told \/ feed.hand = <<Overflow>>
          BY <1>6, <4>1 DEF newTold
        <4>2. ASSUME NEW i \in DOMAIN q, q[i] = Overflow
              PROVE  f.hand = <<Overflow>> \/ \E j \in DOMAIN f.queue : f.queue[j] = Overflow
          <5>1. CASE i = 1
            BY <1>6, <2>1, <4>2, <5>1
          <5>2. CASE i # 1
            BY <1>6, <2>1, <2>2, <4>2, <5>2
          <5> QED
            BY <5>1, <5>2
        <4> QED
          BY <1>3, <4>1, <4>2 DEF Announced
      <3> QED
        BY <1>3, <1>6, <3>1, <3>2 DEF Announced
    <2>6. /\ \A i \in Changes(q) : i # 1 => i - 1 \in Changes(t) /\ t[i - 1] = q[i]
          /\ \A j \in Changes(t) : j \in Nat /\ j + 1 \in Changes(q) /\ t[j] = q[j + 1]
          /\ Changes(q) \subseteq Nat
          /\ 1 \in Changes(q) <=> q[1].type = "state.changed"
          /\ 1 \in Changes(f.hand) <=> q[1].type = "state.changed"
          /\ Changes(f.hand) \subseteq {1}
      <3>1. Changes(q) = {i \in DOMAIN q : q[i].type = "state.changed"}
        BY DEF Changes
      <3>2. Changes(t) = {i \in DOMAIN t : t[i].type = "state.changed"}
        BY DEF Changes
      <3>3. Changes(f.hand) = {i \in {1} : q[1].type = "state.changed"}
        BY <2>3 DEF Changes
      <3>4. Changes(q) \subseteq Nat
        BY <1>2, <3>1
      <3> HIDE DEF q
      <3>5. \A i \in Changes(q) : i # 1 => i - 1 \in Changes(t) /\ t[i - 1] = q[i]
        BY <2>2, <3>1, <3>2
      <3>6. \A j \in Changes(t) : j \in Nat /\ j + 1 \in Changes(q) /\ t[j] = q[j + 1]
        BY <2>2, <3>1, <3>2
      <3> QED
        BY <2>2, <3>1, <3>3, <3>4, <3>5, <3>6
    <2>7. f.queue = t
      BY <1>6, <2>1
    <2>8. /\ f.missed <= cached
          /\ \A i \in Changes(f.queue) : f.queue[i].line <= cached
          /\ \A i \in Changes(f.hand) : f.hand[i].line <= cached
      BY <1>3, <1>6, <2>3, <2>6, <2>7 DEF UpToDate
    <2>9. \/ f.missed = cached
          \/ Newest(f, cached)
          \/ view' = cached /\ Changes(f.queue) = {} /\ Changes(f.hand) = {}
      <3>1. CASE feed.missed = cached
        BY <1>6, <3>1
      <3>2. ASSUME NEW i \in Changes(q), q[i].line = cached, \A j \in Changes(q) : j <= i
            PROVE  Newest(f, cached)
        <4>1. CASE i = 1
          <5>1. Changes(t) = {}
            <6> SUFFICES ASSUME NEW j \in Changes(t) PROVE FALSE
              OBVIOUS
            <6>1. j \in Nat /\ j + 1 <= 1
              BY <2>6, <3>2, <4>1
            <6>2. j \in 1 .. Len(t) /\ Len(t) \in Nat
              BY <2>2 DEF Changes
            <6> QED
              BY <6>1, <6>2
          <5> QED
            BY <2>3, <2>6, <2>7, <3>2, <4>1, <5>1 DEF Newest
        <4>2. CASE i # 1
          <5>1. i - 1 \in Changes(f.queue) /\ f.queue[i - 1].line = cached
            BY <2>6, <2>7, <3>2, <4>2
          <5>2. \A j \in Changes(f.queue) : j <= i - 1
            <6> TAKE j \in Changes(f.queue)
            <6>1. j \in Nat /\ i \in Nat /\ j + 1 <= i
              BY <2>6, <2>7, <3>2
            <6> QED
              BY <6>1
          <5> QED
            BY <5>1, <5>2 DEF Newest
        <4> QED
          BY <4>1, <4>2
      <3>3. CASE Changes(q) = {}
        <4>1. Changes(f.queue) = {} /\ Changes(f.hand) = {}
          BY <2>6, <2>7, <3>3
        <4>2. CASE Newest(feed, cached)
          <5>1. view' = cached
            BY <1>7, <3>3, <4>2 DEF Newest
          <5> QED
            BY <4>1, <5>1
        <4>3. CASE view = cached /\ Changes(feed.hand) = {}
          <5>1. h.type # "state.changed"
            BY <1>4, <4>3 DEF Changes
          <5> QED
            BY <1>7, <4>1, <4>3, <5>1
        <4> QED
          BY <1>3, <1>4, <3>1, <4>2, <4>3 DEF UpToDate
      <3> QED
        BY <1>3, <1>4, <3>1, <3>2, <3>3 DEF UpToDate, Newest
    <2>10. UpToDate(f, view', cached)
      BY <1>4, <1>6, <2>8, <2>9 DEF UpToDate
    <2>11. FeedGood(feed', view', cached)
      BY <1>1, <1>6, <2>4, <2>5, <2>10 DEF FeedGood
    <2> QED
      BY <1>1, <1>6, <1>8, <2>11, ClientInv
  <1> QED
    BY <1>9, <1>10

LEMMA FeedStep == FeedInv /\ [FeedNext]_feedVars => FeedInv'
  <1>1. ASSUME FeedInv, UNCHANGED feedVars
        PROVE  FeedInv'
    <2>1. FeedTypeOK'
      BY <1>1 DEF feedVars, eventsFile, tail, out, client, FeedInv, FeedTypeOK
    <2>2. Stretches' /\ NotAhead' /\ FeedGood(feed, view, cached)'
      BY <1>1 DEF feedVars, eventsFile, tail, out, client, FeedInv, Stretches, NotAhead
    <2> QED
      BY <2>1, <2>2 DEF FeedInv
  <1> QED
    BY <1>1, WriterInv, StartReadInv, EndReadInv, ReadFailsInv, RebuildInv, ConnectInv,
       SubscribeInv, SentInv, FetchInv
    DEF FeedNext

LEMMA FeedInvariant == FeedSpec => []FeedInv
  BY FeedInitInv, FeedStep, PTL DEF FeedSpec

\* The variables of the feed keep their types: what waits for a client is events
\* of the bus, and every read covers a stretch of the file.
THEOREM FeedTypes == FeedSpec => []FeedTypeOK
  <1>1. FeedInv => FeedTypeOK
    BY DEF FeedInv
  <1> QED
    BY <1>1, FeedInvariant, PTL

\* Of what the tailer has behind it no line has been skipped or torn, for any
\* number of reads at a time, however they overlap, end or fail (readNewLines).
THEOREM NothingSkipped == FeedSpec => []NoLineSkipped
  <1>1. FeedInv => NoLineSkipped
    <2> SUFFICES ASSUME FeedInv, NEW k \in 1 .. offset \div 2
                 PROVE  k \in passed
      BY DEF NoLineSkipped
    <2>1. offset \in Nat /\ HandedTo(offset, passed)
      BY DEF FeedInv, FeedTypeOK, Stretches
    <2>2. k \in Nat \ {0} /\ 2 * k <= offset
      BY <2>1, Half
    <2> QED
      BY <2>1, <2>2 DEF HandedTo
  <1> QED
    BY <1>1, FeedInvariant, PTL

\* A client that is too slow loses no error, learns that it has lost something,
\* and keeps a bounded queue, for every limit of the queue.
THEOREM LossesTold == FeedSpec => []LossAnnounced
  <1>1. FeedInv => LossAnnounced
    <2> SUFFICES ASSUME FeedInv
                 PROVE  LossAnnounced
      OBVIOUS
    <2>1. /\ feed \in Feed /\ Announced(feed)
          /\ feed.queue \in Seq(BusEvents) /\ feed.hand \in Seq(BusEvents)
      BY FeedFields DEF FeedInv, FeedGood
    <2>2. feed.hand = <<Overflow>> => Overflow \in Range(feed.queue \o feed.hand)
      <3> SUFFICES ASSUME feed.hand = <<Overflow>>
                   PROVE  Overflow \in Range(feed.queue \o feed.hand)
        OBVIOUS
      <3>1. Len(feed.queue) + 1 \in DOMAIN (feed.queue \o feed.hand)
             /\ (feed.queue \o feed.hand)[Len(feed.queue) + 1] = Overflow
        BY <2>1
      <3> QED
        BY <3>1 DEF Range
    <2>3. ASSUME NEW i \in DOMAIN feed.queue, feed.queue[i] = Overflow
          PROVE  Overflow \in Range(feed.queue \o feed.hand)
      <3>1. i \in DOMAIN (feed.queue \o feed.hand) /\ (feed.queue \o feed.hand)[i] = Overflow
        BY <2>1, <2>3, Joined
      <3> QED
        BY <3>1 DEF Range
    <2> QED
      BY <2>1, <2>2, <2>3 DEF LossAnnounced, Announced, Plain
  <1> QED
    BY <1>1, FeedInvariant, PTL

\* A client that is connected, and to which nothing is on its way, shows the
\* snapshot the server holds, or has missed it in one of the three ways that
\* `missed` records, whatever overtakes what (applyEvent, onReconnected).
THEOREM ViewsCurrent == FeedSpec => []ViewCurrent
  <1>1. FeedInv => ViewCurrent
    <2> SUFFICES ASSUME FeedInv, feed.phase = "live",
                        \A i \in DOMAIN (feed.hand \o feed.queue) :
                            (feed.hand \o feed.queue)[i].type # "state.changed"
                 PROVE  view = cached \/ feed.missed = cached
      BY DEF ViewCurrent
    <2>1. feed \in Feed /\ UpToDate(feed, view, cached) /\ feed.queue \in Seq(BusEvents)
          /\ feed.hand \in Seq(BusEvents)
      BY FeedFields DEF FeedInv, FeedGood
    <2>2. \A i \in DOMAIN feed.hand : feed.hand[i].type # "state.changed"
      <3> TAKE i \in DOMAIN feed.hand
      <3>1. i \in DOMAIN (feed.hand \o feed.queue) /\ (feed.hand \o feed.queue)[i] = feed.hand[i]
        BY <2>1, Joined
      <3> QED
        BY <3>1
    <2>3. \A i \in DOMAIN feed.queue : feed.queue[i].type # "state.changed"
      <3> DEFINE p == feed.hand
                 q == feed.queue
      <3>1. p \in Seq(BusEvents) /\ q \in Seq(BusEvents)
            /\ \A i \in DOMAIN (p \o q) : (p \o q)[i].type # "state.changed"
        BY <2>1
      <3> HIDE DEF p, q
      <3>2. ASSUME NEW i \in DOMAIN q
            PROVE  q[i].type # "state.changed"
        <4>1. Len(p) + i \in DOMAIN (p \o q) /\ (p \o q)[Len(p) + i] = q[i]
          BY <3>1, Joined
        <4> QED
          BY <3>1, <4>1
      <3> QED
        BY <3>2 DEF q
    <2>4. Changes(feed.queue) = {}
      BY <2>3 DEF Changes
    <2>5. ~Newest(feed, cached)
      <3>1. feed.hand # <<>> => 1 \in DOMAIN feed.hand
        BY <2>1
      <3> QED
        BY <2>2, <2>4, <3>1 DEF Newest
    <2> QED
      BY <2>1, <2>5 DEF UpToDate
  <1> QED
    BY <1>1, FeedInvariant, PTL
=============================================================================
