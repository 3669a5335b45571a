-------------------------- MODULE AtomicWriteProofs --------------------------
(***************************************************************************)
(* AtomicWrite, for every set of processes, texts and inodes: types always; *)
(* for writes that do not overlap, no reader sees a part of a text, nothing *)
(* is left behind, and the file is an AtomicRegister, whatever fails and    *)
(* whoever is killed.                                                       *)
(***************************************************************************)
EXTENDS AtomicWrite, TLAPS

Step(w) ==
    \/ Call(w) \/ MkdirFails(w) \/ Open(w) \/ OpenFails(w) \/ Write(w)
    \/ WriteFails(w) \/ Rename(w) \/ RenameFails(w) \/ Unlink(w)
    \/ UnlinkFails(w) \/ Die(w)

LEMMA NextIsStep == Next <=> \E w \in Writer : Step(w)
  BY DEF Next, Step

\* The variables keep their types; a process that writes or renames has the
\* temporary file open (atomicWriteJSON, execution-state.ts:96).
LEMMA TypeInit == Init => TypeOK
  BY DEF Init, TypeOK, Text, MidWrite, Ended

LEMMA TypeStep ==
  ASSUME TypeOK, NEW w \in Writer, Step(w)
  PROVE  TypeOK'
  <1> USE DEF TypeOK, Text, MidWrite, Ended, Goto, Close
  <1>1. CASE Call(w)
    BY <1>1 DEF Call
  <1>2. CASE Open(w)
    <2>1. PICK i \in Inode : tmp' = i /\ text' = [text EXCEPT ![i] = Nothing]
                             /\ fd' = [fd EXCEPT ![w] = i]
      BY <1>2 DEF Open, Unused
    <2>2. i # NoInode
      BY <2>1, ConstantsAssumption
    <2> QED
      BY <1>2, <2>1, <2>2 DEF Open
  <1>3. CASE OpenFails(w)
    BY <1>3 DEF OpenFails
  <1>4. CASE Write(w)
    BY <1>4 DEF Write
  <1>5. CASE WriteFails(w)
    BY <1>5 DEF WriteFails
  <1>6. CASE Rename(w)
    BY <1>6 DEF Rename
  <1>7. CASE RenameFails(w)
    BY <1>7 DEF RenameFails
  <1>8. CASE Unlink(w)
    BY <1>8 DEF Unlink
  <1>9. CASE Die(w)
    BY <1>9 DEF Die
  <1>10. CASE MkdirFails(w)
    BY <1>10 DEF MkdirFails
  <1>11. CASE UnlinkFails(w)
    BY <1>11 DEF UnlinkFails
  <1> QED
    BY <1>1, <1>2, <1>3, <1>4, <1>5, <1>6, <1>7, <1>8, <1>9, <1>10, <1>11 DEF Step

THEOREM TypeCorrect == Spec => []TypeOK
  <1>1. TypeOK /\ [Next]_vars => TypeOK'
    <2> SUFFICES ASSUME TypeOK, [Next]_vars
                 PROVE  TypeOK'
      OBVIOUS
    <2>1. CASE UNCHANGED vars
      BY <2>1 DEF TypeOK, vars
    <2>2. CASE Next
      BY <2>2, NextIsStep, TypeStep
    <2> QED
      BY <2>1, <2>2
  <1> QED
    BY <1>1, TypeInit, PTL DEF Spec
-----------------------------------------------------------------------------
(* Writes that do not overlap. *)

OneMidWrite == \A u, w \in Writer : pc[u] \in MidWrite /\ pc[w] \in MidWrite => u = w

\* The one that writes has the temporary file, which is not the target, and
\* renames it only when its text is complete.
TmpOwned ==
    /\ target # NoInode => target # tmp
    /\ \A w \in Writer : pc[w] \in {"write", "rename"} => fd[w] = tmp
    /\ \A w \in Writer : pc[w] = "write" => text[tmp] = Nothing
    /\ \A w \in Writer : pc[w] = "rename" => text[tmp] = value[w]

\* A temporary file stems from the write under way or from a call that was
\* killed or could not unlink it.
TmpExplained ==
    tmp # NoInode => \E w \in Writer : pc[w] \in MidWrite \cup {"littered", "dead"}

IInv == TypeOK /\ OneMidWrite /\ NeverTorn /\ TmpOwned /\ TmpExplained

LEMMA InvInit == Init => IInv
  <1> SUFFICES ASSUME Init PROVE IInv
    OBVIOUS
  <1>1. TypeOK
    BY TypeInit
  <1>2. OneMidWrite /\ NeverTorn /\ TmpOwned /\ TmpExplained
    BY DEF Init, OneMidWrite, NeverTorn, TmpOwned, TmpExplained, MidWrite
  <1> QED
    BY <1>1, <1>2 DEF IInv

LEMMA InvStep ==
  ASSUME Alone, IInv, NEW w \in Writer, Step(w)
  PROVE  IInv'
  <1>0. TypeOK /\ TypeOK'
    BY TypeStep DEF IInv
  <1>1. OneMidWrite'
    <2> SUFFICES ASSUME NEW u \in Writer, NEW x \in Writer,
                        pc'[u] \in MidWrite, pc'[x] \in MidWrite
                 PROVE  u = x
      BY DEF OneMidWrite
    <2>1. CASE Call(w)
      BY <2>1, <1>0 DEF Call, Goto, MidWrite, TypeOK
    <2>2. CASE ~Call(w)
      <3>1. pc[w] \in MidWrite /\ \A v \in Writer : v # w => pc'[v] = pc[v]
        BY <2>2, <1>0 DEF Step, Open, OpenFails, Write, WriteFails, Rename,
           RenameFails, Unlink, UnlinkFails, MkdirFails, Die, Goto, MidWrite, TypeOK
      <3> QED
        BY <3>1 DEF IInv, OneMidWrite
    <2> QED
      BY <2>1, <2>2
  <1>2. (NeverTorn /\ TmpOwned)'
    <2> USE <1>0, ConstantsAssumption DEF IInv, NeverTorn, TmpOwned, TypeOK, Goto, Close
    <2>1. CASE Call(w)
      <3>1. \A u \in Writer : pc[u] \notin {"write", "rename"} /\ pc'[u] \notin {"write", "rename"}
        BY <2>1 DEF Call, MidWrite
      <3> QED
        BY <2>1, <3>1 DEF Call
    <2>2. \A u \in Writer : u # w /\ ~Call(w) => pc[u] \notin MidWrite /\ pc'[u] = pc[u]
      BY DEF OneMidWrite, Step, Open, OpenFails, Write, WriteFails, Rename,
         RenameFails, Unlink, UnlinkFails, MkdirFails, Die, MidWrite
    <2>3. CASE Open(w)
      <3>1. PICK i \in Inode : /\ i \in IF tmp = NoInode THEN Unused ELSE {tmp}
                               /\ tmp' = i /\ text' = [text EXCEPT ![i] = Nothing]
                               /\ fd' = [fd EXCEPT ![w] = i]
        BY <2>3 DEF Open, Unused
      <3>2. i # target
        BY <3>1 DEF Unused
      <3>3. UNCHANGED <<target, value>> /\ pc'[w] = "write" /\ ~Call(w)
        BY <2>3 DEF Open, Call, Ended
      <3>4. \A u \in Writer : pc'[u] \in {"write", "rename"} => u = w
        BY <2>2, <3>3 DEF MidWrite
      <3>5. NeverTorn'
        BY <3>1, <3>2, <3>3
      <3> QED
        BY <3>1, <3>2, <3>3, <3>4, <3>5
    <2>4. CASE OpenFails(w)
      BY <2>2, <2>4 DEF OpenFails, Call, Ended, MidWrite
    <2>5. CASE Write(w)
      <3>1. fd[w] = tmp /\ tmp \in Inode /\ text[tmp] = Nothing
        BY <2>5 DEF Write
      <3>2. text' = [text EXCEPT ![tmp] = value[w]]
        BY <2>5, <3>1 DEF Write
      <3>3. UNCHANGED <<tmp, target, fd, value>> /\ pc'[w] = "rename" /\ ~Call(w)
        BY <2>5 DEF Write, Call, Ended
      <3>4. \A u \in Writer : pc'[u] \in {"write", "rename"} => u = w
        BY <2>2, <3>3 DEF MidWrite
      <3> QED
        BY <3>1, <3>2, <3>3, <3>4
    <2>6. CASE WriteFails(w)
      <3>1. fd[w] = tmp /\ tmp \in Inode
        BY <2>6 DEF WriteFails
      <3>2. text' = [text EXCEPT ![tmp] = Torn]
        BY <2>6, <3>1 DEF WriteFails
      <3>3. UNCHANGED <<tmp, target, fd, value>> /\ pc'[w] = "unlink" /\ ~Call(w)
        BY <2>6 DEF WriteFails, Call, Ended
      <3>4. \A u \in Writer : pc'[u] \notin {"write", "rename"}
        BY <2>2, <3>3 DEF MidWrite
      <3> QED
        BY <3>1, <3>2, <3>3, <3>4
    <2>7. CASE Rename(w)
      <3>1. text[tmp] = value[w] /\ tmp \in Inode
        BY <2>7 DEF Rename
      <3>2. target' = tmp /\ tmp' = NoInode /\ UNCHANGED <<text, value>>
            /\ pc'[w] = "ok" /\ ~Call(w)
        BY <2>7 DEF Rename, Call, Ended
      <3>3. \A u \in Writer : pc'[u] \notin {"write", "rename"}
        BY <2>2, <3>2 DEF MidWrite
      <3> QED
        BY <3>1, <3>2, <3>3
    <2>8. CASE RenameFails(w)
      BY <2>2, <2>8 DEF RenameFails, Call, Ended, MidWrite
    <2>9. CASE Unlink(w)
      BY <2>2, <2>9 DEF Unlink, Call, Ended, MidWrite
    <2>10. CASE Die(w)
      <3>1. UNCHANGED <<tmp, target, value>> /\ pc'[w] = "dead" /\ ~Call(w)
        BY <2>10 DEF Die, Call, Ended, MidWrite
      <3>2. \A u \in Writer : pc'[u] \notin {"write", "rename"}
        BY <2>2, <3>1 DEF MidWrite
      <3>3. target # NoInode => text'[target] = text[target]
        BY <2>10 DEF Die
      <3> QED
        BY <3>1, <3>2, <3>3
    <2>11. CASE MkdirFails(w)
      BY <2>2, <2>11 DEF MkdirFails, Call, Ended, MidWrite
    <2>12. CASE UnlinkFails(w)
      BY <2>2, <2>12 DEF UnlinkFails, Call, Ended, MidWrite
    <2> QED
      BY <2>1, <2>3, <2>4, <2>5, <2>6, <2>7, <2>8, <2>9, <2>10, <2>11, <2>12 DEF Step
  <1>3. TmpExplained'
    <2> USE <1>0 DEF IInv, TmpExplained, TypeOK, Goto, MidWrite
    <2>1. CASE tmp' = NoInode
      BY <2>1
    <2>2. CASE tmp' # NoInode /\ pc'[w] \in MidWrite \cup {"littered", "dead"}
      BY <2>2
    <2>3. CASE tmp' # NoInode /\ pc'[w] \notin MidWrite \cup {"littered", "dead"}
      BY <2>3 DEF Step, Call, Open, OpenFails, Write, WriteFails, Rename,
         RenameFails, Unlink, UnlinkFails, MkdirFails, Die
    <2> QED
      BY <2>1, <2>2, <2>3
  <1> QED
    BY <1>0, <1>1, <1>2, <1>3 DEF IInv

LEMMA Inductive == Alone /\ IInv /\ [Next]_vars => IInv'
  <1> SUFFICES ASSUME Alone, IInv, [Next]_vars
               PROVE  IInv'
    OBVIOUS
  <1>1. CASE UNCHANGED vars
    BY <1>1 DEF IInv, TypeOK, OneMidWrite, NeverTorn, TmpOwned, TmpExplained, vars
  <1>2. CASE Next
    BY <1>2, NextIsStep, InvStep
  <1> QED
    BY <1>1, <1>2

LEMMA Invariance == ASSUME Alone PROVE Spec => []IInv
  <1>1. IInv /\ [Next]_vars => IInv'
    BY Inductive
  <1> QED
    BY <1>1, InvInit, PTL DEF Spec

\* A reader of the file finds a complete text, as long as one process at a
\* time writes it.
THEOREM Readable == ASSUME Alone PROVE Spec => []NeverTorn
  <1>1. IInv => NeverTorn
    BY DEF IInv
  <1> QED
    BY <1>1, Invariance, PTL

\* What is left of a temporary file when nobody writes is the doing of a call
\* that was killed, or whose unlink failed.
THEOREM NothingLeft == ASSUME Alone PROVE Spec => []NoOrphan
  <1>1. IInv => NoOrphan
    BY DEF IInv, TmpExplained, NoOrphan, MidWrite
  <1> QED
    BY <1>1, Invariance, PTL
-----------------------------------------------------------------------------
(* The register. *)

LEMMA RegisterInit == Init => Register!Init
  BY DEF Init, Register!Init, InFile, CallState, MidWrite

LEMMA RegisterStep ==
  ASSUME IInv, IInv', NEW w \in Writer, Step(w)
  PROVE  \/ Register!Call(w) \/ Register!Put(w) \/ Register!Throw(w) \/ Register!Die(w)
         \/ UNCHANGED <<InFile, [u \in Writer |-> CallState(u)], value>>
  <1> DEFINE call == [u \in Writer |-> CallState(u)]
  <1> USE ConstantsAssumption DEF IInv, TypeOK
  <1>1. CASE Call(w)
    <2>1. call[w] \in {"none", "ok", "threw", "dead"}
      BY <1>1 DEF Call, CallState, Ended, MidWrite
    <2>2. call' = [call EXCEPT ![w] = "pending"]
      BY <1>1 DEF Call, CallState, Goto, MidWrite, Ended
    <2>3. InFile' = InFile
      BY <1>1 DEF Call, InFile
    <2> QED
      BY <1>1, <2>1, <2>2, <2>3 DEF Register!Call, Register!Goto, Call
  <1>2. CASE Open(w) \/ OpenFails(w) \/ Write(w) \/ WriteFails(w) \/ RenameFails(w)
    <2>1. call' = call
      BY <1>2 DEF Open, OpenFails, Write, WriteFails, RenameFails, CallState,
         Goto, MidWrite
    <2>2. target' = target /\ (target # NoInode => text'[target] = text[target])
      <3>1. CASE Open(w)
        <4>1. PICK i \in Inode : /\ i \in IF tmp = NoInode THEN Unused ELSE {tmp}
                                 /\ text' = [text EXCEPT ![i] = Nothing]
          BY <3>1 DEF Open, Unused
        <4>2. i # target
          BY <4>1 DEF Unused, TmpOwned
        <4> QED
          BY <3>1, <4>1, <4>2 DEF Open
      <3>2. CASE Write(w) \/ WriteFails(w)
        BY <3>2 DEF Write, WriteFails, TmpOwned
      <3>3. CASE OpenFails(w) \/ RenameFails(w)
        BY <3>3 DEF OpenFails, RenameFails
      <3> QED
        BY <1>2, <3>1, <3>2, <3>3
    <2>3. InFile' = InFile
      BY <2>2 DEF InFile
    <2>4. value' = value
      BY <1>2 DEF Open, OpenFails, Write, WriteFails, RenameFails
    <2> QED
      BY <2>1, <2>3, <2>4
  <1>3. CASE Rename(w)
    <2>1. call[w] = "pending"
      BY <1>3 DEF Rename, CallState, MidWrite
    <2>2. call' = [call EXCEPT ![w] = "ok"]
      BY <1>3 DEF Rename, CallState, Goto, MidWrite
    <2>3. InFile' = value[w]
      BY <1>3 DEF Rename, InFile, TmpOwned
    <2> QED
      BY <1>3, <2>1, <2>2, <2>3 DEF Register!Put, Register!Goto, Rename
  <1>4. CASE Unlink(w) \/ UnlinkFails(w) \/ MkdirFails(w)
    <2>1. call[w] = "pending"
      BY <1>4 DEF Unlink, UnlinkFails, MkdirFails, CallState, MidWrite
    <2>2. call' = [call EXCEPT ![w] = "threw"]
      BY <1>4 DEF Unlink, UnlinkFails, MkdirFails, CallState, Goto, MidWrite
    <2>3. InFile' = InFile /\ value' = value
      BY <1>4 DEF Unlink, UnlinkFails, MkdirFails, InFile
    <2> QED
      BY <2>1, <2>2, <2>3 DEF Register!Throw, Register!Goto
  <1>5. CASE Die(w)
    <2>1. call[w] = "pending"
      BY <1>5 DEF Die, CallState, MidWrite
    <2>2. call' = [call EXCEPT ![w] = "dead"]
      BY <1>5 DEF Die, CallState, Goto, MidWrite
    <2>3. target' = target /\ (target # NoInode => text'[target] = text[target])
      BY <1>5 DEF Die, TmpOwned
    <2>4. InFile' = InFile
      BY <2>3 DEF InFile
    <2> QED
      BY <1>5, <2>1, <2>2, <2>4 DEF Register!Die, Register!Goto, Die
  <1> QED
    BY <1>1, <1>2, <1>3, <1>4, <1>5 DEF Step

\* Writes that do not overlap make of the file an atomic register: a call takes
\* effect whole or not at all, also when it fails or its process is killed.
THEOREM RegisterImplemented == ASSUME Alone PROVE Spec => ImplementsRegister
  <1>1. IInv /\ IInv' /\ [Next]_vars
          => [Register!Next]_<<InFile, [w \in Writer |-> CallState(w)], value>>
    <2> SUFFICES ASSUME IInv, IInv', [Next]_vars
                 PROVE  [Register!Next]_<<InFile, [w \in Writer |-> CallState(w)], value>>
      OBVIOUS
    <2>1. CASE UNCHANGED vars
      BY <2>1 DEF vars, InFile, CallState
    <2>2. CASE Next
      BY <2>2, NextIsStep, RegisterStep DEF Register!Next
    <2> QED
      BY <2>1, <2>2
  <1>2. Spec => []IInv
    BY Invariance
  <1>3. Init => Register!Init
    BY RegisterInit
  <1>4. Spec => Register!Spec
    BY <1>1, <1>2, <1>3, PTL DEF Spec, Register!Spec
  <1> QED
    BY <1>4 DEF ImplementsRegister
=============================================================================
