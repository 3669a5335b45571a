----------------------------- MODULE AtomicWrite -----------------------------
(***************************************************************************)
(* atomicWriteJSON, system call by system call: open `<file>.tmp` (creating *)
(* or truncating it), write, rename it over the file; unlink it on an error. *)
(* Every process uses the same temporary name.  A file is an inode, which   *)
(* an open descriptor keeps even when the name has gone elsewhere.          *)
(***************************************************************************)
EXTENDS Integers

CONSTANTS
    Writer,   \* processes that write the file
    Value,    \* the texts they write
    Nothing,  \* no file; an empty one
    Torn,     \* a text that is not one of Value: a part, or a mixture
    Inode, NoInode,
    Alone     \* is a write not begun while another is under way?

ASSUME ConstantsAssumption ==
    /\ {Nothing, Torn} \cap Value = {} /\ Nothing # Torn
    /\ NoInode \notin Inode
    /\ Alone \in BOOLEAN

VARIABLES
    tmp,     \* the inode that `<file>.tmp` names
    target,  \* the inode that `<file>` names
    text,    \* text[i]: what inode i holds
    pc,      \* pc[w]: the next system call of w, or how its call ended
    fd,      \* fd[w]: the inode w has open
    value    \* value[w]: the text w writes

vars == <<tmp, target, text, pc, fd, value>>

MidWrite == {"open", "write", "rename", "unlink"}
\* How a call ended: "littered" is one that threw without having removed the
\* temporary file.
Ended == {"none", "ok", "threw", "littered", "dead"}
-----------------------------------------------------------------------------
Init ==
    /\ tmp = NoInode
    /\ target = NoInode
    /\ text = [i \in Inode |-> Nothing]
    /\ pc = [w \in Writer |-> "none"]
    /\ fd = [w \in Writer |-> NoInode]
    /\ value \in [Writer -> Value]

Goto(w, label) == pc' = [pc EXCEPT ![w] = label]

Call(w) ==
    /\ pc[w] \in Ended
    /\ Alone => \A u \in Writer : pc[u] \notin MidWrite
    /\ Goto(w, "open")
    /\ \E v \in Value : value' = [value EXCEPT ![w] = v]
    /\ UNCHANGED <<tmp, target, text, fd>>

Unused == Inode \ ({tmp, target} \cup {fd[u] : u \in Writer})

\* Seeded fault: the data goes to the file itself.
OpenTarget(w) ==
    /\ pc[w] = "open"
    /\ \E i \in IF target = NoInode THEN Unused ELSE {target} :
          /\ target' = i
          /\ text' = [text EXCEPT ![i] = Nothing]
          /\ fd' = [fd EXCEPT ![w] = i]
    /\ Goto(w, "write")
    /\ UNCHANGED <<tmp, value>>

\* open(tmp, O_WRONLY | O_CREAT | O_TRUNC)
Open(w) ==
    /\ pc[w] = "open"
    /\ \E i \in IF tmp = NoInode THEN Unused ELSE {tmp} :
          /\ tmp' = i
          /\ text' = [text EXCEPT ![i] = Nothing]
          /\ fd' = [fd EXCEPT ![w] = i]
    /\ Goto(w, "write")
    /\ UNCHANGED <<target, value>>

\* The directory is not there and cannot be made: this is before the try.
MkdirFails(w) ==
    /\ pc[w] = "open"
    /\ tmp = NoInode /\ target = NoInode
    /\ Goto(w, "threw")
    /\ UNCHANGED <<tmp, target, text, fd, value>>

\* The directory or the disk does not let it.
OpenFails(w) ==
    /\ pc[w] = "open"
    /\ Goto(w, "unlink")
    /\ UNCHANGED <<tmp, target, text, fd, value>>

\* From offset 0 of what the inode holds: a longer text that somebody else has
\* written in the meantime keeps its end.
Write(w) ==
    /\ pc[w] = "write"
    /\ \E x \in {value[w]}
                   \cup (IF text[fd[w]] \in {Nothing, value[w]} THEN {} ELSE {Torn}) :
          text' = [text EXCEPT ![fd[w]] = x]
    /\ Goto(w, "rename")
    /\ UNCHANGED <<tmp, target, fd, value>>

\* The disk is full.
WriteFails(w) ==
    /\ pc[w] = "write"
    /\ text' = [text EXCEPT ![fd[w]] = Torn]
    /\ Goto(w, "unlink")
    /\ UNCHANGED <<tmp, target, fd, value>>

Close(w) == fd' = [fd EXCEPT ![w] = NoInode]

Rename(w) ==
    /\ pc[w] = "rename"
    /\ tmp # NoInode
    /\ target' = tmp
    /\ tmp' = NoInode
    /\ Goto(w, "ok")
    /\ Close(w)
    /\ UNCHANGED <<text, value>>

\* ENOENT, if another process has renamed or unlinked the temporary file; or
\* an error of the file system.
RenameFails(w) ==
    /\ pc[w] = "rename"
    /\ Goto(w, "unlink")
    /\ UNCHANGED <<tmp, target, text, fd, value>>

\* Seeded fault: the temporary file is left behind.
UnlinkForgotten(w) ==
    /\ pc[w] = "unlink"
    /\ Goto(w, "threw")
    /\ Close(w)
    /\ UNCHANGED <<tmp, target, text, value>>

\* ENOENT is swallowed.
Unlink(w) ==
    /\ pc[w] = "unlink"
    /\ tmp' = NoInode
    /\ Goto(w, "threw")
    /\ Close(w)
    /\ UNCHANGED <<target, text, value>>

\* The error is swallowed, and the temporary file stays.
UnlinkFails(w) ==
    /\ pc[w] = "unlink"
    /\ tmp # NoInode
    /\ Goto(w, "littered")
    /\ Close(w)
    /\ UNCHANGED <<tmp, target, text, value>>

\* SIGKILL; in the middle of write(2), a part of the text gets there.
Die(w) ==
    /\ pc[w] \in MidWrite
    /\ \/ UNCHANGED text
       \/ pc[w] = "write" /\ text' = [text EXCEPT ![fd[w]] = Torn]
    /\ Goto(w, "dead")
    /\ Close(w)
    /\ UNCHANGED <<tmp, target, value>>

Next ==
    \E w \in Writer :
        \/ Call(w) \/ MkdirFails(w) \/ Open(w) \/ OpenFails(w) \/ Write(w)
        \/ WriteFails(w) \/ Rename(w) \/ RenameFails(w) \/ Unlink(w)
        \/ UnlinkFails(w) \/ Die(w)

Spec == Init /\ [][Next]_vars
-----------------------------------------------------------------------------
(* Correctness *)

Text == Value \cup {Nothing, Torn}
TypeOK ==
    /\ tmp \in Inode \cup {NoInode}
    /\ target \in Inode \cup {NoInode}
    /\ text \in [Inode -> Text]
    /\ pc \in [Writer -> MidWrite \cup Ended]
    /\ fd \in [Writer -> Inode \cup {NoInode}]
    /\ value \in [Writer -> Value]
    /\ \A w \in Writer : pc[w] \in {"write", "rename"} => fd[w] # NoInode

\* Whoever reads the file finds a complete text, whatever crashed when
\* (execution-state.ts:84: the target is only swapped in once the temporary
\* file is fully on disk).
NeverTorn == target # NoInode => text[target] \in Value

\* A temporary file that is left when nobody writes stems from a process whose
\* last call was killed, or could not unlink it ("so we don't leak `.tmp`
\* orphans" is best effort, execution-state.ts:103); once each of them has got
\* through another call, it is gone.
NoOrphan == (\A w \in Writer : pc[w] \in {"none", "ok", "threw"}) => tmp = NoInode

\* The writers see an AtomicRegister.
InFile == IF target = NoInode THEN Nothing ELSE text[target]
CallState(w) ==
    CASE pc[w] \in MidWrite -> "pending"
      [] pc[w] = "littered"  -> "threw"
      [] OTHER               -> pc[w]
Register == INSTANCE AtomicRegister
                WITH file <- InFile, call <- [w \in Writer |-> CallState(w)]
ImplementsRegister == Register!Spec
=============================================================================
