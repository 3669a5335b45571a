---------------------------- MODULE AtomicRegister ----------------------------
(***************************************************************************)
(* What atomicWriteJSON promises its callers: a call that returns has put   *)
(* its value in the file, whole and in one step; one that throws, or whose  *)
(* process dies before it returns, has left the file alone.                 *)
(* AtomicWrite is shown to implement this module when nobody else writes    *)
(* the same file in the meantime.                                           *)
(***************************************************************************)
CONSTANTS Writer, Value, Nothing

VARIABLES
    file,   \* the value in the file, or Nothing
    call,   \* call[w]: "none", "pending", "ok", "threw" or "dead"
    value   \* value[w]: the argument of w's call

Init ==
    /\ file = Nothing
    /\ call = [w \in Writer |-> "none"]
    /\ value \in [Writer -> Value]

Goto(w, x) == call' = [call EXCEPT ![w] = x]

Call(w) ==
    /\ call[w] \in {"none", "ok", "threw", "dead"}
    /\ Goto(w, "pending")
    /\ \E v \in Value : value' = [value EXCEPT ![w] = v]
    /\ UNCHANGED file

\* The call returns.
Put(w) ==
    /\ call[w] = "pending"
    /\ Goto(w, "ok")
    /\ file' = value[w]
    /\ UNCHANGED value

Throw(w) == call[w] = "pending" /\ Goto(w, "threw") /\ UNCHANGED <<file, value>>
Die(w) == call[w] = "pending" /\ Goto(w, "dead") /\ UNCHANGED <<file, value>>

Next == \E w \in Writer : Call(w) \/ Put(w) \/ Throw(w) \/ Die(w)

Spec == Init /\ [][Next]_<<file, call, value>>
=============================================================================
