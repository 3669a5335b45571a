----------------------------- MODULE SignalSlot ------------------------------
(***************************************************************************)
(* What a control signal may count on: signals are numbered as they are     *)
(* written; a session is handed each at most once and in order, and may     *)
(* miss any of them.                                                        *)
(***************************************************************************)
EXTENDS Integers, Sequences

CONSTANT Session

VARIABLES
    written,  \* written[s]: how many signals have been written for session s
    taken     \* taken[s]: the numbers of those it has been handed, in order

Init ==
    /\ written = [s \in Session |-> 0]
    /\ taken = [s \in Session |-> <<>>]

Write(s) ==
    /\ written' = [written EXCEPT ![s] = @ + 1]
    /\ UNCHANGED taken

Take(s) ==
    /\ \E n \in 1..written[s] :
          /\ \A k \in DOMAIN taken[s] : taken[s][k] < n
          /\ taken' = [taken EXCEPT ![s] = Append(@, n)]
    /\ UNCHANGED written

Next == \E s \in Session : Write(s) \/ Take(s)

Spec == Init /\ [][Next]_<<written, taken>>
=============================================================================
