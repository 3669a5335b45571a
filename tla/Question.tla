------------------------------- MODULE Question -------------------------------
(***************************************************************************)
(* What askUser promises its caller: a question is decided once, and whoever *)
(* asked learns that decision, or gives up.                                  *)
(***************************************************************************)
CONSTANTS
    Prompt,
    Answer,
    NoAnswer,  \* not decided, not told
    GaveUp     \* the call has thrown

VARIABLES
    decided,   \* decided[q]: the first answer anybody has given
    told       \* told[q]: what the asker's call has returned

Init ==
    /\ decided = [q \in Prompt |-> NoAnswer]
    /\ told = [q \in Prompt |-> NoAnswer]

Decide(q, a) ==
    /\ decided[q] = NoAnswer
    /\ decided' = [decided EXCEPT ![q] = a]
    /\ UNCHANGED told

Tell(q) ==
    /\ told[q] = NoAnswer
    /\ decided[q] # NoAnswer
    /\ told' = [told EXCEPT ![q] = decided[q]]
    /\ UNCHANGED decided

\* Without a dashboard the question is decided where it is asked.
DecideAlone(q, a) ==
    /\ told[q] = NoAnswer
    /\ decided[q] = NoAnswer
    /\ decided' = [decided EXCEPT ![q] = a]
    /\ told' = [told EXCEPT ![q] = a]

GiveUp(q) ==
    /\ told[q] = NoAnswer
    /\ told' = [told EXCEPT ![q] = GaveUp]
    /\ UNCHANGED decided

Next ==
    \E q \in Prompt :
        \/ Tell(q)
        \/ GiveUp(q)
        \/ \E a \in Answer : Decide(q, a) \/ DecideAlone(q, a)

Spec == Init /\ [][Next]_<<decided, told>>
=============================================================================
