---------------------------- MODULE MCUserPrompts ----------------------------
(***************************************************************************)
(* One question and two tabs that may answer it differently.  One tab has   *)
(* been open for a while, the other may be opened at any moment.            *)
(***************************************************************************)
EXTENDS UserPrompts, TLC

CONSTANTS q1, t1, t2, yes, no

Prompts == {q1}
Tabs == {t1, t2}
Answers == {yes, no}

MCInit ==
    /\ asker = [q \in Prompt |-> "idle"]
    /\ learned = [q \in Prompt |-> NoAnswer]
    /\ pending = {}
    /\ stream = [c \in Client |-> IF c = t1 THEN [Closed EXCEPT !.phase = "live"] ELSE Closed]
    /\ cards = [t \in Tab |-> {}]
    /\ boot = [t \in Tab |-> IF t = t1 THEN "done" ELSE "unmounted"]
    /\ reply = [t \in Tab |-> {}]
    /\ posts = {}
    /\ breaks = 0
    /\ accepted = [q \in Prompt |-> NoAnswer]
    /\ unheard = {}
    /\ missed = [t \in Tab |-> {}]

MCSpec == MCInit /\ [][Next]_vars /\ Fairness
=============================================================================
