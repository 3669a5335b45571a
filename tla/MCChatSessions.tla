--------------------------- MODULE MCChatSessions ---------------------------
(* Three turns in two chats, and a user who switches between two models. *)
EXTENDS ChatSessions, TLC

CONSTANTS t1, t2, t3, c1, c2, m1, m2

Turns == {t1, t2, t3}
Chats == {c1, c2}
Models == {m1, m2}
Renaming == Permutations(Turns) \cup Permutations(Chats) \cup Permutations(Models)
=============================================================================
