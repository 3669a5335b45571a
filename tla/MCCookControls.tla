--------------------------- MODULE MCCookControls ---------------------------
(* Two cook sessions, interchangeable. *)
EXTENDS CookControls, TLC

CONSTANTS s1, s2

Sessions == {s1, s2}
Renaming == Permutations(Sessions)
=============================================================================
