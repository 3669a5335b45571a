---------------------------- MODULE MCBudgetGate ----------------------------
(* Two sessions; the default thresholds on a ceiling of 10 dollars. *)
EXTENDS BudgetGate, TLC

CONSTANTS s1, s2

Sessions == {s1, s2}
Renaming == Permutations(Sessions)
Raising == {5, 40}
Costs == {3, 7}
=============================================================================
