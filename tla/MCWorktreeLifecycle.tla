------------------------- MODULE MCWorktreeLifecycle -------------------------
(***************************************************************************)
(* Values of WorktreeLifecycle's constants for the model checker.          *)
(***************************************************************************)
EXTENDS WorktreeLifecycle, TLC

NoOperator == {}
PruneOnly == {"prune"}
AllCleanup == {"prune", "force"}

PidSymmetry == Permutations(Proc)
=============================================================================
