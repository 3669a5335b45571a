---------------------------- MODULE MCAtomicWrite ----------------------------
(***************************************************************************)
(* AtomicWrite with two processes that write two texts again and again: an  *)
(* inode per descriptor, one for the file and one to create.                *)
(***************************************************************************)
EXTENDS AtomicWrite, TLC

Renaming == Permutations(Inode) \cup Permutations(Value)
=============================================================================
