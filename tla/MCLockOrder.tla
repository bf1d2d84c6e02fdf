---------------------------- MODULE MCLockOrder ----------------------------
(* LockOrder for TLC.                                                      *)
EXTENDS LockOrder, TLC

Symmetry == Permutations(CPUs)
=============================================================================
