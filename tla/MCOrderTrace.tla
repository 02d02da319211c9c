---------------------------- MODULE MCOrderTrace ----------------------------
(* OrderTrace for TLC.                                                      *)
EXTENDS OrderTrace, TLC

Symmetry == Permutations(Jobs)
=============================================================================
