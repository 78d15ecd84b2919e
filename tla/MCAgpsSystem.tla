---------------------------- MODULE MCAgpsSystem ----------------------------
(* The AGPS system for TLC. *)
EXTENDS AgpsSystem, TLC

HandleSymmetry == Permutations(Handle)
=============================================================================
