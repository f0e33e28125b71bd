------------------------------- MODULE MCProc -------------------------------
(* Small instances of Proc for TLC. *)
EXTENDS Proc, TLC

CONSTANTS c1, c2

MCSymmetry == Permutations(CPU)
=============================================================================
