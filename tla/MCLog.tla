------------------------------- MODULE MCLog -------------------------------
(* Small instances of Log for TLC. *)
EXTENDS Log, TLC

CONSTANTS p1, p2, p3, b1, b2, b3, d0, d1

MCSymmetry == Permutations(Proc) \cup Permutations(Block) \cup Permutations(Data)
=============================================================================
