------------------------------- MODULE MCPipe -------------------------------
(* Small instances of Pipe for TLC. *)
EXTENDS Pipe, TLC

CONSTANTS w1, w2, r1, r2, x, y

MCSymmetry == Permutations(Writer) \cup Permutations(Reader) \cup Permutations(Byte)
=============================================================================
