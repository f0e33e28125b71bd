----------------------------- MODULE MCConsole -----------------------------
(* Small instances of Console for TLC. *)
EXTENDS Console, TLC

CONSTANTS p1, p2

MCSymmetry == Permutations(Reader)

\* What the steps and the properties can still tell apart: of the ring only what
\* is not read yet; of current_cm, from index on, only where a newline is left,
\* since a cell is written before index passes it; and neither the rows of the
\* history nor last, which are only written.
MCView ==
    <<Between(r, e), r, w, e, lock, index, row, lastCommandIndex,
      [k \in Cells |-> IF k < index \/ current_cm[k] = "NL" THEN current_cm[k] ELSE "NUL"],
      pc, left, got, killed, status>>
=============================================================================
