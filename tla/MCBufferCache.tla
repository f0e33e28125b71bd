--------------------------- MODULE MCBufferCache ---------------------------
EXTENDS BufferCache, TLC

CONSTANTS p1, p2, p3, b1, b2, b3, d0, d1

MCSymmetry == Permutations({p1, p2, p3}) \cup Permutations({b1, b2, b3})
                  \cup Permutations({d0, d1})
=============================================================================
