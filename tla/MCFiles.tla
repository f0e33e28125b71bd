------------------------------- MODULE MCFiles -------------------------------
EXTENDS Files, TLC

CONSTANTS p1, p2

MCImage == <<1, 0, 0>>
MCBuf == {[n |-> 4, mapped |-> 4], [n |-> 4, mapped |-> 1]}
MCCount == {-1, 1}

Symmetry == Permutations(Proc)

\* balloc zeroes what it returns: what is in a free block makes no difference.
Seen(dd) ==
    [b \in DOMAIN dd |-> IF b >= NMETA /\ b \notin dd[BBLOCK(b)] THEN 0 ELSE dd[b]]

View ==
    <<Seen(d), Seen(disk), trans, op, ip, lock, fd, file, th, panicked, writes,
      content, saved, overran>>
=============================================================================
