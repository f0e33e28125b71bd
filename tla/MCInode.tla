------------------------------ MODULE MCInode ------------------------------
EXTENDS Inode, TLC

CONSTANTS p1, p2, p3, n1, n2

MCSymmetry == {f @@ g : f \in Permutations({p1, p2, p3}), g \in Permutations({n1, n2})}
=============================================================================
