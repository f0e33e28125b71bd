---------------------------- MODULE MCVirtioDisk ----------------------------
EXTENDS VirtioDisk, TLC

CONSTANTS x1, x2, x3, d0, d1

MCSymmetry == {f @@ g : f \in Permutations({x1, x2, x3}), g \in Permutations({d0, d1})}
=============================================================================
