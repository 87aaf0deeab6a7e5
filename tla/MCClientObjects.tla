--------------------------- MODULE MCClientObjects ---------------------------
EXTENDS ClientObjects, TLC

CONSTANTS p1, p2, c1, c2

Symmetry == Permutations(Parent) \cup Permutations(Child)
=============================================================================
