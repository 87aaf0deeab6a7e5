--------------------------- MODULE MCParentWindows ---------------------------
EXTENDS ParentWindows, TLC

CONSTANTS p1, p2, u1, u2, s1, s2

MCDirections == <<"asc">>
Symmetry == Permutations(Parent) \cup Permutations(User) \cup Permutations(Client)
=============================================================================
