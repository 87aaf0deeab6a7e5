------------------------------ MODULE MCIncludes ------------------------------
EXTENDS Includes, TLC

CONSTANTS p1, p2, c1, s1, s2

Symmetry == Permutations(Root) \cup Permutations(Client)
=============================================================================
