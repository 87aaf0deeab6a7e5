--------------------------- MODULE MCRelationGraph ---------------------------
EXTENDS RelationGraph, TLC
Symmetry == Permutations(Id)
=============================================================================
