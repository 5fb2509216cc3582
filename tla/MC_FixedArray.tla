--------------------------- MODULE MC_FixedArray ---------------------------
EXTENDS FixedArray, TLC

CONSTANTS a, b, null

MC_Objs == {a, b}
\* Every member operation.
MC_AllOps == OptionalOps

\* The arrays are interchangeable and no property names one of them.
MC_Symmetry == Permutations(MC_Objs)
=============================================================================
