---------------------------- MODULE MCDebugStops ----------------------------
EXTENDS DebugStops, TLC
Symmetry == Permutations(Thread)
=============================================================================
