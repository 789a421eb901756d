------------------------- MODULE MCTargetScheduler -------------------------
EXTENDS TargetScheduler, TLC
Symmetry == Permutations(Thread) \cup Permutations(ControlId)
=============================================================================
