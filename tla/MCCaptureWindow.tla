-------------------------- MODULE MCCaptureWindow --------------------------
EXTENDS CaptureWindow, TLC
Symmetry == Permutations(Thread)
=============================================================================
