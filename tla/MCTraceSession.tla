--------------------------- MODULE MCTraceSession ---------------------------
EXTENDS TraceSession
Symmetry == Permutations(Thread)
=============================================================================
