---------------------------- MODULE MCWorkspace ----------------------------
EXTENDS Workspace, TLC
Symmetry == Permutations(Thread) \cup Permutations(Artifact) \cup Permutations(Note)
              \cup Permutations(Snapshot) \cup Permutations(Context \ {Default})
=============================================================================
