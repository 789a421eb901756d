CONSTANTS
  Thread = {t1, t2}
  Default = main
  Context = {main, x, y}
  Artifact = {a1, a2}
  Capture = {k1}
  Note = {n1, n2}
  Snapshot = {s1, s2}
  None = None
  MaxNotes = 1
  MaxSnapshots = 1
  MaxCalls = 4
  MaxFaults = 2
SPECIFICATION WorkspaceSpec
INVARIANTS
  WorkspaceTypeOK
  EntriesHaveBytes
  
  RemovalsHold
  SnapshotsReadable
CHECK_DEADLOCK FALSE
SYMMETRY Symmetry
