CONSTANTS
  Thread = {t1, t2}
  None = None
  t1 = t1
  t2 = t2
  Modes = {"continuous", "sampled"}
  MaxSegments = 1
  Chunk = 3
  Budget = 3
  MaxEvents = 2
  PageLimit = 1
  MaxRecords = 3
  MaxRotations = 2
  MaxSessions = 2
  MaxCalls = 3
  MaxFaults = 1
SYMMETRY Symmetry
SPECIFICATION Spec
INVARIANTS
  TypeOK
  DrainExact
  NoSilentLoss
  PagingHonest
