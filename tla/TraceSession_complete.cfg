CONSTANTS
  Thread = {t1}
  None = None
  t1 = t1
  Modes = {"continuous"}
  MaxSegments = 2
  Chunk = 3
  Budget = 6
  MaxEvents = 2
  PageLimit = 1
  MaxRecords = 2
  MaxRotations = 2
  MaxSessions = 1
  MaxCalls = 2
  MaxFaults = 0
SPECIFICATION Spec
INVARIANTS
  CompleteIsComplete
