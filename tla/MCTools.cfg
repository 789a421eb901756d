CONSTANTS
  Kind = {k1, k2, lock}
  LockEvent = lock
  RetainedCap = 2
  PageLimit = 1
  MaxRows = 3
  MaxMoment = 1
  MaxChanges = 1
  Caller = {c1, c2}
  Cell = {m1, m2}
  Datum = {1}
  Button = {b1, b2}
  Nothing = Nothing
  Plan <- ButtonPlans
  MaxFreezes = 1
  MaxHoldCalls = 3
  MaxLoads = 1
  MaxHoldFaults = 1
  Pressable = {"b1"}
  Missing = Missing
  Foreign = Foreign
  StepLists <- ReplayLists
  MaxTicks = 1
  MaxUpsets = 2
  MessageId = {i1, i2, i3}
  MaxSteps = 2
  MaxPublished = 1
  LineRoom = 1
  MaxSent = 3
  ByteBase = 2
  MaxAddress = 4
  SpaceOrder = "little"
  SearchQueries <- SoughtPatterns
  DiffQueries <- Differences
  InlineLimit = 1
  DumpCap = 4
  MaxDumps = 2
  MaxPokes = 2
  CodeEnd = 3
  RomEnd = 2
  RamStart = 3
  Codes <- Programs
  Targets = {2}
  Trigger = {w1, w2}
  CaptureFilters <- Filters
  EntryLimit = 3
  AddressCap = 3
  SweepLimit = 2
  MinLength = 2
  MaxExecuted = 4
  MaxHits = 1
  MaxMishaps = 1
SPECIFICATION Spec
INVARIANTS
  ToolsTypeOK
  WalkExact
  FreezeSetSound
  
  VerdictSound
  
  ManifestFaithful
  
  CoverageFaithful
  StraightBlocks
  
CHECK_DEADLOCK FALSE
SYMMETRY Symmetry
