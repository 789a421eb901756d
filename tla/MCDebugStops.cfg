CONSTANTS
  Thread = {t1, t2}
  Breakpoint = {1}
  Watchpoint = {2}
  Every = {2}
  None = None
  MaxCalls = 3
  MaxStops = 1
  ListsMayFail = TRUE
SPECIFICATION Spec
INVARIANTS
  TypeOK
  StopsAreReal
  UntilHonest
PROPERTIES
  WindowOwnsRemoval
SYMMETRY Symmetry
