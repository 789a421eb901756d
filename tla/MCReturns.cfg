CONSTANTS
  None = None
  ControlId = {c1, c2}
  SchedulerThread = {t1, t2}
  SchedulerCalls = 2
  UntilThread = {t1}
  Breakpoint = {1}
  Watchpoint = {2}
  Every = {1}
  UntilCalls = 2
  Caller = {a1, a2}
  Cell = {m1}
  Datum = {1}
  Button = {b1}
  Nothing = Nothing
  Plan <- OneButtonPlans
  HoldCalls = 2
  MessageId = {i1, i2}
  MaxSteps = 1
  MaxPublished = 1
  LineRoom = 1
  MaxSent = 2
SPECIFICATION FairSpec
PROPERTIES
  MutationReturns
  UntilEnds
  FrozenIsRewritten
  RunEnds
CHECK_DEADLOCK FALSE
