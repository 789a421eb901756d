CONSTANTS
  Thread = {t1, t2}
  ControlId = {c1, c2, c3}
  None = None
  MaxCalls = 3
SPECIFICATION Spec
INVARIANTS
  ReadRoundTripSafe
SYMMETRY Symmetry
