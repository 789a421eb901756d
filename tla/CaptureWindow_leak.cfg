CONSTANTS
  Thread = {t1, t2}
  Client = Client
  None = None
  MaxCalls = 2
  MaxMoment = 1
  MaxToggles = 0
SPECIFICATION Spec
INVARIANTS
  CaptureNeverLeaks
SYMMETRY Symmetry
