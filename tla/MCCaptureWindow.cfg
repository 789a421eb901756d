CONSTANTS
  Thread = {t1, t2}
  Client = Client
  None = None
  MaxCalls = 3
  MaxMoment = 1
  MaxToggles = 1
SPECIFICATION Spec
INVARIANTS
  TypeOK
  
  GuardNeverLeaks
SYMMETRY Symmetry
