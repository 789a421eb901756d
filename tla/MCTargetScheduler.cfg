CONSTANTS
  Thread = {t1, t2, t3}
  ControlId = {c1, c2, c3}
  None = None
  MaxCalls = 3
SPECIFICATION Spec
INVARIANTS
  TypeOK
  AuditTrailOrdered
  GenerationAccounted
  
  
  LockEndReported
PROPERTIES
  ImplementsRevisionHistory
  NoForeignMutation
SYMMETRY Symmetry
