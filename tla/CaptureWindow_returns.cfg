CONSTANTS
  Thread = {t1, t2}
  Client = Client
  None = None
  MaxCalls = 2
  MaxMoment = 0
  MaxToggles = 0
SPECIFICATION FairSpec
PROPERTIES
  CaptureReturns
