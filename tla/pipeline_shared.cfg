SPECIFICATION Spec
CONSTANTS
  Searches = {s1, s2}
  Engines = {e1}
  e1 = e1
  e2 = e2
  e3 = e3
  n1 = n1
  n2 = n2
  Networks = {n1}
  NetworkOf <- MCNetworkOf
  Offline = {}
  LateInit = {}
  ShowsErrors = {e1}
  EngineTimeout <- MCEngineTimeout
  None = None
  MaxRequestTimeout = None
  QueryLimits = {None}
  BanTimeOnFail = 1
  MaxBanTime = 3
  DeniedBanTime = 2
  LastStart = 3
  Horizon = 4
INVARIANTS
  InTimeResultsKept
  OutcomeCountedOnce

  
CHECK_DEADLOCK FALSE
