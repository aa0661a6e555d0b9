SPECIFICATION Spec
CONSTANTS
  Searches = {s1}
  Engines = {e2}
  e1 = e1
  e2 = e2
  e3 = e3
  n1 = n1
  n2 = n2
  Networks = {n1}
  NetworkOf <- MCNetworkOf
  Offline = {}
  LateInit = {}
  ShowsErrors = {e2}
  EngineTimeout <- MCEngineTimeout
  None = None
  MaxRequestTimeout = None
  QueryLimits = {None}
  BanTimeOnFail = 1
  MaxBanTime = 3
  DeniedBanTime = 2
  LastStart = 1
  Horizon = 2
PROPERTIES
  ClosedPoolFrozen
CHECK_DEADLOCK FALSE
