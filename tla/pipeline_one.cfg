SPECIFICATION FairSpec
CONSTANTS
  Searches = {s1}
  Engines = {e1, e2}
  e1 = e1
  e2 = e2
  e3 = e3
  n1 = n1
  n2 = n2
  Networks = {n1}
  NetworkOf <- MCNetworkOf
  Offline = {e2}
  LateInit = {e2}
  ShowsErrors = {e1, e2}
  EngineTimeout <- MCEngineTimeout
  None = None
  MaxRequestTimeout = 2
  QueryLimits = {None, 1, 3}
  BanTimeOnFail = 1
  MaxBanTime = 3
  DeniedBanTime = 2
  LastStart = 2
  Horizon = 4
INVARIANTS
  TypeOK
  EveryEngineAccounted
  CrashNeedsLateResult
PROPERTIES
  DeadlineKept
  ImplementsContract
  SearchReturns
CHECK_DEADLOCK FALSE
