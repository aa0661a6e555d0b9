SPECIFICATION MCSpec
CONSTANTS
  Threads = {t1, t2}
  Horizon = 2
  None = None
  Keys = {k1}
  Period = 1
  MaxHold = 1
  MaxPassword = 2
  Authorities = {d1, d2, d3}
  a1 = a1
  a2 = a2
  big = big
  Icons = {a1, a2, big}
  Bytes <- MCBytes
  BlobMax = 2
  Limit = 1
  HoldTime = 1
  IconPeriod = 0
  Fallback = Fallback
  Clients = {c1}
  ApiWindow = 2
  ApiMax = 1
  BurstWindow = 1
  BurstMax = 2
  LongWindow = 2
  LongMax = 2
  SuspiciousWindow = 3
  SuspiciousMax = 2
  BurstMaxSuspicious = 1
  LongMaxSuspicious = 1
  PingLive = 1
  TokenLive = 1
  MaxRequests = 3
  MaxTokens = 3
  Engines = {e1, e2}
  Pages = {p1}
  Ids = {i1}
  MaxTitle = 1
  MaxResults = 2
  Nothing = Nothing
  x1 = x1
  Categories = {x1, x2, x3}
  MaxRank = 7
  MaxCount = 2
  MaxDistance = 3
  NoGroup = NoGroup
  Commands = {s1}
  Pids = {n1, n2}
  MaxPort = 1
  NoPid = NoPid
INVARIANTS
  
  
  MissingIconNeedsMaintenance
  
  LiveTokensBounded
  LossNeedsTypedMerge
  DuplicatesNeedRace
  SameCategoryInOrder
  BoundedJump
  ServersNamed
PROPERTIES
  OverLimitNeedsShared
SYMMETRY Perms
CHECK_DEADLOCK FALSE
