SPECIFICATION MCSpec
CONSTANTS
  Calls = {c1, c2}
  WithCookies = {c1}
  Retries = 1
  NKeys = 1
  None = None
  MaxQueue = 3
INVARIANTS
  RequestsBounded
  ForeignCookiesNeedRedirect
  LostClientNeedsTor
PROPERTIES
  CallsEnd
  StreamReturns
CHECK_DEADLOCK FALSE
