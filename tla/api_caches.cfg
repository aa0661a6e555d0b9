SPECIFICATION Spec
CONSTANTS
  Threads = {t1, t2}
  Urls = {u1, u2, u3}
  Keys = {u1, u2, u3}
  KeyOf <- MCKeyOf
  FastUrls = {u1, u2, u3}
  CacheTtl = 2
  Low = 0
  High = 0
  FastTtl = 1
  MaxFast = 1
  None = None
  Error = Error
  Horizon = 4
INVARIANTS
  TypeOK
  CacheBounded
  FastBounded
PROPERTY
  AnswerFresh
SYMMETRY MCSymmetry
CHECK_DEADLOCK FALSE
