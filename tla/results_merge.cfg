SPECIFICATION PoolSpec
CONSTANTS
  Engines = {e1, e2}
  Pages = {p1}
  Ids = {i1}
  MaxTitle = 1
  MaxResults = 2
  Nothing = Nothing
INVARIANTS
  MergeKeepsEngines
CHECK_DEADLOCK FALSE
