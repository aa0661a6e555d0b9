SPECIFICATION FairSpec
CONSTANTS
  Requests = {r1}
  a1 = a1
  a2 = a2
  b1 = b1
  A = A
  B = B
  Pages = {a1, a2, b1}
  Domains = {A, B}
  DomainOf <- MCDomainOf
  MaxTops = 2
  MaxLinks = 2
  MaxBudget = 3
  PerDomain = 1
  None = None
INVARIANTS
  PagesOnce
  ResultsFirst
  StartedOnce
PROPERTIES
  CrawlEnds
CHECK_DEADLOCK FALSE
