SPECIFICATION Spec
CONSTANTS
  Requests = {r1, r2}
  a1 = a1
  a2 = a2
  b1 = b1
  A = A
  B = B
  Pages = {a1, a2}
  Domains = {A}
  DomainOf <- MCDomainOf
  MaxTops = 2
  MaxLinks = 1
  MaxBudget = 3
  PerDomain = 2
  None = None
INVARIANTS
  
  ClosedUnused
CHECK_DEADLOCK FALSE
SYMMETRY Perms
