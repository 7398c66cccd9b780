\* Two planners of one queue and one limiter, one of which may fail.
SPECIFICATION Spec
CONSTANTS
  w1 = w1
  w2 = w2
  d1 = d1
  u1 = u1
  u2 = u2
  Workers = {w1, w2}
  Urls = {u1, u2}
  Domains = {d1}
  DomainOf <- MCDomainOf
  Seeds <- MCSeeds
  MaxDepth = 0
  MaxPages = None
  SameDomainOnly = FALSE
  AllowedDomains = {}
  None = None
  RobotsDelays = {0}
  DefaultDelay = 1
  Cap = 1
  CappedPlanners = {w1}
  Day = 3
  Prompt = TRUE
  MaxFailures = 1
INVARIANTS
  PlannerInv
PROPERTIES
  LedgerImplemented
