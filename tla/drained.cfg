\* One source, operators, reviewers and crawlers; a deletion is propagated only
\* while the source is neither crawled nor approved, and neither begins after it.
SPECIFICATION Spec
CONSTANTS
  None = None
  s1 = s1
  s2 = s2
  p1 = p1
  p2 = p2
  r1 = r1
  r2 = r2
  n1 = n1
  x1 = x1
  x2 = x2
  d1 = d1
  Sources = {s1}
  Patterns = {p1, p2}
  Requests = {r1}
  Snapshots = {n1}
  Sessions = {x1, x2}
  Domains = {d1}
  DomainOf <- MCDomainOf
  Features <- SafeOnly
  PatternLicenses = {"allowed"}
  ClueOf <- RegisteredClues
  Ops <- Operators
  MatchedRequests = TRUE
  Drained = TRUE
INVARIANTS
  DeletionComplete
SYMMETRY SessionSymmetry
