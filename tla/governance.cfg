\* One source, two handlers at a time, operators, a privacy reviewer and a pattern reviewer.
SPECIFICATION Spec
CONSTANTS
  None = None
  s1 = s1
  s2 = s2
  p1 = p1
  p2 = p2
  r1 = r1
  r2 = r2
  n1 = n1
  x1 = x1
  x2 = x2
  d1 = d1
  Sources = {s1}
  Patterns = {p1}
  Requests = {r1}
  Snapshots = {}
  Sessions = {x1, x2}
  Domains = {d1}
  DomainOf <- MCDomainOf
  Features <- SafeOrRisky
  PatternLicenses = {"conditional_approved"}
  ClueOf <- ImportedClues
  Ops <- Reviewers
  MatchedRequests = TRUE
  Drained = FALSE
INVARIANTS
  GovernanceInv
  RetiredNeverOperational
  GovernanceIsFinal
  CheckedHasPolicy
  VerdictMatchesLicense
PROPERTIES
  NeverReoperational
SYMMETRY SessionSymmetry
