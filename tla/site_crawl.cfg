\* One worker, two seeds, at most four pages.
SPECIFICATION Spec
CONSTANTS
  None = None
  u1 = u1
  u2 = u2
  u3 = u3
  u4 = u4
  u5 = u5
  u6 = u6
  d1 = d1
  d2 = d2
  w1 = w1
  Workers = {w1}
  Urls = {u1, u2, u3, u4, u5, u6}
  Domains = {d1, d2}
  DomainOf <- MCDomainOf
  Seeds <- TwoSeeds
  MaxDepth = 2
  MaxPages = 4
  SameDomainOnly = TRUE
  AllowedDomains = {}
  Webs <- SparseWebs
INVARIANTS
  CrawlIsBreadthFirst
  TakenOnce
  WithinMaxPages
PROPERTIES
  CrawlEnds
