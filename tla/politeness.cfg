\* Three workers that may die inside acquire.
SPECIFICATION Spec
CONSTANTS
  None = None
  w1 = w1
  w2 = w2
  w3 = w3
  d1 = d1
  Workers = {w1, w2, w3}
  Domains = {d1}
  Calls <- SomeCalls
  Cap = 2
  Day = 4
  Prompt = TRUE
  Resets = TRUE
  MaxDeaths = 2
INVARIANTS
  PolitenessInv
  CapPerWindow
  GrantsSpaced
  RemainingIsExact
SYMMETRY WorkerSymmetry
