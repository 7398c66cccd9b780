\* A planner that enqueues two jobs in one transaction.
SPECIFICATION Spec
CONSTANTS
  None = None
  k1 = k1
  k2 = k2
  x1 = x1
  x2 = x2
  x3 = x3
  Keys = {k1, k2}
  Sessions = {x1, x2, x3}
  Batches <- Planner
INVARIANTS
  CreatedMeansStored
SYMMETRY SessionSymmetry
