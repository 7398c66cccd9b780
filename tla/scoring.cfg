\* Feature dicts on a grid around the thresholds, revised key by key.
SPECIFICATION Spec
CONSTANT Values <- GridValues
INVARIANTS
  GoldenRegions
  GateStopsMisses
  LowIsUnreconstructable
PROPERTIES
  EvidenceNeverHelps
