\* A worker dies between INCR and EXPIRE.
SPECIFICATION Spec
CONSTANTS
  None = None
  w1 = w1
  w2 = w2
  w3 = w3
  d1 = d1
  Workers = {w1, w2}
  Domains = {d1}
  Calls <- CappedCalls
  Cap = 2
  Day = 3
  Prompt = FALSE
  Resets = FALSE
  MaxDeaths = 1
PROPERTIES
  CapRenewed
