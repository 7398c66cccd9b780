\* Two jobs, each in one handler's hands at a time, every crawl.
SPECIFICATION WorkSpec
CONSTANTS
  None = None
  j1 = j1
  j2 = j2
  h1 = h1
  h2 = h2
  Jobs = {j1, j2}
  Handlers = {h1, h2}
  Outcomes = {"succeeded", "failed_retryable", "failed_terminal"}
  ErrorCodes = {"parser_error"}
  Exclusive = TRUE
  AttemptBound = 3
  WorkerMax = 2
  MaxBytes <- SomeMaxBytes
  Sizes = {0, 2, 4}
INVARIANTS
  FetchesWithinLimits
  OnePatternPerSuccess
  AttemptsCountFailures
  SuccessIsLastWord
  OutcomeFitsCrawl
PROPERTIES
  LifecycleImplemented
  RequeuedWithinPolicy
SYMMETRY Symmetry
