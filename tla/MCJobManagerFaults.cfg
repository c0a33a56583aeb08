CONSTANTS
  NJobs = 2
  InitialJobs = 0
  TaskOf <- OneTask
  CreatedTime <- SameTick
  MaxRetryTimes = 2
  Handlers = {h1, h2, h3}
  Workers = {w1, w2}
  None = None
  RowLocks = TRUE
  ReportFieldReadable = TRUE
  Verdicts = {"valid", "empty"}
  FetchOutcomes = {"ok", "err"}
  StatusOutcomes = {"ok", "err", "late"}
  SubmitOutcomes = {"ok", "err", "late"}
  DbOutcomes = {"ok", "err"}
  Faults = {"worker", "crash"}
SPECIFICATION Spec
SYMMETRY Symmetry
INVARIANTS TypeOK ExclusiveOwner Ownership RetryNotStale FailedExhausted PlatformTruthful OneReportPerAttempt
PROPERTY TerminalFinal
