CONSTANTS
  NJobs = 2
  InitialJobs = 1
  TaskOf <- TwoTasks
  CreatedTime <- InOrder
  MaxRetryTimes = 2
  Handlers = {h1, h2}
  Workers = {w1, w2}
  None = None
  RowLocks = TRUE
  ReportFieldReadable = TRUE
  Verdicts = {"valid", "empty"}
  FetchOutcomes = {"ok", "err"}
  StatusOutcomes = {"ok", "err"}
  SubmitOutcomes = {"ok", "err", "late"}
  DbOutcomes = {"ok"}
  Faults = {}
SPECIFICATION FairSpec
INVARIANTS NoStrandedJob SuccessDelivered
PROPERTIES JobsEnd ImplementsLifecycle
