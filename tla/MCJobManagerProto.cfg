CONSTANTS
  NJobs = 2
  InitialJobs = 1
  TaskOf <- TwoTasks
  CreatedTime <- InOrder
  MaxRetryTimes = 2
  Handlers = {h1, h2}
  Workers = {w1, w2}
  None = None
  RowLocks = TRUE
  ReportFieldReadable = FALSE
  Verdicts = {"valid"}
  FetchOutcomes = {"ok"}
  StatusOutcomes = {"ok"}
  SubmitOutcomes = {"ok"}
  DbOutcomes = {"ok"}
  Faults = {}
SPECIFICATION Spec
INVARIANT ValidReportsSucceed
