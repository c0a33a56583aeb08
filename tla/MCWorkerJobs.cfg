SPECIFICATION Spec
CONSTANTS
    Jobs <- MCJobs
    Loops = {l1, l2}
    MaxTries = 2
    Configs <- MCAll
INVARIANTS
    SlotsTruthful
    ContextMatchesRun
    ReportComplete
    ThreadsWaitedFor
    OpenChannelsReachable
PROPERTIES
    RunsEnd
CHECK_DEADLOCK FALSE
