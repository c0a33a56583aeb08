SPECIFICATION Spec
CONSTANTS
    Jobs <- MCJobs
    Answers <- MCAnswers
    Keywords <- MCKeywords
    DocThreshold = 85
    IdLimit = 2
    Characters = {1, 2, 3, 9}
    MaxImages = 5
INVARIANTS
    VerdictFollowsVideo
    SightingsCovered
    BestShown
CHECK_DEADLOCK FALSE
