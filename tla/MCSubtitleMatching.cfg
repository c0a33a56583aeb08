SPECIFICATION Spec
CONSTANTS
    Jobs <- MCJobs
    Texts <- MCTexts
    Blocks = 2
    RoundLimits = {1, 9}
    MaxFrames = 3
    Compare <- compare
    Matches <- NewMatches
    LongText = 100
    Unit = 60
    CharGap = 1
    Ttl = 1
INVARIANTS
    MasksTruthful
    CountsAgree
    MissedExact
    AppearancesExact
CHECK_DEADLOCK FALSE
