SPECIFICATION SpeechSpec
CONSTANTS
    Tasks <- MCTasks
    Alphabet <- MCAlphabet
    RuleIds = {1, 2}
    Comma = ","
    Symbols <- MCSymbols
    Lower <- MCLower
    ShortSize = 1
    MaxText = 4
INVARIANTS
    ScriptsHeard
    BannedShown
CHECK_DEADLOCK FALSE
