SPECIFICATION Spec
CONSTANTS
    c1 = c1
    c2 = c2
    NoMsg = NoMsg
    CacheSize = 2
    ChannelSize = 1
    Attempts = 2
    ChannelOrder <- MCOrder
    Media <- MCMedia
    Configs <- MCAll
INVARIANTS
    Delivery
    MarkedMeansOver
    WakesToItsChannels
PROPERTIES
    ReadersEnd
    LoopsEnd
CHECK_DEADLOCK FALSE
