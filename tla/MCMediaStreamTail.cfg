SPECIFICATION Spec
CONSTANTS
    c1 = c1
    c2 = c2
    NoMsg = NoMsg
    CacheSize = 2
    ChannelSize = 2
    Attempts = 2
    ChannelOrder <- MCOrder
    Media <- MCMedia
    Configs <- MCUsual
INVARIANT StopsDrained
CHECK_DEADLOCK FALSE
