SPECIFICATION ReportSpec
CONSTANTS
    agent = agent  client = client  visitor = visitor
    PatchLists <- MCPatchLists
    MaxTracks = 2
    Participants <- MCParticipants
    VRoles = {visitor}
    Similarities = {0, 80, 90}
    Configs <- MCConfigs
    Durations = {0, 3}
    MsPerSecond = 1
INVARIANTS
    OnePersonEach
    TimesExact
    RequiredAnswered
CHECK_DEADLOCK FALSE
