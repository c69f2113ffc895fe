CONSTANTS
    NTracks = 3
    AuthRequired = TRUE
    ServerPause = TRUE
    MaxFaults = 3
    MaxProcs = 12
    MaxStreams = 10
    MaxSessions = 4
SPECIFICATION Spec
INVARIANT OnePlayPerSession
INVARIANT ChannelOwned
INVARIANT KeepaliveOwned
CHECK_DEADLOCK FALSE
PROPERTY ClosedRestsInInitial
