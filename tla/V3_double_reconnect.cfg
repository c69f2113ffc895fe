CONSTANTS
    NTracks = 2
    AuthRequired = TRUE
    ServerPause = TRUE
    MaxFaults = 1
    MaxProcs = 7
    MaxStreams = 4
    MaxSessions = 3
SPECIFICATION Spec
INVARIANT HandshakeExclusive
CHECK_DEADLOCK FALSE
