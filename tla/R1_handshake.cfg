CONSTANTS
    NTracks = 3
    AuthRequired = TRUE
    ServerPause = TRUE
    MaxFaults = 0
    MaxProcs = 4
    MaxStreams = 3
    MaxSessions = 2
SPECIFICATION Spec
INVARIANT TypeOK
PROPERTY HandshakeCompletes
PROPERTY ImplementsHandshake
