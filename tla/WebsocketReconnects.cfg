SPECIFICATION FairSpec
CHECK_DEADLOCK FALSE
CONSTANTS
    Socket = {s1, s2, s3, s4}
    NoSocket = NoSocket
    Reconnection = TRUE
    ReconnectionAttempts = 2
    HasVisibility = TRUE
    MaxConnects = 1
    MaxFailures = 3
INVARIANTS
    ConnectedSends
    ClientInv
    ClosedIsQuiet
    
PROPERTIES
    ImplementsConnection
    AttemptsEnd
    AnnouncedReconnectionFollows
