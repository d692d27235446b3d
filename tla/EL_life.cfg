SPECIFICATION FairSpec
CONSTANTS
    Conns = {c1, c2}
    Ports = 2
CHECK_DEADLOCK FALSE
INVARIANTS TypeOK FirstFreePort StoppedIsQuiet AckedReachesEngine
PROPERTIES StopReturns JoinedLoopWindsDown ImplementsTransport
