SPECIFICATION FairSpec
CONSTANTS
    None = None
    Slots = {r1, r2}
    r1 = r1
    r2 = r2
    Ops = {"k1", "k2"}
    Defects <- MCDefects
    AuthAttempts = 1
    AuthWindow = 1
    Throttle = 1
    Instants = {1}
    MaxClock = 2
    MaxRevision = 2
    MaxFaults = 1
    MaxStarts = 2
INVARIANTS
    ServerSound
    NoLostWake
PROPERTIES
    DueIsSignalled
    ShutdownCompletes
CHECK_DEADLOCK FALSE
