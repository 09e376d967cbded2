SPECIFICATION Spec
CONSTANTS
    None = None
    Processes = {p1, p2}
    p1 = p1
    p2 = p2
    Origins <- MCOrigins
    OldBackups <- MCOldBackups
    Retain = 2
    MaxClock = 4
    MaxFaults = 3
    MaxStarts = 4
INVARIANTS
    OneSoundServer
    CancellationsKeepTheirTime
    BackedUpBeforeLeaving
CHECK_DEADLOCK FALSE
