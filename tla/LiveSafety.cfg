SPECIFICATION Spec
CONSTANTS
    PageMax = 2
    Clients = {b1}
    MaxStreams = 1
    QueueMax = 2
    OutMax = 2
    RetainCount = 3
    MaxRevision = 5
    MaxFailures = 2
    MaxAbandoned = 2
INVARIANTS
    WireIsSound
    GapsOnlyByOvertaking
CHECK_DEADLOCK FALSE
