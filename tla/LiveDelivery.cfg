SPECIFICATION FairSpec
CONSTANTS
    PageMax = 1
    Clients = {b1, b2}
    MaxStreams = 1
    QueueMax = 1
    OutMax = 1
    RetainCount = 2
    MaxRevision = 3
    MaxFailures = 1
    MaxAbandoned = 1
PROPERTIES
    EventuallyInformed
CHECK_DEADLOCK FALSE
