SPECIFICATION Spec
CONSTANTS
    PageMax = 2
    NoOp = none
    Ops = {a, b, c, d}
    Tasks = {t}
    Links = {l}
    Others = {}
    Offered <- AnyRequest
    Vals = {0, 1}
    Sizes = {1}
    TTL = 2
    RetainCount = 3
    RetainBytes = 2
    MaxClock = 0
    MaxRevision = 4
    MaxInbox = 1
SYMMETRY Symmetric
INVARIANTS
    UndoneAtMostOnce
    UndoOverwritesNobody
    CatchUpGapFree
PROPERTIES
    ImplementsEventLog
