SPECIFICATION Spec
CONSTANTS
    PageMax = 2
    NoOp = none
    Ops = {a, b}
    Tasks = {t}
    Links = {}
    Others = {}
    Offered <- WriteAndUndo
    Vals = {0, 1}
    Sizes = {1}
    TTL = 2
    RetainCount = 2
    RetainBytes = 3
    MaxClock = 4
    MaxRevision = 3
    MaxInbox = 2
SYMMETRY Symmetric
INVARIANTS
    TypeOK
    AtMostOncePerReceiptLife
    AnswerNamesItsEffect
    UndoRowsFollowReceipts
