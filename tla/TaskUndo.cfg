SPECIFICATION Spec
CONSTANTS
    MaxTasks = 3
    Seeded = 2
    Comments = {c1}
    MaxOps = 3
INVARIANTS
    GraphSound
    LatestIsUndoable
PROPERTIES
    UndoRestores
    ReversalSparesNewWork
CHECK_DEADLOCK FALSE
