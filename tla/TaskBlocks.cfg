SPECIFICATION Spec
CONSTANTS
    MaxTasks = 2
    Seeded = 2
    Comments = {}
    MaxOps = 4
INVARIANTS
    BlocksAcyclic
CHECK_DEADLOCK FALSE
