SPECIFICATION Spec
CONSTANTS
    Blocks = {1, 2}
    Slots = {"k1"}
    Tasks = {1, 2, 3}
    Projects = {"p1", "p2"}
    Sections = {"s1"}
    Tags = {"g1"}
    Templates = {"m1"}
    Filters = {"f1"}
    Names = {"n1"}
    Days = {1, 2, 3, 4}
    Hours = {1, 2}
    Lookback = 2
    MaxMembership = 2
    MaxBulk = 2
    MaxOps = 3
    BlockPatches <- MCBlockPatches
    SlotPatches <- MCSlotPatches
    TaskPatches <- MCTaskPatches
    Seeds <- MCSeeds
    None = None
INVARIANTS
    WorkspaceSound
    ProjectsAreForest
PROPERTIES
    EventCoversChanges
    ChangesAreStamped
    UndoGivesBack
    RestoringSparesLaterWork
    ReplanIsWhatWasPreviewed
VIEW MCView
CHECK_DEADLOCK FALSE
