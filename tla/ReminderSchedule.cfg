SPECIFICATION Spec
CONSTANTS
    Tasks = {k}
    Instants = {1, 2}
    Durations = {2}
    BackoffStart = 1
    BackoffMax = 3
    MaxSkew = 1
    MaxClock = 3
    MaxTerm = 2
    MaxChanges = 3
INVARIANTS
    ScheduleSound
    ClaimsDontOverlap
    LateAnswersAreRefused
PROPERTIES
    TerminalIsFinal
CHECK_DEADLOCK FALSE
