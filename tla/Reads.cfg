SPECIFICATION Spec
CONSTANTS
    LastDay <- MCLastDay
    Civil <- MCCivil
    Date <- MCDate
    DaysInMonth <- MCDaysInMonth
    IsLeap <- MCIsLeap
    Unset = Unset
    TicksPerHour = 2
    MaxNudgesPerRule = 2
    MaxNudgesCombined = 3
    StaleAfter = 30
    MaxStatsDays = 5
    MaxCalendarDays = 4
    MaxWeeklyStreak = 3
    MaxAccomplishments = 1
    MaxOverdue = 1
    MaxNeglected = 1
    MaxSuggestions = 4
    MaxPage = 2
    MaxTagsPerTask = 1
    RecentDays = 14
    Contents <- MCContents
    Questions <- MCQuestions
    Days = {1155, 1156}
    MaxCommits = 2
    PageSize = 1
    MaxAnalysis = 3
    MaxCalendarTasks = 2
    MaxRangeItems = 20
    MaxRangeDays = 28
    None = None
INVARIANTS
    WalkSound
    NothingCutSilently
    SummariesReconcile
    SeriesIsWindowed
PROPERTIES
    ReadsAreAtomic
