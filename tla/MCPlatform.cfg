CONSTANTS
    FirstDays <- SomeDays
    Cycles = {"daily", "weekly", "monthly", "yearly", "annual", "quarterly"}
    MaxRolls = 15
    MaxRows = 4
    PageSize = 2
    MaxStamp = 3
    MaxWrites = 2
    Lists <- SomeLists
    Items = {1, 2}
    MaxOverlaps = 1
    MaxBlips = 1
    Tasks <- SomeTasks
    Moment = 5
    DayLimit = 1
    MaxRuns = 2
    MaxTouches = 2
    root = root
    x = x
    y = y
    Accounts = {root, x, y}
    Root = root
    Registered = {x}
    r1 = r1
    r2 = r2
    Requests = {r1, r2}
    MaxTokens = 3
    MaxEvents = 4
SPECIFICATION PlatformSpec
SYMMETRY RequestSymmetry
INVARIANTS
    PeriodsFollowCalendar
    ShownOnce
    FiguresAgree
    DownOnlyInPassing
    SeedRestores
    ReadersAgree
    PriorTokensInvalid
    NoLinkLost
PROPERTIES
    SeedYields
    AdminsKept
    DeletedIsFinal
CHECK_DEADLOCK FALSE
