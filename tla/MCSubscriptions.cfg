CONSTANTS
    free = free
    pro = pro
    None = None
    Requests = {r1, r2}
    Plans = {free, pro}
    Free = free
    InitialPlans <- TwoPlans
    PlanWrites <- WithdrawPro
    AdminStatuses = {"ACTIVE", "CANCELED"}
    MaxTime = 3
    MaxEvents = 3
SPECIFICATION Spec
INVARIANTS RowsCoherent WindowsOnGrid
PROPERTIES CoverageKept KeptForThePeriod
SYMMETRY RequestSymmetry
CHECK_DEADLOCK FALSE
