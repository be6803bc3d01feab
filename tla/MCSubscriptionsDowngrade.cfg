CONSTANTS
    free = free
    pro = pro
    None = None
    Requests = {r1, r2}
    Plans = {free, pro}
    Free = free
    InitialPlans <- TwoPlans
    PlanWrites <- NoWrites
    AdminStatuses = {}
    MaxTime = 4
    MaxEvents = 3
SPECIFICATION Spec

PROPERTY DowngradeOnTime
CHECK_DEADLOCK FALSE
