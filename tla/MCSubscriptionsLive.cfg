CONSTANTS
    free = free
    pro = pro
    None = None
    Requests = {r1, r2}
    Plans = {free, pro}
    Free = free
    InitialPlans <- TwoPlans
    PlanWrites <- NoWrites
    AdminStatuses = {"ACTIVE", "CANCELED"}
    MaxTime = 4
    MaxEvents = 2
SPECIFICATION Spec

PROPERTY CatchesUp
CHECK_DEADLOCK FALSE
