CONSTANTS
    free = free
    None = None
    Requests = {r1}
    Plans = {free}
    Free = free
    Limit = 1
    Cycle = 1
    InitialPlans <- FreePlan
    PlanWrites <- NoWrites
    AdminStatuses = {}
    MaxTime = 6
    MaxEvents = 0
    MaxCalls = 3
    Prompt = TRUE
SPECIFICATION MeterSpec
INVARIANT UsageBounded
CHECK_DEADLOCK FALSE
