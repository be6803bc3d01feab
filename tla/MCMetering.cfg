CONSTANTS
    free = free
    None = None
    Requests = {r1, r2, r3}
    Plans = {free}
    Free = free
    Limit = 1
    Cycle = 2
    InitialPlans <- FreePlan
    PlanWrites <- NoWrites
    AdminStatuses = {}
    MaxTime = 3
    MaxEvents = 1
    MaxCalls = 4
    Prompt = FALSE
SPECIFICATION MeterSpec
INVARIANTS MeteringAccurate UsageBounded
PROPERTIES ImplementsGate
SYMMETRY RequestSymmetry
CHECK_DEADLOCK FALSE
