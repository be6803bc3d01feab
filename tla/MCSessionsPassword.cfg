SPECIFICATION Spec
CONSTANTS
    Requests = {r1, r2}
    MaxSessions = 3
    MaxEvents = 2
INVARIANTS
    SessionsMatchPassword
CHECK_DEADLOCK FALSE
