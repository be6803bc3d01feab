SPECIFICATION Spec
CONSTANTS
    Requests = {r1, r2}
    MaxSessions = 3
    MaxEvents = 2
INVARIANTS
    RotationExclusive
    OnlyRacedSurvive
PROPERTIES
    Answered
    ImplementsChain
CHECK_DEADLOCK FALSE
