SPECIFICATION Spec
CONSTANTS
    Requests = {r1, r2}
    MaxProviders = 3
    Seeded = 2
    Flags = {"on", "def"}
    MaxEvents = 3
SYMMETRY RequestSymmetry
INVARIANTS
    OnlyOvertakenRefused
    ResolutionInOrder
    NoCircularWait
PROPERTIES
    DefaultKept
    OnlyStaleWritesUnsettle
CHECK_DEADLOCK FALSE
