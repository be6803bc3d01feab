SPECIFICATION Spec
CONSTANTS
    Requests = {r1, r2}
    MaxPieces = 2
INVARIANTS CutNeverKept
PROPERTIES ImplementsExchange TitleKept DeletedGrowsOnlyByOverlap Served
CHECK_DEADLOCK FALSE
