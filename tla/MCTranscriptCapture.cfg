SPECIFICATION Spec
CONSTANTS
    p1 = p1
    p2 = p2
    Passes <- TwoPasses
    LineBytes = 2
    MaxLines = 3
    Turn <- TwoTurns
    MaxCrashes = 1
INVARIANTS
    OnlyCutLinesSkipped
    OnceUnlessOverlap
    IndexedUnlessLost
PROPERTIES
    RecordedInOrder
    EveryLineRead
CHECK_DEADLOCK FALSE
