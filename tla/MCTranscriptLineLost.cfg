SPECIFICATION Spec
CONSTANTS
    p1 = p1
    p2 = p2
    Passes <- OnePass
    LineBytes = 2
    MaxLines = 3
    Turn <- TwoTurns
    MaxCrashes = 0
INVARIANT
    EveryPassedLineRecorded
CHECK_DEADLOCK FALSE
