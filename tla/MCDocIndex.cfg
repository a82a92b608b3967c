SPECIFICATION Spec
CONSTANTS
    Ids = {0, 1, 2}
    Versions = {0, 1, 2}
    Bodies = {0, 1, 2}
    Absent = 0
    ChunksOf <- MCChunks
    Foreign = {0}
    j1 = j1
    j2 = j2
    Jobs <- TwoJobs
    MaxEdits = 2
    MaxForeign = 1
    MaxFailures = 1
    MaxDeaths = 2
SYMMETRY Interchangeable
INVARIANTS
    Lockstep
    OneRecordPerId
    FreshWhenSettled
PROPERTIES
    KeepsSnapshotPromise
CHECK_DEADLOCK FALSE
