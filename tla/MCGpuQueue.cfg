SPECIFICATION Spec
CONSTANTS
    j0 = j0
    j1 = j1
    j2a = j2a
    j2b = j2b
    j3 = j3
    s1 = s1
    s2 = s2
    NoSession = NoSession
    NoJob = NoJob
    Jobs <- MCJobs
    Sessions <- MCSessions
    LaneOf <- MCLaneOf
    SessionOf <- MCSessionOf
INVARIANTS
    WakeupPending
    WakeupsBounded
    InflightExact
\* every job submitted and settled, nvidia-smi gone: nothing is left to do
CHECK_DEADLOCK FALSE
PROPERTIES
    StartsInPriorityOrder
    NoOvertaking
    VoiceLanesServed
    BackgroundServed
    DrainReturns
