SPECIFICATION Spec
CONSTANTS
    a1 = a1
    a2 = a2
    s1 = s1
    s2 = s2
    None = None
    Anchors <- OneAnchor
    Sessions <- OneSession
    Plain <- Denials
    Gap = 2
    Hour = 4
    TenMin = 3
    Cap = 2
    KillLimit = 3
    Refire = 1
    Grace = 1
    TargetTtl = 2
    HeadTtl = 1
    MaxNow = 5
    LastClaim = 1
    MaxCommits = 1
    MaxRestarts = 1
INVARIANTS
    Rationed
    ReportedOncePerHead
PROPERTIES
    CapHidesKillSwitch
    DeliveredToSupervisor
