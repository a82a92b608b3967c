SPECIFICATION Spec
CONSTANTS
    b1 = b1
    d1 = d1
    s1 = s1
    s2 = s2
    None = None
    Anchors <- OneAnchor
    Direct <- NoDirect
    Sessions <- TwoSessions
    Indexed <- FirstIndexed
    Ways = {"exit", "button", "voice", "compact", "crash"}
    MaxCrashes = 1
INVARIANTS
    NoStrandedColdStart
PROPERTIES
    PtyDeathOwesDistill
    FlightsLand
    ColdStartsAnswered
    NoLastingGhost
