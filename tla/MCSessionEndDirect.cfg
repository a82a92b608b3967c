SPECIFICATION Spec
CONSTANTS
    b1 = b1
    d1 = d1
    s1 = s1
    s2 = s2
    None = None
    Anchors <- OneAnchor
    Direct <- OneDirect
    Sessions <- OneSession
    Indexed <- FirstIndexed
    Ways = {"exit", "voice", "flush", "crash"}
    MaxCrashes = 1
INVARIANTS
    OwedIsOnDisk
    NoStrandedFlight
PROPERTIES
    KeepsOwedPromise
