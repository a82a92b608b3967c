SPECIFICATION Spec
CONSTANTS
    b1 = b1
    d1 = d1
    s1 = s1
    s2 = s2
    None = None
    Anchors <- OneAnchor
    Direct <- NoDirect
    Sessions <- OneSession
    Indexed <- FirstIndexed
    Ways = {"exit"}
    MaxCrashes = 0
PROPERTIES
    SummaryNeverErased
