SPECIFICATION Spec
CONSTANTS
    f1 = f1
    f2 = f2
    None = None
    Inboxes <- TwoInboxes
    MaxLines <- UnevenLines
    MaxChain = 3
    MaxStops = 2
INVARIANTS
    TypeOK
    NothingPassedUnseen
PROPERTIES
    PastedInOrder
    NoFloodOnOpen
    InboxConsumed
