SPECIFICATION Spec
CONSTANTS
    f1 = f1
    f2 = f2
    None = None
    Inboxes <- OneInbox
    MaxLines <- TwoLines
    MaxChain = 3
    MaxStops = 0
PROPERTIES
    HaltLifts
