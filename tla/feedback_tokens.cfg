CONSTANTS
    Owners = {o1, o2}
    Keys = {k1, k2}
    Generations = {1, 2}
    Policies <- OnOff
    Candidates = {c1}
    Feedback = {f1, f2}
    Sensitive = {}
    EventIds = {1, 2}
    MaxEpoch = 2
    MaxCheckpoint = 1
    MaxEvents = 2
    NoStore = NoStore
    HostDrops = FALSE
SPECIFICATION Spec
SYMMETRY Symmetry
INVARIANTS TypeOK CapturesDoNotCross ReceiptsDenote EventsOrdered RecencyIsNewest NumbersNameSnapshots
PROPERTIES HistoryKept
