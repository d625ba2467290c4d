CONSTANTS
    Keys = {k1, k2}
    Generations = {1, 2}
    Policies <- OnOffSensitive
    Candidates = {c1}
    Feedback = {f1, f2}
    Sensitive = {f2}
    EventIds = {1, 2}
    MaxEpoch = 2
    MaxCheckpoint = 1
    MaxEvents = 2
    NoStore = NoStore
    MaxToken = 5
    MaxOwners = 1
    MaxCaptures = 2
SPECIFICATION Spec
SYMMETRY Symmetry
INVARIANTS TokensLive
PROPERTIES FeedbackSpec TokensNotReused
