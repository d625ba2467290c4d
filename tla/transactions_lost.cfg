CONSTANTS
    Sessions = {s1}
    Stages = {t1, t2}
    Keys = {k1, k2}
    Generations = {1, 2}
    Feedback = {f1}
    Sensitive = {f1}
    MaxU64 = 2
    ConsentLevels = {"off", "plain", "sensitive"}
    NoSession = NoSession
    NoStage = NoStage
    NoOwner = NoOwner
    NoRecord = NoRecord
    NoWrite = NoWrite
    WritesOutliveCalls = FALSE
    RootMayVanish = TRUE
    CoreMayBeReplaced = TRUE
SPECIFICATION Spec
SYMMETRY Symmetry
INVARIANTS HistoryBelongsToGeneration
PROPERTIES LostHistoryStaysLost ConsentAtPublication
