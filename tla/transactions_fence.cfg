CONSTANTS
    Sessions = {s1}
    Stages = {t1, t2}
    Keys = {k1, k2}
    Generations = {1, 2}
    Feedback = {f1}
    Sensitive = {}
    MaxU64 = 2
    ConsentLevels = {"plain"}
    NoSession = NoSession
    NoStage = NoStage
    NoOwner = NoOwner
    NoRecord = NoRecord
    NoWrite = NoWrite
    WritesOutliveCalls = FALSE
    RootMayVanish = FALSE
    CoreMayBeReplaced = FALSE
SPECIFICATION Spec
SYMMETRY Symmetry
INVARIANTS FenceCoversOwnPublication
