CONSTANTS
    Sessions = {s1, s2}
    Stages = {t1, t2}
    Keys = {k1, k2}
    Generations = {1}
    Feedback = {f1}
    Sensitive = {}
    MaxU64 = 2
    ConsentLevels = {"plain"}
    NoSession = NoSession
    NoStage = NoStage
    NoOwner = NoOwner
    NoRecord = NoRecord
    NoWrite = NoWrite
    WritesOutliveCalls = TRUE
    RootMayVanish = FALSE
    CoreMayBeReplaced = FALSE
SPECIFICATION Spec
SYMMETRY Symmetry
INVARIANTS TypeOK FenceCoversOwnPublication NoForkedHead
PROPERTIES LedgerSpec LocalFeedbackKept
