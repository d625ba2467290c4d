CONSTANTS
    Records <- MCRecords
    Procs = {p1, p2}
    Objects = {o1, o2, o3}
    MaxRemoved = 1
    NoProc = NoProc
    NoRecord = NoRecord
    NoObject = NoObject
    NoWrite = NoWrite
    Absent = Absent
    RootMayVanish = TRUE
SPECIFICATION Spec
SYMMETRY Symmetry
INVARIANTS TypeOK SelectedObjectSurvives
PROPERTIES RegisterSpec AnswersAreTrue
