SPECIFICATION Spec
CONSTANTS
  Processes = {p1, p2}
  Versions = {1, 2}
  NoProcess = NoProcess
  MaxFaults = 2
SYMMETRY Symmetric
INVARIANTS
  RecoversRecent
  ReadableIsSound
PROPERTIES
  ImplementsIndex
CHECK_DEADLOCK FALSE
