SPECIFICATION Spec
CONSTANTS
  Bodies = {x, y}
  Spacings = {0}
  Modes = {"inline"}
  Texts = {t}
  Externals = {e}
  Formats = {"svg"}
  VisualFormats = {"svg"}
  CacheSize = 1
  MaxLength = 3
  MaxOutputs = 1
  Retentions = {0}
  MaxRevision = 2
  MaxInserted = 2
  MaxOpened = 2
SYMMETRY Symmetric
INVARIANTS
  TypeOK
  LocalEditsAreRebuilds
  OutputsAreCurrent
  LatestComeFromLatest
PROPERTIES
  UniqueKeepIdentity
