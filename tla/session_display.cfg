SPECIFICATION Spec
CONSTANTS
  Bodies = {x}
  Spacings = {0}
  Modes = {"inline", "display"}
  Texts = {t}
  Externals = {e}
  Formats = {"svg"}
  VisualFormats = {"svg"}
  CacheSize = 1
  MaxLength = 1
  MaxOpened = 1
  MaxOutputs = 1
  Retentions = {0}
  MaxRevision = 1
  MaxInserted = 1
INVARIANT
  HitsAreCurrent
