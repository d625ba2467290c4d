SPECIFICATION RegistrySpec
CONSTANTS
  Versions = {1, 2}
  Clients = {c1, c2}
  Hosts = {h1}
  MaxTargets = 2
SYMMETRY Symmetric
INVARIANTS
  RegistryTypeOK
  CacheIsNewest
PROPERTIES
  RevokedNeverRuns
  OnlyRollbackLeadsBack
