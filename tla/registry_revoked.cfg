SPECIFICATION RegistrySpec
CONSTANTS
  Versions = {1, 2}
  Clients = {c1}
  Hosts = {h1}
  MaxTargets = 3
PROPERTIES
  RevokedTargetNeverRuns
