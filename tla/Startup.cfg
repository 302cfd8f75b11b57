SPECIFICATION Spec
CONSTANTS
  PortNumbers = {0, 1, 32}
  Vlans = {0, 10}
  Fields = {1, 2}
  Profiles <- Texts
  MaxDepth = 2
  MayFail = TRUE
  MaxPorts = 2
  MaxCores = 4
  Devices <- Nics
  MAX_CHECK_TIME = 2
INVARIANTS
  ParsedAsWritten
  LoadReleases
  QueueOwners
  VlansAccepted
