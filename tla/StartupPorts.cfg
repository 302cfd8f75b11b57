SPECIFICATION Spec
CONSTANTS
  PortNumbers = {0, 2}
  Vlans = {0, 10}
  Fields = {1, 2}
  Profiles <- Texts
  MaxDepth = 2
  MayFail = FALSE
  MaxPorts = 1
  MaxCores = 2
  Devices <- Nics
  MAX_CHECK_TIME = 2
INVARIANTS
  NatLookupIsFromNatRules
