\* One worker, two contents of which one has no rules, started with -f.
SPECIFICATION FairSpec
CONSTANTS
  NCores = 1
  a1 = a1
  a2 = a2
  a3 = a3
  a4 = a4
  a5 = a5
  Addrs <- Addrs3
  Contents = {k1, k2}
  Ruleless = {k2}
  NULL = NULL
  StartPath = "-f"
  MaxBurst = 1
  MaxLookups = 1
INVARIANTS
  ReloadApplies
PROPERTIES
  ImplementsService
  ExitTerminates
