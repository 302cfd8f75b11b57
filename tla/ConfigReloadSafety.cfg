\* Two workers, one valid content: the handshake itself.
SPECIFICATION Spec
CONSTANTS
  NCores = 2
  a1 = a1
  a2 = a2
  a3 = a3
  a4 = a4
  a5 = a5
  Addrs <- Addrs5
  Contents = {k1}
  Ruleless = {}
  NULL = NULL
  StartPath = "/etc/natasha.conf"
  MaxBurst = 1
  MaxLookups = 1
SYMMETRY Symmetry5
INVARIANTS
  TypeOK
  NoUseAfterFree
  UsedMeansOldIsGone
  NoLeak
  AtMostTwoVersions
  RunningWorkersConfigured
  AnswerIsBarrier
  IInv
PROPERTIES
  ImplementsHandoff
