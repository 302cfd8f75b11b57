\* Three peers for two slots; every system call may fail, and the workers stop.
SPECIFICATION Spec
CONSTANTS
  p1 = p1
  p2 = p2
  p3 = p3
  Peers <- ThreePeers
  NATASHA_MAX_CLIENTS = 2
  Faults <- AllFaults
  Queries = {"status", "reload"}
  MaxAsked = 2
SYMMETRY PeerSymmetry
INVARIANTS
  TypeOK
  SlotsAccount
  AnswersMatch
