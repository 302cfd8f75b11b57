\* Three peers for two slots; no system call fails.
SPECIFICATION FairSpec
CONSTANTS
  p1 = p1
  p2 = p2
  p3 = p3
  Peers <- ThreePeers
  NATASHA_MAX_CLIENTS = 2
  Faults <- NoFaults
  Queries = {"reload", "exit", "unknown"}
  MaxAsked = 1
PROPERTIES
  GoodPeersStay
  NobodyWaitsForever
  FirstSlotServed
