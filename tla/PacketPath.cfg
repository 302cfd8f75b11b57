\* All kinds of packets under four sets of rules; queues of two packets.
SPECIFICATION FairSpec
CONSTANTS
  eth_dev_count = 2
  MAX_TX_BURST = 2
  MAX_RX_BURST = 2
  MaxRx = 2
  AddrBits = 4
  PrivateNet <- PrivateNet4
  PublicNet <- PublicNet8
  Frames <- AllFrames
  OwnIps <- Natasha
  nat_lookup <- NatRule
  RuleTrees <- AllTrees
INVARIANTS
  TypeOK
  OneOwner
  DropsAreCounted
  ChecksumsRightOnWire
  InnerFollowsOuter
  QueuesDrained
  AnswersAreOurs
  ForwardedAsConfigured
PROPERTIES
  PacketsFinish
