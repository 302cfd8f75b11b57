\* A condition on the network 0/0.
SPECIFICATION Spec
CONSTANTS
  eth_dev_count = 2
  MAX_TX_BURST = 2
  MAX_RX_BURST = 2
  MaxRx = 2
  AddrBits = 4
  PrivateNet <- PrivateNet4
  PublicNet <- PublicNet8
  Frames <- NatFrames
  OwnIps <- Natasha
  nat_lookup <- NatRule
  RuleTrees <- DefaultRouteTrees
INVARIANTS
  DefaultRouteMatchesAll
