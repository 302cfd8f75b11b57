\* A failed allocation while the rules are read.
SPECIFICATION Spec
CONSTANTS
  Fst = {0, 1}
  Snd = {0, 2}
  Low = {0, 1}
  Zero <- ZeroAddress
  MaxRules = 2
  MaxFailures = 1
INVARIANTS
  FailureReported
