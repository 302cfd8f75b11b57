\* Eight addresses, every configuration of two rules, one failed allocation.
SPECIFICATION Spec
CONSTANTS
  Fst = {0, 1}
  Snd = {0, 2}
  Low = {0, 1}
  Zero <- ZeroAddress
  MaxRules = 2
  MaxFailures = 1
INVARIANTS
  TypeOK
  WellFormed
  OnlyConfigured
  BothWays
  RulesCounted
  NothingLeaks
PROPERTIES
  ImplementsMap
