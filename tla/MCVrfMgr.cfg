CONSTANTS
  None = None
  Default = Default
  Vrfs = {v1, v2}
  Vals = {100, 101}
  Addrs = {a1, a2}
  v1 = v1
  a1 = a1
  Mgmt = v2
  OnMacvlan <- V1Macvlan
  v2 = v2
  MaxNat = 2
  MaxLeaks = 1
  SrcIps = {s1}
  Prefixes = {p1}
  MaxQueue = 2
  MaxRules = 3
  Modes <- AllModes
SPECIFICATION MCSpec
CHECK_DEADLOCK FALSE
INVARIANTS
  WellFormed
  PairsRealUnlessLate
  RoutesRightUnlessLate
  NatRulesRight
  DefaultRulesOwnedUnlessTaken
PROPERTIES
  OpsEnd
