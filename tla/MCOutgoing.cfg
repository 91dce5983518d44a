CONSTANTS
  None = None
  Foreign = Foreign
  out1 = out1
  out2 = out2
  snat1 = snat1
  vrf1 = vrf1
  tcp = tcp
  vrf2 = vrf2
  Chains = {out1, out2, snat1}
  OutChains = {out1, out2}
  Vrfs = {vrf1, vrf2}
  VrfOf <- MCVrfOf
  Dsts = {d1, d2}
  Protos = {tcp, udp}
  Ports = {1, 2}
  RuleIds = {2}
  Modes <- AllModes
  IdBound = 3
  ForeignBound = 1
SPECIFICATION MCSpec
SYMMETRY Symmetry
INVARIANTS
  WellFormed
  PortsOwned
  PortsReleasedUnlessVrfDeleted
  InFrontUnlessDeletesFail
