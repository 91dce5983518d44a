CONSTANTS
  None = None
  Threads = {cps, main}
  default_chain = default_chain
  vrf_chain = vrf_chain
  vrf1 = vrf1
  Chains = {default_chain, vrf_chain}
  Vrfs = {vrf1}
  VrfOf <- MCVrfOf
  Keys = {k1, k2, k3}
  Seqs = {1, 2}
  RuleIds = {2}
  FailSets <- InsertsOrAllFail
  IdBound = 3
  ChainBound = 3
  VrfListBound = 2
  Negs = {TRUE, FALSE}
SPECIFICATION MCSpec
SYMMETRY Symmetry
INVARIANTS
  WellFormed
  IdsOwned
  InSyncUnlessMarred
