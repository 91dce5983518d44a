CONSTANTS
  None = None
  Default = Default
  Mgmt = Mgmt
  Ifs = {i1, i2}
  Data = {v1, v2}
  MaxDrop = 2
  Modes <- AllModes
SPECIFICATION MCSpec
SYMMETRY Symmetry
INVARIANTS
  WellFormed
  InPlaceUnlessPartial
  Ipv6SeparatedUnlessMisused
  RulesInPlaceUnlessFail
