CONSTANTS
  Keys = {k1}
  Ports <- TwoPorts
  Ops = {"CREATE", "SET", "DELETE"}
  Sorts = {"static", "dynamic"}
  MaxEvents = 3
  MaxSock = 1
  None = None
SPECIFICATION Spec
INVARIANTS
  WellFormed
  StaticInPlace
PROPERTY
  NoticedEntriesProgrammed
