CONSTANTS
  None = None
  Addrs = {a1, a2}
  Lla = {a2}
  MaxEvents = 2
  MaxTimers = 2
  Modes <- AllModes
SPECIFICATION Spec
INVARIANTS
  WellFormed
  RetriesKeepAddrs
PROPERTIES
  Recovers
