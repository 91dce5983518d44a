CONSTANTS
  BridgePorts <- TwoPorts
  States <- ThreeStates
  MaxStpEvents = 3
  NoState = NoState
SPECIFICATION StpSpec
INVARIANTS StatesRight
PROPERTIES MismatchHeals
