CONSTANTS
  Scenarios <- RestartScenarios
  MaxQueue = 5
SPECIFICATION Spec
CHECK_DEADLOCK FALSE
INVARIANTS MembersPublished
