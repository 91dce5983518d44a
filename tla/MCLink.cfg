CONSTANTS
  Scenarios <- LinkScenarios
  MaxQueue = 4
SPECIFICATION Spec
CHECK_DEADLOCK FALSE
INVARIANTS
  TablesTracked
  MaskLifted
  MembersPublished
  LinksTracked
