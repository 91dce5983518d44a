CONSTANTS
  v1 = v1
  AppVlans = {v1}
  MaxAppReq = 3
  MaxVlan = 3
SPECIFICATION AppSpec
INVARIANTS
  RulesFollowRequests
PROPERTIES
  KernelStopsSnooping
CHECK_DEADLOCK FALSE
