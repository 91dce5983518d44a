CONSTANTS
  v1 = v1
  g1 = g1
  p1 = p1
  None = None
  Vlans = {v1}
  Groups = {g1}
  Ports <- OnePort
  RouterLists <- Lists
  MaxTry = 2
  MaxReq = 3
  MaxEnv = 2
SPECIFICATION Spec
INVARIANTS
  TypeOK
  CacheMapsAgree
  SubscribersMatchCache
  DeletedStaysDeletedUnlessSpoiled
PROPERTIES
  StaticApplied
  PollsForever
