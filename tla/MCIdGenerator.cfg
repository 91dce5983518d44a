CONSTANTS
  MinId = 2
  MaxId = 6
  NoId = NoId
  Requests = {1, 2, 3, 4, 5, 6, 7}
SPECIFICATION IdSpec
INVARIANTS
  CachesExact
PROPERTIES
  NeverTwice
  ImplementsAllocator
