SPECIFICATION MemorySpec
CONSTANTS
  t1 = t1
  t2 = t2
  o1 = o1
  o2 = o2
  position = position
  custom = custom
  Clients = {t1, t2}
  Hosts <- SomeHosts
  PagesPerSegment = 2
  PagesPerLargePage = 2
  MaxCached = 2
  PurgeFraction = 2
  MinPurge = 1
  MaxPurge = 1
  DecayTicks = 2
  TickWrap = 3
  BitsPerWord = 2
  CommitBudget = 3
  Objects = {o1, o2}
  MaxIds = 3
  MaxRefusals = 1
  MaxEntities = 3
  MaxGeneration = 2
  Types = {position, custom}
INVARIANTS
  BudgetIsExact
  EverySegmentHasItsPlace
  StacksOutliveThreads
  PlacesAreAccounted
PROPERTIES
  CachedPagesAreReturned
  ImplementsEntityMap
CHECK_DEADLOCK FALSE
