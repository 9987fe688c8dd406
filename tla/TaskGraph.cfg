SPECIFICATION FairSpec
CONSTANTS
  c1 = c1
  c2 = c2
  w1 = w1
  Clients = {c1, c2}
  Workers = {w1}
  MaxTasks = 3
  SlotsPerPage = 2
  MaxGeneration = 1
  MaxLaunches = 3
  MaxPrerequisites = 2
  NoThread = NoThread
INVARIANTS
  EdgesMatch
  DeliveryFindsWaitingDependant
  ReadyIsScheduledOnce
  IndexInOnePlace
  WaiterIsOwed
  LaunchNeverWaitsForLaunch
PROPERTIES
  ImplementsLifecycle
  LaunchedTasksComplete
CHECK_DEADLOCK FALSE
