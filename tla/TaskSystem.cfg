SPECIFICATION FairSpec
CONSTANTS
  WorkerCount = 2
  Target = 2
  Share = 2
  A = A
  B = B
  C = C
  D = D
  Tasks <- ForkTasks
  Needs <- ForkNeeds
  MainAffinity <- ForkMainAffinity
  Scripts <- ForkScripts
  Main = Main
  None = None
INVARIANTS
  PermitsConserved
  NoSleeperForgotten
  ParkedListIsExact
  NoWorkSleptOn
  DestroyedClean
PROPERTIES
  LaunchedTasksComplete
  DestructorReturns
CHECK_DEADLOCK FALSE
