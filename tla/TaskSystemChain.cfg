SPECIFICATION FairSpec
CONSTANTS
  WorkerCount = 1
  Target = 1
  Share = 2
  A = A
  B = B
  C = C
  D = D
  Tasks <- ChainTasks
  Needs <- ChainNeeds
  MainAffinity = {}
  Scripts <- ChainScripts
  Main = Main
  None = None
PROPERTIES
  LaunchedTasksComplete
CHECK_DEADLOCK FALSE
