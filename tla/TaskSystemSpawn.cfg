SPECIFICATION FairSpec
CONSTANTS
  WorkerCount = 2
  Target = 2
  Share = 2
  A = A
  B = B
  C = C
  D = D
  Tasks <- SpawnTasks
  Needs <- SpawnNeeds
  MainAffinity = {}
  Scripts <- SpawnScripts
  Main = Main
  None = None
PROPERTIES
  DestructorReturns
CHECK_DEADLOCK FALSE
