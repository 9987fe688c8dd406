SPECIFICATION FairSpec
CONSTANTS
  WorkerCount = 2
  Target = 1
  Share = 2
  A = A
  B = B
  C = C
  D = D
  Tasks <- BatchTasks
  Needs <- BatchNeeds
  MainAffinity = {}
  Scripts <- BatchScripts
  Main = Main
  None = None
PROPERTIES
  CommittedWorkIsRun
CHECK_DEADLOCK FALSE
