SPECIFICATION FairSpec
CONSTANTS
  t1 = t1
  t2 = t2
  t3 = t3
  t4 = t4
  Threads = {t1, t2, t3, t4}
  MaxLocks = 4
  None = None
INVARIANTS
  QueueHasOneKeeper
  SleepersAreQueued
  QueueIsLookedAfter
PROPERTIES
  ImplementsLockQueue
  LockIsGranted
CHECK_DEADLOCK FALSE
