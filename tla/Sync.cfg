SPECIFICATION SyncSpec
CONSTANTS
  t1 = t1
  t2 = t2
  t3 = t3
  k1 = k1
  k2 = k2
  k3 = k3
  k4 = k4
  k5 = k5
  Threads = {t1, t2, t3}
  Keys = {k1, k2, k3, k4, k5}
  Mutex = k1
  Condition = k2
  Permits = k3
  InitialCount = 1
  MaxCount = 3
  Latch = k4
  Event = k5
  LatchCount = 2
  UnitLength = 2
  MaxUnits = 4
  MaxClock = 8
  Timeouts = {0, 1, 3}
INVARIANTS
  HeldByOne
  SleepersAreMarked
  NoPermitSleptOn
  NoWakeUpMissed
PROPERTIES
  MutexSleeperIsWoken
  WaitersAreReleased
CHECK_DEADLOCK FALSE
