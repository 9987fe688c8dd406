SPECIFICATION FairSpec
CONSTANTS
  t1 = t1
  t2 = t2
  t3 = t3
  k1 = k1
  k2 = k2
  k3 = k3
  b1 = b1
  b2 = b2
  None = None
  Threads = {t1, t2, t3}
  Keys = {k1, k3}
  Buckets = {b1, b2}
  BucketOf <- TwoBuckets
  Requeues = {}
  LateCommits = TRUE
INVARIANTS
  RemovalFindsSlot
CHECK_DEADLOCK FALSE
