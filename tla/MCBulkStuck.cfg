SPECIFICATION FairSpec
CONSTANTS
  b1 = b1  b2 = b2  b3 = b3  b4 = b4
  x1 = x1  x2 = x2  x3 = x3
  Jobs = {b1}
  RowsOf <- MCRowsOf
  Watched = {b1}
  MAX_INFLIGHT_JOBS = 1
  MAX_RETAINED_JOBS = 2
  BULK_CONCURRENCY = 2
  BULK_FETCH_CONCURRENCY = 1
  SCORE_CONCURRENCY = 1
  POOL_THREADS = 2
  Lookup <- MCLookup
  MaxLost = 0
  MaxCrashes = 0
CHECK_DEADLOCK FALSE
PROPERTY
  EventuallyDone
