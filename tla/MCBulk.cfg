SPECIFICATION Spec
CONSTANTS
  b1 = b1  b2 = b2  b3 = b3  b4 = b4
  x1 = x1  x2 = x2  x3 = x3
  Jobs = {b1, b2, b3, b4}
  RowsOf <- MCRowsOf
  Watched = {b1}
  MAX_INFLIGHT_JOBS = 2
  MAX_RETAINED_JOBS = 2
  BULK_CONCURRENCY = 2
  BULK_FETCH_CONCURRENCY = 1
  SCORE_CONCURRENCY = 1
  POOL_THREADS = 2
  Lookup <- MCLookup
  MaxLost = 1
  MaxCrashes = 1
SYMMETRY Interchangeable
CHECK_DEADLOCK FALSE
INVARIANTS
  TypeOK
  LiveJobIsPollable
  RegistryBounded
  InflightNearlyBounded
  ReportedIsSaved
  PollIsHonest
