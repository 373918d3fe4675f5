SPECIFICATION Spec
CONSTANTS
  None = None
  BadDate = BadDate
  Spellings = {"a", "A ", "A", "b", "B", "Z", " "}
  Canon <- MCCanon
  MonthStarts = {0, 8, 12, 20}
  DefaultDays = 8
  MaxSpanDays = 9
  Unmapped = "Unmapped"
  Limit <- MCLimit
  Window = 2
  PruneThreshold = 0
  Requests = {"q1", "q2", "q3"}
  Plans <- MCPlans
  Slugs = {"dev", "acme", "new"}
  DevTenant = "dev"
  Seeds <- MCSeeds
  DayLength = 3
  FirstTick = 31
  LastTick = 33
  MaxRefusals = 1
  DefaultBackend = "live"
  Misconfigured = {"broken"}
  ScorePlaces = 1
  Hash <- MCHash
  Distance <- MCDistance
  DupExact = 0
  DupNear = 3
  MaxCandidates = 3
  Screens = {"i8"}
  Blurred = {"i7"}
  Graded <- MCGraded
  StatusDays = 5
  ReportLimit = 5
  RecentLimit = 1
CHECK_DEADLOCK FALSE
INVARIANTS
  TypeOK
  AnsweredIsKept
  RecycledHasAnOriginal
  LateCopiesAreCaught
  SlidingBound
  RefusalIsEarned
  NoWorkForTheInactive
  AnswersStayInTenant
  ReviewIsAudited
  PagingMissesNothing
  UploadReplacesTheMap
  EveryItemCountedOnce
  DrillDownAgrees
PROPERTIES
  EveryRequestAnswered
