SPECIFICATION FairSpec
CONSTANTS
  j1 = j1
  j2 = j2
  j3 = j3
  bad = bad
  img1 = img1
  img2 = img2
  o1 = o1
  o2 = o2
  NoImage = NoImage
  NoOpportunity = NoOpportunity
  NoJob = NoJob
  Jobs = {j1}
  Workers = {w1, w2}
  Unreadable = {}
  ImageOf <- MCImageOf
  OpportunityOf <- MCOpportunityOf
  Raised = {"other"}
  MaxAttempts = 2
  BatchSize = 2
  MaxCrashes = 1
  MaxLost = 0
  MaxReplays = 0
PROPERTIES
  EventuallySettled
