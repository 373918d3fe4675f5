SPECIFICATION FairSpec
CONSTANTS
  r1 = r1
  r2 = r2
  r3 = r3
  other = other
  forged = forged
  e1 = e1
  e2 = e2
  p1 = p1
  p2 = p2
  p3 = p3
  Nobody = Nobody
  Requests = {r1, r2}
  Processes = {p1}
  Events = {e1, e2}
  EventOf <- MCEventOf
  ProcessOf <- Together
  Invalid = {}
  CommitFirst = TRUE
  MaxRefused = 0
  MaxCrashes = 0
CHECK_DEADLOCK FALSE
PROPERTIES
  EventuallyAnswered
