SPECIFICATION FairSpec
CONSTANTS
  r1 = r1
  r2 = r2
  r3 = r3
  other = other
  forged = forged
  e1 = e1
  e2 = e2
  p1 = p1
  p2 = p2
  p3 = p3
  Nobody = Nobody
  Requests = {r1, r2, r3, forged}
  Processes = {p1, p2, p3}
  Events = {e1, e2}
  EventOf <- MCEventOf
  ProcessOf <- Spread
  Invalid = {forged}
  CommitFirst = TRUE
  MaxRefused = 1
  MaxCrashes = 1
CHECK_DEADLOCK FALSE
INVARIANTS
  TypeOK
  OneRowPerEvent
  AckedIsStored
PROPERTIES
  EventuallyAnswered
