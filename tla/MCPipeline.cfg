SPECIFICATION Spec
CONSTANTS
  Cfg <- DefaultScoring
  Photos <- EveryPhoto
  Perceptions <- EveryPerception
  Judgments <- TwoJudgments
  HYBRID = TRUE
  STRAY_ERRORS = TRUE
INVARIANTS
  TypeOK
  ClearIsEarned
  IntegrityIsSuspect
  WorstEvidenceIsNamed
  SkippingIsSafe
  KinderReadingsNeverHurt
