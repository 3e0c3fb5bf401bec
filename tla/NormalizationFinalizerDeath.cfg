SPECIFICATION FairSpec
CONSTANTS
  s1 = s1
  s2 = s2
  t1 = t1
  t2 = t2
  None = None
  Unavailable = na
  Workers = {w1}
  Runs = {r1}
  Configs = {c1}
  Sources = {s1, s2}
  Registered = {s1, s2}
  HasReference = {}
  Texts = {t1, t2}
  Risky = {t2}
  Conversions <- Distinct
  Plan <- PlanPair
  Stamps = {d1}
  Threshold = 2
  MaxCrashes = 1
  MaxRetries = 0
  FinalizerRetry = FALSE
PROPERTIES
  OpenRunEnds
CHECK_DEADLOCK FALSE
