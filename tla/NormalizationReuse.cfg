SPECIFICATION Spec
CONSTANTS
  s1 = s1
  s2 = s2
  t1 = t1
  t2 = t2
  None = None
  Unavailable = na
  Workers = {w1}
  Runs = {r1, r2}
  Configs = {c1, c2}
  Sources = {s1, s2}
  Registered = {s1, s2}
  HasReference = {s2}
  Texts = {t1, t2}
  Risky = {t2}
  Conversions <- Shared
  Plan <- PlanPair
  Stamps = {d1}
  Threshold = 1
  MaxCrashes = 1
  MaxRetries = 0
  FinalizerRetry = FALSE
INVARIANTS
  OnlyCleanTextIsEvidence
CHECK_DEADLOCK FALSE
