SPECIFICATION Spec
CONSTANTS
  s1 = s1
  s2 = s2
  t1 = t1
  t2 = t2
  None = None
  Unavailable = na
  Workers = {w1, w2}
  Runs = {r1}
  Configs = {c1}
  Sources = {s1, s2}
  Registered = {s1}
  HasReference = {}
  Texts = {t1, t2}
  Risky = {t2}
  Conversions <- Shared
  Plan <- PlanPair
  Stamps = {d1}
  Threshold = 1
  MaxCrashes = 0
  MaxRetries = 0
  FinalizerRetry = FALSE
INVARIANTS
  EvidenceTraceable
  ClosedRunHasManifest
  UnknownSourceNeverPublished
PROPERTIES
  RunMovesForward
  ManifestRowStays
CHECK_DEADLOCK FALSE
