SPECIFICATION FairSpec
CONSTANTS
  s1 = s1
  s2 = s2
  t1 = t1
  t2 = t2
  None = None
  Unavailable = na
  Workers = {w1}
  Runs = {r1}
  Configs = {c1}
  Sources = {s1, s2}
  Registered = {s1, s2}
  HasReference = {}
  Texts = {t1, t2}
  Risky = {t2}
  Conversions <- Shared
  Plan <- PlanDuplicate
  Stamps = {d1, d2}
  Threshold = 1
  MaxCrashes = 2
  MaxRetries = 1
  FinalizerRetry = TRUE
INVARIANTS
  TypeOK
  ClosedRunIsAccounted
  OneManifestObject
PROPERTIES
  TerminalItemsStay
  OpenRunEnds
  PromiseKept
CHECK_DEADLOCK FALSE
