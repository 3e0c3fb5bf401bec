SPECIFICATION BackfillFairSpec
CONSTANTS
  Absent = Absent
  s1 = s1
  s2 = s2
  p1 = p1
  d1 = d1
  d2 = d2
  d3 = d3
  x1 = x1
  x2 = x2
  Shards = {s1, s2}
  Principales = {p1}
  Docs = {d1, d2, d3}
  Digests = {x1, x2}
  Content <- TwoContents
  Assigned <- InOrder
  MaxAttempts = 2
  MaxFaults = 2
INVARIANTS
  BackfillTypeOK
  CheckpointsAreBacked
  SuccessIsComplete
  VerifiedBatchIsWhole
PROPERTIES
  ManifestsAreFinal
  FreshAttemptCompletes
CHECK_DEADLOCK FALSE
