SPECIFICATION FairSpec
CONSTANTS
  None = None
  s1 = s1
  c1 = c1
  Sources = {s1}
  Official = {s1}
  Collections = {c1}
  SourceOf <- OneSource
  SeedPolicy <- NoSeed
  Policies = {"enabled", "blocked"}
  Documents = {d1, d2}
  CollectionOf <- InFirst
  Urls = {u1}
  Operators = {o1}
  MaxRevision <- ReviseOnce
  Runs = {r1}
  Executors = {e1, e2}
  Contents = {x1}
  StoragePath <- OnePath
INVARIANTS
  TypeOK
  RunHasOneExecutor
  ClosedRunAddsUp
  ObtainedIsStored
PROPERTIES
  OutcomesStay
  HeldRunEnds
CHECK_DEADLOCK FALSE
