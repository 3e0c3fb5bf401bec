SPECIFICATION SourcesSpec
CONSTANTS
  None = None
  official = official
  seeded = seeded
  created = created
  bootstrapped = bootstrapped
  Sources = {official, seeded}
  Official = {official}
  Collections = {created, bootstrapped}
  SourceOf <- TwoSources
  SeedPolicy <- SeedOne
  Policies = {"enabled", "paused"}
  Documents = {d1}
  CollectionOf <- InCreated
  Urls = {u1}
  Operators = {o1, o2}
  MaxRevision <- Revisions
  Years = {1, 2}
  Published <- PortalYears
  Locator <- PortalUrls
  NoLocator = NoLocator
  PageSize = 1
  MinimumRecords = 0
  MaxDrift = 3
  MaxInventories = 2
  Decisions = {"x", "y", "w"}
  Directory <- InDirectories
  Directories = 3
  ShardCount = 2
  Pdf = {"x"}
  MaxPlans = 2
  MaxReruns = 1
  Identifiers = {1, 2, 3}
  Link <- SentenceUrl
  Bytes = {"pdf 1", "pdf 2", "doc 1", "page"}
  Format <- ServedFormat
  Listings = {{1, 2}, {2, 3}}
  FirstServed <- AtFirst
  Passes = {p1, p2}
  FetchAttempts = 2
  MaxServed <- SecondChanges
  MaxLosses = 1
INVARIANTS
  InventoriesAreSnapshots
  ReconciledIsComplete
PROPERTIES
  ChangesStartFromWhatWasRead
CHECK_DEADLOCK FALSE
