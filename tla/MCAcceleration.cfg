SPECIFICATION FairSpec
CONSTANTS
  t1 = t1
  t2 = t2
  Torrents = {t1}
  NoTorrent = NoTorrent
  AddedOn <- MCAddedOn
  Adoptable = {t1}
  Sensitive = {}
  MyJdConfigured = TRUE
  MaxJobsPerTick = 2
  Parts = 2
  MaxSubmissions = 3
  MaxActions = 1
  MaxFaults = 1
INVARIANTS
  TypeOK
  NoDuplicateSubmission
  WebseedsOwned
  PlaceholderStoppedUnlessInterrupted
PROPERTIES
  TerminalIsFinal
  JobsSettle
CHECK_DEADLOCK FALSE
