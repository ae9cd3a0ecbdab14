SPECIFICATION FairSpec
CONSTANTS
  t1 = t1
  t2 = t2
  Torrents = {t1}
  NoTorrent = NoTorrent
  AddedOn <- MCAddedOn
  Adoptable = {t1}
  Sensitive = {}
  MyJdConfigured = TRUE
  MaxJobsPerTick = 2
  Parts = 2
  MaxSubmissions = 4
  MaxActions = 0
  MaxFaults = 0
PROPERTY MetadataLessFallsBack
CHECK_DEADLOCK FALSE
