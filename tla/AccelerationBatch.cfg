SPECIFICATION FairSpec
CONSTANTS
  t1 = t1
  t2 = t2
  Torrents = {t1, t2}
  NoTorrent = NoTorrent
  AddedOn <- MCAddedOn
  Adoptable = {}
  Sensitive = {t1}
  MyJdConfigured = FALSE
  MaxJobsPerTick = 1
  Parts = 1
  MaxSubmissions = 2
  MaxActions = 0
  MaxFaults = 0
PROPERTIES
  NewestActiveSettles
CHECK_DEADLOCK FALSE
