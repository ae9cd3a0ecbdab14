SPECIFICATION FairSpec
CONSTANTS
  Rules = {r1, r2}
  NoRule = NoRule
  BatchLimit = 2
  Parallelism = 2
  MaxActions = 2
  MaxFaults = 2
INVARIANTS
  TypeOK
  ReservedAccounted
  LockHasOwner
PROPERTIES
  OutcomesRecorded
  MissingEventuallyFetched
  QueueDrains
  StopCompletes
CHECK_DEADLOCK FALSE
