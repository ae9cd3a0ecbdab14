SPECIFICATION FairSpec
CONSTANTS
  RuleIds = {r1, r2}
  Workers = {w1, w2, w3}
  NoRule = NoRule
  MaxWorkerLimit = 3
  InitialLimit = 2
  StreakToIncrease = 2
  MaxRequests = 4
INVARIANTS
  TypeOK
  NoLostRequest
  EveryRequestAccounted
  OperationTracksWork
  OnePreparationPerBatch
  StoppedMeansQuiet
PROPERTIES
  StopTerminates
  ImplementsWorkQueue
  RequestsServed
