SPECIFICATION Spec
CONSTANTS
  Rules = {r1, r2}
  NoRule = NoRule
  BatchLimit = 2
  Parallelism = 2
  MaxActions = 2
  MaxFaults = 2
PROPERTY AutomaticRespectsBackoff
CHECK_DEADLOCK FALSE
