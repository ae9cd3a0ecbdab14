SPECIFICATION Spec
CONSTANTS
  MinDelta = 2
  Episodes = {1, 2}
  Positions = {1, 4}
  MaxActs = 2
  MaxSyncs = 1
PROPERTIES MissingClearsNothing
CHECK_DEADLOCK FALSE
