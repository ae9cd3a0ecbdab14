SPECIFICATION Spec
CONSTANTS
  i1 = i1
  n1 = n1
  n2 = n2
  Ids = {i1}
  Names = {n1, n2}
  NoName = NoName
  NoId = NoId
  Workers = {w1, w2}
  Boot = Boot
  NamesOf <- MCNamesOf
  Existing = {i1}
  MaxActions = 2
  MaxFaults = 0
INVARIANT OkMeansPublished
CHECK_DEADLOCK FALSE
