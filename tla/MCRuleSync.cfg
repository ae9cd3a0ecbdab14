SPECIFICATION Spec
CONSTANTS
  i1 = i1
  n1 = n1
  n2 = n2
  Ids = {i1, i2}
  Names = {n1, n2}
  NoName = NoName
  NoId = NoId
  Workers = {w1}
  Boot = Boot
  NamesOf <- MCNamesOf
  Existing = {i1}
  MaxActions = 2
  MaxFaults = 1
INVARIANTS
  TypeOK
  UserEditsSurvive
  SettledWhenQuiescent
  PublishedUnlessContended
  WithdrawnUnlessContended
\* Once the bounds on actions and faults are used up the system rests.
CHECK_DEADLOCK FALSE
