SPECIFICATION Spec
CONSTANTS
  c1 = c1
  c2 = c2
  t1 = t1
  t2 = t2
  v = v
  email = email
  cvv = cvv
  expiry = expiry
  blood = blood
  None = None
  NoPlan = NoPlan
  Column = {c1, c2}
  Key = {email, cvv, expiry, blood}
  Treatment <- MCTreatment
  Rows = {0, 1, 4}
  Object = {t1, t2, v}
  TableOf <- MCTableOf
  RowsModerate = 2
  RowsHigh = 4
  TablesModerate = 2
  TablesHigh = 3
  ConsumersHigh = 2
  MaxCredits = 2
  ColumnFacts <- MCColumnFacts
  Contents <- MCContents
  Graphs <- MCGraphs
  Budget = {1, 2}
  MaxScans = 1
INVARIANTS
  AutonomyIsEarned
  FindingsAreAccounted
  AFullRateIsEarned
