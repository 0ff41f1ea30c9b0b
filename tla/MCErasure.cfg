SPECIFICATION Spec
CONSTANTS
  t1 = t1
  s1 = s1
  k1 = k1
  k2 = k2
  None = None
  Table = {t1}
  Store = {s1}
  Key = {k1, k2}
  Subject = k1
  Request <- MCRequest
  Port <- Own
  SweepAborts = FALSE
INVARIANTS
  CompleteMeansErased
  APassMeansErased
  AttestabilityIsHonest
