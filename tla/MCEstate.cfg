SPECIFICATION Spec
CONSTANTS
  d1 = d1
  d2 = d2
  ann = ann
  bob = bob
  lee = lee
  None = None
  Gone = Gone
  Doc = {d1, d2}
  Value = {ann, bob, lee}
  Nameable = {lee, bob}
  PersonName = {lee, bob}
  Finding <- MCFinding
  Text <- MCText
  Batch = 2
  MaxWrites = 1
  MaxActs = 2
  MaxCrash = 1
SYMMETRY Symmetry
CHECK_DEADLOCK FALSE
INVARIANTS
  ReferencesAgree
  OthersStayReadable
  ErasureReaches
  FiledNamesFind
  CleaningMasksWhatItGot
PROPERTIES
  LegalActsStand
