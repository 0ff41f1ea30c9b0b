SPECIFICATION Spec
CONSTANTS
  Torn = Torn
  Worker = {w1, w2}
  MaxEntries = 4
  MaxTears = 2
SYMMETRY Threads
INVARIANTS
  LossIsReported
  TearsBoundLosses
  NoFalseAlarm
  WitnessedHeadIsKept
