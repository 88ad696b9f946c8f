CONSTANTS
  d1 = d1
  d2 = d2
  d3 = d3
  Row = {d1, d2, d3}
  BatchSize = 2
  MaxLosses = 3
SPECIFICATION WakeFairSpec
INVARIANTS
  WakeTypeOK
  WakeNotLost
PROPERTIES
  PollingBackup
