CONSTANTS
  Deposit = {1, 2, 3}
  MaxBatchSize = 2
  MaxFaults = 2
  MaxDups = 0
SPECIFICATION FairSpec
INVARIANTS
  TypeOK
  LostOnlyInTransit
PROPERTIES
  EventuallySent
