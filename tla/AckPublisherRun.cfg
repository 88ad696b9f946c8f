CONSTANTS
  Deposit = {1, 2, 3}
  MaxInFlight = 2
  MaxBatchSize = 2
  MaxFaults = 1
  MaxDups = 1
SPECIFICATION FairSpec
INVARIANTS
  TypeOK
  NotDeletedBeforeDelivery
  FlowControl
PROPERTIES
  TopUpFindsWork
  OutboxSpec
  OutboxFairSpec
