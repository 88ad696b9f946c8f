CONSTANTS
  Deposit = {1, 2}
  MaxInFlight = 2
  MaxBatchSize = 2
  MaxFaults = 1
  MaxDups = 0
SPECIFICATION Spec
PROPERTIES
  GracefulWait
