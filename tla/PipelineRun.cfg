CONSTANTS
  Deposit = {1, 2}
  loop = loop
  MinConfirmations = 1
  MaxBlocksPerPoll = 2
  ReorgDepth = 1
  FirstHead = 2
  MaxHead = 4
  MaxInFlight = 2
  MaxBatchSize = 1
  MaxFaults = 1
  MaxPubFaults = 1
  MaxDups = 0
SPECIFICATION FairSpec
INVARIANTS
  NothingLost
  OnlyConfirmed
PROPERTIES
  EventuallyDelivered
  AllEnd
  CursorAdvancesByOne
  InitialisedOnce
