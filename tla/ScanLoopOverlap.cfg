CONSTANTS
  d1 = d1
  d2 = d2
  l1 = l1
  l2 = l2
  Deposit = {d1, d2}
  Loops = {l1, l2}
  MinConfirmations = 1
  MaxBlocksPerPoll = 2
  ReorgDepth = 1
  FirstHead = 0
  MaxHead = 5
  MaxFaults = 2
SPECIFICATION Spec
SYMMETRY Symmetry
INVARIANTS
  TypeOK
  NoDepositSkipped
  NoPhantomDeposit
