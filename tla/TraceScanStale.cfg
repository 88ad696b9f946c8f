CONSTANTS
  Tx <- MCTx
  Frame <- MCFrame
  Addr = {"router", "vault"}
  None = None
  Block <- MCBlock
  To <- MCTo
  Calls <- MCCalls
  Transfers <- MCTransfers
  Accounts = {"user", "late"}
  Registered = {"user"}
  Receiver <- MCReceiver
  Reverted <- MCReverted
  FailedTx = {}
  DeployedAt <- MCDeployedAt
  MaxDepth = 1
  CacheMax = 1
  MaxFaults = 0
SPECIFICATION Spec
INVARIANTS
  NeverMissed
