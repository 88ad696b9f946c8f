SPECIFICATION FairSpec
CONSTANTS
  MaxRetries = 1
  Items <- MCItems
  Accounts = {"a", "b"}
  Registered = {"a"}
  Contracts = {"token"}
  Errors <- MCErrors
  Transient <- MCTransient
  MaxFaults = 2
  WindowBlocks = 1
  SafetyMargin = 1
  SamplesPerCycle = 2
  MaxHead = 2
INVARIANTS TypeOK AllOrNothing TransientTolerated NoFalseAlarm BehindCursor
PROPERTIES DriftCounted CycleEnds
