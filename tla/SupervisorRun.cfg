CONSTANTS
  None = None
  c1 = c1
  t1 = t1
  t2 = t2
  r1 = r1
  r2 = r2
  r3 = r3
  Chain = {c1}
  Token = {t1, t2}
  Runner = {r1, r2, r3}
  MaxEdits = 1
  MaxToggles = 2
  MaxMishaps = 2
SPECIFICATION SupFairSpec
INVARIANTS
  SupTypeOK
  AtMostOneLive
  NoOverlap
  CleanExit
PROPERTIES
  ConfigApplied
  ShutdownEnds
