CONSTANTS
  None = None
  c1 = c1
  t1 = t1
  t2 = t2
  r1 = r1
  r2 = r2
  Chain = {c1}
  Token = {t1, t2}
  Runner = {r1,r2}
  MaxEdits = 2
  MaxToggles = 0
  MaxMishaps = 0
SPECIFICATION SupFairSpec
PROPERTIES
  ConfigApplied
