SPECIFICATION Spec
CONSTANTS
  i1 = i1
  i2 = i2
  Instances <- MCInstances
  Configs <- MCConfigs
  Absent = Absent
  Unusable = Unusable
  MaxRetries = 2
  Interval = 1
  Jitter = 2
  Parts = 2
  MaxReloads = 2
INVARIANTS ClientInv BodyIntact TriesEnough
PROPERTIES ClientsStay
CHECK_DEADLOCK FALSE
