SPECIFICATION Spec
CONSTANTS
  CountSize = 2
  RandSize = 2
  PoolSize = 1
  MaxSecond = 1
  MaxHigh = 1
  MaxBack = 1
  MaxRestarts = 1
INVARIANTS TypeOK SequenceInv
PROPERTIES KeepsPromise
CHECK_DEADLOCK FALSE
