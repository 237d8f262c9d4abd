SPECIFICATION Spec
CONSTANTS
  Callers = {a, b}
  MaxConnects = 2
  MaxCloses = 1
  MaxTroubles = 2
INVARIANTS ConnInv
CHECK_DEADLOCK FALSE
