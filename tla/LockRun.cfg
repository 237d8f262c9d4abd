SPECIFICATION FairRunSpec
CONSTANTS
  Callers = {r1, r2}
  Lockers = {r1, r2}
  Token = {t1, t2, t3, t4}
  None = None
  OptLockTimeout = 1
  OptRetryCount = 1
  MaxLate = 1
INVARIANTS RunInv
PROPERTIES RunReturns OrphanExpires
CHECK_DEADLOCK FALSE
