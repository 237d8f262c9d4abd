SPECIFICATION Spec
CONSTANTS
  Callers = {c1, c2}
  Lockers = {l1, l2}
  Token = {t1, t2, t3, t4}
  None = None
  OptLockTimeout = 2
  OptRetryCount = 1
  MaxLate = 1
SYMMETRY Symmetry
INVARIANTS TypeOK LockInv
PROPERTIES HeldKeySurvives UnlockReportsTruth LockReportsTruth RetryBudget
