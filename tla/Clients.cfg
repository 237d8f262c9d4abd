SPECIFICATION Spec
CONSTANTS
  u1 = u1
  u2 = u2
  Users = {u1, u2}
  Commands = {"get", "setrange", "ttl"}
  Label <- MCLabel
  MaxReloads = 3
  MaxCalls = 2
INVARIANTS ClientsInv ClosedOnlyByReload
CHECK_DEADLOCK FALSE
