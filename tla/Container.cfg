SPECIFICATION Spec
CONSTANTS
  s1 = s1
  s2 = s2
  Settings = {s1, s2}
  Off = Off
  Parts = {"logger", "gops"}
  Docs <- MCDocs
  Requests = {r1}
INVARIANTS TypeOK Configured ServedWhileCalm
CHECK_DEADLOCK FALSE
