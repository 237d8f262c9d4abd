SPECIFICATION FairSubSpec
CONSTANTS
  Callers = {a}
  MaxConnects = 1
  MaxCloses = 0
  MaxTroubles = 1
  Msgs = {m1}
  AutoAck = FALSE
  AckSuccess = TRUE
  RequeueOnError = TRUE
  DurableQueue = FALSE
INVARIANTS SubInv NothingUnhandledLost
PROPERTIES KeepsConnection Resumes
CHECK_DEADLOCK FALSE
