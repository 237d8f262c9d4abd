SPECIFICATION FairKafkaSpec
CONSTANTS
  s1 = s1
  s2 = s2
  Subs <- MCSubs
  None = None
  MaxLog = 2
  MaxRebalances = 1
INVARIANTS
  KafkaInv
  CommitsWhatWasTried
PROPERTIES
  EventuallyTried
CHECK_DEADLOCK FALSE
