SPECIFICATION FairSpec
CONSTANTS
  n1 = n1
  n2 = n2
  w1 = w1
  w2 = w2
  t1 = t1
  t2 = t2
  Names <- MCNames
  Default = Default
  Workers <- MCWorkers
  Topics <- MCTopics
  Handled <- MCHandled
  MaxBrokers = 4
  MaxReloads = 1
INVARIANTS ManagerInv DefaultServed OnePublisher
PROPERTIES GoroutinesGoOn
CHECK_DEADLOCK FALSE
