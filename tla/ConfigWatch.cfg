SPECIFICATION FairSpec
CONSTANTS
  Engines = {"etcd", "file"}
  Good = {g1, g2}
  Bad = {b1}
  Absent = Absent
  ChangesBufferSize = 2
  MaxWrites = 5
INVARIANTS WatchInv ChannelsSafe
PROPERTIES KeepsGoodConfig Converges
CHECK_DEADLOCK FALSE
