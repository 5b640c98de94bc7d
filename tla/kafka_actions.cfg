SPECIFICATION FairSpec
CONSTANTS
  c1 = c1  c2 = c2  k1 = k1  k2 = k2  u1 = u1  u2 = u2
  Nobody = Nobody
  Consumers <- TwoConsumers
  Partitions <- TwoPartitions
  Users <- OneUser
  Ids <- SomeIds
  Log <- ActionLog
  Faults <- AllFaults
  MaxFaults = 1
PROPERTIES EveryMessageHandled
