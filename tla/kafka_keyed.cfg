SPECIFICATION Spec
CONSTANTS
  c1 = c1  c2 = c2  k1 = k1  k2 = k2  u1 = u1  u2 = u2
  Nobody = Nobody
  Consumers <- TwoConsumers
  Partitions <- OnePartition
  Users <- TwoUsers
  Ids <- SomeIds
  Log <- SubscriptionLog
  Faults <- OrderlyFaults
  MaxFaults = 2
SYMMETRY ConsumerSymmetry
INVARIANTS LoadedIsCurrent SubscriptionsConverge
