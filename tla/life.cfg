SPECIFICATION FairSpec
CONSTANTS
  q1 = q1  q2 = q2  c1 = c1  c2 = c2
  Requests <- TwoRequests
  Consumers <- TwoConsumers
  QueueLimit = 1
INVARIANTS TypeOK RequestsAnswered EventsFlushed ConsumersWarned
PROPERTIES ShutdownEnds
