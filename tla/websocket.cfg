SPECIFICATION FairSpec
CONSTANTS
  Capacity = 10
  MaxReports = 13
INVARIANTS ProgressInOrder TwoWritersOnlyOnFailure
PROPERTIES HandlerReturns ForwarderEnds
CHECK_DEADLOCK FALSE
