SPECIFICATION FairSpec
CONSTANTS
  a1 = a1  a2 = a2  a3 = a3  b1 = b1  ipA = ipA  ipB = ipB
  Nobody = Nobody
  Requests <- ThreeAndOne
  Clients <- Addresses
  ClientOf <- Sender
  Window = 1
  MaxRequest = 2
  MaxNow = 3
CHECK_DEADLOCK FALSE
INVARIANTS TypeOK NewestWindowBounded
PROPERTIES EveryRequestAnswered
