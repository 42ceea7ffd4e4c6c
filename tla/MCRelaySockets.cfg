SPECIFICATION RsFairSpec
CONSTANTS
  Request = {r1, r2, r3}
  Port <- MCPort
  EvenPort <- PlainOrReserve
  Token <- MCToken
  MaxDel = 1
INVARIANTS OneOwner NoPortLost
PROPERTIES KeptUntilTimeout ReservationEnds
