CONSTANTS
  s1 = s1  s2 = s2  alice = alice  bob = bob  p1 = p1  p2 = p2  v4 = v4
  c1 = c1  c2 = c2  i1 = i1
  Sess <- MCSess
  User <- MCUser
  UserOf <- MCUserOf
  Family <- MCFamily
  Peer <- MCPeer
  FamilyOf <- MCFamilyOf
  Conn <- MCConn
  Id <- MCId
  MaxUnsent = 2
  MaxData = 3
  MaxPending = 1
  None = None
SPECIFICATION FairSpec
INVARIANTS MapIsExact  DataInOrder
PROPERTY WaitingEnds
