CONSTANTS
  s1 = s1  s2 = s2  h4 = h4  h6 = h6  v4 = v4  v6 = v6
  Sess <- MCSess
  Mobile <- MCMobile
  Family <- MCFamily
  Host <- MCHost
  Peer <- MCPeer
  FamilyOf <- MCFamilyOf
  ServerRelay = FALSE
  None = None
SPECIFICATION Spec
INVARIANTS EntriesAreBacked BoundPeersAnswer
