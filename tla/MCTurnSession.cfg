SPECIFICATION Spec
CONSTANTS
  h1 = h1
  h2 = h2
  p1 = p1
  q1 = q1
  p2 = p2
  c1 = c1
  c2 = c2
  Host <- MCHosts
  Peer <- MCPeers
  HostOf <- MCHostOf
  FamilyOf <- MCFamilyOf
  ChNum = {c1, c2}
  IpLists <- MCLists
  NoPeer = NoPeer
  NoChan = NoChan
  PermissionLifetime = 1
  ChannelLifetime = 2
  MinLifetime = 1
  DefaultLifetime = 1
  MaxLifetime = 1
  AuthMax = 0
  Requested = {0}
  MaxJump = 2
  Mobility = TRUE
  ServerRelay = FALSE
SYMMETRY MCSymmetry
INVARIANTS
  ChannelOwnership
  RelayedUnderPermission

  
