SPECIFICATION FairSpec
CONSTANTS
  h1 = h1
  h2 = h2
  p1 = p1
  q1 = q1
  p2 = p2
  c1 = c1
  c2 = c2
  Host <- MCHost1
  Peer <- MCPorts
  HostOf <- MCPortsHostOf
  FamilyOf <- MCFamilyOf1
  ChNum = {c1}
  IpLists = {{}}
  NoPeer = NoPeer
  NoChan = NoChan
  PermissionLifetime = 2
  ChannelLifetime = 2
  MinLifetime = 1
  DefaultLifetime = 1
  MaxLifetime = 1
  AuthMax = 0
  Requested = {0, 2}
  MaxJump = 2
  Mobility = TRUE
  ServerRelay = FALSE
PROPERTIES
  ChannelKept
  
