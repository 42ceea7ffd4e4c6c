SPECIFICATION Spec
CONSTANTS
  h1 = h1  h2 = h2  h3 = h3  h4 = h4
  n1 = n1  n2 = n2  n3 = n3
  b1 = b1  b2 = b2
  Host <- MCHost
  PortNo = {q1, q2}
  ChNum <- MCChNum
  Bucket = {b1, b2}
  HashOf <- MCHashOf
  ChHashOf <- MCChHashOf
  MainSlots = 1
  MaxPerms = 3
  MaxExtra = 2
  Faults <- AnyFault
  NoEntry = NoEntry
  NoPeer = NoPeer
CONSTANTS
  s1 = s1  s2 = s2  s3 = s3  home = home  guest = guest
  Sess = {s1, s2, s3}
  Mobile <- OneMobile
  User = {alice, bob}
  Realm <- TwoRealms
  Default = home
  Configured = {home}
  TotalQuota = 2
  UserQuota = 1
  TcpRelay = TRUE
  NoUser = NoUser
CONSTANTS
  MThread = {0, 1}
  MSess = {s1, s2, s3}
  MSock = {c1, c2}
  MaxTicket = 4
  NoSess = NoSess
  NoSock = NoSock
  NoTicket = NoTicket
CONSTANTS
  UlSetup <- MCUlSetup
  UlClient = {1, 2}
  MaxUlSock = 3
  MaxUlSes = 3
CONSTANTS
  NatKind <- MCNatKind
  StunService <- MCStunService
  Probe <- MCProbe
CONSTANTS
  t1 = t1  t2 = t2  t3 = t3
  Thread = {t1, t2, t3}
  Bps = {1, 2}
  Capacity = {0, 3}
  MaxBpsCalls = 4
  Word = 6
CONSTANTS
  Nothing = Nothing
  DbThread = {t1, t2}
  Rereader = t1
  DbType = {"mysql", "pgsql", "sqlite", "redis", "mongo"}
  DbCall <- MCDbCall
  FirstDb <- MCFirstDb
  FirstMem = {"3"}
  ConnInfo <- MCConnInfo
  Realms = {"r1", "r2"}
  KnownRealm = {"r1"}
  MaxCalls = 2
  MaxDbFault = 1
CONSTANTS
  UtSetup <- MCUtSetup
  UtSession = {1, 2}
  MaxBatch = 2
  MaxMessage = 2
  MaxDone = 1
CONSTANTS
  AuthSess = {s1}
  NAuth = 2
  AuthUser = {"a", "b"}
  AuthRealm = {"r1", "r2"}
  Password = {"p1", "p2"}
  OriginRealm <- MCOriginRealm
  DefaultRealm = "r1"
  StaticUser = {"b"}
  AuthOption <- MCAuthOption
  Request <- MCRequest
  FirstAccounts <- MCAccounts
  MaxRequest = 3
  MaxNonce = 2
  NoAuth = NoAuth
INVARIANTS
  CountersMatch TakersWithinQuota
  TicketsExact SocketHeldOnce
  ChildrenExact
  VerdictTrue
  WithinCapacity
   WaitersAreWoken
  
  Authentic
PROPERTIES
  ImplementsPeerTable
  
CHECK_DEADLOCK FALSE
