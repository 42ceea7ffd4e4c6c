SPECIFICATION SingleThreadSpec
CONSTANTS
  LfSetup <- SingleThread
  MaxReload = 2
  MaxAlloc = 1
CONSTANTS
  AsSetup <- MCAsSetup
  AsThread = {1, 2}
  AltAddr = {"a", "b", "l"}
  AltFamily <- MCAltFamily
  Local = "l"
  CLI_PASSWORD_TRY_NUMBER = 2
  MaxAsSes = 2
  MaxAsQueue = 2
  MaxAlt = 3
CONSTANTS
  AuthSess = {s1}
  NAuth = 2
  AuthUser = {"a", "b"}
  AuthRealm = {"r1", "r2"}
  Password = {"p1", "p2"}
  OriginRealm <- MCOriginRealm
  DefaultRealm = "r1"
  StaticUser = {"b"}
  AuthOption <- MCAuthOption
  Request <- MCRequest
  FirstAccounts <- MCAccounts
  MaxRequest = 3
  MaxNonce = 2
  NoAuth = NoAuth
CONSTANTS
  UcCommand <- MCUcCommand
  UcChannel = {1, 2}
  MaxCycle = 2
  MaxAf = 3
CONSTANTS
  UtSetup <- MCUtSetup
  UtSession = {1, 2}
  MaxBatch = 2
  MaxMessage = 2
  MaxDone = 1
PROPERTY StartsUp
CHECK_DEADLOCK FALSE
