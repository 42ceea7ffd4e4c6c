SPECIFICATION RsSpec
CONSTANTS
  Request = {r1, r2}
  Port <- MCPort
  EvenPort <- AnyEvenPort
  Token <- MCToken
  MaxDel = 1
INVARIANT NoPortLost
