SPECIFICATION FairSpec
CONSTANTS
  Size = 7
  TUNNEL_TIMEOUT = 3
  MaxStep = 2
  MaxLate = 2
INVARIANT Indexed
PROPERTY AllExpire
