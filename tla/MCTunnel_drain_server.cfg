SPECIFICATION FairSpec
CONSTANTS
  Conn = {c1, c2}
  Tun = {t1, t2}
  Listener = listener
  Null = null
  Mode = "server"
  MaxBatch = 2
PROPERTY Drains
