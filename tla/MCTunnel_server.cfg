SPECIFICATION Spec
CONSTANTS
  Conn = {c1, c2, c3}
  Tun = {t1, t2, t3}
  Listener = listener
  Null = null
  Mode = "server"
  MaxBatch = 2
SYMMETRY Interchangeable
INVARIANTS
  TypeOK
  Ownership
  NoWildHandler
  NoDeafHandler
  TimersOwned
  EveryWaitTimed
  PoolsSuffice
PROPERTIES
  Isolation
  Implements
