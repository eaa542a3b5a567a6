SPECIFICATION DeferredSpec
CONSTANTS
  Conn = {c1, c2, c3, c4}
  Tun = {t1, t2, t3, t4}
  Listener = listener
  Null = null
  Mode = "client"
  MaxBatch = 3
SYMMETRY Interchangeable
INVARIANTS
  Queued
  EveryWaitTimed
PROPERTY Implements
