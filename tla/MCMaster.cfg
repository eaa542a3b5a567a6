SPECIFICATION BusySpec
CONSTANTS
  Slot = {s1, s2}
  Pid = {p1, p2, p3, p4}
  Null = null
CHECK_DEADLOCK FALSE
INVARIANTS
  KnowsWorkers
  ToldToQuit
PROPERTIES
  Replaced
  MasterStops
