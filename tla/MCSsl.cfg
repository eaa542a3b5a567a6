SPECIFICATION Spec
CONSTANT Conn = {c1, c2, c3}
SYMMETRY Interchangeable
CHECK_DEADLOCK FALSE
INVARIANTS
  RelayRestored
  EventsReachHandlers
  NoneLeftBehind
