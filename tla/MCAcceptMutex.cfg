SPECIFICATION MutexSpec
CONSTANT Worker = {p1, p2, p3}
SYMMETRY Interchangeable
INVARIANTS
  OneListens
  MutualExclusion
