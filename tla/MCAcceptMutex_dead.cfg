SPECIFICATION MutexSpec
CONSTANT Worker = {p1, p2}
SYMMETRY Interchangeable
INVARIANT DeadUnlocked
