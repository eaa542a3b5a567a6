SPECIFICATION FairSpec
CONSTANTS
  Buffer = 6
  MaxChunks = 2
  MaxContent = 7
  MaxEarly = 5
CHECK_DEADLOCK FALSE
INVARIANTS
  TypeOK
  EndsWhereItEnds
  RejectsTheOdd
  NothingLost
  NoFreedBuffer
PROPERTY Completes
