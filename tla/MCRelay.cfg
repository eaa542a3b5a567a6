SPECIFICATION FairSpec
CONSTANTS
  Buffer = 2
  Socket = 1
  MaxDown = 3
  MaxUp = 1
CHECK_DEADLOCK FALSE
INVARIANTS
  TypeOK
  InOrder
  NoFreedBuffer
  EndDelivers
  NoLostEdge
PROPERTY Delivered
