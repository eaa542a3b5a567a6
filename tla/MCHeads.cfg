SPECIFICATION Spec
CONSTANTS
  BufSize = 28
  MethodMax = 2
  VersionMax = 3
  UriMax = 2
  CodeLen = 2
  CloseLen = 1
  MaxHeaders = 2
  MaxCuts = 3
CHECK_DEADLOCK FALSE
INVARIANTS
  TypeOK
  ReadsAsWritten
  TakesWhatFits
  RejectsDamage
