SPECIFICATION FairSpec
CONSTANTS
  BufLen = 3
  Depth = 1
  Threshold = 0
  Timeout = 2
  MaxOut = 3
  MaxIn = 3
INVARIANTS
  TypeOK
  OutputInOrder
  InputInOrder
  PendingOutputIsArmed
  InputIsArmed
PROPERTIES
  WriteReturns
  ReadGetsInput
  OutputReachesHost
