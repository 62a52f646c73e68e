SPECIFICATION FairSpec
CONSTANTS
  MaxBytes = 8
  NoByte = NoByte
INVARIANTS
  NoOverrun
  SelectCoversCommand
PROPERTIES
  AtomicAccess
  CommandReturns
