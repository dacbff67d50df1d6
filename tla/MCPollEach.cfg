SPECIFICATION FairSpec
CONSTANTS
  BLOCK_SZ = 2
  INT_MAX = 3
  NFiles = 4
  IOV_MAX = 1
  SQ_ENTRIES = 2
  Sizes <- MCSizes
  Faults <- MCFaults
INVARIANTS
  TypeOK
  PrintedOnce
  InOrderUnlessMissed
  AtOnePlace
PROPERTIES
  NothingAfterError
  Ends
