SPECIFICATION FairSpec
CONSTANTS
  BLOCK_SZ = 2
  INT_MAX = 5
  NFiles = 2
  IOV_MAX = 2
  SQ_ENTRIES = 1
  CQ_ENTRIES = 1
  Sizes <- MCSizes
  Faults <- MCFaults
INVARIANTS
  TypeOK
  
  ReadOnce
  InOrderUnlessLate
PROPERTIES
  EndsUnlessAsleep
