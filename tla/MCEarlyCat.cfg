SPECIFICATION FairSpec
CONSTANTS
  BLOCK_SZ = 2
  INT_MAX = 5
  IOV_MAX = 2
  NFiles = 3
  CHUNK = 3
  FdLimit = 6
  Stale = Stale
  Sizes <- MCSizes
  Inherited <- MCInherited
  Faults <- MCFaults
INVARIANTS
  TypeOK
  DeliveredAfterCompletion
PROPERTIES
  StreamSpec
  EndsUnlessWakeupLost
