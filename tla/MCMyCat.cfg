SPECIFICATION FairSpec
CONSTANTS
  BLOCK_SZ = 2
  INT_MAX = 5
  IOV_MAX = 2
  NFiles = 3
  CHUNK = 3
  FdLimit = 4
  Nul = Nul
  Word = Word
  Sizes <- MCSizes
  Faults <- MCFaults
  StaleBytes <- MCStale
INVARIANTS
  TypeOK
  OverrunOnlyPastIntMax
  CopyInBounds
  NothingNeededIsReleased
  DeliveredInOrder
  WholeFileDelivered
  LostWakeupOnlyIfOvertaken
PROPERTIES
  StreamSpec
  ExitsUnlessWakeupLost
