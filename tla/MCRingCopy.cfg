SPECIFICATION FairSpec
CONSTANTS
  FILE_BLOCK_SIZE = 2
  SQ_ENTRIES = 2
  CQ_ENTRIES = 4
  WRAP = 8
  Stale = Stale
  Sizes <- MCSizes
  OldLengths <- MCOld
  StaleBytes <- MCStale
  Faults <- MCFaults
INVARIANTS
  SuccessMeansEqual
  CompletionIsOwn
  NoWaitForNothing
PROPERTIES
  CopySpec
  EndsIfUndisturbed
