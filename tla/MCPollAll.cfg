SPECIFICATION FairSpec
CONSTANTS
  NFiles = 3
  BUFFER_SIZE = 2
  QUEUE_DEPTH = 3
  Sizes <- MCSizes
  Faults <- MCFaults
INVARIANTS
  TypeOK
  WrittenFromStart
  OneReadPerFile
  ReturnsOnlyEmptyHanded
PROPERTIES
  ReturnsIfEmptyHanded
