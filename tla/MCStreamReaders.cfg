SPECIFICATION FairSpec
CONSTANTS
  BUFFER_SIZE = 4
  TIMES = 3
  Sizes <- MCSizes
  Faults <- MCFaults
INVARIANTS
  TypeOK
  BeginningsOnly
  OnlyLastPieceLost
  NothingHeldAtEnd
PROPERTIES
  EndsUnlessEmpty
