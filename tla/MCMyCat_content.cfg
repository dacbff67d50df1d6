SPECIFICATION Spec
CONSTANTS
  BLOCK_SZ = 4
  INT_MAX = 5
  IOV_MAX = 2
  NFiles = 1
  CHUNK = 2
  FdLimit = 4
  Nul = Nul
  Word = Word
  Sizes <- OneBlock
  Faults <- NoFaults
  StaleBytes <- EitherStale
INVARIANTS
  TestContentMatches
