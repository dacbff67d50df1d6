SPECIFICATION Spec
CONSTANTS
  BLOCK_SZ = 2
  INT_MAX = 5
  IOV_MAX = 2
  NFiles = 1
  CHUNK = 3
  FdLimit = 4
  Nul = Nul
  Word = Word
  Sizes <- OneBlock
  Faults <- NoFaults
  StaleBytes <- MCStale
INVARIANTS
  NoDescriptorKept
