SPECIFICATION Spec
CONSTANTS
  b1 = b1
  b2 = b2
  b3 = b3
  NoBlock = NoBlock
  BlockIds <- ThreeBlocks
  BitWordSize = 2
  Options = {"UseLargePages"}
  PoolCount = 3
  BlockSize = 8
  MaxBlockSize = 16
  LargePageSize = 8
  Requests = {6, 20}
  TruncateSizes = {}
  ResetPolicies = {"soft", "hard"}
  MaxAllocations = 3
SYMMETRY Symmetry
INVARIANTS
  CountersExact
  IndexAgrees
  IInv
CHECK_DEADLOCK FALSE
