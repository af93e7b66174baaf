SPECIFICATION Spec
CONSTANTS
  b1 = b1
  b2 = b2
  b3 = b3
  NoBlock = NoBlock
  BlockIds <- OneBlock
  BitWordSize = 8
  Options = {}
  PoolCount = 1
  BlockSize = 8
  MaxBlockSize = 8
  LargePageSize = 0
  Requests = {1, 3, 4}
  TruncateSizes = {}
  ResetPolicies = {}
  MaxAllocations = 8
SYMMETRY Symmetry
INVARIANTS
  AllocStaysInBlock
CHECK_DEADLOCK FALSE
