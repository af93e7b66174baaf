SPECIFICATION Spec
CONSTANTS
  b1 = b1
  b2 = b2
  b3 = b3
  NoBlock = NoBlock
  BlockIds <- TwoBlocks
  BitWordSize = 3
  Options = {"FillUnusedMemory"}
  PoolCount = 1
  BlockSize = 6
  MaxBlockSize = 6
  LargePageSize = 0
  Requests = {1, 3}
  TruncateSizes = {1}
  ResetPolicies = {}
  MaxAllocations = 6
SYMMETRY Symmetry
INVARIANTS
  SpansDisjoint
  BitsMatchSpans
  IncrementalFront
  SearchWindow
  SkipIsSound
  EmptyCountExact
  EmptyHoldsNoSpan
  UnusedFilled
PROPERTIES
  ImplementsSpanAllocator
CHECK_DEADLOCK FALSE
