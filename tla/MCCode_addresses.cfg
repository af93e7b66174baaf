SPECIFICATION Spec
CONSTANTS
  NoBase = NoBase
  GivenBases = {NoBase, 100}
  Bases = {100, 130}
  Addresses = {90, 900, 1800}
  Instructions = {"call", "jmp", "jcc", "jecxz"}
  Alignments = {8}
  Orders = {0}
  Paddings = {4}
  Reach8 = 18
  Reach32 = 200
  MaxSections = 2
  MaxLabels = 0
  MaxFields = 3
  MaxSize = 4
INVARIANTS
  RelocatedCodeIsRight
  ReducedSizeHoldsCode
  TableIsCopied
CHECK_DEADLOCK FALSE
