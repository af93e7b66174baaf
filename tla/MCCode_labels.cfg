SPECIFICATION Spec
CONSTANTS
  NoBase = NoBase
  GivenBases = {NoBase}
  Bases = {100}
  Addresses = {}
  Instructions = {"jmp", "jecxz"}
  Alignments = {8}
  Orders = {0}
  Paddings = {4}
  Reach8 = 6
  Reach32 = 1000
  MaxSections = 2
  MaxLabels = 2
  MaxFields = 2
  MaxSize = 4
INVARIANTS
  FixupCountExact
  FieldsAccounted
  RelocatedCodeIsRight
  LayoutSound
CHECK_DEADLOCK FALSE
