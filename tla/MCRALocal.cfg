SPECIFICATION Spec
CONSTANTS
  Works = {v1, v2, v3}
  None = None
  Archs <- SomeArchs
SYMMETRY Symmetric
INVARIANTS
  ValuesKept
  OperandsRead
  AssertionsHold
  EntryKept
PROPERTY RoundsSettle
