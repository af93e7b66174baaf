SPECIFICATION Spec
CONSTANTS
  Works = {v1, v2, v3}
  None = None
  Archs <- SharedTables
SYMMETRY Symmetric
INVARIANT AssertionsHold
