SPECIFICATION Spec
CONSTANTS
  Works = {v1, v2, v3}
  None = None
  Archs <- WriteBack
SYMMETRY Symmetric
INVARIANT ValuesKept
