SPECIFICATION Spec
CONSTANTS
  b = b
  h = h
  w = w
  x = x
  Constants <- SomeConstants
  MaxSize = 28
INVARIANTS
  AnswersHold
  OneOffset
  SpaceSound
