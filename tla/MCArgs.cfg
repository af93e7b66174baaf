SPECIFICATION FairSpec
CONSTANTS
  Stack = Stack
  None = None
  GpRegs <- Gp
  VecRegs <- Vec
  Preserved <- Kept
  Families <- SomeFamilies
INVARIANTS
  NothingOverwritten
  ArgumentsArrive
  OnlySavedRegistersWritten
  FailsOnlyForCause
PROPERTY Terminates
CHECK_DEADLOCK FALSE
