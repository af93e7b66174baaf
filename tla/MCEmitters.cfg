SPECIFICATION Spec
CONSTANTS
  h1 = h1
  h2 = h2
  a1 = a1
  a2 = a2
  b1 = b1
  c1 = c1
  None = None
  Holders = {h1, h2}
  Assemblers = {a1, a2}
  Builders = {b1}
  Compilers = {}
  Installed <- LoggersAndHandlers
  Diagnosed = {a1}
  InitialCapacity = 2
  AllocOverhead = 1
  GrowThreshold = 2
  EmitSizes = {2}
  ReserveSizes = {4}
  Offsets = {0}
  MaxSize = 4
  MaxSections = 2
  Failures = {}
INVARIANTS
  PointersAgree
  MemoryAccounted
  LinksAgree
  SettingsFollow
PROPERTIES
  ImplementsRegistry
CONSTRAINT OneThingAtATime
CHECK_DEADLOCK FALSE
