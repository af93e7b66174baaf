SPECIFICATION Spec
CONSTANTS
  text = text
  data = data
  p1 = p1
  f1 = f1
  exit1 = exit1
  end1 = end1
  pool1 = pool1
  gpool = gpool
  None = None
  Sections = {text, data}
  Text = text
  Labels = {}
  Plain = {p1}
  FuncNodes = {f1}
  ExitOf <- Exits
  EndOf <- Ends
  PoolOf <- Pools
  GlobalPool = gpool
  MaxActive = 5
  Rebinding = FALSE
INVARIANTS
  LinksAgree
  SwitchingIsExact
PROPERTIES
  ImplementsNodeSequence
CHECK_DEADLOCK FALSE
