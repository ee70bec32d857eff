SPECIFICATION FairSpec
CONSTANTS
  a = a
  b = b
  c = c
  NoOne = NoOne
  Goroutines <- Two
  CallbackUsers <- Two
  Closers <- Nobody
  CloseRaces = FALSE
  Collects = FALSE
  MaxDepth = 2
  MaxStack = 2
PROPERTIES
  OperationsReturn
CHECK_DEADLOCK FALSE
