SPECIFICATION Spec
CONSTANTS
  a = a
  b = b
  c = c
  NoOne = NoOne
  Goroutines <- Two
  Failures = TRUE
  MaxDepth = 2
  MaxBinds = 3
INVARIANTS
  TypeOK
  CallsReachFunction
  DispatcherLock
  NoDeadlock
PROPERTIES
  OneDispatcher
  FunctionsPermanent
CHECK_DEADLOCK FALSE
