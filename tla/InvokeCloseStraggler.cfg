SPECIFICATION Spec
CONSTANTS
  a = a
  b = b
  c = c
  NoOne = NoOne
  Goroutines <- Two
  CallbackUsers <- Nobody
  Closers <- OnlyA
  CloseRaces = TRUE
  Collects = TRUE
  MaxDepth = 1
  MaxStack = 4
INVARIANTS
  RunsLive
CHECK_DEADLOCK FALSE
