SPECIFICATION Spec
CONSTANTS
  a = a
  b = b
  c = c
  NoOne = NoOne
  Goroutines <- Two
  CallbackUsers <- Two
  Closers <- Nobody
  CloseRaces = FALSE
  Collects = TRUE
  MaxDepth = 1
  MaxStack = 4
INVARIANTS
  InnermostRuns
