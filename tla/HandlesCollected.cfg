SPECIFICATION HSpec
CONSTANTS
  a = a
  b = b
  p = p
  q = q
  r = r
  x = x
  y = y
  NoOne = NoOne
  NoObject = NoObject
  Goroutines <- Two
  CallbackUsers <- Nobody
  Closers <- Nobody
  CloseRaces = FALSE
  Collects = TRUE
  MaxDepth = 2
  MaxStack = 3
  Handles <- TwoHandles
  Objects <- OneObject
  KeepsAlive = FALSE
  Traps = FALSE
SYMMETRY Symmetry
INVARIANTS
  HandlesResolve
CHECK_DEADLOCK FALSE
