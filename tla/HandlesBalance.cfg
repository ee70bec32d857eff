SPECIFICATION HSpec
CONSTANTS
  a = a
  b = b
  p = p
  q = q
  r = r
  x = x
  y = y
  NoOne = NoOne
  NoObject = NoObject
  Goroutines <- Two
  CallbackUsers <- OnlyA
  Closers <- OnlyB
  CloseRaces = TRUE
  Collects = TRUE
  MaxDepth = 2
  MaxStack = 3
  Handles <- ThreeHandles
  Objects <- TwoObjects
  KeepsAlive = TRUE
  Traps = TRUE
SYMMETRY Symmetry
INVARIANTS
  HTypeOK
  PinsBalance
  OnePlace
  HandlesResolve
CHECK_DEADLOCK FALSE
