SPECIFICATION Spec
CONSTANTS
  a = a
  b = b
  c = c
  NoOne = NoOne
  Goroutines <- Three
  CallbackUsers <- OnlyA
  Closers <- Two
  CloseRaces = FALSE
  Collects = TRUE
  MaxDepth = 3
  MaxStack = 6
INVARIANTS
  TypeOK
  RunsLive
  CloseOnce
  GuestOwnsLock
  InnermostRuns
  IdleStackEmpty
  FramesDisjoint
PROPERTIES
  ImplementsStack
CHECK_DEADLOCK FALSE
