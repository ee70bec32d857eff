SPECIFICATION MSpec
CONSTANTS
  a = a
  b = b
  NoOne = NoOne
  Goroutines <- Two
  CallbackUsers <- OnlyA
  Closers <- OnlyA
  CloseRaces = FALSE
  Collects = FALSE
  MaxDepth = 2
  MaxStack = 4
  Overlap = TRUE
  Contexts <- Cancellable
  GuestWritesBreaker = FALSE
  PageBytes = 4
  InitialPages = 1
  MaxMemoryBytes = 11
  Unlimited = 2
INVARIANTS
  MTypeOK
  NothingLingers
  BuffersIntact
  NothingLeaked
  WritesSurviveGrowth
CHECK_DEADLOCK FALSE
