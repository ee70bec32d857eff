SPECIFICATION IFairSpec
CONSTANTS
  a = a
  b = b
  NoOne = NoOne
  Goroutines <- Two
  CallbackUsers <- OnlyA
  Closers <- Nobody
  CloseRaces = FALSE
  Collects = TRUE
  MaxDepth = 1
  MaxStack = 4
  Overlap = FALSE
  Contexts <- AnyContext
  GuestWritesBreaker = TRUE
INVARIANTS
  NoStrayInterrupt
PROPERTIES
  CancelledReturns
  OutcomeHonest
