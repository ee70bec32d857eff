SPECIFICATION IFairSpec
CONSTANTS
  a = a
  b = b
  NoOne = NoOne
  Goroutines <- One
  CallbackUsers <- One
  Closers <- Nobody
  CloseRaces = FALSE
  Collects = TRUE
  MaxDepth = 2
  MaxStack = 4
  Overlap = FALSE
  Contexts <- Cancellable
  GuestWritesBreaker = FALSE
PROPERTIES
  CancelledReturns
