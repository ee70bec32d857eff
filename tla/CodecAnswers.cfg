SPECIFICATION Spec
CONSTANTS
  ByteSize = 16
  WordBytes = 2
  HalfBytes = 1
  ShortBytes = 1
  Messages <- SomeMessages
  Others <- OtherFields
  Short = TRUE
INVARIANTS
  ReaderInBounds
  RequestsUnderstood
  WholeExact
  CutShortTold
PROPERTIES
  DecodingEnds
CHECK_DEADLOCK FALSE
