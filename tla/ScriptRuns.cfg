SPECIFICATION Spec
CONSTANTS
  Commands <- CommandGoroutines
  Embedders <- EmbedderGoroutines
  Dirs = {d1, d2}
  Files = 2
  MaxRuns = 2
  MaxRunsInMemory = 1
  MaxInstances = 1
PROPERTIES
  CommandsEnd
INVARIANTS
  ScriptTypeOK
  ScriptSeesItsOwn
  OutcomeTold
  FlushedMeansSeen
  ReportLast
  CodeTellsOutcome
  LibraryComplete
CHECK_DEADLOCK FALSE
