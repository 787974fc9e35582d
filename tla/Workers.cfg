\* Every worker by itself; each stops when its document or question is done.
SPECIFICATION Spec
CHECK_DEADLOCK FALSE
CONSTANTS
  r1 = r1
  r2 = r2
  r3 = r3
  k1 = k1
  k2 = k2
  x1 = x1
  x2 = x2
  None = None
  Kinds <- SomeBlocks
  MaxBlocks = 4
  Settings <- SomeSettings
  IdLength = 4
  LineBreak = 20
  MaxTexts = 5
  MaxBatch = 3
  MaxCalls = 2
  Request = {r1, r2, r3}
  ModelKey = {k1, k2}
  MaxFailures = 2
  Part = {x1, x2, 2}
  Given <- SomeIds
  CaseText = {k1, k2}
  MaxVersion = 3
  MaxOps = 4
  Contents <- SomeContents
  Timeout = 7
  Interval = 2
  Slow = 3
  MaxClock = 18
INVARIANTS
  ContentIsKept
  WindowsOverlapAsAsked
  NodesKeepTheirSection
  TableRowsOnce
  NodeIdsDiffer
  FlatTextsAreKept
  DoneTaskIsTaken
  EveryTextHasItsVector
  PredictsOneAtATime
  
