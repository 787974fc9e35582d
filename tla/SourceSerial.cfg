\* One request at a time, of any kind, one of them may be lost.
SPECIFICATION Spec
CONSTANTS
  long = long
  short = short
  empty = empty
  Handler = {h1}
  Kinds <- Everything
  Config = {long, short, empty}
  Block = {1, 2}
  Node = {1, 2, 3}
  Indexable = {1, 2}
  BlocksOf <- SomeBlocks
  NodesOf <- SomeNodes
  MaxRequests = 5
  MaxFaults = 1
INVARIANTS
  TypeOK
  RemovedWithoutTrace
\* The system stops when every request allowed by the bound has been served.
CHECK_DEADLOCK FALSE
