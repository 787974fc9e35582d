\* A source that is removed while it is being indexed.
SPECIFICATION Spec
CONSTANTS
  long = long
  short = short
  empty = empty
  Handler = {h1, h2}
  Kinds <- Everything
  Config = {short}
  Block = {1, 2}
  Node = {1, 2, 3}
  Indexable = {1, 2}
  BlocksOf <- SomeBlocks
  NodesOf <- SomeNodes
  MaxRequests = 2
  MaxFaults = 0
SYMMETRY HandlerSymmetry
INVARIANTS
  RemovedWithoutTrace
\* The system stops when every request allowed by the bound has been served.
CHECK_DEADLOCK FALSE
