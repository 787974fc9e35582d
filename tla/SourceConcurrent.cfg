\* Two requests at a time, of any kind, one of them may be lost.
SPECIFICATION Spec
CONSTANTS
  long = long
  short = short
  empty = empty
  Handler = {h1, h2}
  Kinds <- Everything
  Config = {long, short, empty}
  Block = {1, 2}
  Node = {1, 2, 3}
  Indexable = {1, 2}
  BlocksOf <- SomeBlocks
  NodesOf <- SomeNodes
  MaxRequests = 4
  MaxFaults = 1
SYMMETRY HandlerSymmetry
INVARIANTS
  IndexIsWhole
  NodesAreSearchable
  OnlyRemovalDeadlocks
PROPERTIES
  SucceededJobIsTheIndex
\* The system stops when every request allowed by the bound has been served.
CHECK_DEADLOCK FALSE
