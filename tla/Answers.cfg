\* One question, one index request at a time beside it.
SPECIFICATION Spec
CONSTANTS
  a = a
  b = b
  Node <- SomeNodes
  SourceOf <- SomeSources
  ParentOf <- SomeParents
  Builds <- SomeBuilds
  Relevances <- SomeRelevances
  Modes <- SomeModes
  MaxContexts = 2
  MaxIndexings = 1
  MaxDeltas = 2
INVARIANTS
  OnlyLiveContexts
  SearchIsComplete
PROPERTIES
  ImplementsProtocol
\* A question that is decided and index requests that are used up end it.
CHECK_DEADLOCK FALSE
