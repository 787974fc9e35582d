\* Two handlers that start and repeat the first two stages.
SPECIFICATION Spec
CONSTANTS
  Handler = {h1, h2}
  Asked <- FirstStages
  MaxRequests = 4
  MaxFaults = 1
SYMMETRY HandlerSymmetry
INVARIANTS
  OneHandlerPerRetry
PROPERTIES
  RetryOutcomeIsFinal
\* The system stops when every request allowed by the bound has been served.
CHECK_DEADLOCK FALSE
