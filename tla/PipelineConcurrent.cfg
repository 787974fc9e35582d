\* Two handlers at once, any two requests, one fault.
SPECIFICATION Spec
CONSTANTS
  Handler = {h1, h2}
  Asked <- AnyRequest
  MaxRequests = 2
  MaxFaults = 1
SYMMETRY HandlerSymmetry
INVARIANTS
  ManifestsAreStored
  StagesInOrder
\* The system stops when every request allowed by the bound has been served.
CHECK_DEADLOCK FALSE
