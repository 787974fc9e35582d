\* Two handlers: a stage that is redone while a later one runs.
SPECIFICATION Spec
CONSTANTS
  Handler = {h1, h2}
  Asked <- AnyRequest
  MaxRequests = 2
  MaxFaults = 0
INVARIANTS
  FreshFromLatest
CHECK_DEADLOCK FALSE
