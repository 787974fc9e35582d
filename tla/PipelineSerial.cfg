\* One handler at a time, any request, one lost handler or refused transaction.
SPECIFICATION Spec
CONSTANTS
  Handler = {h1}
  Asked <- AnyRequest
  MaxRequests = 4
  MaxFaults = 1
INVARIANTS
  TypeOK
  FreshIsCurrent
  RunSucceededIsComplete
  CoherentIndex
PROPERTIES
  ImplementsBuild
\* The system stops when every request allowed by the bound has been served.
CHECK_DEADLOCK FALSE
