\* One handler at a time under weak fairness, after one fault.
SPECIFICATION FairSpec
CONSTANTS
  Handler = {h1}
  Asked <- AnyRequest
  MaxRequests = 3
  MaxFaults = 1
PROPERTIES
  WholeRunIsDecided
\* The system stops when every request allowed by the bound has been served.
CHECK_DEADLOCK FALSE
