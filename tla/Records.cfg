SPECIFICATION Spec
CHECK_DEADLOCK FALSE
CONSTANTS
  b1 = b1
  sA = sA
  sB = sB
  k1 = k1
  k2 = k2
  m1 = m1
  v1 = v1
  Browser = {b1}
  MaxCalls = 4
  MaxMishaps = 1
  Source = {sA, sB}
  Field = {k1, k2}
  MaxRequests = 3
  Lists <- SomeLists
  Id = {sA, sB}
  Fresh = TRUE
  MaxOps = 4
  MaxFailures = 1
  Setting = {k1, k2}
  Choice = {v1}
  Model = {m1}
  MaxChanges = 3
INVARIANTS
  StaysSignedIn
  OneSessionPerLogin
  RowHasItsFile
  NothingLeftBehind
  KeysKeepTheLastWord
PROPERTIES
  AddsAreComplete
  UpdatesKeepOtherFields
  TasksGetFittingModels
