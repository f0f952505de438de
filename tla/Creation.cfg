SPECIFICATION FairSpec
CONSTANTS
  k1 = k1
  k2 = k2
  h1 = h1
  h2 = h2
  h3 = h3
  NoKey = NoKey
  Keys = {k1, k2}
  Handlers = {h1, h2, h3}
  Requests <- AllRequests
  MaxRequests = 3
  FaultKinds <- AllFaults
  MaxFaults = 1
INVARIANTS
  TypeOK
  SameNotification
  NothingHalfDone
  RepeatsAreRecognised
  NobodyStuck
PROPERTIES
  ImplementsIntake
  RequestsEnd
CHECK_DEADLOCK FALSE
