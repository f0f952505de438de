SPECIFICATION Spec
CONSTANTS
  k1 = k1
  k2 = k2
  h1 = h1
  h2 = h2
  h3 = h3
  NoKey = NoKey
  Keys = {k1, k2}
  Handlers = {h1, h2}
  Requests <- PlainBatches
  MaxRequests = 3
  FaultKinds <- NoFaults
  MaxFaults = 1
CHECK_DEADLOCK FALSE
INVARIANT
  SameBatch
