SPECIFICATION FairSpec
CONSTANTS
  c1 = c1
  c2 = c2
  NoOne = NoOne
  Callers = {c1, c2}
  LimitOf <- MixedLimits
  Requested = 2
  JobSeconds = 1
  MaxClock = 2
INVARIANTS
  TypeOK
  SlotsArePaid
  LongRunRate
PROPERTIES
  ImplementsRateWindow
  CallsReturn
