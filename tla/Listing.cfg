SPECIFICATION FairSpec
CONSTANTS
  r1 = r1
  r2 = r2
  r3 = r3
  p = p
  Rows = {r1, r2, r3}
  Walkers = {p}
  Lists <- AllLists
  Asked <- AskedFor
  DefaultLimit = 1
  MaxLimit = 2
INVARIANTS
  TypeOK
  MissedOnlyForCause
  TwiceOnlyForCause
PROPERTY
  WalksEnd
CHECK_DEADLOCK FALSE
