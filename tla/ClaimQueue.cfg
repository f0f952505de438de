SPECIFICATION FairSpec
CONSTANTS
  n1 = n1
  n2 = n2
  w1 = w1
  w2 = w2
  c1 = c1
  c2 = c2
  NoOne = NoOne
  Notifications = {n1, n2}
  Later = {n2}
  Rank <- Ranks
  Workers = {w1, w2}
  Cancellers = {c1, c2}
  Asked <- Everything
  Verdicts = {}
  Slots = 1
  MaxAttempts = 2
  MaxTroubles = 1
INVARIANTS
  TypeOK
  ExclusiveClaims
  ChoicesStand
  InOrder
  NobodyStuck
PROPERTIES
  ImplementsLifecycle
  ComesToRest
CHECK_DEADLOCK FALSE
