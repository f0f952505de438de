SPECIFICATION Spec
CONSTANTS
  StatusCodes <- MCStatusCodes
  MaxAttempts = 8
  BaseDelay = 2000
  JitterBytes <- MCJitterBytes
INVARIANTS
  TypeOK
  TotalWaitIsGeometric
  VerdictExplained
PROPERTY
  EachWaitLonger
CHECK_DEADLOCK FALSE
