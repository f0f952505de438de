SPECIFICATION Spec
CONSTANTS
  StatusCodes <- MCStatusCodes
  MaxAttempts = 3
  BaseDelay = 2000
  JitterBytes <- MCJitterBytes
INVARIANT
  RefusalFailsImmediately
CHECK_DEADLOCK FALSE
