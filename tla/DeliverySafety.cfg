SPECIFICATION Spec
CONSTANTS
  n1 = n1
  n2 = n2
  w1 = w1
  w2 = w2
  sms = sms
  push = push
  None = None
  Notifications = {n1, n2}
  Workers = {w1, w2}
  Channels <- OneChannel
  ChannelOf <- NotificationsOnSms
  WorkerChannel <- WorkersOnSms
  ClaimLimit = 2
  RateLimit = 2
  FaultKinds <- AllFaults
  MaxFaults = 2
  StatusCodes <- MCStatusCodes
  MaxAttempts = 2
  BaseDelay = 1
  JitterBytes <- MCJitterBytes
INVARIANTS
  TypeOK
  ExclusiveClaims
  CallsBounded
  AttemptsCountCalls
  NothingEarly
  HistoryAgrees
PROPERTIES
  FinalIsFinal
  NoCallAfterAck
  CancelBindsUnclaimed
SYMMETRY Symmetry
