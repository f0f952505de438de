SPECIFICATION FairSpec
CONSTANTS
  n1 = n1
  n2 = n2
  w1 = w1
  w2 = w2
  sms = sms
  push = push
  None = None
  Notifications = {n1, n2}
  Workers = {w1, w2}
  Channels <- TwoChannels
  ChannelOf <- NotificationsOnSms
  WorkerChannel <- SplitWorkers
  ClaimLimit = 2
  RateLimit = 2
  FaultKinds <- AllFaults
  MaxFaults = 1
  StatusCodes <- NoRefusals
  MaxAttempts = 2
  BaseDelay = 1
  JitterBytes <- MCJitterBytes
PROPERTIES
  ImplementsLifecycle
  WorkersReturn
  EveryNotificationSettles
