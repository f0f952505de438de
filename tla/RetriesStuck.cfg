SPECIFICATION FairSpec
CONSTANTS
  n1 = n1
  n2 = n2
  w1 = w1
  w2 = w2
  sms = sms
  push = push
  None = None
  Notifications = {n1}
  Workers = {w1}
  Channels <- OneChannel
  ChannelOf <- NotificationsOnSms
  WorkerChannel <- WorkersOnSms
  ClaimLimit = 2
  RateLimit = 2
  FaultKinds <- OnlyDeadlines
  MaxFaults = 1
  StatusCodes <- MCStatusCodes
  MaxAttempts = 2
  BaseDelay = 1
  JitterBytes <- MCJitterBytes
PROPERTY
  RetriesComeToAnEnd
