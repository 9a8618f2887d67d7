SPECIFICATION ClientFairSpec
CONSTANTS
  c1 = c1
  Callers = {c1}
  Kinds <- OnlyUser
  MultiSizes <- Single
  BackpressureActive = TRUE
  RequestLimit = 1
  HandshakeRounds = 1
  TransparentUnavailable = TRUE
  HasListener = TRUE
  ExclusivePubsub = FALSE
  Replies <- EveryReply
  MaxStaged = 2
  MaxMessages = 1
  WireCapacity = 1
  RetryMode = "RetryWithTimeout"
  MaxFaults = 1
  MayDestroy = TRUE
PROPERTIES
  EveryRequestAnswered
  DestructionCompletes
CHECK_DEADLOCK FALSE
