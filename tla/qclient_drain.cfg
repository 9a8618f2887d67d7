SPECIFICATION QSpec
CONSTANTS
  c1 = c1
  Callers = {c1}
  Kinds <- OnlyUser
  MultiSizes <- Single
  BackpressureActive = TRUE
  RequestLimit = 2
  HandshakeRounds = 0
  TransparentUnavailable = TRUE
  HasListener = FALSE
  ExclusivePubsub = FALSE
  Replies <- EveryReply
  MaxStaged = 2
  MaxMessages = 0
  WireCapacity = 2
  RetryMode = "InfiniteRetries"
  MaxFaults = 1
  MayDestroy = TRUE
INVARIANTS
  RepliesMatch
CHECK_DEADLOCK FALSE
