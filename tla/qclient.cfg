SPECIFICATION MCSpec
CONSTANTS
  c1 = c1
  Callers = {c1}
  Kinds <- OnlyUser
  MultiSizes <- SingleOrMulti
  BackpressureActive = TRUE
  RequestLimit = 1
  HandshakeRounds = 1
  TransparentUnavailable = TRUE
  HasListener = TRUE
  ExclusivePubsub = FALSE
  Replies <- EveryReply
  MaxStaged = 2
  MaxMessages = 1
  WireCapacity = 2
  RetryMode = "NoRetries"
  MaxFaults = 1
  MayDestroy = FALSE
INVARIANTS
  EachItsOwnReply
  WriterItemInMemory
  StreamInOrder
  IteratorsInsideQueue
  NeverTwiceWithoutRetries
PROPERTIES
  CoreUsedAsAllowed
CHECK_DEADLOCK FALSE
