SPECIFICATION MCSpec
CONSTANTS
  Modes = {"calls"}
  c1 = c1
  Callers = {c1}
  Kinds <- AllKinds
  MultiSizes <- SingleOrMulti
  BackpressureActive = TRUE
  RequestLimit = 1
  HandshakeRounds = 0
  TransparentUnavailable = TRUE
  HasListener = TRUE
  ExclusivePubsub = FALSE
  Replies <- AnyReply
  MaxStaged = 3
  MaxMessages = 1
INVARIANTS
  RequestsLimited
