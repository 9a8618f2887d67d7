SPECIFICATION MCSpec
CONSTANTS
  Modes = {"calls", "exclusive"}
  c1 = c1
  c2 = c2
  Callers = {c1, c2}
  Kinds <- AllKinds
  MultiSizes <- SingleOrMulti
  BackpressureActive = TRUE
  RequestLimit = 2
  HandshakeRounds = 2
  TransparentUnavailable = TRUE
  HasListener = TRUE
  ExclusivePubsub = FALSE
  Replies <- AnyReply
  MaxStaged = 3
  MaxMessages = 1
SYMMETRY CallerSymmetry
INVARIANTS
  TypeOK
  AnsweredInOrder
  AnsweredToOwner
  NoCallLost
  SlotsNeverLost
  TrimmedInPubSub
