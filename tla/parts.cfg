SPECIFICATION PartsSpec
CONSTANTS
  StackSize = 3
  DiscardAt = 4
  LLONG_MAX = 99
  Replies <- MCReplies
  MaxReplies = 2
  NumberTexts <- MCNumberTexts
  Bits <- MCBits
  SDS_MAX_PREALLOC = 4
  Texts <- MCTexts
  Numbers <- MCNumbers
  MaxSdsLength = 5
  ByteBits = 2
  IntBytes = 3
  Messages <- MCMessages
  REQ <- MCREQ
  RESP <- MCRESP
  MaxDamage = 2
  HashFields = {"a", "b"}
  FieldValues = {1}
  MaxValue = 2
  MaxFlight = 2
  Places = 3
  ScanValues = {1, 2}
  ScanCount = 2
  MaxChanges = 2
  MaxTrouble = 1
  RequestLengths <- MCRequestLengths
  Sent <- MCSent
  HandshakeFlights = 2
  PlainBuffer = 2
  CipherBuffer = 5
  MayCutShort = TRUE
  Members = 2
  Redirect = 9
  AddressCounts = {0, 1, 2}
  Intercepts <- MCIntercepts
  MaxLinks = 3
  MaxConnections = 3
  Fields = {"f", "g"}
  Values = {"v"}
  MaxRevision = 3
  MaxEpochs = 2
  MaxResilvers = 5
  MaxLength = 2
  MaxOperations = 3
  MaxDequeEpochs = 2
  Clients = {"a", "b"}
  Observed = "a"
  HashKeys = {"k", "l"}
  HashValues = {"x"}
  Watchers = {w1, w2}
  MaxBatches = 1
  MaxItems = 3
  MaxCrashes = 2
  MaxReconnects = 2
  Channels = {"c", "d"}
  Patterns = {"p"}
  Subscriptions = {s1, s2}
  MaxMessages = 2
  MaxPubEpochs = 2
  MaxCalls = 2
  s1 = s1
  s2 = s2
  w1 = w1
  w2 = w2
INVARIANTS
  ReadAsEncoded
  StringAsDescribed
  ParsedAsSerialized
  AsIfDirect
  ScansEverything
  TlsStreamIntact
  ConnectsInTurn
  AdmittedOnlyAfterAll
  SubscribedAtRest
  DeliversToLiveOnly
  NoMessageSkipped
  ContentsMatchVersion
  UpToDateAtRest
  CachedSizeFreshAtRest
  FedToLiveOnly
  FlushedInOrder
PROPERTIES
  NeverRepeatedOnceConfirmed
CHECK_DEADLOCK FALSE
