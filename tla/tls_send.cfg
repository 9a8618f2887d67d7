SPECIFICATION TlsSpec
CONSTANTS
  RequestLengths <- MCRequestLengths
  Sent <- MCSent
  HandshakeFlights = 2
  PlainBuffer = 2
  CipherBuffer = 5
  MayCutShort = FALSE
INVARIANT RequestsIntact
CHECK_DEADLOCK FALSE
