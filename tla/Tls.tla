---------------------------------- MODULE Tls ----------------------------------
(***************************************************************************)
(* A network stream, plain or through the TLS filter (src/src/TlsFilter.cc,    *)
(* src/src/network/NetworkStream.cc), between the writer thread, which sends    *)
(* requests, and the event loop, which receives.  OpenSSL is external: before   *)
(* its handshake is over SSL_write() fails, and SSL_read() returns plaintext of  *)
(* one whole record.  Bytes are numbered; what waits or travels is its bytes in    *)
(* order, wherever one buffer ends and the next begins.                          *)
(***************************************************************************)
EXTENDS Integers, Sequences, FiniteSets, SequencesExt

CONSTANTS
  RequestLengths,     \* of the requests the writer sends
  Sent,               \* what the server sends: bytes, and which end a record
  HandshakeFlights,   \* records of the server before the handshake is over
  PlainBuffer,        \* the event loop's buffer: 2048
  CipherBuffer,       \* what the filter reads at once: 8192
  MayCutShort         \* the socket may take less than it is given

Cipher == [byte : Nat \ {0}, last : BOOLEAN]
ASSUME TlsAssumption ==
  /\ RequestLengths \in Seq(Nat \ {0}) /\ Sent \in Seq(Cipher)
  /\ HandshakeFlights \in Nat /\ PlainBuffer \in Nat \ {0} /\ CipherBuffer \in Nat \ {0}

VARIABLES
  active,             \* tlsconfig.active
  flights,            \* handshake records still to come
  pendingWrites,      \* bytes of the buffers SSL_write() did not take
  givenToSend,        \* bytes of all calls to send()
  atServer,           \* bytes the server has, decrypted
  cutShort,           \* the socket did not take everything
  request, bytesWritten,  \* the writer's place
  toSend,             \* cipher bytes the server will send
  socket,             \* bytes readable on the client's socket
  wbio,               \* cipher bytes given to OpenSSL and not decrypted
  plain,              \* decrypted bytes nobody has read
  receivedBytes,      \* bytes the event loop has
  bytesRead,          \* by its last recv()
  connectionAlive     \* what that told

tlsVars == <<active, flights, pendingWrites, givenToSend, atServer, cutShort, request,
             bytesWritten, toSend, socket, wbio, plain, receivedBytes, bytesRead,
             connectionAlive>>
writing == <<pendingWrites, givenToSend, atServer, cutShort, request, bytesWritten>>

Shorter(a, b) == IF a < b THEN a ELSE b

\* Bytes of request r from place i on
StreamBytes(r, i) == [k \in 1 .. RequestLengths[r] - i |-> <<r, i + k>>]
AllRequests == FlattenSeq([r \in DOMAIN RequestLengths |-> StreamBytes(r, 0)])

Handshake == [byte |-> 0, last |-> TRUE]
IsHandshake(c) == c.byte = 0
ServerBytes == [i \in DOMAIN Sent |-> Sent[i].byte]

\* The constructors of NetworkStream and TlsFilter
TlsInit ==
  /\ active \in BOOLEAN
  /\ flights = IF active THEN HandshakeFlights ELSE 0
  /\ toSend = [i \in 1 .. flights |-> Handshake] \o Sent
  /\ pendingWrites = <<>> /\ givenToSend = <<>> /\ atServer = <<>> /\ cutShort = FALSE
  /\ request = 1 /\ bytesWritten = 0
  /\ socket = <<>> /\ wbio = <<>> /\ plain = <<>> /\ receivedBytes = <<>> /\ bytesRead = 0
  /\ connectionAlive = TRUE

-----------------------------------------------------------------------------
(* Sending *)

\* handleTraffic(): what OpenSSL did not take before
FlushesPending(ready) == IF ready THEN <<>> ELSE pendingWrites

\* pushCiphertext() does not look at what sendFunc() returns.
Push(bytes) ==
  \/ atServer' = atServer \o bytes /\ UNCHANGED cutShort
  \/ /\ MayCutShort /\ bytes # <<>>
     /\ \E n \in 0 .. Len(bytes) - 1 : atServer' = atServer \o SubSeq(bytes, 1, n)
     /\ cutShort' = TRUE

\* Mutant: the writes OpenSSL did not take wait behind the new one.
FilterSendOvertakes(buffer) ==
  IF flights = 0
  THEN /\ Push(buffer \o pendingWrites)
       /\ pendingWrites' = <<>>
  ELSE /\ pendingWrites' = buffer \o pendingWrites
       /\ UNCHANGED <<atServer, cutShort>>

\* TlsFilter::send(): older writes first
FilterSend(buffer) ==
  IF flights = 0
  THEN /\ Push(pendingWrites \o buffer)
       /\ pendingWrites' = <<>>
  ELSE /\ pendingWrites' = pendingWrites \o buffer
       /\ UNCHANGED <<atServer, cutShort>>

\* The writer takes what send() returns for the bytes written: the socket's own
\* count, and 1 from the filter.
AdvanceWriter(returned) ==
  IF bytesWritten + returned = RequestLengths[request]
  THEN request' = request + 1 /\ bytesWritten' = 0
  ELSE bytesWritten' = bytesWritten + returned /\ UNCHANGED request

StreamSend ==
  /\ request <= Len(RequestLengths)
  /\ LET buffer == StreamBytes(request, bytesWritten) IN
     \/ /\ active
        /\ givenToSend' = givenToSend \o buffer
        /\ FilterSend(buffer)
        /\ AdvanceWriter(1)
     \/ \E n \in 1 .. Len(buffer) :
          /\ ~active
          /\ givenToSend' = givenToSend \o SubSeq(buffer, 1, n)
          /\ atServer' = atServer \o SubSeq(buffer, 1, n)
          /\ AdvanceWriter(n)
          /\ UNCHANGED <<pendingWrites, cutShort>>
  /\ UNCHANGED <<active, flights, toSend, socket, wbio, plain, receivedBytes, bytesRead,
                 connectionAlive>>

-----------------------------------------------------------------------------
(* Receiving *)

\* Any part of what the server sends arrives.
Arrive ==
  /\ \E n \in 1 .. Len(toSend) :
       /\ socket' = socket \o SubSeq(toSend, 1, n)
       /\ toSend' = SubSeq(toSend, n + 1, Len(toSend))
  /\ UNCHANGED <<active, flights, wbio, plain, receivedBytes, bytesRead, connectionAlive,
                 writing>>

\* SSL_read(): the records of the handshake, then one record of data
SSLRead(cipher, blen) ==
  LET n == Cardinality({i \in DOMAIN cipher :
                          \A j \in 1 .. i : IsHandshake(cipher[j])})
      rest == SubSeq(cipher, n + 1, Len(cipher))
      ends == {i \in DOMAIN rest : rest[i].last}
      end == CHOOSE i \in ends : \A j \in ends : i <= j
      decrypted == IF plain # <<>> \/ ends = {} THEN plain
                   ELSE [i \in 1 .. end |-> rest[i].byte]
      given == Shorter(blen, Len(decrypted))
  IN [handshakes |-> n,
      cipher |-> IF plain # <<>> \/ ends = {} THEN rest
                 ELSE SubSeq(rest, end + 1, Len(rest)),
      given |-> SubSeq(decrypted, 1, given),
      left |-> SubSeq(decrypted, given + 1, Len(decrypted))]

\* The event loop calls recv() again at once if the last call gave it bytes, and
\* else when poll() returns, at the latest after its time-out.
StreamRecv ==
  /\ connectionAlive
  /\ bytesRead > 0 \/ socket # <<>>
  /\ \/ /\ active
        /\ LET n == Shorter(Len(socket), CipherBuffer)
               read == SSLRead(wbio \o SubSeq(socket, 1, n), PlainBuffer)
               over == flights - read.handshakes = 0
           IN /\ socket' = SubSeq(socket, n + 1, Len(socket))
              /\ wbio' = read.cipher /\ plain' = read.left
              /\ receivedBytes' = receivedBytes \o read.given
              /\ bytesRead' = Len(read.given)
              /\ flights' = flights - read.handshakes
              /\ IF over THEN Push(pendingWrites) ELSE UNCHANGED <<atServer, cutShort>>
              /\ pendingWrites' = FlushesPending(over)
     \/ /\ ~active
        /\ LET n == Shorter(Len(socket), PlainBuffer) IN
           /\ receivedBytes' = receivedBytes \o [i \in 1 .. n |-> socket[i].byte]
           /\ socket' = SubSeq(socket, n + 1, Len(socket))
           /\ bytesRead' = n
        /\ UNCHANGED <<flights, wbio, plain, pendingWrites, atServer, cutShort>>
  /\ UNCHANGED <<active, givenToSend, request, bytesWritten, toSend, connectionAlive>>

\* The socket is found closed or reset, or SSL_read() fails for good: recv() tells
\* so, and is not called again; what OpenSSL still holds is not looked at.
StreamEnds ==
  /\ connectionAlive
  /\ connectionAlive' = FALSE /\ bytesRead' = 0
  /\ UNCHANGED <<active, flights, writing, toSend, socket, wbio, plain, receivedBytes>>

TlsNext == StreamSend \/ Arrive \/ StreamRecv \/ StreamEnds

TlsSpec == TlsInit /\ [][TlsNext]_tlsVars

-----------------------------------------------------------------------------
(* Properties *)

\* What send() is given reaches the server in that order, and all of it once the
\* handshake is over, unless the socket takes less than it is given.  What the
\* server sends is received in that order; and when the event loop goes to poll()
\* with nothing to read, no whole record is left inside OpenSSL, as long as the
\* connection lives.
TlsStreamIntact ==
  /\ ~cutShort =>
       /\ IsPrefix(atServer, givenToSend)
       /\ (flights = 0 => atServer = givenToSend)
  /\ IsPrefix(receivedBytes, ServerBytes)
  /\ (connectionAlive /\ bytesRead = 0 /\ socket = <<>>) =>
       /\ plain = <<>>
       /\ \A i \in DOMAIN wbio : ~wbio[i].last

\* The server gets the requests, byte for byte: WriterThread.cc:131 takes a count
\* below the length for a full kernel buffer.
RequestsIntact == IsPrefix(atServer, AllRequests)
=============================================================================
