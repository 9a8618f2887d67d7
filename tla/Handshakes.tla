------------------------------ MODULE Handshakes ------------------------------
(***************************************************************************)
(* The handshakes of Handshake.cc, chained as Options::chainHandshake() does, *)
(* and ConnectionCore's use of them over several connections.  The server may    *)
(* answer anything, a challenge of an earlier connection included.  Random bytes   *)
(* are a number that is never drawn twice; a signature is the string it signs.     *)
(***************************************************************************)
EXTENDS Naturals, Sequences, FiniteSets, FiniteSetsExt, SequencesExt

CONSTANTS
  MaxLinks,          \* links a chain may have
  MaxConnections     \* bound

VARIABLES
  links,             \* the chained handshakes
  firstDone,         \* of the chainer that owns links 1..k, at k
  hmac,              \* state of the HmacAuthHandshake at each link
  inHandshake,       \* ConnectionCore
  handshakeRequests, \* of this connection, as provideHandshake() gave them
  accepted,          \* replies of this connection that were valid
  drawn,             \* random bytes drawn so far
  drawnBefore,       \* the same when this connection began
  connections        \* so far
handshakesVars == <<links, firstDone, hmac, inHandshake, handshakeRequests, accepted,
                    drawn, drawnBefore, connections>>

LinkKinds == {"auth", "hmac", "ping", "push", "name", "name-ignoring"}
FreshHmac == [initiated |-> FALSE, receivedChallenge |-> FALSE, randomBytes |-> 0,
              stringToSign |-> 0]

\* chainHandshake() for each link; a client to be primed pings if there is none.
HandshakesInit ==
  /\ links \in UNION {[1 .. n -> LinkKinds] : n \in 0 .. MaxLinks}
  /\ firstDone = [k \in 1 .. Len(links) - 1 |-> FALSE]
  /\ hmac = [k \in 1 .. Len(links) |-> FreshHmac]
  /\ inHandshake = FALSE /\ handshakeRequests = <<>> /\ accepted = <<>>
  /\ drawn = 0 /\ drawnBefore = 0 /\ connections = 0

-----------------------------------------------------------------------------
(* The chain *)

\* The chainers nest to the left: the outermost whose first part is done decides.
CurrentLink(done) == 1 + Max({0} \cup {k \in DOMAIN done : done[k]})

\* provideHandshake() of the link at k, with its state h, when n bytes were drawn.
ProvideHandshake(k, h, n) ==
  IF links[k] # "hmac" THEN [request |-> <<links[k]>>, hmac |-> h, drawn |-> n]
  ELSE IF ~h.initiated
       THEN [request |-> <<"challenge", n + 1>>, drawn |-> n + 1,
             hmac |-> [h EXCEPT !.initiated = TRUE, !.randomBytes = n + 1]]
       ELSE [request |-> <<"validate", h.stringToSign>>, hmac |-> h, drawn |-> n]

Provide(done, states, requests) ==
  LET k == CurrentLink(done)
      provided == ProvideHandshake(k, states[k], drawn)
  IN /\ handshakeRequests' = Append(requests, provided.request)
     /\ hmac' = [states EXCEPT ![k] = provided.hmac]
     /\ drawn' = provided.drawn

Ok == <<"status", "OK">>
Challenge(n) == <<"string", n>>    \* it begins with these random bytes
Pong == <<"string", 0>>             \* the text of the ping: no random bytes
AnyAnswers == {Ok, <<"status", "other">>, <<"error">>} \cup {Challenge(n) : n \in 0 .. drawn}

\* validateResponse() of each kind of link
CompleteIf(fine) == IF fine THEN "complete" ELSE "invalid"
Auth(reply) == CompleteIf(reply = Ok)
Ping(reply) == CompleteIf(reply = Pong)
ActivatePushTypes(reply) == CompleteIf(reply = Ok)
SetClientName(ignoreFailures, reply) == CompleteIf(ignoreFailures \/ reply = Ok)
HmacAuth(h, reply) ==
  IF h.receivedChallenge THEN CompleteIf(reply = Ok)
  ELSE IF reply = Challenge(h.randomBytes) THEN "incomplete" ELSE "invalid"

ValidateResponse(k, reply) ==
  CASE links[k] = "auth" -> Auth(reply)
    [] links[k] = "ping" -> Ping(reply)
    [] links[k] = "push" -> ActivatePushTypes(reply)
    [] links[k] = "name" -> SetClientName(FALSE, reply)
    [] links[k] = "name-ignoring" -> SetClientName(TRUE, reply)
    [] links[k] = "hmac" -> HmacAuth(hmac[k], reply)

\* What an HmacAuthHandshake keeps of a reply; also when it refuses a string.
Kept(k, reply) ==
  IF links[k] = "hmac" /\ ~hmac[k].receivedChallenge /\ reply[1] = "string"
  THEN [hmac[k] EXCEPT !.receivedChallenge = TRUE, !.stringToSign = reply[2]]
  ELSE hmac[k]

\* restart(): the chainers forget how far they were, and every link starts again.
Restarted == [done |-> [k \in DOMAIN firstDone |-> FALSE],
              hmac |-> [k \in DOMAIN hmac |-> FreshHmac]]

-----------------------------------------------------------------------------
(* ConnectionCore *)

\* Mutant: a chainer restarts its first handshake only.
ReconnectionForgetsSecond ==
  /\ connections < MaxConnections /\ connections' = connections + 1
  /\ accepted' = <<>> /\ drawnBefore' = drawn
  /\ inHandshake' = (links # <<>>)
  /\ IF links = <<>> THEN UNCHANGED <<firstDone, hmac, handshakeRequests, drawn>>
     ELSE /\ firstDone' = Restarted.done
          /\ Provide(Restarted.done, [hmac EXCEPT ![1] = FreshHmac], <<>>)
  /\ UNCHANGED links

\* reconnection(): at any time, whatever ended the connection before.
Reconnection ==
  /\ connections < MaxConnections /\ connections' = connections + 1
  /\ accepted' = <<>> /\ drawnBefore' = drawn
  /\ inHandshake' = (links # <<>>)
  /\ IF links = <<>> THEN UNCHANGED <<firstDone, hmac, handshakeRequests, drawn>>
     ELSE /\ firstDone' = Restarted.done
          /\ Provide(Restarted.done, Restarted.hmac, <<>>)
  /\ UNCHANGED links

\* consumeResponse() in the handshake.  After a reply that is not valid the
\* connection is over, and nothing more is consumed before the next one.
ConsumeValid(reply, status) ==
  LET k == CurrentLink(firstDone)
      states == [hmac EXCEPT ![k] = Kept(k, reply)]
      done == IF status = "complete" /\ k \in DOMAIN firstDone
              THEN [firstDone EXCEPT ![k] = TRUE] ELSE firstDone
      complete == status = "complete" /\ k = Len(links)
  IN /\ accepted' = Append(accepted, reply)
     /\ firstDone' = done
     /\ inHandshake' = ~complete
     /\ IF complete THEN hmac' = states /\ UNCHANGED <<handshakeRequests, drawn>>
        ELSE Provide(done, states, handshakeRequests)

OverAfter(reply) ==
  LET k == CurrentLink(firstDone) IN
  /\ hmac' = [hmac EXCEPT ![k] = Kept(k, reply)]
  /\ accepted' = Append(accepted, <<"invalid">>)
  /\ UNCHANGED <<firstDone, inHandshake, handshakeRequests, drawn>>

Over == accepted # <<>> /\ Last(accepted) = <<"invalid">>

ConsumeResponse ==
  /\ inHandshake /\ ~Over
  /\ \E reply \in AnyAnswers :
       LET status == ValidateResponse(CurrentLink(firstDone), reply) IN
       IF status = "invalid" THEN OverAfter(reply) ELSE ConsumeValid(reply, status)
  /\ UNCHANGED <<links, drawnBefore, connections>>

HandshakesNext == Reconnection \/ ConsumeResponse

HandshakesSpec == HandshakesInit /\ [][HandshakesNext]_handshakesVars

-----------------------------------------------------------------------------
(* Properties *)

\* Requests the links before k make: two each to sign, one otherwise
RequestsBefore(k) == k - 1 + Cardinality({j \in 1 .. k - 1 : links[j] = "hmac"})

\* Link k had its whole exchange in this connection, at its place in the chain.
Exchanged(k) ==
  LET first == RequestsBefore(k) + 1 IN
  IF links[k] = "hmac"
  THEN \E n \in drawnBefore + 1 .. drawn :
         /\ handshakeRequests[first] = <<"challenge", n>>
         /\ accepted[first] = Challenge(n)
         /\ handshakeRequests[first + 1] = <<"validate", n>>
  ELSE handshakeRequests[first] = <<links[k]>>

\* A connection leaves the handshake only after every link of the chain, in order,
\* had its whole exchange in this very connection, and what was signed begins
\* with random bytes drawn for this connection, however many connections failed
\* half-way before.
AdmittedOnlyAfterAll ==
  connections > 0 /\ ~inHandshake =>
    /\ Len(handshakeRequests) = RequestsBefore(Len(links) + 1)
    /\ Len(accepted) = Len(handshakeRequests)
    /\ \A k \in DOMAIN links : Exchanged(k)
=============================================================================
