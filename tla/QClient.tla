------------------------------- MODULE QClient -------------------------------
(***************************************************************************)
(* QClient's event loop (src/src/QClient.cc) composed with the connection   *)
(* core, the writer thread, the callback executor, the user threads, the    *)
(* destructor and a server.  The server answers every command it receives   *)
(* once and in order, but it may refuse a handshake, answer "unavailable" or *)
(* MOVED, push messages, and close or reset the connection anywhere;         *)
(* connection attempts may fail.                                             *)
(***************************************************************************)
EXTENDS WriterThread

CONSTANTS
  RetryMode,  \* "NoRetries", "RetryWithTimeout" or "InfiniteRetries"
  MaxFaults,  \* bound: refusals, disconnections and failed attempts
  MayDestroy  \* the user may destroy the QClient object

RetryModes == {"NoRetries", "RetryWithTimeout", "InfiniteRetries"}
ASSUME RetryAssumption ==
  /\ RetryMode \in RetryModes
  /\ MaxFaults \in Nat
  /\ MayDestroy \in BOOLEAN

\* What the server below may send: the core is ready for that, and for more.
ServerReplies ==
  [kind : {"ok", "queued", "value", "error", "unavailable", "moved", "push"},
   of : 0 .. MaxStaged]
ASSUME ServerAssumption == ServerReplies \subseteq Replies

VARIABLES
  eventLoop,      \* where the event loop is; "exited" once its thread ended
  firstEpoch,     \* currentConnectionEpoch is still 0
  successful,     \* successfulResponses
  successfulEver, \* successfulResponsesEver
  fullCircle,     \* endpointDecider->madeFullCircle()
  destructor,     \* where ~QClient() is; "alive" before it is called
  replies,        \* replies on their way to the client
  buffered,       \* replies read from the socket: responseBuilder
  received,       \* history: what the server received on this connection
  executions,     \* history: 0, 1 or 2 (several) executions of each request
  faults          \* faults so far

loopVars == <<eventLoop, firstEpoch, successful, successfulEver, fullCircle,
              destructor>>
serverVars == <<replies, received, executions, faults>>
vars == <<coreVars, writerVars, streamVars, shutdownFD, loopVars, buffered,
          serverVars>>

QInit ==
  /\ Init
  /\ WriterInit
  /\ eventLoop = "connect"
  /\ firstEpoch = TRUE
  /\ successful = FALSE
  /\ successfulEver = FALSE
  /\ fullCircle = FALSE
  /\ destructor = "alive"
  /\ replies = <<>>
  /\ buffered = <<>>
  /\ received = <<>>
  /\ executions = [id \in 1 .. MaxStaged |-> 0]
  /\ faults = 0

-----------------------------------------------------------------------------
(* The server *)

MayFail == faults < MaxFaults

Answer(kind, id) == [kind |-> kind, of |-> id]

\* What a well-behaved server answers to a command.
NormalAnswer(unit) ==
  IF unit.kind = "handshake" THEN Answer("ok", 0)
  ELSE Answer(CASE unit.index = unit.last -> "value"
                [] unit.index # unit.last /\ unit.index = 0 -> "ok"
                [] OTHER -> "queued",
              unit.id)

ServerReceives ==
  /\ wire # <<>>
  /\ ~peerClosed
  /\ wire' = Tail(wire)
  /\ received' = Append(received, Head(wire))

\* Bound: executions are counted as none, one, or several.
Once(count) == IF count = 0 THEN 1 ELSE 2

\* The next command is executed (a transaction by its EXEC) and answered.
ServerAnswers ==
  /\ ServerReceives
  /\ LET unit == Head(wire) IN
     /\ replies' = Append(replies, NormalAnswer(unit))
     /\ executions' = IF unit.kind = "request" /\ unit.index = unit.last
                      THEN [executions EXCEPT ![unit.id] = Once(@)]
                      ELSE executions
  /\ UNCHANGED <<coreVars, writerVars, streamOk, peerClosed, shutdownFD,
                 loopVars, buffered, faults>>

\* It is refused: the handshake fails, the command is wrong, or this node
\* cannot serve it now.
ServerRefuses ==
  /\ MayFail
  /\ ServerReceives
  /\ \E kind \in {"error", "unavailable", "moved"} :
       replies' = Append(replies, Answer(kind, NormalAnswer(Head(wire)).of))
  /\ faults' = faults + 1
  /\ UNCHANGED <<coreVars, writerVars, streamOk, peerClosed, shutdownFD,
                 loopVars, buffered, executions>>

\* A message the server sends on its own.
ServerPushes ==
  /\ ~peerClosed /\ streamOk /\ ~inHandshake
  /\ LET arriving == buffered \o replies
     IN Len(messages) + Cardinality({i \in 1 .. Len(arriving) :
                                       arriving[i].kind = "push"}) < MaxMessages
  /\ replies' = Append(replies, Answer("push", 0))
  /\ UNCHANGED <<coreVars, writerVars, streamVars, shutdownFD, loopVars,
                 buffered, received, executions, faults>>

\* The connection dies: replies under way may be lost, commands under way are.
ServerCloses ==
  /\ MayFail
  /\ streamOk /\ ~peerClosed
  /\ peerClosed' = TRUE
  /\ wire' = <<>>
  /\ \E n \in 0 .. Len(replies) : replies' = SubSeq(replies, 1, n)
  /\ faults' = faults + 1
  /\ UNCHANGED <<coreVars, writerVars, streamOk, shutdownFD, loopVars,
                 buffered, received, executions>>

-----------------------------------------------------------------------------
(* The event loop *)

\* assistant.terminationRequested(), in the event loop's thread.
TerminationRequested == destructor \notin {"alive", "notified"}

\* feed() intercepts redirections before the core sees them.
Redirected(reply) == TransparentUnavailable /\ reply.kind = "moved"

\* One reply is pulled from the response builder and fed; alive is what feed()
\* makes of it.
FeedReply(alive) ==
  /\ buffered # <<>>
  /\ buffered' = Tail(buffered)
  /\ LET reply == Head(buffered) IN
     \/ /\ Redirected(reply)
        /\ alive = FALSE
        /\ UNCHANGED coreVars
     \/ /\ ~Redirected(reply)
        /\ ConsumeResponse(reply, alive)
  /\ successful' = (alive \/ successful)
  /\ UNCHANGED <<writerVars, streamVars, shutdownFD, firstEpoch,
                 successfulEver, fullCircle, destructor, serverVars>>

\* recv(): whatever has arrived.  A read that returns less is one that came
\* before the rest arrived.
Receive ==
  /\ eventLoop = "reading"
  /\ buffered = <<>> /\ replies # <<>>
  /\ streamOk
  /\ buffered' = replies
  /\ replies' = <<>>
  /\ UNCHANGED <<coreVars, writerVars, streamVars, shutdownFD, loopVars,
                 received, executions, faults>>

\* When the connection cannot go on, the event loop leaves the epoch, and
\* leaves in the response builder what was read after that reply.
ReadReply ==
  /\ eventLoop = "reading"
  /\ \E alive \in BOOLEAN :
       /\ FeedReply(alive)
       /\ eventLoop' = IF alive THEN "reading" ELSE "backoff"

\* End of file, a stream the writer has shut down, or a shutdown request.
LeaveEpoch ==
  /\ eventLoop = "reading"
  /\ buffered = <<>>
  /\ \/ peerClosed /\ replies = <<>>
     \/ ~streamOk
     \/ shutdownFD
  /\ eventLoop' = "backoff"
  /\ UNCHANGED <<coreVars, writerVars, streamVars, shutdownFD, firstEpoch,
                 successful, successfulEver, fullCircle, destructor, buffered,
                 serverVars>>

\* After the epoch: if asked to, end the loop, by feed(NULL, 0); else connect
\* again.
Backoff ==
  /\ eventLoop = "backoff"
  /\ eventLoop' = IF TerminationRequested THEN "draining" ELSE "connect"
  /\ UNCHANGED <<coreVars, writerVars, streamVars, shutdownFD, firstEpoch,
                 successful, successfulEver, fullCircle, destructor, buffered,
                 serverVars>>

\* feed(NULL, 0) pulls what is still in the response builder.
Drain ==
  /\ eventLoop = "draining"
  /\ \/ \E alive \in BOOLEAN :
          /\ FeedReply(alive)
          /\ eventLoop' = IF alive THEN "draining" ELSE "exited"
     \/ /\ buffered = <<>>
        /\ eventLoop' = "exited"
        /\ UNCHANGED <<coreVars, writerVars, streamVars, shutdownFD, firstEpoch,
                       successful, successfulEver, fullCircle, destructor,
                       buffered, serverVars>>

\* connect(): every epoch but the first starts with cleanup(), which begins
\* by deactivating the writer.
Connect ==
  /\ eventLoop = "connect"
  /\ firstEpoch' = FALSE
  /\ IF firstEpoch
     THEN /\ eventLoop' = "dial"
          /\ UNCHANGED <<coreVars, writerVars>>
     ELSE /\ eventLoop' = "join"
          /\ RequestDeactivation
  /\ UNCHANGED <<streamVars, shutdownFD, successful, successfulEver,
                 fullCircle, destructor, buffered, serverVars>>

\* shouldPurgePendingRequests(); whether the timeout since lastAvailable has
\* expired is not modelled and may go either way.
ShouldPurge(purge, ever) ==
  IF RetryMode = "InfiniteRetries" \/ (~ever /\ ~fullCircle)
  THEN ~purge
  ELSE RetryMode = "NoRetries" => purge

\* Mutants of Cleanup: bytes of the old connection stay in the response builder;
\* the writer is not joined; the purge is decided before successfulResponsesEver
\* is updated.
CleanupKeepsBytes ==
  /\ Joined
  /\ streamOk' = FALSE
  /\ wire' = <<>>
  /\ peerClosed' = FALSE
  /\ replies' = <<>>
  /\ received' = <<>>
  /\ successfulEver' = (successfulEver \/ successful)
  /\ successful' = FALSE
  /\ \E purge \in BOOLEAN :
       /\ ShouldPurge(purge, successfulEver')
       /\ IF purge THEN ClearAllPending ELSE Reconnection
  /\ UNCHANGED <<writerVars, shutdownFD, firstEpoch, fullCircle, buffered,
                 executions, faults>>

CleanupWithoutJoin ==
  /\ streamOk' = FALSE
  /\ wire' = <<>>
  /\ peerClosed' = FALSE
  /\ replies' = <<>>
  /\ buffered' = <<>>
  /\ received' = <<>>
  /\ successfulEver' = (successfulEver \/ successful)
  /\ successful' = FALSE
  /\ \E purge \in BOOLEAN :
       /\ ShouldPurge(purge, successfulEver')
       /\ IF purge THEN ClearAllPending ELSE Reconnection
  /\ UNCHANGED <<writerVars, shutdownFD, firstEpoch, fullCircle, executions,
                 faults>>

CleanupDecidesEarly ==
  /\ Joined
  /\ streamOk' = FALSE
  /\ wire' = <<>>
  /\ peerClosed' = FALSE
  /\ replies' = <<>>
  /\ buffered' = <<>>
  /\ received' = <<>>
  /\ successfulEver' = (successfulEver \/ successful)
  /\ successful' = FALSE
  /\ \E purge \in BOOLEAN :
       /\ ShouldPurge(purge, successfulEver)
       /\ IF purge THEN ClearAllPending ELSE Reconnection
  /\ UNCHANGED <<writerVars, shutdownFD, firstEpoch, fullCircle, executions,
                 faults>>

\* cleanup(), once the writer has been joined: destroy the stream, purge or
\* keep the pending requests, rewind the core.
Cleanup ==
  /\ Joined
  /\ streamOk' = FALSE
  /\ wire' = <<>>
  /\ peerClosed' = FALSE
  /\ replies' = <<>>
  /\ buffered' = <<>>
  /\ received' = <<>>
  /\ successfulEver' = (successfulEver \/ successful)
  /\ successful' = FALSE
  /\ \E purge \in BOOLEAN :
       /\ ShouldPurge(purge, successfulEver')
       /\ IF purge THEN ClearAllPending ELSE Reconnection
  /\ UNCHANGED <<writerVars, shutdownFD, firstEpoch, fullCircle, executions,
                 faults>>

EventLoopCleanup ==
  /\ eventLoop = "join"
  /\ Cleanup
  /\ eventLoop' = "dial"
  /\ UNCHANGED destructor

\* connectTCP(): the next endpoint, which may complete the circle, accepts ...
DialSucceeds ==
  /\ eventLoop = "dial"
  /\ fullCircle' \in {fullCircle, TRUE}
  /\ streamOk' = TRUE
  /\ Activate
  /\ eventLoop' = "reading"
  /\ UNCHANGED <<wire, peerClosed, shutdownFD, firstEpoch, successful,
                 successfulEver, destructor, buffered, serverVars>>

\* ... or does not, or cannot be resolved, or the wait is shut down.
DialFails ==
  /\ eventLoop = "dial"
  /\ MayFail \/ shutdownFD
  /\ faults' = IF shutdownFD THEN faults ELSE faults + 1
  /\ fullCircle' \in {fullCircle, TRUE}
  /\ eventLoop' = "backoff"
  /\ UNCHANGED <<coreVars, writerVars, streamVars, shutdownFD, firstEpoch,
                 successful, successfulEver, destructor, buffered, replies,
                 received, executions>>

EventLoopThread ==
  \/ Receive
  \/ ReadReply
  \/ LeaveEpoch
  \/ Backoff
  \/ Drain
  \/ Connect
  \/ EventLoopCleanup
  \/ DialSucceeds
  \/ DialFails

-----------------------------------------------------------------------------
(* ~QClient(): notify, join the event loop, cleanup(true); then the members  *)
(* are destroyed, the callback executor running what it still holds.         *)

Destroy ==
  /\ MayDestroy
  /\ destructor = "alive"
  /\ Holding = {}
  /\ destructor' = "notified"
  /\ shutdownFD' = TRUE
  /\ UNCHANGED <<coreVars, writerVars, streamVars, eventLoop, firstEpoch,
                 successful, successfulEver, fullCircle, buffered, serverVars>>

DestructorStopsLoop ==
  /\ destructor = "notified"
  /\ destructor' = "stopping"
  /\ UNCHANGED <<coreVars, writerVars, streamVars, shutdownFD, eventLoop,
                 firstEpoch, successful, successfulEver, fullCircle, buffered,
                 serverVars>>

DestructorDeactivates ==
  /\ destructor = "stopping"
  /\ eventLoop = "exited"
  /\ destructor' = "join"
  /\ RequestDeactivation
  /\ UNCHANGED <<streamVars, shutdownFD, eventLoop, firstEpoch, successful,
                 successfulEver, fullCircle, buffered, serverVars>>

DestructorCleanup ==
  /\ destructor = "join"
  /\ Cleanup
  /\ destructor' = "members"
  /\ UNCHANGED eventLoop

DestructorReturns ==
  /\ destructor = "members"
  /\ pendingCallbacks = <<>>
  /\ destructor' = "returned"
  /\ UNCHANGED <<coreVars, writerVars, streamVars, shutdownFD, eventLoop,
                 firstEpoch, successful, successfulEver, fullCircle, buffered,
                 serverVars>>

DestructorGoesOn ==
  \/ DestructorStopsLoop
  \/ DestructorDeactivates
  \/ DestructorCleanup
  \/ DestructorReturns

-----------------------------------------------------------------------------
(* User threads, which stop calling once the object is being destroyed, and  *)
(* the callback executor                                                      *)

User(t) ==
  /\ destructor = "alive"
  /\ CallerStep(t)
  /\ UNCHANGED <<writerVars, streamVars, shutdownFD, loopVars, buffered,
                 serverVars>>

Executor ==
  /\ destructor # "returned"
  /\ ExecuteCallback
  /\ UNCHANGED <<writerVars, streamVars, shutdownFD, loopVars, buffered,
                 serverVars>>

Writer ==
  /\ WriterThreadStep
  /\ UNCHANGED <<loopVars, buffered, serverVars>>

Server ==
  ServerAnswers \/ ServerRefuses \/ ServerPushes \/ ServerCloses

QNext ==
  \/ \E t \in Callers : User(t)
  \/ Executor
  \/ Writer
  \/ Server
  \/ EventLoopThread
  \/ Destroy
  \/ DestructorGoesOn

QSpec == QInit /\ [][QNext]_vars

\* Every thread of the client keeps running when it can; a thread the user has
\* started a call on finishes it.
ClientFairness ==
  /\ WF_vars(Executor)
  /\ WF_vars(Writer)
  /\ WF_vars(EventLoopThread)
  /\ WF_vars(DestructorGoesOn)
  /\ \A t \in Callers : WF_vars(staging[t] # Idle /\ User(t))

ClientFairSpec == QSpec /\ ClientFairness

\* The server keeps reading and answering while the connection lasts.  This is
\* assumed only where it is needed: it is a premise of EveryRequestAnswered.
ServerFairness == WF_vars(ServerAnswers)

-----------------------------------------------------------------------------
(* Properties *)

\* A callback or future that receives a reply receives the one the server gave
\* to that very request, and for a MULTI block the one to its EXEC, whatever
\* was lost, retried or purged before; with infinite retries it is never null.
RepliesMatch ==
  \A i \in 1 .. Len(delivered) :
    LET d == delivered[i] IN
    IF d.reply = NullReply THEN RetryMode # "InfiniteRetries"
    ELSE /\ d.to = d.reply.of
         /\ d.reply.kind \in {"value", "error", "unavailable", "moved"}

\* The request the writer is still working on has not been freed: this is what
\* the hidden request at the front of RequestQueue is for.
WriterItemInMemory ==
  (writerPc # "off" /\ writing.kind = "request") =>
    writing.sequence \in DOMAIN requestQueue

\* No user request reaches the wire before the server has accepted the whole
\* handshake of that connection ("commands sent before any other", Options.hh),
\* though the writer reads inHandshake without knowing what the event loop does.
HandshakeFirst ==
  LET stream == received \o wire IN
  \A i \in 1 .. Len(stream) :
    stream[i].kind = "request" =>
      /\ ~inHandshake
      /\ Cardinality({j \in 1 .. i : stream[j].kind = "handshake"})
           = HandshakeRounds

\* On one connection the server sees whole requests, one after the other in
\* the order they were staged, behind the handshake: none is torn, skipped or
\* repeated, and a transaction interrupted by a disconnection starts over from
\* its MULTI.
Follows(u, v) ==
  \/ v.kind = "handshake"
  \/ u.kind = "handshake" /\ v.index = 0
  \/ u.kind = "request" /\ v.id = u.id /\ v.index = u.index + 1
  \/ u.kind = "request" /\ u.index = u.last /\ v.id = u.id + 1 /\ v.index = 0

StreamInOrder ==
  LET stream == received \o wire IN
  /\ HandshakeFirst
  /\ \A i \in 2 .. Len(stream) : Follows(stream[i - 1], stream[i])
  /\ stream # <<>> => stream[1].index = 0

\* Without retries a request is executed at most once.
ExecutedAtMostOnce == \A id \in 1 .. MaxStaged : executions[id] <= 1

\* The event loop, the writer and the destructor use the core only as its
\* contract allows: every step of the system is a step of the core or leaves it
\* alone.  In particular nobody rewinds the core under a running writer.
CoreContract == Spec

\* If the server keeps answering, every request is answered, with a reply or
\* with null, unless the client is destroyed before.
EveryRequestAnswered ==
  ServerFairness =>
    \A id \in 1 .. MaxStaged :
      staged >= id ~>
        \/ \E i \in 1 .. Len(delivered) : delivered[i].to = id
        \/ destructor # "alive"

\* The destructor returns, whatever the server does or fails to do.
DestructionCompletes == destructor = "notified" ~> destructor = "returned"
=============================================================================
