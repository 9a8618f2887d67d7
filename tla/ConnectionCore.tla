--------------------------- MODULE ConnectionCore ---------------------------
(***************************************************************************)
(* The state QClient keeps about the requests it has been given and about  *)
(* the one connection it drives (src/src/ConnectionCore.cc), without any   *)
(* networking.  Four kinds of threads call into it:                        *)
(*                                                                         *)
(*   - user threads stage requests, with a callback or with a future;      *)
(*   - the writer thread asks what to put on the socket next;              *)
(*   - the event loop feeds it the replies, purges it or rewinds it when   *)
(*     the connection is lost;                                             *)
(*   - the callback executor hands replies to callbacks and promises.      *)
(*                                                                         *)
(* Each operation is an action here.  WriterThread.tla and QClient.tla     *)
(* compose them with the threads that call them; Next below lets the event *)
(* loop and the server behave in any way at all, so what holds of Spec     *)
(* holds whatever the server answers.                                      *)
(***************************************************************************)
EXTENDS Integers, Sequences, FiniteSets

CONSTANTS
  Callers,            \* user threads
  Kinds,              \* how requests are staged: SUBSET CallbackKinds
  MultiSizes,         \* multiSize of a request; 0 when it is not a MULTI block
  BackpressureActive, \* BackpressureStrategy::active()
  RequestLimit,       \* BackpressureStrategy::getRequestLimit()
  HandshakeRounds,    \* chunks the Handshake object sends; 0: no such object
  TransparentUnavailable, \* drop the connection on an "unavailable" error
  HasListener,        \* a MessageListener is set
  ExclusivePubsub,    \* every reply goes to the listener
  Replies,            \* what a server may send
  MaxStaged,          \* bound: requests staged in a behaviour
  MaxMessages         \* bound: messages handed to the listener

CallbackKinds == {"user", "none", "future"}
ReplyKinds == {"ok", "queued", "value", "error", "unavailable", "moved",
               "push", "badpush", "message"}
NullReply == [kind |-> "null", of |-> 0]

\* A process has finitely many threads.
ASSUME CallersAssumption == IsFiniteSet(Callers)
ASSUME KindsAssumption == Kinds \subseteq CallbackKinds
ASSUME SizesAssumption ==
  /\ MultiSizes \subseteq Nat
  /\ RequestLimit \in Nat
  /\ HandshakeRounds \in Nat
  /\ MaxStaged \in Nat
  /\ MaxMessages \in Nat
ASSUME FlagsAssumption ==
  /\ BackpressureActive \in BOOLEAN
  /\ TransparentUnavailable \in BOOLEAN
  /\ HasListener \in BOOLEAN
  /\ ExclusivePubsub \in BOOLEAN
\* "do not use the QClient object in normal request / response mode" then
\* (Options.hh): nobody waits for a future that will never be fulfilled.
ASSUME ExclusiveAssumption ==
  (HasListener /\ ExclusivePubsub) => "future" \notin Kinds
ASSUME RepliesAssumption == Replies \subseteq [kind : ReplyKinds, of : Nat]

VARIABLES
  inHandshake,        \* still waiting for the handshake to complete
  handshakeStaged,    \* chunks put into handshakeRequests
  handshakeIterator,  \* sequence number of the next chunk to write
  handshakeValidated, \* replies the Handshake object has accepted
  handshakeBlocking,  \* blockingMode of handshakeRequests
  requestQueue,       \* sequence number |-> request still in memory
  frontSequence,      \* sequence number of the hidden request at the front
  nextSequence,       \* sequence number the next request will get
  requestBlocking,    \* blockingMode of requestQueue
  nextToWrite,        \* nextToWriteIterator.seq()
  nextToAcknowledge,  \* nextToAcknowledgeIterator.seq()
  ignoredResponses,   \* replies swallowed for the MULTI block at the front
  semaphore,          \* free slots of the backpressure semaphore
  staging,            \* per caller: the request it holds a slot for, if any
  staged,             \* requests staged so far; their identities are 1..staged
  promises,           \* FutureHandler: unfulfilled promises, oldest first
  pendingCallbacks,   \* CallbackExecutorThread: callbacks to run
  delivered,          \* history: the replies callbacks and futures were given
  messages,           \* history: what the listener was given
  lastClear           \* history: what the last clearAllPending() did

handshakeVars == <<inHandshake, handshakeStaged, handshakeIterator,
                   handshakeValidated, handshakeBlocking>>
queueVars == <<requestQueue, frontSequence, nextSequence>>
iteratorVars == <<nextToWrite, nextToAcknowledge, ignoredResponses>>
callerVars == <<staging, staged>>
answerVars == <<promises, pendingCallbacks, delivered>>
coreVars == <<handshakeVars, queueVars, requestBlocking, iteratorVars,
              semaphore, callerVars, answerVars, messages, lastClear>>

-----------------------------------------------------------------------------
(* Data *)

StagedRequest == [id : Nat, callback : CallbackKinds, multiSize : Nat]
Dummy == [id |-> 0, callback |-> "none", multiSize |-> 0]
Idle == [callback |-> "idle", multiSize |-> 0]
PendingCallback == [id : Nat, callback : CallbackKinds,
                    reply : Replies \cup {NullReply}]

\* Request(k) has been given to the queue, so its iterator may be read.
HasArrived(sequence) == sequence < nextSequence

HandshakeArrived == handshakeIterator < handshakeStaged

\* Requests nobody has acknowledged; the hidden one is not among them.
Unacknowledged == nextToAcknowledge .. nextSequence - 1
UnacknowledgedCount == nextSequence - nextToAcknowledge

ToAcknowledge == requestQueue[nextToAcknowledge]

Acknowledgement(request, reply) ==
  [id |-> request.id, callback |-> request.callback, reply |-> reply]

-----------------------------------------------------------------------------
(* Initial state: the constructor, which runs reconnection() once. *)

Init ==
  /\ inHandshake = (HandshakeRounds > 0)
  /\ handshakeStaged = (IF HandshakeRounds > 0 THEN 1 ELSE 0)
  /\ handshakeIterator = 0
  /\ handshakeValidated = 0
  /\ handshakeBlocking = TRUE
  /\ requestQueue = [s \in 0 .. 0 |-> Dummy]
  /\ frontSequence = 0
  /\ nextSequence = 1
  /\ requestBlocking = TRUE
  /\ nextToWrite = 1
  /\ nextToAcknowledge = 1
  /\ ignoredResponses = 0
  /\ semaphore = RequestLimit
  /\ staging = [t \in Callers |-> Idle]
  /\ staged = 0
  /\ promises = <<>>
  /\ pendingCallbacks = <<>>
  /\ delivered = <<>>
  /\ messages = <<>>
  /\ lastClear = [returned |-> 0, answered |-> 0]

-----------------------------------------------------------------------------
(* Staging, by user threads *)

\* RequestQueue::emplace_back: the request gets the next sequence number.
EmplaceBack(callback, multiSize) ==
  /\ requestQueue' = [s \in DOMAIN requestQueue \cup {nextSequence} |->
                        IF s = nextSequence
                        THEN [id |-> staged + 1, callback |-> callback,
                              multiSize |-> multiSize]
                        ELSE requestQueue[s]]
  /\ nextSequence' = nextSequence + 1
  /\ staged' = staged + 1
  /\ UNCHANGED frontSequence

\* stage(callback, ...): take a slot, or block until there is one ...
Reserve(t, callback, multiSize) ==
  /\ staging[t] = Idle
  /\ callback # "future"
  /\ BackpressureActive => semaphore > 0
  /\ semaphore' = IF BackpressureActive THEN semaphore - 1 ELSE semaphore
  /\ staging' = [staging EXCEPT ![t] = [callback |-> callback,
                                        multiSize |-> multiSize]]
  /\ UNCHANGED <<handshakeVars, queueVars, requestBlocking, iteratorVars,
                 staged, answerVars, messages, lastClear>>

\* ... then enqueue the request under the mutex.
StageCallback(t) ==
  /\ staging[t] # Idle
  /\ EmplaceBack(staging[t].callback, staging[t].multiSize)
  /\ staging' = [staging EXCEPT ![t] = Idle]
  /\ UNCHANGED <<handshakeVars, requestBlocking, iteratorVars, semaphore,
                 answerVars, messages, lastClear>>

\* stage(...) returning a future: promise and request go in under one mutex;
\* no slot is taken.
StageFuture(t, multiSize) ==
  /\ staging[t] = Idle
  /\ EmplaceBack("future", multiSize)
  /\ promises' = Append(promises, staged + 1)
  /\ UNCHANGED <<handshakeVars, requestBlocking, iteratorVars, semaphore,
                 staging, pendingCallbacks, delivered, messages, lastClear>>

-----------------------------------------------------------------------------
(* The event loop *)

\* Mutants of Discard: the front is freed but not advanced; no slot is given
\* back; the request itself is freed instead of the hidden one.
DiscardStaysAtFront(n) ==
  /\ nextToAcknowledge' = nextToAcknowledge + n
  /\ requestQueue' = [s \in frontSequence + n .. nextSequence - 1 |->
                        requestQueue[s]]
  /\ semaphore' = IF BackpressureActive THEN semaphore + n ELSE semaphore
  /\ UNCHANGED <<frontSequence, nextSequence>>

DiscardKeepsSlot(n) ==
  /\ nextToAcknowledge' = nextToAcknowledge + n
  /\ requestQueue' = [s \in frontSequence + n .. nextSequence - 1 |->
                        requestQueue[s]]
  /\ frontSequence' = frontSequence + n
  /\ UNCHANGED <<nextSequence, semaphore>>

DiscardFreesRequest(n) ==
  /\ nextToAcknowledge' = nextToAcknowledge + n
  /\ requestQueue' = [s \in nextToAcknowledge + n .. nextSequence - 1 |->
                        requestQueue[s]]
  /\ frontSequence' = frontSequence + n
  /\ semaphore' = IF BackpressureActive THEN semaphore + n ELSE semaphore
  /\ UNCHANGED nextSequence

\* discardPending() for the n oldest unacknowledged requests: each moves the
\* iterator, frees the hidden request and gives a slot back, whether or not
\* the request had taken one.
Discard(n) ==
  /\ nextToAcknowledge' = nextToAcknowledge + n
  /\ requestQueue' = [s \in frontSequence + n .. nextSequence - 1 |->
                        requestQueue[s]]
  /\ frontSequence' = frontSequence + n
  /\ semaphore' = IF BackpressureActive THEN semaphore + n ELSE semaphore
  /\ UNCHANGED nextSequence

\* acknowledgePending(reply)
AcknowledgePending(reply) ==
  /\ pendingCallbacks' =
       Append(pendingCallbacks, Acknowledgement(ToAcknowledge, reply))
  /\ Discard(1)

Unavailable(reply) == TransparentUnavailable /\ reply.kind = "unavailable"

\* An "unavailable" error of QuarkDB breaks the connection at once.
ConsumeUnavailable(reply, alive) ==
  /\ Unavailable(reply)
  /\ alive = FALSE
  /\ UNCHANGED coreVars

\* Mutant: the writer is not woken up at the end of the handshake.
ConsumeHandshakeSilently(reply, alive) ==
  /\ ~Unavailable(reply)
  /\ inHandshake
  /\ alive = (reply.kind = "ok")
  /\ IF ~alive THEN UNCHANGED handshakeVars
     ELSE /\ handshakeValidated' = handshakeValidated + 1
          /\ IF handshakeValidated + 1 = HandshakeRounds
             THEN inHandshake' = FALSE /\ UNCHANGED handshakeStaged
             ELSE handshakeStaged' = handshakeStaged + 1 /\ UNCHANGED inHandshake
          /\ UNCHANGED <<handshakeIterator, handshakeBlocking>>
  /\ UNCHANGED <<queueVars, requestBlocking, iteratorVars, semaphore,
                 callerVars, answerVars, messages, lastClear>>

\* During the handshake every reply belongs to it: an unexpected one breaks
\* the connection, the last one opens it for user requests and wakes the
\* writer up, any other one asks for the next chunk.
ConsumeHandshake(reply, alive) ==
  /\ ~Unavailable(reply)
  /\ inHandshake
  /\ alive = (reply.kind = "ok")
  /\ IF ~alive THEN UNCHANGED handshakeVars
     ELSE /\ handshakeValidated' = handshakeValidated + 1
          /\ IF handshakeValidated + 1 = HandshakeRounds
             THEN /\ inHandshake' = FALSE
                  /\ handshakeBlocking' = FALSE
                  /\ UNCHANGED handshakeStaged
             ELSE /\ handshakeStaged' = handshakeStaged + 1
                  /\ UNCHANGED <<inHandshake, handshakeBlocking>>
          /\ UNCHANGED handshakeIterator
  /\ UNCHANGED <<queueVars, requestBlocking, iteratorVars, semaphore,
                 callerVars, answerVars, messages, lastClear>>

IsPush(reply) == reply.kind \in {"push", "badpush"}

\* Replies for the listener: pushes, and everything in exclusive mode.  One
\* that is no pub/sub message breaks the connection.
ConsumeMessage(reply, alive) ==
  /\ ~Unavailable(reply)
  /\ ~inHandshake
  /\ IsPush(reply) \/ (HasListener /\ ExclusivePubsub)
  /\ alive = (HasListener => reply.kind \in {"push", "message"})
  /\ messages' = IF HasListener /\ alive
                 THEN Append(messages, reply.of) ELSE messages
  /\ UNCHANGED <<handshakeVars, queueVars, requestBlocking, iteratorVars,
                 semaphore, callerVars, answerVars, lastClear>>

\* The reply must answer the oldest unacknowledged request.
AnswersRequest(reply) ==
  /\ ~Unavailable(reply)
  /\ ~inHandshake
  /\ ~IsPush(reply)
  /\ ~(HasListener /\ ExclusivePubsub)

\* More replies than requests: break the connection.
ConsumeUnexpected(reply, alive) ==
  /\ AnswersRequest(reply)
  /\ ~HasArrived(nextToAcknowledge)
  /\ alive = FALSE
  /\ UNCHANGED coreVars

\* Within a MULTI block the first reply must be OK, the next ones QUEUED; they
\* are counted and swallowed.
ConsumeMultiPrefix(reply, alive) ==
  /\ AnswersRequest(reply)
  /\ HasArrived(nextToAcknowledge)
  /\ ignoredResponses + 1 <= ToAcknowledge.multiSize
  /\ ignoredResponses' = ignoredResponses + 1
  /\ alive = (reply.kind = IF ignoredResponses = 0 THEN "ok" ELSE "queued")
  /\ UNCHANGED <<handshakeVars, queueVars, requestBlocking, nextToWrite,
                 nextToAcknowledge, semaphore, callerVars, answerVars,
                 messages, lastClear>>

\* The reply the request was waiting for.
ConsumeReply(reply, alive) ==
  /\ AnswersRequest(reply)
  /\ HasArrived(nextToAcknowledge)
  /\ ToAcknowledge.multiSize = 0 \/ ignoredResponses + 1 > ToAcknowledge.multiSize
  /\ alive = TRUE
  /\ AcknowledgePending(reply)
  /\ ignoredResponses' = IF ToAcknowledge.multiSize = 0
                         THEN ignoredResponses ELSE 0
  /\ UNCHANGED <<handshakeVars, requestBlocking, nextToWrite, callerVars,
                 promises, delivered, messages, lastClear>>

\* consumeResponse(reply); alive is what it returns.
ConsumeResponse(reply, alive) ==
  \/ ConsumeUnavailable(reply, alive)
  \/ ConsumeHandshake(reply, alive)
  \/ ConsumeMessage(reply, alive)
  \/ ConsumeUnexpected(reply, alive)
  \/ ConsumeMultiPrefix(reply, alive)
  \/ ConsumeReply(reply, alive)

\* The part of reconnection() that concerns the handshake.
RestartHandshake ==
  /\ inHandshake' = (HandshakeRounds > 0)
  /\ IF HandshakeRounds > 0
     THEN /\ handshakeStaged' = 1
          /\ handshakeIterator' = 0
          /\ handshakeValidated' = 0
     ELSE UNCHANGED <<handshakeStaged, handshakeIterator, handshakeValidated>>
  /\ UNCHANGED handshakeBlocking

\* Mutant: the iterators start at the hidden request.
ReconnectionAtFront ==
  /\ RestartHandshake
  /\ ignoredResponses' = 0
  /\ nextToWrite' = frontSequence
  /\ nextToAcknowledge' = frontSequence
  /\ UNCHANGED <<queueVars, requestBlocking, semaphore, callerVars,
                 answerVars, messages, lastClear>>

\* reconnection(): start the handshake over, and write again every request
\* that was not acknowledged, transactions from their first command.
Reconnection ==
  /\ RestartHandshake
  /\ ignoredResponses' = 0
  /\ nextToWrite' = frontSequence + 1
  /\ nextToAcknowledge' = frontSequence + 1
  /\ UNCHANGED <<queueVars, requestBlocking, semaphore, callerVars,
                 answerVars, messages, lastClear>>

\* Mutants of ClearAllPending: the null replies overtake the answers that still
\* wait for the executor; requests are dropped without an answer; the youngest
\* request is forgotten.
ClearAnswersFirst ==
  LET n == UnacknowledgedCount IN
  /\ pendingCallbacks' =
       [i \in 1 .. n |->
          Acknowledgement(requestQueue[nextToAcknowledge + i - 1], NullReply)]
         \o pendingCallbacks
  /\ semaphore' = IF BackpressureActive THEN semaphore + n ELSE semaphore
  /\ requestQueue' = [s \in 0 .. 0 |-> Dummy]
  /\ frontSequence' = 0
  /\ nextSequence' = 1
  /\ nextToWrite' = 1
  /\ nextToAcknowledge' = 1
  /\ ignoredResponses' = 0
  /\ RestartHandshake
  /\ UNCHANGED <<requestBlocking, callerVars, promises, delivered, messages,
                 lastClear>>

ClearAnswering(n) ==
  /\ pendingCallbacks' = pendingCallbacks \o
       [i \in 1 .. n |->
          Acknowledgement(requestQueue[nextToAcknowledge + i - 1], NullReply)]
  /\ semaphore' = IF BackpressureActive THEN semaphore + n ELSE semaphore
  /\ requestQueue' = [s \in 0 .. 0 |-> Dummy]
  /\ frontSequence' = 0
  /\ nextSequence' = 1
  /\ nextToWrite' = 1
  /\ nextToAcknowledge' = 1
  /\ ignoredResponses' = 0
  /\ RestartHandshake
  /\ UNCHANGED <<requestBlocking, callerVars, promises, delivered, messages,
                 lastClear>>

ClearDropsRequests == ClearAnswering(0)

ClearForgetsLast ==
  ClearAnswering(IF UnacknowledgedCount = 0 THEN 0 ELSE UnacknowledgedCount - 1)

\* clearAllPending(): answer every unacknowledged request with a null reply,
\* reset the queue, reconnection().  The size it returns is taken after the
\* loop has emptied the queue.
ClearAllPending ==
  LET n == UnacknowledgedCount IN
  /\ pendingCallbacks' = pendingCallbacks \o
       [i \in 1 .. n |->
          Acknowledgement(requestQueue[nextToAcknowledge + i - 1], NullReply)]
  /\ semaphore' = IF BackpressureActive THEN semaphore + n ELSE semaphore
  /\ requestQueue' = [s \in 0 .. 0 |-> Dummy]
  /\ frontSequence' = 0
  /\ nextSequence' = 1
  /\ nextToWrite' = 1
  /\ nextToAcknowledge' = 1
  /\ ignoredResponses' = 0
  /\ RestartHandshake
  /\ lastClear' = [returned |-> (nextSequence - (frontSequence + n)) - 1,
                   answered |-> n]
  /\ UNCHANGED <<requestBlocking, callerVars, promises, delivered, messages>>

\* setBlockingMode(value)
SetBlockingMode(value) ==
  /\ handshakeBlocking' = value
  /\ requestBlocking' = value
  /\ UNCHANGED <<inHandshake, handshakeStaged, handshakeIterator,
                 handshakeValidated, queueVars, iteratorVars, semaphore,
                 callerVars, answerVars, messages, lastClear>>

-----------------------------------------------------------------------------
(* The writer: getNextToWrite(), once it has looked at inHandshake.  It      *)
(* blocks until there is an item, or until blocking mode is off.             *)

FetchHandshake(found) ==
  /\ HandshakeArrived \/ ~handshakeBlocking
  /\ found = HandshakeArrived
  /\ handshakeIterator' = IF found THEN handshakeIterator + 1
                          ELSE handshakeIterator
  /\ UNCHANGED <<inHandshake, handshakeStaged, handshakeValidated,
                 handshakeBlocking, queueVars, requestBlocking, iteratorVars,
                 semaphore, callerVars, answerVars, messages, lastClear>>

\* Mutant: nothing is trimmed.
FetchRequestUntrimmed(found) ==
  /\ HasArrived(nextToWrite) \/ ~requestBlocking
  /\ found = HasArrived(nextToWrite)
  /\ nextToWrite' = IF found THEN nextToWrite + 1 ELSE nextToWrite
  /\ UNCHANGED <<handshakeVars, queueVars, requestBlocking, nextToAcknowledge,
                 ignoredResponses, semaphore, callerVars, answerVars,
                 messages, lastClear>>

\* In exclusive pub/sub mode nothing acknowledges requests: those written
\* earlier are trimmed here.
FetchRequest(found) ==
  /\ HasArrived(nextToWrite) \/ ~requestBlocking
  /\ found = HasArrived(nextToWrite)
  /\ nextToWrite' = IF found THEN nextToWrite + 1 ELSE nextToWrite
  /\ IF HasListener /\ ExclusivePubsub /\ nextToWrite > nextToAcknowledge
     THEN Discard(nextToWrite - nextToAcknowledge)
     ELSE UNCHANGED <<queueVars, nextToAcknowledge, semaphore>>
  /\ UNCHANGED <<handshakeVars, requestBlocking, ignoredResponses,
                 callerVars, answerVars, messages, lastClear>>

-----------------------------------------------------------------------------
(* The callback executor: one iteration of CallbackExecutorThread::main.  A  *)
(* future's reply goes to the oldest promise.                                *)

ExecuteCallback ==
  /\ pendingCallbacks # <<>>
  /\ LET cb == Head(pendingCallbacks) IN
     /\ delivered' =
          IF cb.callback = "none" THEN delivered
          ELSE Append(delivered,
                 [request |-> cb.id,
                  to |-> IF cb.callback = "future" THEN Head(promises)
                         ELSE cb.id,
                  reply |-> cb.reply])
     /\ promises' = IF cb.callback = "future" THEN Tail(promises)
                    ELSE promises
  /\ pendingCallbacks' = Tail(pendingCallbacks)
  /\ UNCHANGED <<handshakeVars, queueVars, requestBlocking, iteratorVars,
                 semaphore, callerVars, messages, lastClear>>

-----------------------------------------------------------------------------
(* A caller that holds a slot will stage its request: it counts as staged    *)
(* for the bound.                                                            *)

Holding == {t \in Callers : staging[t] # Idle}
MayStage == staged + Cardinality(Holding) < MaxStaged

CallerStep(t) ==
  \/ /\ MayStage
     /\ \E kind \in Kinds \ {"future"}, size \in MultiSizes :
          Reserve(t, kind, size)
  \/ /\ MayStage
     /\ "future" \in Kinds
     /\ \E size \in MultiSizes : StageFuture(t, size)
  \/ StageCallback(t)

EventLoopStep ==
  \/ /\ \E reply \in Replies, alive \in BOOLEAN : ConsumeResponse(reply, alive)
     /\ Len(messages') <= MaxMessages
  \/ Reconnection
  \/ ClearAllPending
  \/ \E value \in BOOLEAN : SetBlockingMode(value)

WriterStep ==
  \E found \in BOOLEAN :
    \/ FetchHandshake(found)
    \/ ~inHandshake /\ FetchRequest(found)

Next ==
  \/ \E t \in Callers : CallerStep(t)
  \/ EventLoopStep
  \/ WriterStep
  \/ ExecuteCallback

Spec == Init /\ [][Next]_coreVars

-----------------------------------------------------------------------------
(* Properties *)

TypeOK ==
  /\ inHandshake \in BOOLEAN
  /\ handshakeStaged \in Nat
  /\ handshakeIterator \in Nat
  /\ handshakeValidated \in Nat
  /\ handshakeBlocking \in BOOLEAN
  /\ frontSequence \in Nat
  /\ nextSequence \in Nat
  /\ requestQueue \in [frontSequence .. nextSequence - 1 -> StagedRequest]
  /\ requestBlocking \in BOOLEAN
  /\ nextToWrite \in Nat
  /\ nextToAcknowledge \in Nat
  /\ ignoredResponses \in Nat
  /\ semaphore \in Int
  /\ staging \in [Callers -> [callback : CallbackKinds \ {"future"},
                              multiSize : MultiSizes] \cup {Idle}]
  /\ staged \in Nat
  /\ promises \in Seq(Nat)
  /\ pendingCallbacks \in Seq(PendingCallback)
  /\ delivered \in Seq([request : Nat, to : Nat,
                        reply : Replies \cup {NullReply}])
  /\ messages \in Seq(Nat)
  /\ lastClear \in [returned : Int, answered : Nat]

\* The hidden request is always there, right before the first unacknowledged
\* one, and no iterator points beyond the place where the next request goes
\* (class comment of RequestQueue.hh).
QueueShape ==
  /\ nextToAcknowledge = frontSequence + 1
  /\ nextToAcknowledge <= nextSequence
  /\ nextToWrite <= nextSequence

\* The contract of ThreadSafeQueue.hh, "an iterator is always assumed to be
\* valid": what an iterator refers to is still in the queue, or next to come.
\* The writer may be done with a request before its reply comes and never later:
\* it does not look at a request that was answered already.
IteratorsInsideQueue == QueueShape /\ nextToAcknowledge <= nextToWrite

\* Callbacks and futures are answered in the order in which their requests
\* were staged, hence none twice, however replies, purges and reconnections
\* fall between stagings.
AnsweredInOrder ==
  \A i, j \in 1 .. Len(delivered) :
    i < j => delivered[i].request < delivered[j].request

\* A future receives the reply to its own request, though the FutureHandler
\* only knows the order of its promises.
AnsweredToOwner ==
  \A i \in 1 .. Len(delivered) : delivered[i].to = delivered[i].request

\* Outside exclusive mode no request is lost: those waiting for the executor,
\* then those in the queue, are the youngest ones, without a gap.
NothingLost ==
  LET waiting == Len(pendingCallbacks)
  IN
  /\ \A i \in 1 .. waiting :
       pendingCallbacks[i].id = staged - UnacknowledgedCount - waiting + i
  /\ \A s \in Unacknowledged :
       requestQueue[s].id = staged - (nextSequence - 1 - s)

\* Requests that have taken a slot of the semaphore; futures take none.
TookSlot == {s \in Unacknowledged : requestQueue[s].callback # "future"}

\* No slot is lost, whatever replies, purges, reconnections and trimmings there
\* are: when all that took one are answered, as many can be staged as at first.
SlotsNeverLost ==
  BackpressureActive =>
    semaphore + Cardinality(Holding) + Cardinality(TookSlot) >= RequestLimit

\* BackpressureStrategy::RateLimitPendingRequests(), "Limit pending requests to
\* the specified amount": at least those that wait for a slot keep to it.
RequestsLimited ==
  BackpressureActive =>
    Cardinality(Holding) + Cardinality(TookSlot) <= RequestLimit

\* In exclusive mode the queue does not grow with what has been written: all
\* but the last request taken by the writer are trimmed, and that one is still
\* in memory.
WrittenAreTrimmed ==
  (HasListener /\ ExclusivePubsub) =>
    nextToWrite \in nextToAcknowledge .. nextToAcknowledge + 1

=============================================================================
