------------------------ MODULE ConnectionCore_proofs ------------------------
(***************************************************************************)
(* ConnectionCore answers requests at most once, in the order in which they *)
(* were staged, each to its own callback or future: for any number of       *)
(* callers, any limits, and a server that may send any replies at any time. *)
(*                                                                          *)
(* The argument: the requests that are unacknowledged have the youngest     *)
(* identities, without a gap (QueueInv); those waiting for the executor are *)
(* older and in order (PendingInv); those answered are older still          *)
(* (DeliveredInv).  The FutureHandler's promises are in order, and are      *)
(* those of the unanswered requests staged with a future (FutureInv), so    *)
(* the oldest promise belongs to the oldest of them.                        *)
(***************************************************************************)
EXTENDS ConnectionCore, SequenceTheorems, FiniteSetTheorems, TLAPS

QueueInv ==
  /\ QueueShape
  /\ UnacknowledgedCount <= staged
  /\ \A s \in Unacknowledged :
       /\ requestQueue[s].id = staged - (nextSequence - 1 - s)
       /\ requestQueue[s].callback \in Kinds

\* The youngest identity that is no longer in the queue.
LastLeft == staged - UnacknowledgedCount

PendingInv ==
  /\ \A i, j \in 1 .. Len(pendingCallbacks) :
       i < j => pendingCallbacks[i].id < pendingCallbacks[j].id
  /\ \A i \in 1 .. Len(pendingCallbacks) : pendingCallbacks[i].id <= LastLeft

DeliveredInv ==
  /\ AnsweredInOrder
  /\ \A i \in 1 .. Len(delivered) :
       /\ delivered[i].request <= LastLeft
       /\ \A j \in 1 .. Len(pendingCallbacks) :
            delivered[i].request < pendingCallbacks[j].id

StagingInv ==
  \A t \in Callers : staging[t] # Idle => staging[t].callback \in Kinds

\* Every promise is that of an unanswered request, and the other way around.
WaitsInExecutor(id) ==
  \E j \in 1 .. Len(pendingCallbacks) :
    pendingCallbacks[j].callback = "future" /\ pendingCallbacks[j].id = id
WaitsInQueue(id) ==
  \E s \in Unacknowledged :
    requestQueue[s].callback = "future" /\ requestQueue[s].id = id
HasPromise(id) == \E i \in 1 .. Len(promises) : promises[i] = id

FutureInv ==
  /\ \A i, j \in 1 .. Len(promises) : i < j => promises[i] < promises[j]
  /\ \A i \in 1 .. Len(promises) :
       WaitsInExecutor(promises[i]) \/ WaitsInQueue(promises[i])
  /\ \A j \in 1 .. Len(pendingCallbacks) :
       pendingCallbacks[j].callback = "future" =>
         HasPromise(pendingCallbacks[j].id)
  /\ \A s \in Unacknowledged :
       requestQueue[s].callback = "future" => HasPromise(requestQueue[s].id)

IInv ==
  TypeOK /\ QueueInv /\ StagingInv /\ PendingInv /\ DeliveredInv /\ FutureInv
         /\ AnsweredToOwner

-----------------------------------------------------------------------------
LEMMA InitIInv == Init => IInv
BY KindsAssumption, SizesAssumption, FlagsAssumption
DEF Init, IInv, TypeOK, QueueInv, PendingInv, DeliveredInv, StagingInv,
    QueueShape, AnsweredInOrder, Unacknowledged, UnacknowledgedCount,
    LastLeft, Dummy, StagedRequest, Idle, CallbackKinds, FutureInv,
    AnsweredToOwner

\* Adding a request makes the queue longer and the youngest identity larger.
LEMMA EmplaceBackQueue ==
  ASSUME TypeOK, QueueInv, NEW kind \in Kinds, NEW size \in Nat,
         EmplaceBack(kind, size),
         UNCHANGED <<nextToWrite, nextToAcknowledge>>
  PROVE  /\ QueueInv'
         /\ requestQueue' \in [frontSequence' .. nextSequence' - 1 -> StagedRequest]
         /\ LastLeft' = LastLeft
         /\ Unacknowledged' = Unacknowledged \cup {nextSequence}
         /\ \A s \in Unacknowledged : requestQueue'[s] = requestQueue[s]
         /\ requestQueue'[nextSequence] =
              [id |-> staged + 1, callback |-> kind, multiSize |-> size]
         /\ frontSequence' \in Nat /\ nextSequence' \in Nat /\ staged' \in Nat
<1>1. /\ frontSequence \in Nat /\ nextSequence \in Nat /\ staged \in Nat
      /\ nextToAcknowledge = frontSequence + 1
      /\ nextToAcknowledge <= nextSequence
      /\ nextToWrite <= nextSequence /\ nextToWrite \in Nat
      /\ DOMAIN requestQueue = frontSequence .. nextSequence - 1
  BY DEF TypeOK, QueueInv, QueueShape
<1>2. DOMAIN requestQueue \cup {nextSequence} = frontSequence .. nextSequence
  BY <1>1
<1>3. /\ nextSequence' = nextSequence + 1
      /\ staged' = staged + 1
      /\ frontSequence' = frontSequence
      /\ DOMAIN requestQueue' = frontSequence .. nextSequence
      /\ \A s \in frontSequence .. nextSequence - 1 :
           requestQueue'[s] = requestQueue[s]
      /\ requestQueue'[nextSequence] =
           [id |-> staged + 1, callback |-> kind, multiSize |-> size]
  BY <1>1, <1>2 DEF EmplaceBack
<1>4. requestQueue' \in [frontSequence' .. nextSequence' - 1 -> StagedRequest]
  <2>1. [id |-> staged + 1, callback |-> kind, multiSize |-> size] \in StagedRequest
    BY <1>1, KindsAssumption DEF StagedRequest
  <2>2. \A s \in frontSequence .. nextSequence - 1 :
          requestQueue[s] \in StagedRequest
    BY DEF TypeOK
  <2>3. requestQueue' = [s \in frontSequence .. nextSequence |-> requestQueue'[s]]
    BY <1>2 DEF EmplaceBack
  <2>4. \A s \in frontSequence .. nextSequence : requestQueue'[s] \in StagedRequest
    BY <2>1, <2>2, <1>1, <1>3
  <2> QED BY <2>3, <2>4, <1>1, <1>3
<1>5. /\ Unacknowledged' = Unacknowledged \cup {nextSequence}
      /\ Unacknowledged \subseteq frontSequence .. nextSequence - 1
  BY <1>1, <1>3 DEF Unacknowledged
<1>6. LastLeft' = LastLeft
  BY <1>1, <1>3 DEF LastLeft, UnacknowledgedCount
<1>7. QueueInv'
  <2>1. QueueShape' /\ (UnacknowledgedCount <= staged)'
    BY <1>1, <1>3 DEF QueueInv, QueueShape, UnacknowledgedCount
  <2>2. ASSUME NEW s \in Unacknowledged'
        PROVE  /\ requestQueue'[s].id = staged' - (nextSequence' - 1 - s)
               /\ requestQueue'[s].callback \in Kinds
    <3>1. CASE s = nextSequence
      BY <3>1, <1>1, <1>3
    <3>2. CASE s \in Unacknowledged
      BY <3>2, <1>1, <1>3, <1>5 DEF QueueInv, Unacknowledged
    <3> QED BY <1>5, <3>1, <3>2
  <2> QED BY <2>1, <2>2 DEF QueueInv
<1>8. /\ frontSequence' \in Nat /\ nextSequence' \in Nat /\ staged' \in Nat
      /\ \A s \in Unacknowledged : requestQueue'[s] = requestQueue[s]
  BY <1>1, <1>3, <1>5
<1> QED BY <1>3, <1>4, <1>5, <1>6, <1>7, <1>8, Zenon

\* Discarding the n oldest requests leaves the others as they are.
LEMMA DiscardQueue ==
  ASSUME TypeOK, QueueInv, NEW n \in Nat, n <= UnacknowledgedCount,
         Discard(n), nextToWrite' \in Nat, nextToWrite' <= nextSequence,
         UNCHANGED staged
  PROVE  /\ QueueInv'
         /\ requestQueue' \in [frontSequence' .. nextSequence' - 1 -> StagedRequest]
         /\ LastLeft' = LastLeft + n
         /\ Unacknowledged' \subseteq Unacknowledged
         /\ Unacknowledged' = Unacknowledged \
                (nextToAcknowledge .. nextToAcknowledge + n - 1)
         /\ \A s \in Unacknowledged' : requestQueue'[s] = requestQueue[s]
         /\ frontSequence' \in Nat /\ nextSequence' \in Nat
         /\ nextToAcknowledge' \in Nat
         /\ semaphore' \in Int
<1>1. /\ frontSequence \in Nat /\ nextSequence \in Nat /\ staged \in Nat
      /\ nextToAcknowledge = frontSequence + 1
      /\ nextToAcknowledge + n <= nextSequence
      /\ semaphore \in Int
      /\ requestQueue \in [frontSequence .. nextSequence - 1 -> StagedRequest]
  BY DEF TypeOK, QueueInv, QueueShape, UnacknowledgedCount
<1>2. /\ nextSequence' = nextSequence
      /\ nextToAcknowledge' = nextToAcknowledge + n
      /\ frontSequence' = frontSequence + n
      /\ requestQueue' =
           [s \in frontSequence + n .. nextSequence - 1 |-> requestQueue[s]]
      /\ semaphore' \in Int
      /\ staged' = staged
  BY <1>1 DEF Discard
<1>3. requestQueue' \in [frontSequence' .. nextSequence' - 1 -> StagedRequest]
  BY <1>1, <1>2
<1>4. /\ Unacknowledged' \subseteq Unacknowledged
      /\ Unacknowledged' = Unacknowledged \
              (nextToAcknowledge .. nextToAcknowledge + n - 1)
      /\ Unacknowledged' \subseteq frontSequence + n .. nextSequence - 1
  BY <1>1, <1>2 DEF Unacknowledged
<1>5. \A s \in Unacknowledged' : requestQueue'[s] = requestQueue[s]
  BY <1>2, <1>4
<1>6. LastLeft' = LastLeft + n
  BY <1>1, <1>2 DEF LastLeft, UnacknowledgedCount
<1>7. QueueInv'
  BY <1>1, <1>2, <1>4, <1>5
  DEF QueueInv, QueueShape, UnacknowledgedCount
<1> QED BY <1>1, <1>2, <1>3, <1>4, <1>5, <1>6, <1>7
-----------------------------------------------------------------------------
(* Steps that touch neither the queue nor the answers.                       *)

LEMMA QuietStep ==
  ASSUME IInv, TypeOK', StagingInv',
         UNCHANGED <<queueVars, nextToAcknowledge, staged, answerVars>>,
         nextToWrite' <= nextSequence
  PROVE  IInv'
<1>1. /\ requestQueue' = requestQueue /\ frontSequence' = frontSequence
      /\ nextSequence' = nextSequence /\ staged' = staged
      /\ nextToAcknowledge' = nextToAcknowledge /\ promises' = promises
      /\ pendingCallbacks' = pendingCallbacks /\ delivered' = delivered
  BY DEF queueVars, answerVars
<1>2. QueueInv'
  BY <1>1 DEF IInv, QueueInv, QueueShape, UnacknowledgedCount,
              Unacknowledged
<1>3. PendingInv' /\ DeliveredInv' /\ AnsweredToOwner'
  BY <1>1 DEF IInv, PendingInv, DeliveredInv, AnsweredInOrder, AnsweredToOwner,
              LastLeft, UnacknowledgedCount
<1>4. FutureInv'
  BY <1>1 DEF IInv, FutureInv, WaitsInExecutor, WaitsInQueue, HasPromise,
              Unacknowledged
<1> QED BY <1>2, <1>3, <1>4 DEF IInv

LEMMA ReserveStep ==
  ASSUME IInv, NEW t \in Callers, NEW kind \in Kinds \ {"future"},
         NEW size \in MultiSizes, Reserve(t, kind, size)
  PROVE  IInv'
<1>1. /\ staging' = [staging EXCEPT ![t] = [callback |-> kind, multiSize |-> size]]
      /\ semaphore' = IF BackpressureActive THEN semaphore - 1 ELSE semaphore
      /\ UNCHANGED <<handshakeVars, queueVars, requestBlocking, iteratorVars,
                     staged, answerVars, messages, lastClear>>
  BY DEF Reserve
<1>2. [callback |-> kind, multiSize |-> size] \in
        [callback : CallbackKinds \ {"future"}, multiSize : MultiSizes]
  BY KindsAssumption
<1>3. /\ staging' \in [Callers -> [callback : CallbackKinds \ {"future"},
                                   multiSize : MultiSizes] \cup {Idle}]
      /\ semaphore' \in Int
  BY <1>1, <1>2 DEF IInv, TypeOK
<1>4. TypeOK'
  BY <1>1, <1>3 DEF IInv, TypeOK, handshakeVars, queueVars, iteratorVars,
                    answerVars
<1>5. StagingInv'
  BY <1>1 DEF IInv, TypeOK, StagingInv
<1>6. nextToWrite' <= nextSequence
  BY <1>1 DEF IInv, QueueInv, QueueShape, iteratorVars
<1> QED BY <1>1, <1>4, <1>5, <1>6, QuietStep DEF iteratorVars

LEMMA ConsumeQuietlyStep ==
  ASSUME IInv, NEW reply \in Replies, NEW alive \in BOOLEAN,
         \/ ConsumeUnavailable(reply, alive)
         \/ ConsumeHandshake(reply, alive)
         \/ ConsumeMessage(reply, alive)
         \/ ConsumeUnexpected(reply, alive)
         \/ ConsumeMultiPrefix(reply, alive)
  PROVE  IInv'
<1>1. UNCHANGED <<queueVars, nextToWrite, nextToAcknowledge, callerVars,
                  answerVars, semaphore, requestBlocking, lastClear>>
  BY DEF ConsumeUnavailable, ConsumeHandshake, ConsumeMessage,
         ConsumeUnexpected, ConsumeMultiPrefix, coreVars, iteratorVars
<1>2. /\ inHandshake' \in BOOLEAN /\ handshakeBlocking' \in BOOLEAN
      /\ handshakeStaged' \in Nat /\ handshakeIterator' \in Nat
      /\ handshakeValidated' \in Nat /\ ignoredResponses' \in Nat
      /\ messages' \in Seq(Nat)
  <2>1. CASE ConsumeUnavailable(reply, alive) \/ ConsumeUnexpected(reply, alive)
    BY <2>1 DEF ConsumeUnavailable, ConsumeUnexpected, coreVars, handshakeVars,
                iteratorVars, IInv, TypeOK
  <2>2. CASE ConsumeHandshake(reply, alive)
    <3>1. /\ UNCHANGED <<iteratorVars, messages>>
          /\ \/ UNCHANGED handshakeVars
             \/ /\ handshakeValidated' = handshakeValidated + 1
                /\ handshakeIterator' = handshakeIterator
                /\ \/ /\ inHandshake' = FALSE /\ handshakeBlocking' = FALSE
                      /\ handshakeStaged' = handshakeStaged
                   \/ /\ handshakeStaged' = handshakeStaged + 1
                      /\ UNCHANGED <<inHandshake, handshakeBlocking>>
      BY <2>2, Zenon DEF ConsumeHandshake
    <3>2. ignoredResponses' \in Nat /\ messages' \in Seq(Nat)
      BY <3>1 DEF iteratorVars, IInv, TypeOK
    <3>3. inHandshake' \in BOOLEAN /\ handshakeBlocking' \in BOOLEAN
      BY <3>1, Zenon DEF handshakeVars, IInv, TypeOK
    <3>4. /\ handshakeStaged' \in Nat /\ handshakeIterator' \in Nat
          /\ handshakeValidated' \in Nat
      BY <3>1 DEF handshakeVars, IInv, TypeOK
    <3> QED BY <3>2, <3>3, <3>4
  <2>3. CASE ConsumeMessage(reply, alive)
    <3>1. reply.of \in Nat
      BY RepliesAssumption
    <3> QED BY <2>3, <3>1
            DEF ConsumeMessage, handshakeVars, iteratorVars, IInv, TypeOK
  <2>4. CASE ConsumeMultiPrefix(reply, alive)
    <3>1. /\ ignoredResponses' = ignoredResponses + 1
          /\ UNCHANGED <<handshakeVars, messages>>
      BY <2>4 DEF ConsumeMultiPrefix
    <3> QED BY <3>1 DEF handshakeVars, IInv, TypeOK
  <2> QED BY <2>1, <2>2, <2>3, <2>4
<1>3. TypeOK'
  BY <1>1, <1>2 DEF IInv, TypeOK, queueVars, callerVars, answerVars
<1>4. StagingInv' /\ nextToWrite' <= nextSequence
  BY <1>1 DEF IInv, StagingInv, QueueInv, QueueShape, callerVars
<1> QED BY <1>1, <1>3, <1>4, QuietStep DEF callerVars

LEMMA RestartHandshakeType ==
  ASSUME TypeOK, RestartHandshake
  PROVE  /\ inHandshake' \in BOOLEAN /\ handshakeBlocking' \in BOOLEAN
         /\ handshakeStaged' \in Nat /\ handshakeIterator' \in Nat
         /\ handshakeValidated' \in Nat
BY SizesAssumption DEF TypeOK, RestartHandshake

LEMMA ReconnectionStep ==
  ASSUME IInv, Reconnection
  PROVE  IInv'
<1>1. /\ UNCHANGED <<queueVars, requestBlocking, semaphore, callerVars,
                     answerVars, messages, lastClear>>
      /\ ignoredResponses' = 0
      /\ nextToWrite' = frontSequence + 1
      /\ nextToAcknowledge' = frontSequence + 1
      /\ RestartHandshake
  BY DEF Reconnection
<1>2. /\ nextToAcknowledge' = nextToAcknowledge
      /\ nextToWrite' \in Nat /\ nextToWrite' <= nextSequence
  BY <1>1 DEF IInv, TypeOK, QueueInv, QueueShape
<1>3. TypeOK'
  BY <1>1, <1>2, RestartHandshakeType
  DEF IInv, TypeOK, queueVars, callerVars, answerVars
<1>4. StagingInv'
  BY <1>1 DEF IInv, StagingInv, callerVars
<1> QED BY <1>1, <1>2, <1>3, <1>4, QuietStep DEF callerVars

LEMMA SetBlockingModeStep ==
  ASSUME IInv, NEW value \in BOOLEAN, SetBlockingMode(value)
  PROVE  IInv'
<1>1. /\ handshakeBlocking' \in BOOLEAN /\ requestBlocking' \in BOOLEAN
      /\ UNCHANGED <<inHandshake, handshakeStaged, handshakeIterator,
                     handshakeValidated, queueVars, iteratorVars, semaphore,
                     callerVars, answerVars, messages, lastClear>>
  BY DEF SetBlockingMode
<1>2. TypeOK'
  BY <1>1 DEF IInv, TypeOK, queueVars, iteratorVars, callerVars, answerVars
<1>3. StagingInv' /\ nextToWrite' <= nextSequence
  BY <1>1 DEF IInv, StagingInv, QueueInv, QueueShape, callerVars,
              iteratorVars
<1> QED BY <1>1, <1>2, <1>3, QuietStep DEF callerVars, iteratorVars

LEMMA FetchHandshakeStep ==
  ASSUME IInv, NEW found \in BOOLEAN, FetchHandshake(found)
  PROVE  IInv'
<1>1. /\ handshakeIterator' \in Nat
      /\ UNCHANGED <<inHandshake, handshakeStaged, handshakeValidated,
                     handshakeBlocking, queueVars, requestBlocking,
                     iteratorVars, semaphore, callerVars, answerVars,
                     messages, lastClear>>
  BY DEF FetchHandshake, IInv, TypeOK
<1>2. TypeOK'
  BY <1>1 DEF IInv, TypeOK, queueVars, iteratorVars, callerVars, answerVars
<1>3. StagingInv' /\ nextToWrite' <= nextSequence
  BY <1>1 DEF IInv, StagingInv, QueueInv, QueueShape, callerVars,
              iteratorVars
<1> QED BY <1>1, <1>2, <1>3, QuietStep DEF callerVars, iteratorVars
-----------------------------------------------------------------------------
(* Staging                                                                   *)

\* What the queue lemma leaves to show when a request is staged: the promises.
LEMMA StagedStep ==
  ASSUME IInv, NEW kind \in Kinds, NEW size \in Nat, EmplaceBack(kind, size),
         TypeOK', StagingInv',
         UNCHANGED <<nextToWrite, nextToAcknowledge, pendingCallbacks, delivered>>,
         promises' = IF kind = "future" THEN Append(promises, staged + 1)
                     ELSE promises
  PROVE  IInv'
<1>1. /\ TypeOK /\ QueueInv /\ PendingInv /\ DeliveredInv /\ FutureInv
      /\ AnsweredToOwner
  BY DEF IInv
<1>2. /\ QueueInv'
      /\ LastLeft' = LastLeft
      /\ Unacknowledged' = Unacknowledged \cup {nextSequence}
      /\ \A s \in Unacknowledged : requestQueue'[s] = requestQueue[s]
      /\ requestQueue'[nextSequence] =
           [id |-> staged + 1, callback |-> kind, multiSize |-> size]
  BY <1>1, EmplaceBackQueue
<1>3. /\ pendingCallbacks' = pendingCallbacks /\ delivered' = delivered
  OBVIOUS
<1>4. PendingInv' /\ DeliveredInv' /\ AnsweredToOwner'
  BY <1>1, <1>2, <1>3 DEF PendingInv, DeliveredInv, AnsweredInOrder,
                          AnsweredToOwner
<1>5. /\ promises \in Seq(Nat) /\ staged \in Nat /\ nextSequence \in Nat
      /\ nextToAcknowledge \in Nat /\ LastLeft \in Int /\ LastLeft <= staged
      /\ nextToAcknowledge <= nextSequence
  BY <1>1 DEF TypeOK, QueueInv, QueueShape, LastLeft,
              UnacknowledgedCount
<1>6. \A id : WaitsInExecutor(id)' <=> WaitsInExecutor(id)
  BY <1>3 DEF WaitsInExecutor
<1>7. \A id : WaitsInQueue(id) => WaitsInQueue(id)'
  BY <1>2 DEF WaitsInQueue
<1>8. \A i \in 1 .. Len(promises) : promises[i] <= staged
  <2> SUFFICES ASSUME NEW i \in 1 .. Len(promises)
               PROVE  promises[i] <= staged
    OBVIOUS
  <2>1. CASE WaitsInExecutor(promises[i])
    <3>1. PICK j \in 1 .. Len(pendingCallbacks) :
            pendingCallbacks[j].id = promises[i]
      BY <2>1 DEF WaitsInExecutor
    <3>2. pendingCallbacks[j].id <= LastLeft
      BY <1>1 DEF PendingInv
    <3> QED BY <3>1, <3>2, <1>5
  <2>2. CASE WaitsInQueue(promises[i])
    <3>1. PICK s \in Unacknowledged : requestQueue[s].id = promises[i]
      BY <2>2 DEF WaitsInQueue
    <3>2. requestQueue[s].id = staged - (nextSequence - 1 - s)
      BY <1>1 DEF QueueInv
    <3> QED BY <3>1, <3>2, <1>5 DEF Unacknowledged
  <2> QED BY <1>1, <2>1, <2>2 DEF FutureInv
<1>9. CASE kind = "future"
  <2>1. /\ Len(promises') = Len(promises) + 1
        /\ \A i \in 1 .. Len(promises) : promises'[i] = promises[i]
        /\ promises'[Len(promises) + 1] = staged + 1
        /\ Len(promises) \in Nat
    BY <1>5, <1>9
  <2>2. \A i \in 1 .. Len(promises') :
          i \in 1 .. Len(promises) \/ i = Len(promises) + 1
    BY <2>1
  <2>3. \A i, j \in 1 .. Len(promises') : i < j => promises'[i] < promises'[j]
    <3> SUFFICES ASSUME NEW i \in 1 .. Len(promises'),
                        NEW j \in 1 .. Len(promises'), i < j
                 PROVE  promises'[i] < promises'[j]
      OBVIOUS
    <3>1. i \in 1 .. Len(promises) /\ promises[i] \in Nat
      BY <2>1, <2>2, <1>5
    <3>2. CASE j \in 1 .. Len(promises)
      BY <3>1, <3>2, <2>1, <1>1 DEF FutureInv
    <3>3. CASE j = Len(promises) + 1
      BY <3>1, <3>3, <2>1, <1>8, <1>5
    <3> QED BY <2>2, <3>2, <3>3
  <2>4. \A id : HasPromise(id) => HasPromise(id)'
    BY <2>1 DEF HasPromise
  <2>5. PICK new \in Nat : new = staged + 1
    BY <1>5
  <2>6. HasPromise(new)' /\ WaitsInQueue(new)'
    <3>1. Len(promises) + 1 \in 1 .. Len(promises')
      BY <2>1
    <3> QED BY <3>1, <2>1, <2>5, <1>2, <1>9 DEF HasPromise, WaitsInQueue
  <2>7. \A i \in 1 .. Len(promises') :
          WaitsInExecutor(promises[i])' \/ WaitsInQueue(promises[i])'
    <3> SUFFICES ASSUME NEW i \in 1 .. Len(promises')
                 PROVE  WaitsInExecutor(promises[i])' \/ WaitsInQueue(promises[i])'
      OBVIOUS
    <3>1. CASE i \in 1 .. Len(promises)
      <4>1. PICK id \in Nat : promises[i] = id /\ promises'[i] = id
        BY <3>1, <2>1, <1>5
      <4>2. WaitsInExecutor(id) \/ WaitsInQueue(id)
        BY <3>1, <4>1, <1>1 DEF FutureInv
      <4>3. WaitsInExecutor(id)' \/ WaitsInQueue(id)'
        BY <4>2, <1>6, <1>7
      <4> QED BY <4>1, <4>3 DEF WaitsInExecutor, WaitsInQueue
    <3>2. CASE i = Len(promises) + 1
      BY <3>2, <2>1, <2>5, <2>6 DEF WaitsInQueue
    <3> QED BY <2>2, <3>1, <3>2
  <2>8. \A s \in Unacknowledged' :
          requestQueue'[s].callback = "future" => HasPromise(requestQueue[s].id)'
    <3> SUFFICES ASSUME NEW s \in Unacknowledged',
                        requestQueue'[s].callback = "future"
                 PROVE  HasPromise(requestQueue[s].id)'
      OBVIOUS
    <3>1. CASE s \in Unacknowledged
      <4>1. HasPromise(requestQueue[s].id) /\ requestQueue'[s] = requestQueue[s]
        BY <3>1, <1>1, <1>2 DEF FutureInv
      <4> QED BY <4>1, <2>1 DEF HasPromise
    <3>2. CASE s = nextSequence
      BY <3>2, <1>2, <2>5, <2>6 DEF HasPromise
    <3> QED BY <1>2, <3>1, <3>2
  <2>9. \A j \in 1 .. Len(pendingCallbacks') :
          pendingCallbacks'[j].callback = "future" =>
            HasPromise(pendingCallbacks[j].id)'
    BY <1>1, <1>3, <2>1 DEF FutureInv, HasPromise
  <2>10. FutureInv'
    BY <2>3, <2>7, <2>8, <2>9 DEF FutureInv
  <2> QED BY <1>2, <1>4, <2>10 DEF IInv
<1>10. CASE kind # "future"
  <2>1. promises' = promises
    BY <1>10
  <2>2. \A s \in Unacknowledged' :
          requestQueue'[s].callback = "future" =>
            s \in Unacknowledged /\ requestQueue'[s] = requestQueue[s]
    BY <1>2, <1>10
  <2>3. \A i \in 1 .. Len(promises) :
          WaitsInExecutor(promises[i])' \/ WaitsInQueue(promises[i])'
    BY <1>1, <1>2, <1>3, <2>1 DEF FutureInv, WaitsInExecutor, WaitsInQueue
  <2>4. FutureInv'
    BY <1>1, <1>3, <2>1, <2>2, <2>3 DEF FutureInv, HasPromise
  <2> QED BY <1>2, <1>4, <2>4 DEF IInv
<1> QED BY <1>9, <1>10

LEMMA StageCallbackStep ==
  ASSUME IInv, NEW t \in Callers, StageCallback(t)
  PROVE  IInv'
<1> DEFINE kind == staging[t].callback
           size == staging[t].multiSize
<1>1. /\ staging[t] # Idle
      /\ EmplaceBack(kind, size)
      /\ staging' = [staging EXCEPT ![t] = Idle]
      /\ UNCHANGED <<handshakeVars, requestBlocking, iteratorVars, semaphore,
                     answerVars, messages, lastClear>>
  BY DEF StageCallback
<1>2. kind \in Kinds /\ kind # "future" /\ size \in Nat
  BY <1>1, SizesAssumption DEF IInv, TypeOK, StagingInv
<1>3. /\ requestQueue' \in [frontSequence' .. nextSequence' - 1 -> StagedRequest]
      /\ frontSequence' \in Nat /\ nextSequence' \in Nat /\ staged' \in Nat
  BY <1>1, <1>2, EmplaceBackQueue DEF IInv, iteratorVars
<1>4. staging' \in [Callers -> [callback : CallbackKinds \ {"future"},
                                multiSize : MultiSizes] \cup {Idle}]
  BY <1>1 DEF IInv, TypeOK
<1>5. TypeOK'
  BY <1>1, <1>3, <1>4
  DEF IInv, TypeOK, handshakeVars, iteratorVars, answerVars
<1>6. StagingInv'
  BY <1>1 DEF IInv, TypeOK, StagingInv
<1> HIDE DEF kind, size
<1> QED BY <1>1, <1>2, <1>5, <1>6, StagedStep DEF iteratorVars, answerVars

LEMMA StageFutureStep ==
  ASSUME IInv, NEW t \in Callers, NEW size \in MultiSizes, "future" \in Kinds,
         StageFuture(t, size)
  PROVE  IInv'
<1>1. /\ EmplaceBack("future", size)
      /\ promises' = Append(promises, staged + 1)
      /\ UNCHANGED <<handshakeVars, requestBlocking, iteratorVars, semaphore,
                     staging, pendingCallbacks, delivered, messages, lastClear>>
  BY DEF StageFuture
<1>2. size \in Nat
  BY SizesAssumption
<1>3. /\ requestQueue' \in [frontSequence' .. nextSequence' - 1 -> StagedRequest]
      /\ frontSequence' \in Nat /\ nextSequence' \in Nat /\ staged' \in Nat
  BY <1>1, <1>2, EmplaceBackQueue DEF IInv, iteratorVars
<1>4. promises' \in Seq(Nat)
  BY <1>1 DEF IInv, TypeOK
<1>5. TypeOK'
  BY <1>1, <1>3, <1>4 DEF IInv, TypeOK, handshakeVars, iteratorVars
<1>6. StagingInv'
  BY <1>1 DEF IInv, StagingInv
<1> QED BY <1>1, <1>2, <1>5, <1>6, StagedStep DEF iteratorVars
-----------------------------------------------------------------------------
(* Answering: the n oldest requests move from the queue to the executor.     *)

LEMMA AnsweredStep ==
  ASSUME IInv, TypeOK', QueueInv', NEW n \in Nat, n <= UnacknowledgedCount,
         LastLeft' = LastLeft + n,
         \A s \in Unacknowledged' :
           /\ s \in Unacknowledged /\ s >= nextToAcknowledge + n
           /\ requestQueue'[s] = requestQueue[s],
         \A s \in Unacknowledged :
           s >= nextToAcknowledge + n => s \in Unacknowledged',
         Len(pendingCallbacks') = Len(pendingCallbacks) + n,
         \A i \in 1 .. Len(pendingCallbacks) :
           pendingCallbacks'[i] = pendingCallbacks[i],
         \A i \in 1 .. n :
           LET request == requestQueue[nextToAcknowledge + i - 1] IN
           /\ pendingCallbacks'[Len(pendingCallbacks) + i].id = request.id
           /\ pendingCallbacks'[Len(pendingCallbacks) + i].callback =
                request.callback,
         UNCHANGED <<promises, delivered, staging>>
  PROVE  IInv'
<1> DEFINE old == Len(pendingCallbacks)
<1>1. /\ TypeOK /\ QueueInv /\ PendingInv /\ DeliveredInv /\ FutureInv
      /\ AnsweredToOwner /\ StagingInv
  BY DEF IInv
<1>2. /\ old \in Nat /\ LastLeft \in Int
      /\ nextToAcknowledge \in Nat /\ nextSequence \in Nat /\ staged \in Nat
      /\ UnacknowledgedCount = nextSequence - nextToAcknowledge
      /\ LastLeft = staged - UnacknowledgedCount
      /\ pendingCallbacks \in Seq(PendingCallback) /\ promises \in Seq(Nat)
      /\ delivered \in Seq([request : Nat, to : Nat,
                            reply : Replies \cup {NullReply}])
  BY <1>1 DEF TypeOK, LastLeft, UnacknowledgedCount
<1>3. \A i \in 1 .. old + n : i \in 1 .. old \/ i - old \in 1 .. n
  BY <1>2
<1>4. \A i \in 1 .. n :
        /\ nextToAcknowledge + i - 1 \in Unacknowledged
        /\ pendingCallbacks'[old + i].id = LastLeft + i
        /\ pendingCallbacks'[old + i].callback =
             requestQueue[nextToAcknowledge + i - 1].callback
  <2> SUFFICES ASSUME NEW i \in 1 .. n
               PROVE  /\ nextToAcknowledge + i - 1 \in Unacknowledged
                      /\ pendingCallbacks'[old + i].id = LastLeft + i
                      /\ pendingCallbacks'[old + i].callback =
                           requestQueue[nextToAcknowledge + i - 1].callback
    OBVIOUS
  <2>1. nextToAcknowledge + i - 1 \in Unacknowledged
    BY <1>2 DEF Unacknowledged
  <2>2. requestQueue[nextToAcknowledge + i - 1].id
          = staged - (nextSequence - 1 - (nextToAcknowledge + i - 1))
    BY <2>1, <1>1 DEF QueueInv
  <2> QED BY <2>1, <2>2, <1>2
<1>5. \A i \in 1 .. old :
        /\ pendingCallbacks'[i] = pendingCallbacks[i]
        /\ pendingCallbacks[i].id \in Nat /\ pendingCallbacks[i].id <= LastLeft
  <2>1. \A i \in 1 .. old : pendingCallbacks[i] \in PendingCallback
    BY <1>2
  <2> QED BY <2>1, <1>1 DEF PendingInv, PendingCallback
<1>6. \A i \in 1 .. n : i \in Nat /\ old + i - old = i
  BY <1>2
<1>7. \A i \in 1 .. old + n : i - old \in 1 .. n =>
        pendingCallbacks'[i].id = LastLeft + (i - old)
  <2> SUFFICES ASSUME NEW i \in 1 .. old + n, i - old \in 1 .. n
               PROVE  pendingCallbacks'[i].id = LastLeft + (i - old)
    OBVIOUS
  <2>1. i = old + (i - old)
    BY <1>2
  <2> QED BY <2>1, <1>4
<1>8. PendingInv'
  <2>1. \A i, j \in 1 .. old + n :
          i < j => pendingCallbacks'[i].id < pendingCallbacks'[j].id
    <3> SUFFICES ASSUME NEW i \in 1 .. old + n, NEW j \in 1 .. old + n, i < j
                 PROVE  pendingCallbacks'[i].id < pendingCallbacks'[j].id
      OBVIOUS
    <3>1. CASE j \in 1 .. old
      <4>1. i \in 1 .. old
        BY <3>1, <1>2
      <4> QED BY <3>1, <4>1, <1>1, <1>5 DEF PendingInv
    <3>2. CASE i \in 1 .. old /\ j - old \in 1 .. n
      <4>1. pendingCallbacks'[j].id = LastLeft + (j - old)
        BY <3>2, <1>7
      <4>2. pendingCallbacks'[i].id \in Nat /\ pendingCallbacks'[i].id <= LastLeft
        BY <3>2, <1>5
      <4> QED BY <3>2, <4>1, <4>2, <1>2
    <3>3. CASE i - old \in 1 .. n /\ j - old \in 1 .. n
      <4>1. i - old < j - old
        BY <1>2
      <4>2. /\ pendingCallbacks'[i].id = LastLeft + (i - old)
            /\ pendingCallbacks'[j].id = LastLeft + (j - old)
        BY <3>3, <1>7
      <4>3. i - old \in Int /\ j - old \in Int
        BY <1>2
      <4> QED BY <4>1, <4>2, <4>3, <1>2
    <3> QED BY <1>3, <3>1, <3>2, <3>3
  <2>2. \A i \in 1 .. old + n : pendingCallbacks'[i].id <= LastLeft + n
    <3> SUFFICES ASSUME NEW i \in 1 .. old + n
                 PROVE  pendingCallbacks'[i].id <= LastLeft + n
      OBVIOUS
    <3>1. CASE i \in 1 .. old
      <4>1. pendingCallbacks'[i].id \in Nat /\ pendingCallbacks'[i].id <= LastLeft
        BY <3>1, <1>5
      <4> QED BY <4>1, <1>2
    <3>2. CASE i - old \in 1 .. n
      BY <3>2, <1>2, <1>7
    <3> QED BY <1>3, <3>1, <3>2
  <2> QED BY <2>1, <2>2 DEF PendingInv
<1>9. DeliveredInv' /\ AnsweredToOwner'
  <2>1. delivered' = delivered
    OBVIOUS
  <2>2. AnsweredInOrder' /\ AnsweredToOwner'
    BY <2>1, <1>1 DEF DeliveredInv, AnsweredInOrder, AnsweredToOwner
  <2>3. ASSUME NEW i \in 1 .. Len(delivered)
        PROVE  /\ delivered[i].request <= LastLeft + n
               /\ \A j \in 1 .. old + n :
                    delivered[i].request < pendingCallbacks'[j].id
    <3>1. /\ delivered[i].request \in Nat
          /\ delivered[i].request <= LastLeft
          /\ \A j \in 1 .. old : delivered[i].request < pendingCallbacks[j].id
      <4>1. delivered[i] \in [request : Nat, to : Nat,
                              reply : Replies \cup {NullReply}]
        BY <1>2, ElementOfSeq
      <4> QED BY <4>1, <1>1 DEF DeliveredInv
    <3>2. ASSUME NEW j \in 1 .. old + n
          PROVE  delivered[i].request < pendingCallbacks'[j].id
      <4>1. CASE j \in 1 .. old
        BY <4>1, <3>1, <1>5
      <4>2. CASE j - old \in 1 .. n
        <5>1. pendingCallbacks'[j].id = LastLeft + (j - old)
          BY <4>2, <1>7
        <5>2. PICK m \in 1 .. n : m = j - old
          BY <4>2
        <5>3. m \in Nat \ {0}
          <6>1. n \in Nat
            BY <1>2
          <6> QED BY <6>1
        <5>4. PICK r \in Nat : r = delivered[i].request
          BY <3>1
        <5>5. r <= LastLeft /\ LastLeft \in Int
          BY <3>1, <1>2, <5>4
        <5>6. r < LastLeft + m
          BY <5>5, <5>3
        <5> QED BY <5>1, <5>2, <5>4, <5>6
      <4> QED BY <1>3, <4>1, <4>2
    <3>3. delivered[i].request <= LastLeft + n
      BY <3>1, <1>2
    <3> QED BY <3>2, <3>3
  <2> QED BY <2>1, <2>2, <2>3 DEF DeliveredInv
<1>10. FutureInv'
  <2>1. promises' = promises
    OBVIOUS
  <2>2. ASSUME NEW id, WaitsInExecutor(id)
        PROVE  WaitsInExecutor(id)'
    <3>1. PICK j \in 1 .. old : pendingCallbacks[j].callback = "future"
                                /\ pendingCallbacks[j].id = id
      BY <2>2 DEF WaitsInExecutor
    <3>2. j \in 1 .. old + n /\ pendingCallbacks'[j] = pendingCallbacks[j]
      BY <1>2, <1>5
    <3> QED BY <3>1, <3>2 DEF WaitsInExecutor
  <2>3. ASSUME NEW id, WaitsInQueue(id)
        PROVE  WaitsInExecutor(id)' \/ WaitsInQueue(id)'
    <3>1. PICK s \in Unacknowledged : requestQueue[s].callback = "future"
                                      /\ requestQueue[s].id = id
      BY <2>3 DEF WaitsInQueue
    <3>2. CASE s >= nextToAcknowledge + n
      BY <3>1, <3>2 DEF WaitsInQueue
    <3>3. CASE ~(s >= nextToAcknowledge + n)
      <4>1. PICK i \in 1 .. n : s = nextToAcknowledge + i - 1
        <5>1. s - nextToAcknowledge + 1 \in 1 .. n
          BY <3>1, <3>3, <1>2 DEF Unacknowledged
        <5>2. s = nextToAcknowledge + (s - nextToAcknowledge + 1) - 1
          BY <3>1, <1>2 DEF Unacknowledged
        <5> QED BY <5>1, <5>2
      <4>2. old + i \in 1 .. old + n
        <5>1. old \in Nat /\ n \in Nat
          BY <1>2
        <5> QED BY <5>1
      <4>3. /\ pendingCallbacks'[old + i].callback = "future"
            /\ pendingCallbacks'[old + i].id = id
        BY <3>1, <4>1
      <4> QED BY <4>2, <4>3 DEF WaitsInExecutor
    <3> QED BY <3>2, <3>3
  <2>4. \A i \in 1 .. Len(promises) :
          WaitsInExecutor(promises[i])' \/ WaitsInQueue(promises[i])'
    <3> SUFFICES ASSUME NEW i \in 1 .. Len(promises)
                 PROVE  WaitsInExecutor(promises[i])' \/ WaitsInQueue(promises[i])'
      OBVIOUS
    <3>1. PICK id \in Nat : promises[i] = id
      BY <1>2
    <3>2. WaitsInExecutor(id) \/ WaitsInQueue(id)
      BY <3>1, <1>1 DEF FutureInv
    <3>3. WaitsInExecutor(id)' \/ WaitsInQueue(id)'
      BY <3>2, <2>2, <2>3
    <3> QED BY <3>1, <3>3, <2>1 DEF WaitsInExecutor, WaitsInQueue
  <2>5. \A j \in 1 .. old + n :
          pendingCallbacks'[j].callback = "future" =>
            HasPromise(pendingCallbacks[j].id)'
    <3> SUFFICES ASSUME NEW j \in 1 .. old + n,
                        pendingCallbacks'[j].callback = "future"
                 PROVE  HasPromise(pendingCallbacks[j].id)'
      OBVIOUS
    <3>1. CASE j \in 1 .. old
      BY <3>1, <1>1, <1>5, <2>1 DEF FutureInv, HasPromise
    <3>2. CASE j - old \in 1 .. n
      <4>1. PICK i \in 1 .. n : j = old + i
        <5>1. j = old + (j - old)
          BY <1>2
        <5> QED BY <3>2, <5>1
      <4>2. /\ nextToAcknowledge + i - 1 \in Unacknowledged
            /\ pendingCallbacks'[j].id =
                 requestQueue[nextToAcknowledge + i - 1].id
            /\ requestQueue[nextToAcknowledge + i - 1].callback = "future"
        BY <4>1, <1>4
      <4>3. HasPromise(requestQueue[nextToAcknowledge + i - 1].id)
        BY <4>2, <1>1 DEF FutureInv
      <4> QED BY <4>2, <4>3, <2>1 DEF HasPromise
    <3> QED BY <1>3, <3>1, <3>2
  <2>6. \A s \in Unacknowledged' :
          requestQueue'[s].callback = "future" => HasPromise(requestQueue[s].id)'
    BY <1>1, <2>1 DEF FutureInv, HasPromise
  <2> QED BY <1>1, <2>1, <2>4, <2>5, <2>6 DEF FutureInv
<1>11. StagingInv'
  BY <1>1 DEF StagingInv
<1> QED BY <1>8, <1>9, <1>10, <1>11 DEF IInv
\* The oldest request answered by a reply.
LEMMA ConsumeReplyStep ==
  ASSUME IInv, NEW reply \in Replies, NEW alive \in BOOLEAN,
         ConsumeReply(reply, alive)
  PROVE  IInv'
<1>1. /\ nextToAcknowledge < nextSequence
      /\ pendingCallbacks' =
           Append(pendingCallbacks, Acknowledgement(ToAcknowledge, reply))
      /\ Discard(1)
      /\ ignoredResponses' \in {0, ignoredResponses}
      /\ UNCHANGED <<handshakeVars, requestBlocking, nextToWrite, callerVars,
                     promises, delivered, messages, lastClear>>
  BY DEF ConsumeReply, HasArrived, AcknowledgePending
<1>2. /\ TypeOK /\ QueueInv
      /\ nextToAcknowledge \in Nat /\ nextSequence \in Nat
      /\ nextToAcknowledge = frontSequence + 1 /\ frontSequence \in Nat
      /\ nextToWrite \in Nat /\ nextToWrite <= nextSequence
      /\ requestQueue \in [frontSequence .. nextSequence - 1 -> StagedRequest]
      /\ pendingCallbacks \in Seq(PendingCallback)
      /\ UnacknowledgedCount = nextSequence - nextToAcknowledge
      /\ ignoredResponses \in Nat
  BY DEF IInv, TypeOK, QueueInv, QueueShape, UnacknowledgedCount
<1>3. 1 <= UnacknowledgedCount /\ 1 \in Nat
  BY <1>1, <1>2
<1>4. UNCHANGED staged /\ nextToWrite' = nextToWrite
  BY <1>1 DEF callerVars
<1>5. /\ QueueInv'
      /\ requestQueue' \in [frontSequence' .. nextSequence' - 1 -> StagedRequest]
      /\ LastLeft' = LastLeft + 1
      /\ Unacknowledged' = Unacknowledged \
             (nextToAcknowledge .. nextToAcknowledge + 1 - 1)
      /\ \A s \in Unacknowledged' : requestQueue'[s] = requestQueue[s]
      /\ frontSequence' \in Nat /\ nextSequence' \in Nat
      /\ nextToAcknowledge' \in Nat
      /\ semaphore' \in Int
  BY <1>1, <1>2, <1>3, <1>4, DiscardQueue
<1>6. ToAcknowledge \in StagedRequest
  BY <1>1, <1>2 DEF ToAcknowledge
<1>7. Acknowledgement(ToAcknowledge, reply) \in PendingCallback
  BY <1>6 DEF Acknowledgement, PendingCallback, StagedRequest
<1>8. /\ pendingCallbacks' \in Seq(PendingCallback)
      /\ Len(pendingCallbacks') = Len(pendingCallbacks) + 1
      /\ \A j \in 1 .. Len(pendingCallbacks) :
           pendingCallbacks'[j] = pendingCallbacks[j]
      /\ pendingCallbacks'[Len(pendingCallbacks) + 1] =
           Acknowledgement(ToAcknowledge, reply)
  BY <1>1, <1>2, <1>7
<1>9. TypeOK'
  <2>1. ignoredResponses' \in Nat
    BY <1>1, <1>2
  <2>2. UNCHANGED <<handshakeVars, requestBlocking, nextToWrite, callerVars,
                    promises, delivered, messages, lastClear>>
    BY <1>1
  <2> QED BY <2>1, <2>2, <1>2, <1>5, <1>8 DEF TypeOK, handshakeVars, callerVars
<1>10. /\ \A s \in Unacknowledged' :
            /\ s \in Unacknowledged /\ s >= nextToAcknowledge + 1
            /\ requestQueue'[s] = requestQueue[s]
       /\ \A s \in Unacknowledged :
            s >= nextToAcknowledge + 1 => s \in Unacknowledged'
  <2>1. \A s \in Unacknowledged : s \in Int /\ s >= nextToAcknowledge
    BY <1>2 DEF Unacknowledged
  <2> QED BY <1>2, <1>5, <2>1
<1>11. \A j \in 1 .. 1 :
         LET request == requestQueue[nextToAcknowledge + j - 1] IN
         /\ pendingCallbacks'[Len(pendingCallbacks) + j].id = request.id
         /\ pendingCallbacks'[Len(pendingCallbacks) + j].callback =
              request.callback
  BY <1>2, <1>8 DEF Acknowledgement, ToAcknowledge
<1> QED BY <1>1, <1>3, <1>5, <1>8, <1>9, <1>10, <1>11, AnsweredStep DEF callerVars

\* All of them answered with a null reply.
LEMMA ClearAllPendingStep ==
  ASSUME IInv, ClearAllPending
  PROVE  IInv'
<1> DEFINE n == UnacknowledgedCount
           nulls == [i \in 1 .. n |->
                       Acknowledgement(requestQueue[nextToAcknowledge + i - 1],
                                       NullReply)]
<1>1. /\ TypeOK /\ QueueInv
      /\ nextToAcknowledge \in Nat /\ nextSequence \in Nat
      /\ nextToAcknowledge = frontSequence + 1 /\ frontSequence \in Nat
      /\ nextToAcknowledge <= nextSequence
      /\ requestQueue \in [frontSequence .. nextSequence - 1 -> StagedRequest]
      /\ pendingCallbacks \in Seq(PendingCallback)
      /\ n = nextSequence - nextToAcknowledge /\ n \in Nat
      /\ staged \in Nat /\ n <= staged /\ semaphore \in Int
  BY DEF IInv, TypeOK, QueueInv, QueueShape, UnacknowledgedCount
<1>2. /\ pendingCallbacks' = pendingCallbacks \o nulls
      /\ semaphore' = IF BackpressureActive THEN semaphore + n ELSE semaphore
      /\ requestQueue' = [s \in 0 .. 0 |-> Dummy]
      /\ frontSequence' = 0 /\ nextSequence' = 1
      /\ nextToWrite' = 1 /\ nextToAcknowledge' = 1 /\ ignoredResponses' = 0
      /\ RestartHandshake
      /\ lastClear' = [returned |-> (nextSequence - (frontSequence + n)) - 1,
                       answered |-> n]
      /\ UNCHANGED <<requestBlocking, callerVars, promises, delivered, messages>>
  BY DEF ClearAllPending
<1>3. \A i \in 1 .. n :
        Acknowledgement(requestQueue[nextToAcknowledge + i - 1], NullReply)
          \in PendingCallback
  <2> SUFFICES ASSUME NEW i \in 1 .. n
      PROVE Acknowledgement(requestQueue[nextToAcknowledge + i - 1], NullReply)
              \in PendingCallback
    OBVIOUS
  <2>1. nextToAcknowledge + i - 1 \in frontSequence .. nextSequence - 1
    BY <1>1
  <2>2. requestQueue[nextToAcknowledge + i - 1] \in StagedRequest
    BY <1>1, <2>1
  <2> QED BY <2>2 DEF Acknowledgement, PendingCallback, StagedRequest
<1>4. nulls \in Seq(PendingCallback) /\ Len(nulls) = n
  <2>1. nulls \in [1 .. n -> PendingCallback]
    BY <1>3
  <2> HIDE DEF nulls
  <2>2. nulls \in Seq(PendingCallback)
    BY <1>1, <2>1, SeqDef
  <2> QED BY <1>1, <2>1, <2>2
<1>5. /\ pendingCallbacks' \in Seq(PendingCallback)
      /\ Len(pendingCallbacks') = Len(pendingCallbacks) + n
      /\ \A j \in 1 .. Len(pendingCallbacks) :
           pendingCallbacks'[j] = pendingCallbacks[j]
      /\ \A j \in 1 .. n :
           pendingCallbacks'[Len(pendingCallbacks) + j] = nulls[j]
  <2> HIDE DEF nulls
  <2>1. /\ pendingCallbacks \o nulls \in Seq(PendingCallback)
        /\ Len(pendingCallbacks \o nulls) = Len(pendingCallbacks) + Len(nulls)
        /\ \A j \in 1 .. Len(pendingCallbacks) + Len(nulls) :
             (pendingCallbacks \o nulls)[j] =
               IF j <= Len(pendingCallbacks) THEN pendingCallbacks[j]
               ELSE nulls[j - Len(pendingCallbacks)]
    BY <1>1, <1>4, ConcatProperties
  <2>2. Len(pendingCallbacks) \in Nat
    BY <1>1
  <2>3. ASSUME NEW j \in 1 .. n
        PROVE  (pendingCallbacks \o nulls)[Len(pendingCallbacks) + j] = nulls[j]
    <3>1. /\ Len(pendingCallbacks) + j \in 1 .. Len(pendingCallbacks) + Len(nulls)
          /\ ~(Len(pendingCallbacks) + j <= Len(pendingCallbacks))
          /\ Len(pendingCallbacks) + j - Len(pendingCallbacks) = j
      BY <1>1, <1>4, <2>2
    <3> QED BY <3>1, <2>1
  <2>4. ASSUME NEW j \in 1 .. Len(pendingCallbacks)
        PROVE  (pendingCallbacks \o nulls)[j] = pendingCallbacks[j]
    BY <2>1, <2>2, <1>1, <1>4
  <2> QED BY <1>2, <1>4, <2>1, <2>3, <2>4
<1>6. requestQueue' \in [frontSequence' .. nextSequence' - 1 -> StagedRequest]
  BY <1>2 DEF Dummy, StagedRequest, CallbackKinds
<1>7. lastClear' \in [returned : Int, answered : Nat] /\ semaphore' \in Int
  BY <1>1, <1>2
<1>8. TypeOK'
  <2> HIDE DEF nulls, n
  <2> QED BY <1>1, <1>2, <1>5, <1>6, <1>7, RestartHandshakeType
          DEF TypeOK, callerVars
<1>9. Unacknowledged' = {} /\ UnacknowledgedCount' = 0 /\ staged' = staged
  BY <1>2 DEF Unacknowledged, UnacknowledgedCount, callerVars
<1>10. QueueInv'
  BY <1>1, <1>2, <1>9 DEF QueueInv, QueueShape
<1>11. LastLeft' = LastLeft + n
  BY <1>1, <1>9 DEF LastLeft
<1>12. \A s \in Unacknowledged : ~(s >= nextToAcknowledge + n)
  BY <1>1 DEF Unacknowledged
<1>13. \A j \in 1 .. n :
         LET request == requestQueue[nextToAcknowledge + j - 1] IN
         /\ pendingCallbacks'[Len(pendingCallbacks) + j].id = request.id
         /\ pendingCallbacks'[Len(pendingCallbacks) + j].callback =
              request.callback
  <2> SUFFICES ASSUME NEW j \in 1 .. n
      PROVE LET request == requestQueue[nextToAcknowledge + j - 1] IN
            /\ pendingCallbacks'[Len(pendingCallbacks) + j].id = request.id
            /\ pendingCallbacks'[Len(pendingCallbacks) + j].callback =
                 request.callback
    OBVIOUS
  <2>1. nulls[j] =
          Acknowledgement(requestQueue[nextToAcknowledge + j - 1], NullReply)
    OBVIOUS
  <2>2. pendingCallbacks'[Len(pendingCallbacks) + j] = nulls[j]
    BY <1>5
  <2> HIDE DEF nulls
  <2> QED BY <2>1, <2>2 DEF Acknowledgement
<1>14. UNCHANGED <<promises, delivered, staging>>
  BY <1>2 DEF callerVars
<1>15. \A s \in Unacknowledged' :
         /\ s \in Unacknowledged /\ s >= nextToAcknowledge + n
         /\ requestQueue'[s] = requestQueue[s]
  BY <1>9
<1>16. \A s \in Unacknowledged :
         s >= nextToAcknowledge + n => s \in Unacknowledged'
  BY <1>12
<1>17. n \in Nat /\ n <= UnacknowledgedCount
  BY <1>1
<1> HIDE DEF nulls, n
<1> QED BY <1>5, <1>8, <1>10, <1>11, <1>13, <1>14, <1>15, <1>16, <1>17,
           AnsweredStep
-----------------------------------------------------------------------------
(* Writing.  In exclusive mode, written requests are dropped unanswered; none *)
(* of them has a promise.                                                    *)

LEMMA FetchRequestStep ==
  ASSUME IInv, NEW found \in BOOLEAN, FetchRequest(found)
  PROVE  IInv'
<1>1. /\ nextToWrite' \in {nextToWrite, nextToWrite + 1}
      /\ nextToWrite' = nextToWrite + 1 => nextToWrite < nextSequence
      /\ UNCHANGED <<handshakeVars, requestBlocking, ignoredResponses,
                     callerVars, answerVars, messages, lastClear>>
  BY DEF FetchRequest, HasArrived, IInv, TypeOK
<1>2. /\ TypeOK /\ QueueInv /\ StagingInv
      /\ nextToAcknowledge \in Nat /\ nextSequence \in Nat
      /\ nextToWrite \in Nat /\ nextToWrite <= nextSequence
      /\ UnacknowledgedCount = nextSequence - nextToAcknowledge
  BY DEF IInv, TypeOK, QueueInv, QueueShape, UnacknowledgedCount
<1>3. nextToWrite' \in Nat /\ nextToWrite' <= nextSequence
  BY <1>1, <1>2
<1>4. StagingInv'
  BY <1>1, <1>2 DEF StagingInv, callerVars
<1>5. CASE HasListener /\ ExclusivePubsub /\ nextToWrite > nextToAcknowledge
  <2> DEFINE n == nextToWrite - nextToAcknowledge
  <2>1. Discard(n)
    BY <1>5 DEF FetchRequest
  <2>2. n \in Nat /\ n <= UnacknowledgedCount
    BY <1>2, <1>5
  <2> HIDE DEF n
  <2>3. staged' = staged
    BY <1>1 DEF callerVars
  <2>4. /\ QueueInv'
        /\ requestQueue' \in [frontSequence' .. nextSequence' - 1 -> StagedRequest]
        /\ LastLeft' = LastLeft + n
        /\ Unacknowledged' \subseteq Unacknowledged
        /\ \A s \in Unacknowledged' : requestQueue'[s] = requestQueue[s]
        /\ frontSequence' \in Nat /\ nextSequence' \in Nat
        /\ nextToAcknowledge' \in Nat
        /\ semaphore' \in Int
    BY <1>2, <1>3, <2>1, <2>2, <2>3, DiscardQueue
  <2>5. TypeOK'
    BY <1>1, <1>2, <1>3, <2>4
    DEF TypeOK, handshakeVars, callerVars, answerVars
  <2>6. /\ pendingCallbacks' = pendingCallbacks /\ promises' = promises
        /\ delivered' = delivered
    BY <1>1 DEF answerVars
  <2>7. /\ pendingCallbacks \in Seq(PendingCallback)
        /\ delivered \in Seq([request : Nat, to : Nat,
                              reply : Replies \cup {NullReply}])
        /\ LastLeft \in Int
    BY <1>2 DEF TypeOK, LastLeft, UnacknowledgedCount
  <2>8. PendingInv'
    <3>1. ASSUME NEW j \in 1 .. Len(pendingCallbacks)
          PROVE  pendingCallbacks[j].id <= LastLeft + n
      <4>1. pendingCallbacks[j] \in PendingCallback
        BY <2>7, ElementOfSeq
      <4>2. pendingCallbacks[j].id <= LastLeft
        BY DEF IInv, PendingInv
      <4> QED BY <4>1, <4>2, <2>2, <2>7 DEF PendingCallback
    <3> QED BY <3>1, <2>4, <2>6 DEF IInv, PendingInv
  <2>9. DeliveredInv'
    <3>1. ASSUME NEW j \in 1 .. Len(delivered)
          PROVE  delivered[j].request <= LastLeft + n
      <4>1. delivered[j] \in [request : Nat, to : Nat,
                              reply : Replies \cup {NullReply}]
        BY <2>7, ElementOfSeq
      <4>2. delivered[j].request <= LastLeft
        BY DEF IInv, DeliveredInv
      <4> QED BY <4>1, <4>2, <2>2, <2>7
    <3> QED BY <3>1, <2>4, <2>6 DEF IInv, DeliveredInv, AnsweredInOrder
  <2>10. AnsweredToOwner'
    BY <2>6 DEF IInv, AnsweredToOwner
  <2>11. \A s \in Unacknowledged : requestQueue[s].callback # "future"
    BY <1>2, <1>5, ExclusiveAssumption DEF QueueInv
  <2>12. \A j \in 1 .. Len(promises) : WaitsInExecutor(promises[j])
    BY <2>11 DEF IInv, FutureInv, WaitsInQueue
  <2>13. FutureInv'
    BY <2>4, <2>6, <2>11, <2>12 DEF IInv, FutureInv, WaitsInExecutor, HasPromise
  <2> QED BY <1>4, <2>4, <2>5, <2>8, <2>9, <2>10, <2>13 DEF IInv
<1>6. CASE ~(HasListener /\ ExclusivePubsub /\ nextToWrite > nextToAcknowledge)
  <2>1. UNCHANGED <<queueVars, nextToAcknowledge, semaphore>>
    BY <1>6 DEF FetchRequest
  <2>2. TypeOK'
    BY <1>1, <1>2, <1>3, <2>1
    DEF TypeOK, handshakeVars, queueVars, callerVars, answerVars
  <2> QED BY <1>1, <1>3, <1>4, <2>1, <2>2, QuietStep DEF callerVars
<1> QED BY <1>5, <1>6

-----------------------------------------------------------------------------
(* Delivering: the oldest promise is that of the callback at the front.      *)

LEMMA ExecuteCallbackStep ==
  ASSUME IInv, ExecuteCallback
  PROVE  IInv'
<1> DEFINE cb == Head(pendingCallbacks)
           future == cb.callback = "future"
           answer == [request |-> cb.id,
                      to |-> IF future THEN Head(promises) ELSE cb.id,
                      reply |-> cb.reply]
<1>1. /\ pendingCallbacks # <<>>
      /\ pendingCallbacks' = Tail(pendingCallbacks)
      /\ delivered' = IF cb.callback = "none" THEN delivered
                      ELSE Append(delivered, answer)
      /\ promises' = IF future THEN Tail(promises) ELSE promises
      /\ UNCHANGED <<handshakeVars, queueVars, requestBlocking, iteratorVars,
                     semaphore, callerVars, messages, lastClear>>
  BY DEF ExecuteCallback
<1>2. /\ TypeOK /\ QueueInv /\ PendingInv /\ DeliveredInv /\ FutureInv
      /\ AnsweredToOwner /\ StagingInv
      /\ pendingCallbacks \in Seq(PendingCallback) /\ promises \in Seq(Nat)
      /\ delivered \in Seq([request : Nat, to : Nat,
                            reply : Replies \cup {NullReply}])
      /\ nextSequence \in Nat /\ staged \in Nat /\ nextToAcknowledge \in Nat
      /\ LastLeft = staged - (nextSequence - nextToAcknowledge)
  BY DEF IInv, TypeOK, LastLeft, UnacknowledgedCount
<1>3. /\ Len(pendingCallbacks) \in Nat /\ 1 \in 1 .. Len(pendingCallbacks)
      /\ cb = pendingCallbacks[1] /\ cb \in PendingCallback
      /\ cb.id \in Nat /\ cb.id <= LastLeft
      /\ pendingCallbacks' \in Seq(PendingCallback)
      /\ Len(pendingCallbacks') = Len(pendingCallbacks) - 1
      /\ \A j \in 1 .. Len(pendingCallbacks') :
           /\ j + 1 \in 1 .. Len(pendingCallbacks)
           /\ pendingCallbacks'[j] = pendingCallbacks[j + 1]
           /\ pendingCallbacks[j + 1] \in PendingCallback
           /\ cb.id < pendingCallbacks[j + 1].id
  <2>1. /\ Len(pendingCallbacks) \in Nat /\ 1 \in 1 .. Len(pendingCallbacks)
        /\ cb = pendingCallbacks[1] /\ cb \in PendingCallback
        /\ pendingCallbacks' \in Seq(PendingCallback)
        /\ Len(pendingCallbacks') = Len(pendingCallbacks) - 1
        /\ \A j \in 1 .. Len(pendingCallbacks') :
             pendingCallbacks'[j] = pendingCallbacks[j + 1]
    BY <1>1, <1>2, HeadTailProperties, EmptySeq
  <2>2. cb.id \in Nat /\ cb.id <= LastLeft
    BY <2>1, <1>2 DEF PendingInv, PendingCallback
  <2> HIDE DEF cb
  <2>3. ASSUME NEW j \in 1 .. Len(pendingCallbacks')
        PROVE  /\ j + 1 \in 1 .. Len(pendingCallbacks)
               /\ pendingCallbacks[j + 1] \in PendingCallback
               /\ cb.id < pendingCallbacks[j + 1].id
    <3>1. j + 1 \in 1 .. Len(pendingCallbacks) /\ 1 < j + 1
      BY <2>1
    <3> QED BY <3>1, <2>1, <1>2, ElementOfSeq DEF PendingInv
  <2> QED BY <2>1, <2>2, <2>3
<1>4. ASSUME future
      PROVE  /\ promises # <<>> /\ Head(promises) = cb.id
             /\ promises' \in Seq(Nat)
             /\ Len(promises') = Len(promises) - 1
             /\ \A i \in 1 .. Len(promises') :
                  i + 1 \in 1 .. Len(promises) /\ promises'[i] = promises[i + 1]
  <2>1. PICK i \in 1 .. Len(promises) : promises[i] = cb.id
    BY <1>2, <1>3, <1>4 DEF FutureInv, HasPromise
  <2>2. Len(promises) \in Nat /\ 1 \in 1 .. Len(promises) /\ promises # <<>>
    BY <1>2, <2>1
  <2>3. /\ Head(promises) = promises[1] /\ promises[1] \in Nat
        /\ Tail(promises) \in Seq(Nat)
        /\ Len(Tail(promises)) = Len(promises) - 1
        /\ \A j \in 1 .. Len(Tail(promises)) : Tail(promises)[j] = promises[j + 1]
    BY <1>2, <2>2, HeadTailProperties, ElementOfSeq
  <2>4. promises[1] <= cb.id
    <3>1. CASE i = 1
      BY <3>1, <2>1, <2>3
    <3>2. CASE i # 1
      <4>1. promises[1] < promises[i]
        BY <3>2, <2>2, <1>2 DEF FutureInv
      <4> QED BY <4>1, <2>1, <2>3, <1>3
    <3> QED BY <3>1, <3>2
  <2>5. promises[1] >= cb.id
    <3>1. CASE WaitsInExecutor(promises[1])
      <4>1. PICK j \in 1 .. Len(pendingCallbacks) :
              pendingCallbacks[j].id = promises[1]
        BY <3>1 DEF WaitsInExecutor
      <4>2. CASE j = 1
        BY <4>1, <4>2, <1>3, <2>3
      <4>3. CASE j # 1
        <5>1. pendingCallbacks[1].id < pendingCallbacks[j].id
          BY <4>3, <1>2, <1>3 DEF PendingInv
        <5> QED BY <5>1, <4>1, <1>3, <2>3
      <4> QED BY <4>2, <4>3
    <3>2. CASE WaitsInQueue(promises[1])
      <4>1. PICK s \in Unacknowledged : requestQueue[s].id = promises[1]
        BY <3>2 DEF WaitsInQueue
      <4>2. requestQueue[s].id = staged - (nextSequence - 1 - s)
        BY <1>2 DEF QueueInv
      <4> QED BY <4>1, <4>2, <1>2, <1>3, <2>3 DEF Unacknowledged
    <3> QED BY <3>1, <3>2, <2>2, <1>2 DEF FutureInv
  <2>6. Head(promises) = cb.id
    BY <2>3, <2>4, <2>5, <1>3
  <2>7. promises' = Tail(promises)
    BY <1>1, <1>4
  <2>8. \A j \in 1 .. Len(promises') : j + 1 \in 1 .. Len(promises)
    BY <2>2, <2>3, <2>7
  <2> QED BY <2>2, <2>3, <2>6, <2>7, <2>8
<1>5. answer = [request |-> cb.id, to |-> cb.id, reply |-> cb.reply]
  BY <1>4
<1>6. answer \in [request : Nat, to : Nat, reply : Replies \cup {NullReply}]
  BY <1>3, <1>5 DEF PendingCallback
<1> HIDE DEF answer, cb
<1>7. /\ delivered' \in Seq([request : Nat, to : Nat,
                             reply : Replies \cup {NullReply}])
      /\ \A i \in 1 .. Len(delivered') :
           \/ i \in 1 .. Len(delivered) /\ delivered'[i] = delivered[i]
           \/ i = Len(delivered) + 1 /\ delivered'[i] = answer
      /\ Len(delivered) \in Nat
      /\ Len(delivered') \in {Len(delivered), Len(delivered) + 1}
  <2>1. CASE cb.callback = "none"
    BY <2>1, <1>1, <1>2
  <2>2. CASE cb.callback # "none"
    <3>1. delivered' = Append(delivered, answer)
      BY <2>2, <1>1
    <3>2. /\ Append(delivered, answer) \in
               Seq([request : Nat, to : Nat, reply : Replies \cup {NullReply}])
          /\ Len(Append(delivered, answer)) = Len(delivered) + 1
          /\ \A i \in 1 .. Len(delivered) :
               Append(delivered, answer)[i] = delivered[i]
          /\ Append(delivered, answer)[Len(delivered) + 1] = answer
      BY <1>2, <1>6, AppendProperties
    <3>3. Len(delivered) \in Nat
      BY <1>2
    <3>4. \A i \in 1 .. Len(delivered) + 1 :
            i \in 1 .. Len(delivered) \/ i = Len(delivered) + 1
      BY <3>3
    <3> QED BY <3>1, <3>2, <3>3, <3>4
  <2> QED BY <2>1, <2>2
<1>8. TypeOK'
  <2>1. promises' \in Seq(Nat)
    BY <1>1, <1>2, <1>4
  <2> QED BY <1>1, <1>2, <1>3, <1>7, <2>1
          DEF TypeOK, handshakeVars, queueVars, iteratorVars, callerVars
<1>9. QueueInv' /\ LastLeft' = LastLeft /\ Unacknowledged' = Unacknowledged
      /\ requestQueue' = requestQueue
  BY <1>1, <1>2 DEF QueueInv, QueueShape, UnacknowledgedCount,
     Unacknowledged, LastLeft, queueVars, iteratorVars, callerVars
<1>10. StagingInv'
  BY <1>1, <1>2 DEF StagingInv, callerVars
<1>11. PendingInv'
  <2>1. ASSUME NEW i \in 1 .. Len(pendingCallbacks'),
               NEW j \in 1 .. Len(pendingCallbacks'), i < j
        PROVE  pendingCallbacks'[i].id < pendingCallbacks'[j].id
    <3>1. i + 1 < j + 1
      BY <2>1, <1>3
    <3> QED BY <3>1, <1>2, <1>3 DEF PendingInv
  <2>2. ASSUME NEW j \in 1 .. Len(pendingCallbacks')
        PROVE  pendingCallbacks'[j].id <= LastLeft
    BY <1>2, <1>3 DEF PendingInv
  <2> QED BY <2>1, <2>2, <1>9 DEF PendingInv
<1>12. answer.request = cb.id /\ answer.to = cb.id
  BY <1>5
<1>13. AnsweredToOwner'
  <2>1. ASSUME NEW i \in 1 .. Len(delivered')
        PROVE  delivered'[i].to = delivered'[i].request
    BY <1>2, <1>7, <1>12 DEF AnsweredToOwner
  <2> QED BY <2>1 DEF AnsweredToOwner
<1>14. DeliveredInv'
  <2>1. \A i \in 1 .. Len(delivered) :
          /\ delivered[i].request \in Nat
          /\ delivered[i].request <= LastLeft
          /\ delivered[i].request < cb.id
    <3>1. \A i \in 1 .. Len(delivered) :
            delivered[i] \in [request : Nat, to : Nat,
                              reply : Replies \cup {NullReply}]
      BY <1>2, ElementOfSeq
    <3> QED BY <3>1, <1>2, <1>3 DEF DeliveredInv
  <2>2. AnsweredInOrder'
    <3>1. ASSUME NEW i \in 1 .. Len(delivered'), NEW j \in 1 .. Len(delivered'),
                 i < j
          PROVE  delivered'[i].request < delivered'[j].request
      <4>1. i \in 1 .. Len(delivered) /\ delivered'[i] = delivered[i]
        <5>1. PICK old \in Nat, more \in Nat : old = Len(delivered) /\ more = Len(delivered')
          BY <1>7
        <5>2. /\ more \in {old, old + 1}
              /\ \/ i \in 1 .. old /\ delivered'[i] = delivered[i]
                 \/ i = old + 1
          BY <1>7, <5>1
        <5>3. i # old + 1
          <6>1. i \in 1 .. more /\ j \in 1 .. more /\ more <= old + 1
            BY <5>1, <5>2
          <6> QED BY <3>1, <6>1
        <5> QED BY <5>1, <5>2, <5>3
      <4>2. CASE j \in 1 .. Len(delivered) /\ delivered'[j] = delivered[j]
        BY <3>1, <4>1, <4>2, <1>2 DEF DeliveredInv, AnsweredInOrder
      <4>3. CASE delivered'[j] = answer
        BY <4>1, <4>3, <1>12, <2>1
      <4> QED BY <1>7, <4>2, <4>3
    <3> QED BY <3>1 DEF AnsweredInOrder
  <2>3. ASSUME NEW i \in 1 .. Len(delivered')
        PROVE  /\ delivered'[i].request <= LastLeft
               /\ \A j \in 1 .. Len(pendingCallbacks') :
                    delivered'[i].request < pendingCallbacks'[j].id
    <3>1. CASE i \in 1 .. Len(delivered) /\ delivered'[i] = delivered[i]
      BY <3>1, <1>2, <1>3 DEF DeliveredInv
    <3>2. CASE delivered'[i] = answer
      BY <3>2, <1>3, <1>12
    <3> QED BY <1>7, <3>1, <3>2
  <2> QED BY <2>2, <2>3, <1>9 DEF DeliveredInv
<1>15. FutureInv'
  <2>1. \A i, j \in 1 .. Len(promises') : i < j => promises'[i] < promises'[j]
    <3>1. CASE future
      <4>1. ASSUME NEW i \in 1 .. Len(promises'), NEW j \in 1 .. Len(promises'),
                   i < j
            PROVE  promises'[i] < promises'[j]
        <5>1. i + 1 < j + 1
          BY <4>1, <1>2
        <5> QED BY <3>1, <5>1, <1>2, <1>4 DEF FutureInv
      <4> QED BY <4>1
    <3>2. CASE ~future
      BY <3>2, <1>1, <1>2 DEF FutureInv
    <3> QED BY <3>1, <3>2
  \* What still has a promise is not what was just executed.
  <2>2. ASSUME NEW i \in 1 .. Len(promises')
        PROVE  \E k \in 1 .. Len(promises) :
                 promises'[i] = promises[k] /\ (future => promises[k] # cb.id)
    <3>1. CASE future
      <4>1. /\ i + 1 \in 1 .. Len(promises) /\ promises'[i] = promises[i + 1]
            /\ promises[1] = cb.id /\ 1 \in 1 .. Len(promises) /\ 1 < i + 1
        BY <3>1, <1>2, <1>4
      <4>2. promises[1] < promises[i + 1]
        BY <4>1, <1>2 DEF FutureInv
      <4>3. promises[1] # promises[i + 1]
        BY <4>1, <4>2, <1>2
      <4> QED BY <4>1, <4>3
    <3>2. CASE ~future
      BY <3>2, <1>1
    <3> QED BY <3>1, <3>2
  <2>3. ASSUME NEW id, WaitsInExecutor(id), future => id # cb.id
        PROVE  WaitsInExecutor(id)'
    <3>1. PICK j \in 1 .. Len(pendingCallbacks) :
            pendingCallbacks[j].callback = "future" /\ pendingCallbacks[j].id = id
      BY <2>3 DEF WaitsInExecutor
    <3>2. j # 1
      BY <3>1, <2>3, <1>3
    <3>3. j - 1 \in 1 .. Len(pendingCallbacks') /\ j - 1 + 1 = j
      BY <3>2, <1>3
    <3>4. pendingCallbacks'[j - 1] = pendingCallbacks[j]
      BY <3>3, <1>3
    <3> QED BY <3>1, <3>3, <3>4 DEF WaitsInExecutor
  <2>4. \A i \in 1 .. Len(promises') :
          WaitsInExecutor(promises[i])' \/ WaitsInQueue(promises[i])'
    <3> SUFFICES ASSUME NEW i \in 1 .. Len(promises')
        PROVE  WaitsInExecutor(promises[i])' \/ WaitsInQueue(promises[i])'
      OBVIOUS
    <3>1. PICK k \in 1 .. Len(promises) :
            promises'[i] = promises[k] /\ (future => promises[k] # cb.id)
      BY <2>2
    <3>2. PICK id : id = promises[k]
      OBVIOUS
    <3>3. WaitsInExecutor(id) \/ WaitsInQueue(id)
      BY <3>2, <1>2 DEF FutureInv
    <3>4. WaitsInExecutor(id)' \/ WaitsInQueue(id)
      BY <3>1, <3>2, <3>3, <2>3
    <3> QED BY <3>1, <3>2, <3>4, <1>9 DEF WaitsInExecutor, WaitsInQueue
  <2>5. ASSUME NEW id, HasPromise(id), id # cb.id
        PROVE  HasPromise(id)'
    <3>1. PICK k \in 1 .. Len(promises) : promises[k] = id
      BY <2>5 DEF HasPromise
    <3>2. CASE future
      <4>1. promises[1] = cb.id
        BY <3>2, <1>2, <1>4
      <4>2. k # 1
        BY <3>1, <4>1, <2>5
      <4>3. k - 1 \in 1 .. Len(promises') /\ k - 1 + 1 = k
        BY <3>2, <4>2, <1>2, <1>4
      <4>4. promises'[k - 1] = promises[k]
        BY <3>2, <4>3, <1>4
      <4> QED BY <3>1, <4>3, <4>4 DEF HasPromise
    <3>3. CASE ~future
      BY <3>1, <3>3, <1>1 DEF HasPromise
    <3> QED BY <3>2, <3>3
  <2>6. ASSUME NEW j \in 1 .. Len(pendingCallbacks'),
               pendingCallbacks'[j].callback = "future"
        PROVE  HasPromise(pendingCallbacks[j].id)'
    <3>1. PICK id : id = pendingCallbacks[j + 1].id
      OBVIOUS
    <3>2. /\ j + 1 \in 1 .. Len(pendingCallbacks)
          /\ pendingCallbacks'[j] = pendingCallbacks[j + 1]
          /\ cb.id < id /\ id \in Nat
      BY <3>1, <1>3 DEF PendingCallback
    <3>3. HasPromise(id) /\ id # cb.id
      <4>1. pendingCallbacks[j + 1].callback = "future" /\ FutureInv
        BY <2>6, <3>2, <1>2
      <4>2. HasPromise(pendingCallbacks[j + 1].id)
        BY <3>2, <4>1 DEF FutureInv
      <4>3. id # cb.id
        BY <3>2, <1>3
      <4> QED BY <3>1, <4>2, <4>3
    <3>4. HasPromise(id)'
      BY <3>3, <2>5
    <3> QED BY <3>1, <3>2, <3>4 DEF HasPromise
  <2>7. ASSUME NEW s \in Unacknowledged', requestQueue'[s].callback = "future"
        PROVE  HasPromise(requestQueue[s].id)'
    <3>1. PICK id : id = requestQueue[s].id
      OBVIOUS
    <3>2. s \in Unacknowledged /\ requestQueue'[s] = requestQueue[s]
      BY <1>9
    <3>3. id = staged - (nextSequence - 1 - s)
      BY <3>1, <3>2, <1>2 DEF QueueInv
    <3>4. id # cb.id
      BY <3>2, <3>3, <1>2, <1>3 DEF Unacknowledged
    <3>5. HasPromise(id)
      BY <3>1, <3>2, <2>7, <1>2 DEF FutureInv
    <3>6. HasPromise(id)'
      BY <3>4, <3>5, <2>5
    <3> QED BY <3>1, <3>2, <3>6 DEF HasPromise
  <2> QED BY <2>1, <2>4, <2>6, <2>7 DEF FutureInv
<1> QED BY <1>8, <1>9, <1>10, <1>11, <1>13, <1>14, <1>15 DEF IInv

-----------------------------------------------------------------------------
(* The theorems                                                              *)

LEMMA NextIInv == IInv /\ [Next]_coreVars => IInv'
<1> SUFFICES ASSUME IInv, [Next]_coreVars
             PROVE  IInv'
  OBVIOUS
<1>1. CASE \E t \in Callers : CallerStep(t)
  BY <1>1, ReserveStep, StageFutureStep, StageCallbackStep DEF CallerStep
<1>2. CASE EventLoopStep
  <2>1. ASSUME NEW reply \in Replies, NEW alive \in BOOLEAN,
               ConsumeResponse(reply, alive)
        PROVE  IInv'
    BY <2>1, ConsumeQuietlyStep, ConsumeReplyStep DEF ConsumeResponse
  <2> QED BY <1>2, <2>1, ReconnectionStep, ClearAllPendingStep,
             SetBlockingModeStep DEF EventLoopStep
<1>3. CASE WriterStep
  BY <1>3, FetchHandshakeStep, FetchRequestStep DEF WriterStep
<1>4. CASE ExecuteCallback
  BY <1>4, ExecuteCallbackStep
<1>5. CASE UNCHANGED coreVars
  <2>1. /\ UNCHANGED <<queueVars, nextToAcknowledge, staged, answerVars>>
        /\ nextToWrite' = nextToWrite
    BY <1>5 DEF coreVars, iteratorVars, callerVars
  <2>2. TypeOK'
    BY <1>5 DEF coreVars, handshakeVars, queueVars, iteratorVars, callerVars,
                answerVars, IInv, TypeOK
  <2>3. StagingInv' /\ nextToWrite' <= nextSequence
    BY <1>5 DEF coreVars, iteratorVars, callerVars, IInv, StagingInv, QueueInv,
                QueueShape
  <2> QED BY <2>1, <2>2, <2>3, QuietStep
<1> QED BY <1>1, <1>2, <1>3, <1>4, <1>5 DEF Next

THEOREM IInvHolds == Spec => []IInv
<1>1. Init => IInv
  BY InitIInv
<1>2. IInv /\ [Next]_coreVars => IInv'
  BY NextIInv
<1> QED BY <1>1, <1>2, PTL DEF Spec

\* The core's state keeps its shape; in particular the request queue holds
\* exactly the sequence numbers from the hidden request to the youngest one.
THEOREM TypeCorrect == Spec => []TypeOK
<1>1. IInv => TypeOK
  BY DEF IInv
<1> QED BY <1>1, IInvHolds, PTL

\* However replies, purges and reconnections fall between stagings, answers
\* come in the order of staging, and no request is answered twice.
THEOREM AnswersComeInOrder == Spec => []AnsweredInOrder
<1>1. IInv => AnsweredInOrder
  BY DEF IInv, DeliveredInv
<1> QED BY <1>1, IInvHolds, PTL

\* The reply taken from the executor for a future fulfills the promise of that
\* very future, though the FutureHandler only knows the order of its promises.
THEOREM AnswersReachOwner == Spec => []AnsweredToOwner
<1>1. IInv => AnsweredToOwner
  BY DEF IInv
<1> QED BY <1>1, IInvHolds, PTL

-----------------------------------------------------------------------------
(* Counting: requests that wait for the executor or in the queue are the      *)
(* youngest ones without a gap, no slot of the semaphore is lost, and in       *)
(* exclusive mode the queue is trimmed behind the writer.                      *)

Exclusive == HasListener /\ ExclusivePubsub

-----------------------------------------------------------------------------
(* Facts of IInv the steps below need                                        *)

LEMMA Counters ==
  ASSUME IInv
  PROVE  /\ frontSequence \in Nat /\ nextSequence \in Nat /\ nextToWrite \in Nat
         /\ nextToAcknowledge \in Nat /\ staged \in Nat /\ semaphore \in Int
         /\ nextToAcknowledge = frontSequence + 1
         /\ nextToAcknowledge <= nextSequence
         /\ nextToWrite <= nextSequence
         /\ UnacknowledgedCount = nextSequence - nextToAcknowledge
         /\ UnacknowledgedCount \in Nat
         /\ LastLeft = staged - UnacknowledgedCount
         /\ pendingCallbacks \in Seq(PendingCallback)
BY DEF IInv, TypeOK, QueueInv, QueueShape, UnacknowledgedCount, LastLeft

-----------------------------------------------------------------------------
(* Trimming                                                                  *)

\* In exclusive mode nothing acknowledges requests, and still the queue holds at
\* most one request the writer has taken: for any number of requests.
THEOREM WrittenTrimmed == Spec => []WrittenAreTrimmed
<1>1. Init => WrittenAreTrimmed
  BY DEF Init, WrittenAreTrimmed
<1>2. IInv /\ WrittenAreTrimmed /\ [Next]_coreVars => WrittenAreTrimmed'
  <2> SUFFICES ASSUME IInv, WrittenAreTrimmed, [Next]_coreVars, Exclusive
               PROVE  nextToWrite' \in nextToAcknowledge' .. nextToAcknowledge' + 1
    BY DEF WrittenAreTrimmed, Exclusive
  <2>1. /\ nextToWrite \in Nat /\ nextToAcknowledge \in Nat /\ frontSequence \in Nat
        /\ nextToAcknowledge = frontSequence + 1
        /\ nextToAcknowledge <= nextToWrite /\ nextToWrite <= nextToAcknowledge + 1
    BY Counters DEF WrittenAreTrimmed, Exclusive
  <2>2. CASE UNCHANGED <<nextToWrite, nextToAcknowledge>>
    BY <2>1, <2>2
  <2>3. ASSUME NEW t \in Callers, CallerStep(t)
        PROVE  UNCHANGED <<nextToWrite, nextToAcknowledge>>
    BY <2>3 DEF CallerStep, Reserve, StageFuture, StageCallback, iteratorVars
  <2>4. CASE EventLoopStep
    <3>1. ASSUME NEW reply \in Replies, NEW alive \in BOOLEAN,
                 ConsumeResponse(reply, alive)
          PROVE  UNCHANGED <<nextToWrite, nextToAcknowledge>>
      <4>1. ~ConsumeReply(reply, alive)
        BY DEF ConsumeReply, AnswersRequest, Exclusive
      <4> QED BY <3>1, <4>1
              DEF ConsumeResponse, ConsumeUnavailable, ConsumeHandshake, ConsumeMessage,
                  ConsumeUnexpected, ConsumeMultiPrefix, coreVars, iteratorVars
    <3>2. CASE Reconnection \/ ClearAllPending
      <4>1. nextToWrite' = nextToAcknowledge' /\ nextToAcknowledge' \in {1, frontSequence + 1}
        BY <3>2, Zenon DEF Reconnection, ClearAllPending
      <4>2. nextToAcknowledge' \in Nat
        BY <4>1, <2>1
      <4>3. ASSUME NEW n \in Nat
            PROVE  n \in n .. n + 1
        OBVIOUS
      <4> QED BY <4>1, <4>2, <4>3
    <3>3. ASSUME NEW value \in BOOLEAN, SetBlockingMode(value)
          PROVE  UNCHANGED <<nextToWrite, nextToAcknowledge>>
      BY <3>3 DEF SetBlockingMode, iteratorVars
    <3> QED BY <2>2, <2>4, <3>1, <3>2, <3>3 DEF EventLoopStep
  <2>5. CASE WriterStep
    <3>1. ASSUME NEW found \in BOOLEAN, FetchHandshake(found)
          PROVE  UNCHANGED <<nextToWrite, nextToAcknowledge>>
      BY <3>1 DEF FetchHandshake, iteratorVars
    <3>2. ASSUME NEW found \in BOOLEAN, FetchRequest(found)
          PROVE  nextToWrite' \in nextToAcknowledge' .. nextToAcknowledge' + 1
      <4>1. nextToWrite' \in {nextToWrite, nextToWrite + 1}
        BY <3>2 DEF FetchRequest
      <4>2. nextToAcknowledge' = nextToWrite
        <5>1. CASE nextToWrite > nextToAcknowledge
          <6>1. nextToAcknowledge' = nextToAcknowledge + (nextToWrite - nextToAcknowledge)
            BY <3>2, <5>1 DEF FetchRequest, Exclusive, Discard
          <6> QED BY <6>1, <2>1
        <5>2. CASE nextToWrite = nextToAcknowledge
          BY <3>2, <5>2, <2>1 DEF FetchRequest
        <5> QED BY <5>1, <5>2, <2>1
      <4> QED BY <4>1, <4>2, <2>1
    <3> QED BY <2>2, <2>5, <3>1, <3>2 DEF WriterStep
  <2>6. CASE ExecuteCallback
    BY <2>2, <2>6 DEF ExecuteCallback, iteratorVars
  <2>7. CASE UNCHANGED coreVars
    BY <2>2, <2>7 DEF coreVars, iteratorVars
  <2> QED BY <2>2, <2>3, <2>4, <2>5, <2>6, <2>7 DEF Next
<1> QED BY <1>1, <1>2, IInvHolds, PTL DEF Spec

-----------------------------------------------------------------------------
(* Nothing is lost                                                           *)

\* The part of NothingLost that QueueInv does not have
PendingAreNext ==
  \A i \in 1 .. Len(pendingCallbacks) :
    pendingCallbacks[i].id = LastLeft - Len(pendingCallbacks) + i

\* n requests at the front of the queue have moved to the executor.
Moved(n) ==
  /\ LastLeft' = LastLeft + n
  /\ Len(pendingCallbacks') = Len(pendingCallbacks) + n
  /\ \A i \in 1 .. Len(pendingCallbacks) :
       pendingCallbacks'[i] = pendingCallbacks[i]
  /\ \A i \in 1 .. n :
       pendingCallbacks'[Len(pendingCallbacks) + i].id = LastLeft + i

LEMMA MovedStep ==
  ASSUME IInv, PendingAreNext, NEW n \in Nat, Moved(n)
  PROVE  PendingAreNext'
<1> DEFINE old == Len(pendingCallbacks)
<1>1. old \in Nat /\ LastLeft \in Int
  BY Counters
<1>2. SUFFICES ASSUME NEW i \in 1 .. old + n
               PROVE  pendingCallbacks'[i].id = (LastLeft + n) - (old + n) + i
  BY DEF PendingAreNext, Moved
<1>3. CASE i \in 1 .. old
  BY <1>1, <1>3 DEF PendingAreNext, Moved
<1>4. CASE i - old \in 1 .. n
  <2>1. pendingCallbacks'[old + (i - old)].id = LastLeft + (i - old)
    BY <1>4 DEF Moved
  <2>2. old + (i - old) = i /\ i \in Int
    BY <1>1
  <2> QED BY <1>1, <2>1, <2>2
<1> QED BY <1>1, <1>3, <1>4

LEMMA ConsumeReplyMoves ==
  ASSUME IInv, NEW reply \in Replies, NEW alive \in BOOLEAN,
         ConsumeReply(reply, alive)
  PROVE  Moved(1)
<1>1. /\ nextToAcknowledge < nextSequence
      /\ pendingCallbacks' =
           Append(pendingCallbacks, Acknowledgement(ToAcknowledge, reply))
      /\ nextToAcknowledge' = nextToAcknowledge + 1
      /\ nextSequence' = nextSequence /\ staged' = staged
  BY DEF ConsumeReply, HasArrived, AcknowledgePending, Discard, callerVars
<1>2. LastLeft' = LastLeft + 1
  <2>1. nextToAcknowledge \in Nat /\ nextSequence \in Nat /\ staged \in Nat
    BY Counters
  <2> QED BY <1>1, <2>1 DEF LastLeft, UnacknowledgedCount
<1>3. ToAcknowledge.id = LastLeft + 1
  <2>1. nextToAcknowledge \in Unacknowledged
    <3>1. nextToAcknowledge \in Nat /\ nextSequence \in Nat
      BY Counters
    <3>2. nextToAcknowledge \in nextToAcknowledge .. nextSequence - 1
      BY <1>1, <3>1
    <3> QED BY <3>2 DEF Unacknowledged
  <2>2. ToAcknowledge.id = staged - (nextSequence - 1 - nextToAcknowledge)
    BY <2>1 DEF IInv, QueueInv, ToAcknowledge
  <2> QED BY <2>2, Counters
<1>4. Acknowledgement(ToAcknowledge, reply).id = LastLeft + 1
  BY <1>3 DEF Acknowledgement
<1>5. ASSUME NEW cb, pendingCallbacks' = Append(pendingCallbacks, cb),
             cb.id = LastLeft + 1
      PROVE  Moved(1)
  <2>1. Len(pendingCallbacks) \in Nat /\ Len(pendingCallbacks') = Len(pendingCallbacks) + 1
    BY <1>5, Counters
  <2>2. /\ \A i \in 1 .. Len(pendingCallbacks) :
             pendingCallbacks'[i] = pendingCallbacks[i]
        /\ pendingCallbacks'[Len(pendingCallbacks) + 1] = cb
    BY <1>5, Counters
  <2> QED BY <2>1, <2>2, <1>2, <1>5 DEF Moved
<1> QED BY <1>1, <1>4, <1>5

LEMMA ClearAllPendingMoves ==
  ASSUME IInv, ClearAllPending
  PROVE  Moved(UnacknowledgedCount)
<1> DEFINE n == UnacknowledgedCount
           nulls == [i \in 1 .. n |->
                       Acknowledgement(requestQueue[nextToAcknowledge + i - 1],
                                       NullReply)]
<1>1. /\ pendingCallbacks' = pendingCallbacks \o nulls
      /\ nextSequence' = 1 /\ nextToAcknowledge' = 1 /\ staged' = staged
  BY DEF ClearAllPending, callerVars
<1>2. n \in Nat /\ Len(pendingCallbacks) \in Nat
  BY Counters
<1>3. LastLeft' = LastLeft + n
  BY <1>1, <1>2, Counters DEF LastLeft, UnacknowledgedCount
<1>4. ASSUME NEW i \in 1 .. n
      PROVE  nulls[i].id = LastLeft + i
  <2>1. nextToAcknowledge + i - 1 \in Unacknowledged
    BY <1>2, Counters DEF Unacknowledged
  <2>2. requestQueue[nextToAcknowledge + i - 1].id =
          staged - (nextSequence - 1 - (nextToAcknowledge + i - 1))
    BY <2>1 DEF IInv, QueueInv
  <2>3. nulls[i].id = requestQueue[nextToAcknowledge + i - 1].id
    BY DEF Acknowledgement
  <2>4. /\ staged \in Nat /\ nextSequence \in Nat /\ nextToAcknowledge \in Nat
        /\ LastLeft = staged - (nextSequence - nextToAcknowledge) /\ i \in Int
    BY <1>2, Counters
  <2> HIDE DEF nulls
  <2> QED BY <2>2, <2>3, <2>4
<1>5. /\ Len(pendingCallbacks') = Len(pendingCallbacks) + n
      /\ \A i \in 1 .. Len(pendingCallbacks) :
           pendingCallbacks'[i] = pendingCallbacks[i]
      /\ \A i \in 1 .. n : pendingCallbacks'[Len(pendingCallbacks) + i] = nulls[i]
  <2> DEFINE T == PendingCallback \cup {nulls[i] : i \in 1 .. n}
  <2>1. nulls \in [1 .. n -> T]
    OBVIOUS
  <2>2. pendingCallbacks \in Seq(T)
    <3>1. PendingCallback \subseteq T
      OBVIOUS
    <3> HIDE DEF T
    <3> QED BY <3>1, Counters, SeqMonotonic
  <2> HIDE DEF nulls, T
  <2>3. nulls \in Seq(T) /\ Len(nulls) = n
    BY <2>1, <1>2
  <2>4. \A i \in 1 .. Len(pendingCallbacks) + n :
          (pendingCallbacks \o nulls)[i] =
            IF i <= Len(pendingCallbacks) THEN pendingCallbacks[i]
            ELSE nulls[i - Len(pendingCallbacks)]
    BY <2>2, <2>3, ConcatProperties
  <2>5. Len(pendingCallbacks') = Len(pendingCallbacks) + n
    BY <1>1, <2>2, <2>3, ConcatProperties
  <2>6. \A i \in 1 .. Len(pendingCallbacks) : pendingCallbacks'[i] = pendingCallbacks[i]
    BY <1>1, <1>2, <2>4
  <2>7. ASSUME NEW i \in 1 .. n
        PROVE  pendingCallbacks'[Len(pendingCallbacks) + i] = nulls[i]
    <3>1. /\ Len(pendingCallbacks) + i \in 1 .. Len(pendingCallbacks) + n
          /\ ~(Len(pendingCallbacks) + i <= Len(pendingCallbacks))
          /\ (Len(pendingCallbacks) + i) - Len(pendingCallbacks) = i
      BY <1>2
    <3> QED BY <1>1, <3>1, <2>4
  <2> QED BY <2>5, <2>6, <2>7
<1> HIDE DEF n, nulls
<1> QED BY <1>3, <1>4, <1>5 DEF Moved, n

LEMMA ExecuteCallbackMoves ==
  ASSUME IInv, PendingAreNext, ExecuteCallback
  PROVE  PendingAreNext'
<1>1. /\ pendingCallbacks # <<>> /\ pendingCallbacks' = Tail(pendingCallbacks)
      /\ nextSequence' = nextSequence /\ nextToAcknowledge' = nextToAcknowledge
      /\ staged' = staged
  BY DEF ExecuteCallback, queueVars, iteratorVars, callerVars
<1>2. LastLeft' = LastLeft /\ LastLeft \in Int /\ Len(pendingCallbacks) \in Nat
  BY <1>1, Counters DEF LastLeft, UnacknowledgedCount
<1>3. /\ Len(pendingCallbacks') = Len(pendingCallbacks) - 1
      /\ \A i \in 1 .. Len(pendingCallbacks') :
           pendingCallbacks'[i] = pendingCallbacks[i + 1]
  BY <1>1, Counters, HeadTailProperties
<1>4. SUFFICES ASSUME NEW i \in 1 .. Len(pendingCallbacks) - 1
               PROVE  pendingCallbacks'[i].id =
                        LastLeft - (Len(pendingCallbacks) - 1) + i
  BY <1>2, <1>3 DEF PendingAreNext
<1>5. i + 1 \in 1 .. Len(pendingCallbacks)
  BY <1>2
<1>6. pendingCallbacks[i + 1].id = LastLeft - Len(pendingCallbacks) + (i + 1)
  BY <1>5 DEF PendingAreNext
<1> QED BY <1>2, <1>3, <1>6

\* Steps that move no request
LEMMA NoneMoves ==
  ASSUME IInv, PendingAreNext, UNCHANGED pendingCallbacks, LastLeft' = LastLeft
  PROVE  PendingAreNext'
BY DEF PendingAreNext

LEMMA StagingMovesNone ==
  ASSUME IInv, NEW kind, NEW size, EmplaceBack(kind, size),
         UNCHANGED nextToAcknowledge
  PROVE  LastLeft' = LastLeft
<1>1. /\ nextSequence \in Nat /\ nextToAcknowledge \in Nat /\ staged \in Nat
  BY Counters
<1> QED BY <1>1 DEF EmplaceBack, LastLeft, UnacknowledgedCount

LEMMA NextPending ==
  ASSUME IInv, PendingAreNext, [Next]_coreVars, ~Exclusive
  PROVE  PendingAreNext'
<1>1. /\ nextSequence \in Nat /\ nextToAcknowledge \in Nat /\ staged \in Nat
      /\ nextToAcknowledge = frontSequence + 1 /\ UnacknowledgedCount \in Nat
  BY Counters
<1>2. CASE UNCHANGED <<pendingCallbacks, nextSequence, nextToAcknowledge, staged>>
  BY <1>2, NoneMoves DEF LastLeft, UnacknowledgedCount
<1>3. ASSUME NEW t \in Callers, CallerStep(t)
      PROVE  PendingAreNext'
  <2>1. ASSUME NEW kind, NEW size, Reserve(t, kind, size)
        PROVE  PendingAreNext'
    BY <2>1, <1>2 DEF Reserve, queueVars, iteratorVars, answerVars
  <2>2. ASSUME NEW size, StageFuture(t, size)
        PROVE  PendingAreNext'
    BY <2>2, StagingMovesNone, NoneMoves DEF StageFuture, iteratorVars
  <2>3. CASE StageCallback(t)
    BY <2>3, StagingMovesNone, NoneMoves DEF StageCallback, iteratorVars, answerVars
  <2> QED BY <1>3, <2>1, <2>2, <2>3 DEF CallerStep
<1>4. CASE EventLoopStep
  <2>1. ASSUME NEW reply \in Replies, NEW alive \in BOOLEAN,
               ConsumeResponse(reply, alive)
        PROVE  PendingAreNext'
    <3>1. CASE ConsumeReply(reply, alive)
      BY <3>1, ConsumeReplyMoves, MovedStep
    <3>2. CASE ~ConsumeReply(reply, alive)
      <4>1. UNCHANGED <<pendingCallbacks, nextSequence, nextToAcknowledge, staged>>
        BY <2>1, <3>2
        DEF ConsumeResponse, ConsumeUnavailable, ConsumeHandshake, ConsumeMessage,
            ConsumeUnexpected, ConsumeMultiPrefix, coreVars, queueVars, iteratorVars,
            callerVars, answerVars
      <4> QED BY <4>1, <1>2
    <3> QED BY <3>1, <3>2
  <2>2. CASE Reconnection
    BY <2>2, <1>1, <1>2 DEF Reconnection, queueVars, callerVars, answerVars
  <2>3. CASE ClearAllPending
    BY <2>3, <1>1, ClearAllPendingMoves, MovedStep
  <2>4. ASSUME NEW value \in BOOLEAN, SetBlockingMode(value)
        PROVE  PendingAreNext'
    BY <2>4, <1>2 DEF SetBlockingMode, queueVars, iteratorVars, callerVars, answerVars
  <2> QED BY <1>4, <2>1, <2>2, <2>3, <2>4 DEF EventLoopStep
<1>5. CASE WriterStep
  <2>1. ASSUME NEW found \in BOOLEAN, FetchHandshake(found) \/ FetchRequest(found)
        PROVE  UNCHANGED <<pendingCallbacks, nextSequence, nextToAcknowledge, staged>>
    BY <2>1 DEF FetchHandshake, FetchRequest, Exclusive, queueVars, iteratorVars,
                callerVars, answerVars
  <2> QED BY <1>2, <1>5, <2>1 DEF WriterStep
<1>6. CASE ExecuteCallback
  BY <1>6, ExecuteCallbackMoves
<1>7. CASE UNCHANGED coreVars
  BY <1>2, <1>7 DEF coreVars, queueVars, iteratorVars, callerVars, answerVars
<1> QED BY <1>3, <1>4, <1>5, <1>6, <1>7 DEF Next

\* Outside exclusive mode, whatever replies, purges, reconnections and stagings
\* come in whatever order, every request that was staged and not handed to its
\* owner yet waits for the executor or in the queue: none is skipped or dropped.
THEOREM NothingIsLost ==
  ASSUME ~(HasListener /\ ExclusivePubsub)
  PROVE  Spec => []NothingLost
<1>1. Init => PendingAreNext
  BY DEF Init, PendingAreNext
<1>2. IInv /\ PendingAreNext /\ [Next]_coreVars => PendingAreNext'
  BY NextPending DEF Exclusive
<1>3. IInv /\ PendingAreNext => NothingLost
  BY DEF IInv, QueueInv, PendingAreNext, NothingLost, LastLeft
<1> QED BY <1>1, <1>2, <1>3, IInvHolds, PTL DEF Spec

-----------------------------------------------------------------------------
(* Backpressure                                                              *)

\* SlotsNeverLost, without its premise
SlotsKept == semaphore + Cardinality(Holding) + Cardinality(TookSlot) >= RequestLimit

LEMMA TookSlotSize ==
  ASSUME IInv
  PROVE  /\ IsFiniteSet(TookSlot) /\ Cardinality(TookSlot) \in Nat
         /\ Cardinality(TookSlot) <= UnacknowledgedCount
<1>1. /\ nextSequence \in Nat /\ nextToAcknowledge \in Nat
      /\ nextToAcknowledge <= nextSequence
      /\ UnacknowledgedCount = nextSequence - nextToAcknowledge
  BY Counters
<1>2. /\ IsFiniteSet(nextToAcknowledge .. nextSequence - 1)
      /\ Cardinality(nextToAcknowledge .. nextSequence - 1)
           = nextSequence - nextToAcknowledge
  <2>1. nextToAcknowledge \in Int /\ nextSequence - 1 \in Int
    BY <1>1
  <2>2. /\ IsFiniteSet(nextToAcknowledge .. nextSequence - 1)
        /\ Cardinality(nextToAcknowledge .. nextSequence - 1) =
             IF nextToAcknowledge > nextSequence - 1 THEN 0
             ELSE (nextSequence - 1) - nextToAcknowledge + 1
    BY <2>1, FS_Interval
  <2> QED BY <1>1, <2>2
<1>3. TookSlot \subseteq nextToAcknowledge .. nextSequence - 1
  BY DEF TookSlot, Unacknowledged
<1>4. /\ IsFiniteSet(TookSlot)
      /\ Cardinality(TookSlot) <= Cardinality(nextToAcknowledge .. nextSequence - 1)
  BY <1>2, <1>3, FS_Subset
<1> QED BY <1>1, <1>2, <1>4, FS_CardinalityType

LEMMA HoldingSize == IsFiniteSet(Holding) /\ Cardinality(Holding) \in Nat
BY CallersAssumption, FS_Subset, FS_CardinalityType DEF Holding

\* n requests at most take their slots with them when n slots are given back.
LEMMA DiscardGivesBack ==
  ASSUME IInv, SlotsKept, BackpressureActive, NEW n \in Nat, Discard(n),
         UNCHANGED staging
  PROVE  SlotsKept'
<1>1. /\ nextSequence \in Nat /\ nextToAcknowledge \in Nat /\ semaphore \in Int
      /\ nextToAcknowledge = frontSequence + 1 /\ frontSequence \in Nat
  BY Counters
<1>2. /\ nextSequence' = nextSequence /\ nextToAcknowledge' = nextToAcknowledge + n
      /\ requestQueue' = [s \in frontSequence + n .. nextSequence - 1 |->
                            requestQueue[s]]
      /\ semaphore' = semaphore + n
  BY DEF Discard
<1>3. Holding' = Holding
  BY DEF Holding
<1> DEFINE Discarded == nextToAcknowledge .. nextToAcknowledge + n - 1
<1>4. TookSlot \subseteq TookSlot' \cup Discarded
  <2> SUFFICES ASSUME NEW s \in TookSlot, s \notin Discarded
               PROVE  s \in TookSlot'
    OBVIOUS
  <2>1. /\ s \in Int /\ nextToAcknowledge <= s /\ s <= nextSequence - 1
        /\ requestQueue[s].callback # "future"
    BY <1>1 DEF TookSlot, Unacknowledged
  <2>2. nextToAcknowledge + n <= s
    BY <1>1, <2>1
  <2>3. s \in frontSequence + n .. nextSequence - 1
    BY <1>1, <2>1, <2>2
  <2>4. requestQueue'[s] = requestQueue[s]
    BY <1>2, <2>3
  <2>5. s \in nextToAcknowledge' .. nextSequence' - 1
    BY <1>1, <1>2, <2>1, <2>2
  <2> QED BY <2>1, <2>4, <2>5 DEF TookSlot, Unacknowledged
<1>5. IsFiniteSet(Discarded) /\ Cardinality(Discarded) = n
  <2>1. nextToAcknowledge \in Int /\ nextToAcknowledge + n - 1 \in Int
    BY <1>1
  <2>2. /\ IsFiniteSet(Discarded)
        /\ Cardinality(Discarded) =
             IF nextToAcknowledge > nextToAcknowledge + n - 1 THEN 0
             ELSE (nextToAcknowledge + n - 1) - nextToAcknowledge + 1
    BY <2>1, FS_Interval
  <2> QED BY <1>1, <2>2
<1> HIDE DEF Discarded
<1>6. IsFiniteSet(TookSlot') /\ Cardinality(TookSlot') \in Nat
  <2>1. TookSlot' \subseteq nextToAcknowledge + n .. nextSequence - 1
    BY <1>2 DEF TookSlot, Unacknowledged
  <2>2. IsFiniteSet(nextToAcknowledge + n .. nextSequence - 1)
    <3>1. nextToAcknowledge + n \in Int /\ nextSequence - 1 \in Int
      BY <1>1
    <3> QED BY <3>1, FS_Interval
  <2> QED BY <2>1, <2>2, FS_Subset, FS_CardinalityType
<1>7. /\ IsFiniteSet(TookSlot' \cup Discarded)
      /\ Cardinality(TookSlot' \cup Discarded) <= Cardinality(TookSlot') + n
  <2>1. /\ IsFiniteSet(TookSlot' \cap Discarded)
        /\ Cardinality(TookSlot' \cap Discarded) \in Nat
    BY <1>5, FS_Intersection, FS_CardinalityType
  <2>2. /\ IsFiniteSet(TookSlot' \cup Discarded)
        /\ Cardinality(TookSlot' \cup Discarded)
             = Cardinality(TookSlot') + Cardinality(Discarded)
                 - Cardinality(TookSlot' \cap Discarded)
    BY <1>5, <1>6, FS_Union
  <2> QED BY <1>5, <1>6, <2>1, <2>2
<1>8. Cardinality(TookSlot) <= Cardinality(TookSlot' \cup Discarded)
  BY <1>4, <1>7, FS_Subset
<1>9. Cardinality(TookSlot) \in Nat /\ Cardinality(TookSlot' \cup Discarded) \in Nat
  BY <1>7, TookSlotSize, FS_CardinalityType
<1>10. Cardinality(TookSlot) <= Cardinality(TookSlot') + n
  BY <1>6, <1>7, <1>8, <1>9
<1> QED BY <1>1, <1>2, <1>3, <1>6, <1>9, <1>10, HoldingSize, SizesAssumption
        DEF SlotsKept

\* A request that has taken a slot brings it into the queue.
LEMMA StageKeepsSlot ==
  ASSUME IInv, SlotsKept, NEW t \in Callers, StageCallback(t)
  PROVE  SlotsKept'
<1>1. /\ nextSequence \in Nat /\ nextToAcknowledge \in Nat /\ semaphore \in Int
      /\ nextToAcknowledge <= nextSequence
      /\ frontSequence \in Nat /\ nextToAcknowledge = frontSequence + 1
  BY Counters
<1>2. Holding' = Holding \ {t} /\ t \in Holding
  BY DEF StageCallback, Holding, IInv, TypeOK
<1>3. Cardinality(Holding') = Cardinality(Holding) - 1
  BY <1>2, HoldingSize, FS_RemoveElement
<1>4. staging[t].callback # "future"
  BY DEF StageCallback, IInv, TypeOK, Idle
<1>5. /\ DOMAIN requestQueue = frontSequence .. nextSequence - 1
      /\ nextSequence' = nextSequence + 1 /\ nextToAcknowledge' = nextToAcknowledge
      /\ semaphore' = semaphore
      /\ requestQueue'[nextSequence].callback = staging[t].callback
      /\ \A s \in frontSequence .. nextSequence - 1 :
           requestQueue'[s] = requestQueue[s]
  BY <1>1 DEF StageCallback, EmplaceBack, iteratorVars, IInv, TypeOK
<1>6. TookSlot' = TookSlot \cup {nextSequence} /\ nextSequence \notin TookSlot
  <2>1. nextToAcknowledge .. nextSequence
          = (nextToAcknowledge .. nextSequence - 1) \cup {nextSequence}
    BY <1>1
  <2>2. \A s \in nextToAcknowledge .. nextSequence - 1 :
          s # nextSequence /\ requestQueue'[s] = requestQueue[s]
    BY <1>1, <1>5
  <2>3. nextSequence' - 1 = nextSequence
    BY <1>1, <1>5
  <2> QED BY <1>4, <1>5, <2>1, <2>2, <2>3 DEF TookSlot, Unacknowledged
<1>7. Cardinality(TookSlot') = Cardinality(TookSlot) + 1
  BY <1>6, TookSlotSize, FS_AddElement
<1> QED BY <1>1, <1>3, <1>5, <1>7, TookSlotSize, HoldingSize, SizesAssumption
        DEF SlotsKept

LEMMA StageFutureKeepsSlots ==
  ASSUME IInv, SlotsKept, NEW t \in Callers, NEW size, StageFuture(t, size)
  PROVE  SlotsKept'
<1>1. /\ nextSequence \in Nat /\ nextToAcknowledge \in Nat /\ semaphore \in Int
      /\ nextToAcknowledge <= nextSequence
      /\ frontSequence \in Nat /\ nextToAcknowledge = frontSequence + 1
  BY Counters
<1>2. Holding' = Holding
  BY DEF StageFuture, Holding
<1>3. /\ DOMAIN requestQueue = frontSequence .. nextSequence - 1
      /\ nextSequence' = nextSequence + 1 /\ nextToAcknowledge' = nextToAcknowledge
      /\ semaphore' = semaphore
      /\ requestQueue'[nextSequence].callback = "future"
      /\ \A s \in frontSequence .. nextSequence - 1 :
           requestQueue'[s] = requestQueue[s]
  BY <1>1 DEF StageFuture, EmplaceBack, iteratorVars, IInv, TypeOK
<1>4. TookSlot' = TookSlot
  <2>1. nextToAcknowledge .. nextSequence
          = (nextToAcknowledge .. nextSequence - 1) \cup {nextSequence}
    BY <1>1
  <2>2. \A s \in nextToAcknowledge .. nextSequence - 1 :
          s # nextSequence /\ requestQueue'[s] = requestQueue[s]
    BY <1>1, <1>3
  <2>3. nextSequence' - 1 = nextSequence
    BY <1>1, <1>3
  <2> QED BY <1>3, <2>1, <2>2, <2>3 DEF TookSlot, Unacknowledged
<1> QED BY <1>2, <1>3, <1>4 DEF SlotsKept

LEMMA NextSlots ==
  ASSUME IInv, SlotsKept, BackpressureActive, [Next]_coreVars
  PROVE  SlotsKept'
<1>1. /\ nextSequence \in Nat /\ nextToAcknowledge \in Nat /\ semaphore \in Int
      /\ nextToWrite \in Nat
      /\ UnacknowledgedCount = nextSequence - nextToAcknowledge
      /\ UnacknowledgedCount \in Nat
  BY Counters
<1>2. CASE UNCHANGED <<semaphore, staging, queueVars, nextToAcknowledge>>
  BY <1>2 DEF SlotsKept, Holding, TookSlot, Unacknowledged, queueVars
<1>3. ASSUME NEW t \in Callers, CallerStep(t)
      PROVE  SlotsKept'
  <2>1. ASSUME NEW kind \in Kinds, NEW size \in MultiSizes, Reserve(t, kind, size)
        PROVE  SlotsKept'
    <3>1. [callback |-> kind, multiSize |-> size] # Idle
      BY KindsAssumption DEF Idle, CallbackKinds
    <3>2. Holding' = Holding \cup {t} /\ t \notin Holding
      BY <2>1, <3>1 DEF Reserve, Holding, IInv, TypeOK
    <3>3. Cardinality(Holding') = Cardinality(Holding) + 1
      BY <3>2, HoldingSize, FS_AddElement
    <3>4. TookSlot' = TookSlot
      BY <2>1 DEF Reserve, queueVars, iteratorVars, TookSlot, Unacknowledged
    <3>5. semaphore' = semaphore - 1
      BY <2>1 DEF Reserve
    <3> QED BY <1>1, <3>3, <3>4, <3>5, HoldingSize, TookSlotSize, SizesAssumption
            DEF SlotsKept
  <2>2. CASE StageCallback(t)
    BY <2>2, StageKeepsSlot
  <2>3. ASSUME NEW size \in MultiSizes, StageFuture(t, size)
        PROVE  SlotsKept'
    BY <2>3, StageFutureKeepsSlots
  <2> QED BY <1>3, <2>1, <2>2, <2>3 DEF CallerStep
<1>4. CASE EventLoopStep
  <2>1. ASSUME NEW reply \in Replies, NEW alive \in BOOLEAN,
               ConsumeResponse(reply, alive)
        PROVE  SlotsKept'
    <3>1. CASE ConsumeReply(reply, alive)
      BY <3>1, DiscardGivesBack DEF ConsumeReply, AcknowledgePending, callerVars
    <3>2. CASE ~ConsumeReply(reply, alive)
      <4>1. UNCHANGED <<semaphore, staging, queueVars, nextToAcknowledge>>
        BY <2>1, <3>2
        DEF ConsumeResponse, ConsumeUnavailable, ConsumeHandshake, ConsumeMessage,
            ConsumeUnexpected, ConsumeMultiPrefix, coreVars, iteratorVars,
            callerVars
      <4> QED BY <4>1, <1>2
    <3> QED BY <3>1, <3>2
  <2>2. CASE Reconnection
    <3>1. nextToAcknowledge' = nextToAcknowledge
      BY <2>2, Counters DEF Reconnection
    <3> QED BY <2>2, <3>1, <1>2 DEF Reconnection, callerVars
  <2>3. CASE ClearAllPending
    <3>1. /\ semaphore' = semaphore + UnacknowledgedCount
          /\ nextSequence' = 1 /\ nextToAcknowledge' = 1 /\ staging' = staging
      BY <2>3 DEF ClearAllPending, callerVars
    <3>2. Holding' = Holding
      BY <3>1 DEF Holding
    <3>3. TookSlot' = {}
      BY <3>1 DEF TookSlot, Unacknowledged
    <3>4. Cardinality(TookSlot') = 0
      BY <3>3, FS_EmptySet
    <3> QED BY <1>1, <3>1, <3>2, <3>4, HoldingSize, TookSlotSize, SizesAssumption
            DEF SlotsKept
  <2>4. ASSUME NEW value \in BOOLEAN, SetBlockingMode(value)
        PROVE  SlotsKept'
    BY <2>4, <1>2 DEF SetBlockingMode, iteratorVars, callerVars
  <2> QED BY <1>4, <2>1, <2>2, <2>3, <2>4 DEF EventLoopStep
<1>5. CASE WriterStep
  <2>1. ASSUME NEW found \in BOOLEAN, FetchHandshake(found)
        PROVE  SlotsKept'
    BY <2>1, <1>2 DEF FetchHandshake, iteratorVars, callerVars
  <2>2. ASSUME NEW found \in BOOLEAN, FetchRequest(found)
        PROVE  SlotsKept'
    <3>1. staging' = staging
      BY <2>2 DEF FetchRequest, callerVars
    <3>2. CASE UNCHANGED <<queueVars, nextToAcknowledge, semaphore>>
      BY <3>1, <3>2, <1>2
    <3>3. CASE nextToWrite > nextToAcknowledge
               /\ Discard(nextToWrite - nextToAcknowledge)
      <4>1. nextToWrite - nextToAcknowledge \in Nat
        BY <1>1, <3>3
      <4> QED BY <3>1, <3>3, <4>1, DiscardGivesBack
    <3> QED BY <2>2, <3>2, <3>3 DEF FetchRequest
  <2> QED BY <1>5, <2>1, <2>2 DEF WriterStep
<1>6. CASE ExecuteCallback
  BY <1>2, <1>6 DEF ExecuteCallback, iteratorVars, callerVars
<1>7. CASE UNCHANGED coreVars
  BY <1>2, <1>7 DEF coreVars, iteratorVars, callerVars
<1> QED BY <1>3, <1>4, <1>5, <1>6, <1>7 DEF Next

\* Whatever the order of stagings, with callbacks and with futures, replies,
\* trimmings, purges and reconnections, no slot of the semaphore is lost: those
\* free, those callers hold and those of unanswered requests are at least as many
\* as the limit, so no caller waits for ever for a slot nobody has.
THEOREM SlotsAreNeverLost == Spec => []SlotsNeverLost
<1>1. CASE BackpressureActive
  <2>1. Init => SlotsKept
    <3> SUFFICES ASSUME Init PROVE SlotsKept
      OBVIOUS
    <3>1. Holding = {} /\ TookSlot = {}
      BY DEF Init, Holding, TookSlot, Unacknowledged
    <3>2. Cardinality(Holding) = 0 /\ Cardinality(TookSlot) = 0
      BY <3>1, FS_EmptySet
    <3> QED BY <3>2, SizesAssumption DEF Init, SlotsKept
  <2>2. IInv /\ SlotsKept /\ [Next]_coreVars => SlotsKept'
    BY <1>1, NextSlots
  <2>3. SlotsKept => SlotsNeverLost
    BY DEF SlotsKept, SlotsNeverLost
  <2> QED BY <2>1, <2>2, <2>3, IInvHolds, PTL DEF Spec
<1>2. CASE ~BackpressureActive
  <2>1. SlotsNeverLost
    BY <1>2 DEF SlotsNeverLost
  <2> QED BY <2>1, PTL
<1> QED BY <1>1, <1>2
=============================================================================
