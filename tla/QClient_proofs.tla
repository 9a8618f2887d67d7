---------------------------- MODULE QClient_proofs ----------------------------
(***************************************************************************)
(* The event loop, the writer and the destructor use the connection core as  *)
(* its contract allows; the request the writer works on stays in memory; the *)
(* server sees whole requests in order behind the handshake; replies reach    *)
(* the requests they answer; and without retries a request is executed at     *)
(* most once.  All of it for any number of callers, requests, handshake       *)
(* rounds and faults, MULTI blocks of any size, and pipelines of any depth.   *)
(*                                                                         *)
(* The argument: a place in the stream of commands is the identity of a       *)
(* request and an index in it.  The units on one connection follow each       *)
(* other without a gap (StreamOrder) up to the place where the writer is      *)
(* (StreamEnd).  The replies under way are those to the units at the end of    *)
(* what the server received (Pairing), and the first of them is for the place *)
(* up to which the core has acknowledged (Level), which is thus never beyond  *)
(* the writer.                                                               *)
(***************************************************************************)
EXTENDS QClient, ConnectionCore_proofs

Units == [kind : {"handshake", "request"}, id : Nat, index : Nat, last : Nat]
Items == [kind : {"nothing", "handshake", "request"}, sequence : Nat]

\* What was sent on this connection, and the replies not looked at yet.
Stream == received \o wire
Arriving == buffered \o replies
Running == writerPc # "off"

\* A place is an identity and an index: NotAfter compares two of them, NextId
\* and NextIndex are the place behind a unit.
NotAfter(id, index, id2, index2) == id < id2 \/ (id = id2 /\ index <= index2)
NextId(unit) == IF unit.index = unit.last THEN unit.id + 1 ELSE unit.id
NextIndex(unit) == IF unit.index = unit.last THEN 0 ELSE unit.index + 1

\* Units of the item the kernel has, whether or not the writer knows.
UnitsSent == bytesWritten + (IF writerPc = "sent" THEN accepted ELSE 0)
Unfinished == writing.kind = "request" /\ UnitsSent < LengthOf(writing)

\* The place of the next unit of a request that will be sent.
WriteId ==
  LastLeft + (nextToWrite - nextToAcknowledge) + (IF Unfinished THEN 0 ELSE 1)
WriteIndex == IF Unfinished THEN UnitsSent ELSE 0

\* Handshake chunks the kernel has.
HandshakesSent ==
  handshakeIterator
    - (IF writing.kind = "handshake" /\ writerPc # "sent" THEN 1 ELSE 0)

\* Where an unacknowledged request is in the queue.
SequenceOf(id) == nextToAcknowledge + (id - (LastLeft + 1))

-----------------------------------------------------------------------------
(* The inductive invariant                                                   *)

\* What the writer has in hands fits to where it is, and is in memory.
WriterState ==
  /\ writerPc \in {"off", "loop", "poll", "send", "sent", "handshake", "request"}
  /\ writing \in Items
  /\ bytesWritten \in Nat /\ accepted \in Nat
  /\ writing.kind = "nothing" => writing = Nothing
  /\ (Running /\ ~canWrite) => writing # Nothing
  /\ writerPc \in {"send", "sent", "handshake", "request"} => canWrite
  /\ writerPc \in {"poll", "send", "sent"} => writing # Nothing
  /\ writerPc \in {"handshake", "request"} => writing = Nothing /\ bytesWritten = 0
  /\ (Running /\ writing.kind = "handshake") =>
       bytesWritten = 0 /\ (writerPc = "sent" => accepted = 1)
  /\ (Running /\ writing.kind = "request") =>
       /\ writing.sequence = nextToWrite - 1
       /\ writing.sequence \in DOMAIN requestQueue
       /\ IF writerPc = "sent"
          THEN accepted > 0 /\ bytesWritten + accepted <= LengthOf(writing)
          ELSE bytesWritten < LengthOf(writing)

\* One chunk at a time is staged, sent and validated; requests wait for the last.
HandshakeState ==
  /\ handshakeIterator <= handshakeStaged
  /\ handshakeStaged <= HandshakeRounds
  /\ IF inHandshake THEN handshakeStaged = handshakeValidated + 1
     ELSE handshakeStaged = HandshakeRounds /\ handshakeValidated = HandshakeRounds
  /\ inHandshake =>
       /\ nextToWrite = nextToAcknowledge /\ ignoredResponses = 0
       /\ Len(Stream) <= handshakeIterator
  /\ Running =>
       /\ (writing.kind = "request" \/ writerPc = "request") => ~inHandshake
       /\ ~inHandshake => HandshakesSent = HandshakeRounds
       /\ Len(Stream) <= HandshakesSent \/ HandshakesSent = HandshakeRounds
       /\ ~peerClosed => Len(Stream) >= HandshakesSent

\* Swallowed replies are those to the block at the front.
MultiState ==
  ignoredResponses > 0 =>
    /\ HasArrived(nextToAcknowledge)
    /\ ignoredResponses <= ToAcknowledge.multiSize
    /\ ~Exclusive

\* Handshakes, then units of requests the client knows the sizes of.
StreamTypes ==
  /\ received \in Seq(Units) /\ wire \in Seq(Units)
  /\ Len(Stream) > HandshakeRounds => ~inHandshake
  /\ \A i \in 1 .. Len(Stream) :
       IF i <= HandshakeRounds
       THEN Stream[i].kind = "handshake" /\ Stream[i].index = 0 /\ Stream[i].last = 0
       ELSE /\ Stream[i].kind = "request"
            /\ Stream[i].id \in 1 .. staged
            /\ Stream[i].index <= Stream[i].last
            /\ Stream[i].id > LastLeft =>
                 Stream[i].last = requestQueue[SequenceOf(Stream[i].id)].multiSize

\* Units of requests follow each other.
StreamOrder ==
  /\ Len(Stream) > HandshakeRounds => Stream[HandshakeRounds + 1].index = 0
  /\ \A i \in HandshakeRounds + 1 .. Len(Stream) :
       i < Len(Stream) =>
         /\ Stream[i + 1].id = NextId(Stream[i])
         /\ Stream[i + 1].index = NextIndex(Stream[i])
  /\ \A i, j \in HandshakeRounds + 1 .. Len(Stream) :
       i < j => NotAfter(NextId(Stream[i]), NextIndex(Stream[i]),
                         Stream[j].id, Stream[j].index)

\* Neither the stream nor what is acknowledged is beyond the place where the
\* writer is, and the stream ends there unless the connection is dead.
StreamEnd ==
  Running =>
    /\ NotAfter(LastLeft + 1, ignoredResponses, WriteId, WriteIndex)
    /\ \A i \in HandshakeRounds + 1 .. Len(Stream) :
         NotAfter(NextId(Stream[i]), NextIndex(Stream[i]), WriteId, WriteIndex)
    /\ (~peerClosed /\ Len(Stream) > HandshakeRounds) =>
         /\ WriteId = NextId(Stream[Len(Stream)])
         /\ WriteIndex = NextIndex(Stream[Len(Stream)])
    /\ (~peerClosed /\ Len(Stream) <= HandshakeRounds) => WriteIndex = 0

AnsweredBy(unit, reply) ==
  \/ reply = NormalAnswer(unit)
  \/ /\ reply.kind \in {"error", "unavailable", "moved"}
     /\ reply.of = NormalAnswer(unit).of

\* p[j] units have their replies before, or as, the j-th reply under way.
Pairing(p) ==
  /\ \A j \in 1 .. Len(Arriving) :
       IF Arriving[j].kind = "push" THEN p[j] = p[j - 1]
       ELSE p[j] = p[j - 1] + 1 /\ AnsweredBy(received[p[j]], Arriving[j])
  /\ ~peerClosed => p[Len(Arriving)] = Len(received)
  /\ handshakeValidated <= p[0]

\* Replies to n units have been looked at: the next one is for the place the core
\* is at.  Once a reply has broken the connection, the core may only lag behind.
Level(n) ==
  (~inHandshake /\ ~Exclusive) =>
    IF n < Len(Stream)
    THEN /\ NotAfter(LastLeft + 1, ignoredResponses,
                     Stream[n + 1].id, Stream[n + 1].index)
         /\ eventLoop = "reading" =>
              /\ LastLeft + 1 = Stream[n + 1].id
              /\ ignoredResponses = Stream[n + 1].index
    ELSE (Running /\ ~peerClosed /\ eventLoop = "reading") =>
           LastLeft + 1 = WriteId /\ ignoredResponses = WriteIndex

AnswerState ==
  /\ buffered \in Seq(ServerReplies) /\ replies \in Seq(ServerReplies)
  /\ \E p \in [0 .. Len(Arriving) -> 0 .. Len(received)] :
       Pairing(p) /\ Level(p[0])

\* Before a connection there is nothing of an old one.
FreshState ==
  /\ firstEpoch => eventLoop = "connect"
  /\ (firstEpoch \/ eventLoop = "dial") =>
       /\ ~Running /\ ~streamOk /\ ~peerClosed
       /\ received = <<>> /\ wire = <<>> /\ replies = <<>> /\ buffered = <<>>
       /\ ignoredResponses = 0 /\ nextToWrite = nextToAcknowledge
       /\ handshakeIterator = 0 /\ handshakeValidated = 0
       /\ inHandshake = (HandshakeRounds > 0)

\* Requests staged and about to be staged respect the bound ...
StagedBound == staged + Cardinality(Holding) <= MaxStaged

\* ... and so do messages given to the listener and on their way to it.
Pushed(s) == {i \in 1 .. Len(s) : s[i].kind = "push"}
PushBound == Len(messages) + Cardinality(Pushed(Arriving)) <= MaxMessages

QInv ==
  /\ IInv /\ StagedBound /\ PushBound
  /\ WriterState /\ HandshakeState /\ MultiState
  /\ StreamTypes /\ StreamOrder /\ StreamEnd
  /\ AnswerState /\ FreshState

-----------------------------------------------------------------------------
(* Sequences                                                                 *)

LEMMA MovedAlong ==
  ASSUME NEW S, NEW s \in Seq(S), NEW t \in Seq(S), t # <<>>
  PROVE  /\ Append(s, Head(t)) \in Seq(S) /\ Tail(t) \in Seq(S)
         /\ Append(s, Head(t)) \o Tail(t) = s \o t
         /\ (s \o t)[Len(s) + 1] = Head(t)
<1>1. /\ Head(t) \in S /\ Tail(t) \in Seq(S)
      /\ Len(t) \in Nat /\ Len(t) > 0 /\ Len(Tail(t)) = Len(t) - 1
      /\ \A i \in 1 .. Len(Tail(t)) : Tail(t)[i] = t[i + 1]
      /\ Head(t) = t[1] /\ Len(s) \in Nat
  BY HeadTailProperties
<1> DEFINE u == Append(s, Head(t))
<1>2. /\ u \in Seq(S) /\ Len(u) = Len(s) + 1
      /\ \A i \in 1 .. Len(s) : u[i] = s[i]
      /\ u[Len(s) + 1] = t[1]
  BY <1>1
<1>3. /\ u \o Tail(t) \in Seq(S) /\ s \o t \in Seq(S)
      /\ Len(u \o Tail(t)) = Len(s) + Len(t) /\ Len(s \o t) = Len(s) + Len(t)
  BY <1>1, <1>2, ConcatProperties
<1>4. ASSUME NEW i \in 1 .. Len(s) + Len(t)
      PROVE  (u \o Tail(t))[i] = (s \o t)[i]
  <2>1. (s \o t)[i] = IF i <= Len(s) THEN s[i] ELSE t[i - Len(s)]
    BY <1>1, ConcatProperties
  <2>2. (u \o Tail(t))[i] = IF i <= Len(u) THEN u[i] ELSE Tail(t)[i - Len(u)]
    BY <1>1, <1>2, ConcatProperties
  <2>3. CASE i <= Len(s)
    BY <2>1, <2>2, <2>3, <1>1, <1>2
  <2>4. CASE i = Len(s) + 1
    BY <2>1, <2>2, <2>4, <1>1, <1>2
  <2>5. CASE i > Len(s) + 1
    <3>1. /\ i - Len(u) \in 1 .. Len(Tail(t))
          /\ (i - Len(u)) + 1 = i - Len(s)
      BY <2>5, <1>1, <1>2
    <3> QED BY <2>1, <2>2, <2>5, <3>1, <1>1, <1>2
  <2> QED BY <2>3, <2>4, <2>5, <1>1
<1>5. u \o Tail(t) = s \o t
  BY <1>3, <1>4, SeqEqual
<1>6. (s \o t)[Len(s) + 1] = Head(t)
  <2>1. Len(s) + 1 \in 1 .. Len(s) + Len(t)
    BY <1>1
  <2> QED BY <2>1, <1>1, ConcatProperties
<1> QED BY <1>1, <1>2, <1>5, <1>6

LEMMA Concatenated ==
  ASSUME NEW S, NEW s \in Seq(S), NEW t \in Seq(S)
  PROVE  /\ s \o t \in Seq(S) /\ Len(s \o t) = Len(s) + Len(t)
         /\ Len(s) \in Nat /\ Len(t) \in Nat
         /\ \A i \in 1 .. Len(s) : (s \o t)[i] = s[i]
         /\ \A i \in 1 .. Len(t) : (s \o t)[Len(s) + i] = t[i]
         /\ \A i \in 1 .. Len(s) + Len(t) : (s \o t)[i] \in S
<1>1. Len(s) \in Nat /\ Len(t) \in Nat
  OBVIOUS
<1>2. ASSUME NEW i \in 1 .. Len(s)
      PROVE  (s \o t)[i] = s[i]
  BY <1>1, ConcatProperties
<1>3. ASSUME NEW i \in 1 .. Len(t)
      PROVE  (s \o t)[Len(s) + i] = t[i]
  <2>1. /\ Len(s) + i \in 1 .. Len(s) + Len(t) /\ ~(Len(s) + i <= Len(s))
        /\ (Len(s) + i) - Len(s) = i
    BY <1>1
  <2> QED BY <2>1, ConcatProperties
<1>4. s \o t \in Seq(S) /\ Len(s \o t) = Len(s) + Len(t)
  BY ConcatProperties
<1> QED BY <1>1, <1>2, <1>3, <1>4, ElementOfSeq

LEMMA AppendBehind ==
  ASSUME NEW S, NEW s \in Seq(S), NEW t \in Seq(S), NEW e \in S
  PROVE  s \o Append(t, e) = Append(s \o t, e)
<1>1. <<e>> \in Seq(S)
  OBVIOUS
<1> QED BY <1>1, AppendIsConcat, ConcatAssociative, ConcatProperties

\* How many pushes there are in a sequence of replies
LEMMA PushesCounted ==
  ASSUME NEW S, NEW s \in Seq(S)
  PROVE  IsFiniteSet(Pushed(s)) /\ Cardinality(Pushed(s)) \in Nat
<1>1. IsFiniteSet(1 .. Len(s)) /\ Pushed(s) \in SUBSET (1 .. Len(s))
  BY FS_Interval DEF Pushed
<1>2. IsFiniteSet(Pushed(s))
  BY <1>1, FS_Subset
<1> QED BY <1>2, FS_CardinalityType

LEMMA PushesAppended ==
  ASSUME NEW S, NEW s \in Seq(S), NEW e \in S
  PROVE  Cardinality(Pushed(Append(s, e))) =
           Cardinality(Pushed(s)) + (IF e.kind = "push" THEN 1 ELSE 0)
<1>1. /\ Len(s) \in Nat /\ Len(Append(s, e)) = Len(s) + 1
      /\ \A i \in 1 .. Len(s) : Append(s, e)[i] = s[i]
      /\ Append(s, e)[Len(s) + 1] = e
  OBVIOUS
<1>2. Pushed(Append(s, e)) =
        Pushed(s) \cup (IF e.kind = "push" THEN {Len(s) + 1} ELSE {})
  BY <1>1 DEF Pushed
<1>3. Len(s) + 1 \notin Pushed(s)
  BY <1>1 DEF Pushed
<1>4. CASE e.kind = "push"
  <2>1. Pushed(Append(s, e)) = Pushed(s) \cup {Len(s) + 1}
    BY <1>2, <1>4
  <2> QED BY <2>1, <1>3, <1>4, PushesCounted, FS_AddElement
<1>5. CASE e.kind # "push"
  <2>1. Pushed(Append(s, e)) = Pushed(s)
    BY <1>2, <1>5
  <2> QED BY <2>1, <1>5, PushesCounted
<1> QED BY <1>4, <1>5

LEMMA PushesLeft ==
  ASSUME NEW S, NEW s \in Seq(S), s # <<>>
  PROVE  Cardinality(Pushed(Tail(s))) =
           Cardinality(Pushed(s)) - (IF Head(s).kind = "push" THEN 1 ELSE 0)
<1> DEFINE others == Pushed(s) \ {1}
           shift == [i \in Pushed(Tail(s)) |-> i + 1]
<1>1. /\ Len(s) \in Nat /\ Len(s) > 0 /\ Len(Tail(s)) = Len(s) - 1
      /\ \A i \in 1 .. Len(Tail(s)) : Tail(s)[i] = s[i + 1]
      /\ Head(s) = s[1] /\ Tail(s) \in Seq(S)
  BY HeadTailProperties
<1>2. 1 \in Pushed(s) <=> Head(s).kind = "push"
  BY <1>1 DEF Pushed
<1>3. shift \in [Pushed(Tail(s)) -> others]
  BY <1>1 DEF Pushed
<1>4. \A i, j \in Pushed(Tail(s)) : shift[i] = shift[j] => i = j
  BY <1>1 DEF Pushed
<1>5. \A j \in others : \E i \in Pushed(Tail(s)) : shift[i] = j
  <2> SUFFICES ASSUME NEW j \in others
               PROVE  \E i \in Pushed(Tail(s)) : shift[i] = j
    OBVIOUS
  <2>1. j - 1 \in Pushed(Tail(s)) /\ (j - 1) + 1 = j
    BY <1>1 DEF Pushed
  <2> QED BY <2>1
<1>6. shift \in Bijection(Pushed(Tail(s)), others)
  <2> HIDE DEF shift, others
  <2> QED BY <1>3, <1>4, <1>5 DEF Bijection, Injection, IsInjective, Surjection
<1>7. ExistsBijection(Pushed(Tail(s)), others)
  BY <1>6 DEF ExistsBijection
<1>8. Cardinality(others) = Cardinality(Pushed(Tail(s)))
  BY <1>1, <1>7, PushesCounted, FS_Bijection
<1>9. Cardinality(others) =
        Cardinality(Pushed(s)) - (IF Head(s).kind = "push" THEN 1 ELSE 0)
  <2>1. Cardinality(others) = IF 1 \in Pushed(s) THEN Cardinality(Pushed(s)) - 1
                              ELSE Cardinality(Pushed(s))
    BY PushesCounted, FS_RemoveElement
  <2> QED BY <2>1, <1>2, PushesCounted
<1> QED BY <1>8, <1>9

LEMMA PushesKept ==
  ASSUME NEW S, NEW s \in Seq(S), NEW t \in Seq(S), Len(t) <= Len(s),
         \A i \in 1 .. Len(t) : t[i] = s[i]
  PROVE  Cardinality(Pushed(t)) <= Cardinality(Pushed(s))
<1>1. Pushed(t) \in SUBSET Pushed(s)
  BY DEF Pushed
<1> QED BY <1>1, PushesCounted, FS_Subset

-----------------------------------------------------------------------------
(* The bound on stagings                                                     *)

LEMMA HoldingCounted == IsFiniteSet(Holding) /\ Cardinality(Holding) \in Nat
BY CallersAssumption, FS_Subset, FS_CardinalityType DEF Holding

LEMMA StagedBoundStep ==
  ASSUME IInv, StagedBound, [Next]_coreVars
  PROVE  StagedBound'
<1>1. staged \in Nat /\ MaxStaged \in Nat
  BY Counters, SizesAssumption
<1>2. CASE UNCHANGED <<staging, staged>>
  BY <1>2 DEF StagedBound, Holding
<1>3. ASSUME NEW t \in Callers, CallerStep(t)
      PROVE  StagedBound'
  <2>1. ASSUME NEW kind \in Kinds, NEW size \in MultiSizes, MayStage,
               Reserve(t, kind, size)
        PROVE  StagedBound'
    <3>1. Holding' = Holding \cup {t}
      <4>1. [callback |-> kind, multiSize |-> size] # Idle
        BY KindsAssumption DEF Idle, CallbackKinds
      <4> QED BY <2>1, <4>1 DEF Reserve, Holding, IInv, TypeOK
    <3>2. Cardinality(Holding') = IF t \in Holding THEN Cardinality(Holding)
                                  ELSE Cardinality(Holding) + 1
      BY <3>1, HoldingCounted, FS_AddElement
    <3>3. staged' = staged
      BY <2>1 DEF Reserve
    <3> QED BY <2>1, <3>2, <3>3, <1>1, HoldingCounted DEF MayStage, StagedBound
  <2>2. ASSUME NEW size \in MultiSizes, MayStage, StageFuture(t, size)
        PROVE  StagedBound'
    <3>1. Holding' = Holding /\ staged' = staged + 1
      BY <2>2 DEF StageFuture, EmplaceBack, Holding
    <3> QED BY <2>2, <3>1, <1>1, HoldingCounted DEF MayStage, StagedBound
  <2>3. CASE StageCallback(t)
    <3>1. Holding' = Holding \ {t} /\ t \in Holding
      BY <2>3 DEF StageCallback, Holding, IInv, TypeOK
    <3>2. Cardinality(Holding') = Cardinality(Holding) - 1
      BY <3>1, HoldingCounted, FS_RemoveElement
    <3>3. staged' = staged + 1
      BY <2>3 DEF StageCallback, EmplaceBack
    <3> QED BY <3>2, <3>3, <1>1, HoldingCounted DEF StagedBound
  <2> QED BY <1>3, <2>1, <2>2, <2>3 DEF CallerStep
<1>4. CASE EventLoopStep
  <2>1. ASSUME NEW reply \in Replies, NEW alive \in BOOLEAN,
               ConsumeResponse(reply, alive)
        PROVE  UNCHANGED callerVars
    BY <2>1 DEF ConsumeResponse, ConsumeUnavailable, ConsumeHandshake,
       ConsumeMessage, ConsumeUnexpected, ConsumeMultiPrefix, ConsumeReply, coreVars
  <2>2. ASSUME NEW value \in BOOLEAN, SetBlockingMode(value)
        PROVE  UNCHANGED callerVars
    BY <2>2 DEF SetBlockingMode
  <2>3. CASE Reconnection \/ ClearAllPending
    BY <2>3, <1>2 DEF Reconnection, ClearAllPending, callerVars
  <2> QED BY <1>2, <1>4, <2>1, <2>2, <2>3 DEF EventLoopStep, callerVars
<1>5. CASE WriterStep \/ ExecuteCallback \/ UNCHANGED coreVars
  BY <1>2, <1>5 DEF WriterStep, FetchHandshake, FetchRequest, ExecuteCallback,
                    coreVars, callerVars
<1> QED BY <1>3, <1>4, <1>5 DEF Next

-----------------------------------------------------------------------------
(* What QInv says of the numbers                                             *)

LEMMA Numbers ==
  ASSUME QInv
  PROVE  /\ frontSequence \in Nat /\ nextSequence \in Nat /\ nextToWrite \in Nat
         /\ nextToAcknowledge \in Nat /\ staged \in Nat /\ ignoredResponses \in Nat
         /\ nextToAcknowledge = frontSequence + 1
         /\ nextToAcknowledge <= nextSequence /\ nextToWrite <= nextSequence
         /\ LastLeft = staged - (nextSequence - nextToAcknowledge)
         /\ LastLeft \in Nat /\ LastLeft <= staged
         /\ handshakeStaged \in Nat /\ handshakeIterator \in Nat
         /\ handshakeValidated \in Nat
         /\ HandshakeRounds \in Nat
         /\ bytesWritten \in Nat /\ accepted \in Nat
BY Counters, SizesAssumption
DEF QInv, IInv, TypeOK, QueueInv, WriterState, UnacknowledgedCount, LastLeft

LEMMA InMemory ==
  ASSUME QInv
  PROVE  /\ DOMAIN requestQueue = frontSequence .. nextSequence - 1
         /\ \A s \in frontSequence .. nextSequence - 1 :
              requestQueue[s].id \in Nat /\ requestQueue[s].multiSize \in Nat
         /\ \A s \in nextToAcknowledge .. nextSequence - 1 :
              /\ s \in DOMAIN requestQueue
              /\ requestQueue[s].id = LastLeft + 1 + (s - nextToAcknowledge)
<1>1. requestQueue \in [frontSequence .. nextSequence - 1 -> StagedRequest]
  BY DEF QInv, IInv, TypeOK
<1>2. \A s \in Unacknowledged : requestQueue[s].id = staged - (nextSequence - 1 - s)
  BY DEF QInv, IInv, QueueInv
<1>3. /\ frontSequence \in Nat /\ nextSequence \in Nat /\ nextToAcknowledge \in Nat
      /\ nextToAcknowledge = frontSequence + 1 /\ staged \in Nat
      /\ LastLeft = staged - (nextSequence - nextToAcknowledge)
  BY Numbers
<1>4. ASSUME NEW s \in nextToAcknowledge .. nextSequence - 1
      PROVE  /\ s \in frontSequence .. nextSequence - 1
             /\ requestQueue[s].id = LastLeft + 1 + (s - nextToAcknowledge)
  BY <1>2, <1>3 DEF Unacknowledged
<1>5. DOMAIN requestQueue = frontSequence .. nextSequence - 1
  BY <1>1
<1> QED BY <1>1, <1>4, <1>5 DEF StagedRequest

LEMMA PlaceInQueue ==
  ASSUME QInv, NEW id \in Nat, LastLeft < id, id <= staged
  PROVE  /\ SequenceOf(id) \in DOMAIN requestQueue
         /\ requestQueue[SequenceOf(id)].id = id
         /\ nextToAcknowledge <= SequenceOf(id) /\ SequenceOf(id) < nextSequence
<1>1. /\ nextSequence \in Nat /\ nextToAcknowledge \in Nat /\ staged \in Nat
      /\ LastLeft = staged - (nextSequence - nextToAcknowledge)
  BY Numbers
<1>2. SequenceOf(id) \in nextToAcknowledge .. nextSequence - 1
  BY <1>1 DEF SequenceOf
<1>3. LastLeft + 1 + (SequenceOf(id) - nextToAcknowledge) = id
  BY <1>1 DEF SequenceOf
<1> QED BY <1>1, <1>2, <1>3, InMemory

LEMMA StreamFacts ==
  ASSUME QInv
  PROVE  /\ received \in Seq(Units) /\ wire \in Seq(Units) /\ Stream \in Seq(Units)
         /\ Len(received) \in Nat /\ Len(wire) \in Nat
         /\ Len(Stream) = Len(received) + Len(wire)
         /\ \A i \in 1 .. Len(received) : Stream[i] = received[i]
         /\ \A i \in 1 .. Len(Stream) :
              /\ Stream[i] \in Units
              /\ Stream[i].id \in Nat /\ Stream[i].index \in Nat /\ Stream[i].last \in Nat
              /\ NextId(Stream[i]) \in Nat /\ NextIndex(Stream[i]) \in Nat
<1>1. received \in Seq(Units) /\ wire \in Seq(Units)
  BY DEF QInv, StreamTypes
<1>2. /\ Stream \in Seq(Units)
      /\ Len(received) \in Nat /\ Len(wire) \in Nat
      /\ Len(Stream) = Len(received) + Len(wire)
      /\ \A i \in 1 .. Len(received) : Stream[i] = received[i]
      /\ \A i \in 1 .. Len(Stream) : Stream[i] \in Units
  BY <1>1, Concatenated DEF Stream
<1>3. \A u \in Units : /\ u.id \in Nat /\ u.index \in Nat /\ u.last \in Nat
                       /\ NextId(u) \in Nat /\ NextIndex(u) \in Nat
  BY DEF Units, NextId, NextIndex
<1> QED BY <1>1, <1>2, <1>3

LEMMA ReplyFacts ==
  ASSUME QInv
  PROVE  /\ buffered \in Seq(ServerReplies) /\ replies \in Seq(ServerReplies)
         /\ Arriving \in Seq(ServerReplies)
         /\ Len(buffered) \in Nat /\ Len(replies) \in Nat
         /\ Len(Arriving) = Len(buffered) + Len(replies)
         /\ \A i \in 1 .. Len(Arriving) : Arriving[i] \in ServerReplies
<1>1. buffered \in Seq(ServerReplies) /\ replies \in Seq(ServerReplies)
  BY DEF QInv, AnswerState
<1> QED BY <1>1, Concatenated DEF Arriving

LEMMA Place ==
  ASSUME QInv
  PROVE  /\ WriteId \in Int /\ WriteIndex \in Nat /\ UnitsSent \in Nat
         /\ Unfinished => WriteIndex = UnitsSent
         /\ Unfinished => WriteId = LastLeft + (nextToWrite - nextToAcknowledge)
         /\ ~Unfinished => WriteIndex = 0
         /\ ~Unfinished => WriteId = LastLeft + (nextToWrite - nextToAcknowledge) + 1
<1>1. /\ bytesWritten \in Nat /\ accepted \in Nat /\ LastLeft \in Nat
      /\ nextToWrite \in Nat /\ nextToAcknowledge \in Nat
  BY Numbers
<1>2. UnitsSent \in Nat
  BY <1>1 DEF UnitsSent
<1>3. CASE Unfinished
  BY <1>1, <1>2, <1>3 DEF WriteId, WriteIndex
<1>4. CASE ~Unfinished
  BY <1>1, <1>2, <1>4 DEF WriteId, WriteIndex
<1> QED BY <1>2, <1>3, <1>4

-----------------------------------------------------------------------------
(* What steps leave alone                                                    *)

\* Requests may be staged, none leaves the queue.
QueueKept ==
  /\ UNCHANGED <<nextToWrite, nextToAcknowledge, ignoredResponses>>
  /\ LastLeft' = LastLeft
  /\ nextSequence <= nextSequence' /\ staged <= staged' /\ staged' \in Nat
  /\ nextSequence' \in Nat
  /\ \A s \in DOMAIN requestQueue :
       s \in DOMAIN requestQueue' /\ requestQueue'[s] = requestQueue[s]

\* Requests that are not acknowledged stay where they are.
QueueMoves ==
  /\ LastLeft' \in Nat /\ nextToAcknowledge' \in Nat /\ staged' \in Nat
  /\ LastLeft' - nextToAcknowledge' = LastLeft - nextToAcknowledge
  /\ LastLeft <= LastLeft' /\ staged <= staged'
  /\ \A s \in DOMAIN requestQueue :
       s >= nextToAcknowledge' => requestQueue'[s] = requestQueue[s]

\* The stream may lose its end when the connection dies.
StreamKept ==
  /\ received' \in Seq(Units) /\ wire' \in Seq(Units)
  /\ Len(Stream') \in Nat /\ Len(Stream') <= Len(Stream)
  /\ \A i \in 1 .. Len(Stream') : Stream'[i] = Stream[i]
  /\ ~peerClosed' => ~peerClosed /\ Len(Stream') = Len(Stream)

\* The writer may stop; if it goes on, it is where it was.
PlaceKept ==
  Running' => Running /\ WriteId' = WriteId /\ WriteIndex' = WriteIndex

LEMMA LengthKept ==
  ASSUME QInv, QueueKept, writing' = writing, Running, writing.kind = "request"
  PROVE  LengthOf(writing)' = LengthOf(writing)
<1>1. writing.sequence \in DOMAIN requestQueue
  BY DEF QInv, WriterState
<1>2. requestQueue'[writing.sequence] = requestQueue[writing.sequence]
  BY <1>1 DEF QueueKept
<1> QED BY <1>2 DEF LengthOf

LEMMA WriterPlaceKept ==
  ASSUME QInv, QueueKept, UNCHANGED <<writerPc, writing, bytesWritten, accepted>>
  PROVE  PlaceKept
<1> SUFFICES ASSUME Running
             PROVE  WriteId' = WriteId /\ WriteIndex' = WriteIndex
  BY DEF PlaceKept, Running
<1>1. UnitsSent' = UnitsSent
  BY DEF UnitsSent
<1>2. Unfinished' <=> Unfinished
  BY <1>1, LengthKept DEF Unfinished
<1>3. LastLeft' = LastLeft /\ UNCHANGED <<nextToWrite, nextToAcknowledge>>
  BY DEF QueueKept
<1>4. CASE Unfinished
  BY <1>1, <1>2, <1>3, <1>4 DEF WriteId, WriteIndex
<1>5. CASE ~Unfinished
  BY <1>1, <1>2, <1>3, <1>5 DEF WriteId, WriteIndex
<1> QED BY <1>4, <1>5

LEMMA WriterStateKept ==
  ASSUME QInv, QueueKept,
         UNCHANGED <<writerPc, writing, bytesWritten, accepted, canWrite>>
  PROVE  WriterState'
<1>1. WriterState
  BY DEF QInv
<1>2. Running' <=> Running
  BY DEF Running
<1>3. ASSUME Running, writing.kind = "request"
      PROVE  /\ writing.sequence = nextToWrite' - 1
             /\ writing.sequence \in DOMAIN requestQueue'
             /\ IF writerPc = "sent"
                THEN accepted > 0 /\ bytesWritten + accepted <= LengthOf(writing)'
                ELSE bytesWritten < LengthOf(writing)'
  BY <1>1, <1>3, LengthKept DEF WriterState, QueueKept
<1> QED BY <1>1, <1>2, <1>3 DEF WriterState

LEMMA HandshakeKept ==
  ASSUME QInv, StreamKept, Len(Stream) \in Nat,
         UNCHANGED <<inHandshake, handshakeStaged, handshakeIterator,
                     handshakeValidated, nextToWrite, nextToAcknowledge,
                     ignoredResponses>>,
         Running' => /\ Running /\ HandshakesSent' = HandshakesSent
                     /\ (writing'.kind = "request" \/ writerPc' = "request") =>
                          ~inHandshake
  PROVE  HandshakeState'
<1>1. HandshakeState
  BY DEF QInv
<1>2. /\ handshakeIterator \in Nat /\ HandshakeRounds \in Nat
      /\ Len(Stream') \in Nat /\ Len(Stream') <= Len(Stream)
      /\ ~peerClosed' => ~peerClosed /\ Len(Stream') = Len(Stream)
  BY Numbers DEF StreamKept
<1>3. HandshakesSent \in Int
  BY <1>2 DEF HandshakesSent
<1>4. ASSUME inHandshake
      PROVE  Len(Stream') <= handshakeIterator
  BY <1>1, <1>2, <1>4 DEF HandshakeState
<1>5. ASSUME Running'
      PROVE  /\ ~inHandshake => HandshakesSent = HandshakeRounds
             /\ Len(Stream') <= HandshakesSent \/ HandshakesSent = HandshakeRounds
             /\ ~peerClosed' => Len(Stream') >= HandshakesSent
  BY <1>1, <1>2, <1>3, <1>5 DEF HandshakeState
<1> QED BY <1>1, <1>4, <1>5 DEF HandshakeState

LEMMA MultiKept ==
  ASSUME QInv, QueueKept
  PROVE  MultiState'
<1> SUFFICES ASSUME ignoredResponses' > 0
             PROVE  /\ nextToAcknowledge' < nextSequence'
                    /\ ignoredResponses' <= requestQueue'[nextToAcknowledge'].multiSize
                    /\ ~Exclusive
  BY DEF MultiState, HasArrived, ToAcknowledge, Exclusive
<1>1. /\ nextToAcknowledge < nextSequence
      /\ ignoredResponses <= requestQueue[nextToAcknowledge].multiSize
      /\ ~Exclusive
  BY DEF QInv, MultiState, HasArrived, ToAcknowledge, QueueKept
<1>2. nextToAcknowledge \in DOMAIN requestQueue
  <2>1. nextToAcknowledge \in nextToAcknowledge .. nextSequence - 1
    BY <1>1, Numbers
  <2> QED BY <2>1, InMemory
<1>3. nextToAcknowledge < nextSequence'
  <2>1. /\ nextSequence <= nextSequence' /\ nextSequence' \in Nat
        /\ nextSequence \in Nat /\ nextToAcknowledge \in Nat
    BY Numbers DEF QueueKept
  <2> QED BY <1>1, <2>1
<1> QED BY <1>1, <1>2, <1>3 DEF QueueKept

LEMMA TypesMoved ==
  ASSUME QInv, QueueMoves, StreamKept, inHandshake' => inHandshake
  PROVE  StreamTypes'
<1>1. /\ StreamTypes /\ Len(Stream) \in Nat /\ HandshakeRounds \in Nat
      /\ Len(Stream') \in Nat /\ Len(Stream') <= Len(Stream)
  BY StreamFacts, Numbers DEF QInv, StreamKept
<1>2. ASSUME NEW i \in 1 .. Len(Stream')
      PROVE  /\ i \in 1 .. Len(Stream) /\ Stream'[i] = Stream[i]
             /\ Stream[i].id \in Nat
  <2>1. i \in 1 .. Len(Stream)
    BY <1>1
  <2> QED BY <2>1, StreamFacts DEF StreamKept
<1>3. ASSUME NEW i \in 1 .. Len(Stream'), ~(i <= HandshakeRounds)
      PROVE  /\ Stream'[i].id \in 1 .. staged'
             /\ Stream'[i].id > LastLeft' =>
                  Stream'[i].last =
                    requestQueue'[nextToAcknowledge' +
                                    (Stream'[i].id - (LastLeft' + 1))].multiSize
  <2>1. /\ Stream[i].id \in 1 .. staged
        /\ Stream[i].id > LastLeft =>
             Stream[i].last = requestQueue[SequenceOf(Stream[i].id)].multiSize
    BY <1>1, <1>2, <1>3 DEF StreamTypes
  <2>2. nextToAcknowledge' + (Stream'[i].id - (LastLeft' + 1)) =
          SequenceOf(Stream[i].id)
    <3>1. /\ nextToAcknowledge \in Nat /\ LastLeft \in Nat
          /\ nextToAcknowledge' \in Nat /\ LastLeft' \in Nat
      BY Numbers DEF QueueMoves
    <3>2. LastLeft' - nextToAcknowledge' = LastLeft - nextToAcknowledge
      BY DEF QueueMoves
    <3>3. Stream'[i].id = Stream[i].id /\ Stream[i].id \in Nat
      BY <1>2
    <3>4. nextToAcknowledge' + (Stream[i].id - (LastLeft' + 1)) =
            nextToAcknowledge + (Stream[i].id - (LastLeft + 1))
      <4> DEFINE x == Stream[i].id
                 m == LastLeft'
                 b == nextToAcknowledge'
                 l == LastLeft
      <4>1. x \in Nat /\ m \in Nat /\ b \in Nat /\ l \in Nat /\ m - b = l - nextToAcknowledge
        BY <3>1, <3>2, <3>3
      <4> HIDE DEF x, m, b, l
      <4>2. b + (x - (m + 1)) = nextToAcknowledge + (x - (l + 1))
        BY <3>1, <4>1
      <4> QED BY <4>2 DEF x, m, b, l
    <3> QED BY <3>3, <3>4 DEF SequenceOf
  <2>3. staged \in Nat /\ LastLeft \in Nat /\ nextToAcknowledge \in Nat
    BY Numbers
  <2>4. Stream'[i].id \in 1 .. staged'
    BY <1>2, <2>1, <2>3 DEF QueueMoves
  <2>5. ASSUME Stream[i].id > LastLeft'
        PROVE  /\ Stream[i].id > LastLeft
               /\ requestQueue'[SequenceOf(Stream[i].id)] =
                    requestQueue[SequenceOf(Stream[i].id)]
    <3>1. Stream[i].id > LastLeft
      BY <1>2, <2>3, <2>5 DEF QueueMoves
    <3>2. Stream[i].id <= staged
      BY <1>2, <2>1, <2>3
    <3>3. SequenceOf(Stream[i].id) \in DOMAIN requestQueue
      BY <1>2, <3>1, <3>2, PlaceInQueue
    <3>4. SequenceOf(Stream[i].id) >= nextToAcknowledge'
      BY <1>2, <2>2, <2>3, <2>5 DEF QueueMoves
    <3> QED BY <3>1, <3>3, <3>4 DEF QueueMoves
  <2> QED BY <1>2, <2>1, <2>2, <2>4, <2>5
<1>4. Len(Stream') > HandshakeRounds => ~inHandshake'
  BY <1>1 DEF StreamTypes
<1>5. ASSUME NEW i \in 1 .. Len(Stream')
      PROVE  IF i <= HandshakeRounds
             THEN /\ Stream'[i].kind = "handshake" /\ Stream'[i].index = 0
                  /\ Stream'[i].last = 0
             ELSE Stream'[i].kind = "request" /\ Stream'[i].index <= Stream'[i].last
  BY <1>1, <1>2 DEF StreamTypes
<1> QED BY <1>3, <1>4, <1>5 DEF StreamTypes, StreamKept, SequenceOf

LEMMA TypesKept ==
  ASSUME QInv, QueueKept, StreamKept, inHandshake' => inHandshake
  PROVE  StreamTypes'
<1>1. QueueMoves
  BY Numbers DEF QueueKept, QueueMoves
<1> QED BY <1>1, TypesMoved

LEMMA OrderKept ==
  ASSUME QInv, StreamKept
  PROVE  StreamOrder'
<1>1. /\ StreamOrder /\ Len(Stream) \in Nat /\ HandshakeRounds \in Nat
      /\ Len(Stream') \in Nat /\ Len(Stream') <= Len(Stream)
      /\ \A i \in 1 .. Len(Stream') : Stream'[i] = Stream[i]
  BY StreamFacts, Numbers DEF QInv, StreamKept
<1>2. Len(Stream') > HandshakeRounds => Stream'[HandshakeRounds + 1].index = 0
  BY <1>1 DEF StreamOrder
<1>3. ASSUME NEW i \in HandshakeRounds + 1 .. Len(Stream'), i < Len(Stream')
      PROVE  /\ Stream'[i + 1].id = NextId(Stream'[i])
             /\ Stream'[i + 1].index = NextIndex(Stream'[i])
  <2>1. Stream'[i] = Stream[i] /\ Stream'[i + 1] = Stream[i + 1]
    BY <1>1, <1>3
  <2> QED BY <1>1, <1>3, <2>1 DEF StreamOrder
<1>4. ASSUME NEW i \in HandshakeRounds + 1 .. Len(Stream'),
             NEW j \in HandshakeRounds + 1 .. Len(Stream'), i < j
      PROVE  NotAfter(NextId(Stream'[i]), NextIndex(Stream'[i]),
                      Stream'[j].id, Stream'[j].index)
  <2>1. Stream'[i] = Stream[i] /\ Stream'[j] = Stream[j]
    BY <1>1
  <2> QED BY <1>1, <1>4, <2>1 DEF StreamOrder
<1> QED BY <1>2, <1>3, <1>4 DEF StreamOrder, NextId, NextIndex, NotAfter

LEMMA EndMoved ==
  ASSUME QInv, StreamKept, PlaceKept,
         Running' => NotAfter(LastLeft' + 1, ignoredResponses', WriteId, WriteIndex)
  PROVE  StreamEnd'
<1> SUFFICES ASSUME Running'
             PROVE  StreamEnd'
  BY DEF StreamEnd
<1>1. /\ StreamEnd /\ Len(Stream) \in Nat /\ HandshakeRounds \in Nat
      /\ Len(Stream') \in Nat /\ Len(Stream') <= Len(Stream)
      /\ \A i \in 1 .. Len(Stream') : Stream'[i] = Stream[i]
      /\ ~peerClosed' => ~peerClosed /\ Len(Stream') = Len(Stream)
      /\ Running /\ WriteId' = WriteId /\ WriteIndex' = WriteIndex
  <2>1. StreamEnd /\ Len(Stream) \in Nat /\ HandshakeRounds \in Nat
    BY StreamFacts, Numbers DEF QInv
  <2>2. Running /\ WriteId' = WriteId /\ WriteIndex' = WriteIndex
    BY DEF PlaceKept
  <2> QED BY <2>1, <2>2 DEF StreamKept
<1>2. NotAfter(LastLeft' + 1, ignoredResponses', WriteId, WriteIndex)
  OBVIOUS
<1>3. ASSUME NEW i \in HandshakeRounds + 1 .. Len(Stream')
      PROVE  NotAfter(NextId(Stream'[i]), NextIndex(Stream'[i]), WriteId, WriteIndex)
  <2>1. Stream'[i] = Stream[i] /\ i \in HandshakeRounds + 1 .. Len(Stream)
    BY <1>1
  <2> QED BY <1>1, <2>1 DEF StreamEnd
<1>4. ASSUME ~peerClosed', Len(Stream') > HandshakeRounds
      PROVE  /\ WriteId = NextId(Stream'[Len(Stream')])
             /\ WriteIndex = NextIndex(Stream'[Len(Stream')])
  <2>1. Stream'[Len(Stream')] = Stream[Len(Stream)]
    BY <1>1, <1>4
  <2> QED BY <1>1, <1>4, <2>1 DEF StreamEnd
<1>5. ASSUME ~peerClosed', Len(Stream') <= HandshakeRounds
      PROVE  WriteIndex = 0
  BY <1>1, <1>5 DEF StreamEnd
<1> QED BY <1>1, <1>2, <1>3, <1>4, <1>5 DEF StreamEnd, NextId, NextIndex, NotAfter

LEMMA EndKept ==
  ASSUME QInv, StreamKept, PlaceKept, LastLeft' = LastLeft,
         ignoredResponses' = ignoredResponses
  PROVE  StreamEnd'
<1>1. Running' => NotAfter(LastLeft + 1, ignoredResponses, WriteId, WriteIndex)
  BY DEF QInv, StreamEnd, PlaceKept
<1> QED BY <1>1, EndMoved

LEMMA LevelKept ==
  ASSUME QInv, StreamKept, PlaceKept, LastLeft' = LastLeft,
         ignoredResponses' = ignoredResponses, inHandshake' = inHandshake,
         eventLoop' = "reading" => eventLoop = "reading",
         NEW n \in Nat, Level(n)
  PROVE  Level(n)'
<1> SUFFICES ASSUME ~inHandshake, ~Exclusive
             PROVE  Level(n)'
  BY DEF Level, Exclusive
<1>1. /\ Len(Stream) \in Nat /\ Len(Stream') \in Nat /\ Len(Stream') <= Len(Stream)
      /\ \A i \in 1 .. Len(Stream') : Stream'[i] = Stream[i]
      /\ ~peerClosed' => ~peerClosed /\ Len(Stream') = Len(Stream)
  BY StreamFacts DEF StreamKept
<1>2. CASE n < Len(Stream')
  <2>1. n < Len(Stream) /\ Stream'[n + 1] = Stream[n + 1]
    BY <1>1, <1>2
  <2>2. /\ NotAfter(LastLeft + 1, ignoredResponses,
                    Stream[n + 1].id, Stream[n + 1].index)
        /\ eventLoop = "reading" =>
             /\ LastLeft + 1 = Stream[n + 1].id
             /\ ignoredResponses = Stream[n + 1].index
    BY <2>1 DEF Level
  <2> QED BY <1>2, <2>1, <2>2 DEF Level, NotAfter
<1>3. CASE ~(n < Len(Stream'))
  <2>1. ASSUME Running', ~peerClosed', eventLoop' = "reading"
        PROVE  LastLeft + 1 = WriteId' /\ ignoredResponses = WriteIndex'
    <3>1. ~(n < Len(Stream)) /\ ~peerClosed
      BY <1>1, <1>3, <2>1
    <3>2. Running /\ WriteId' = WriteId /\ WriteIndex' = WriteIndex
      BY <2>1 DEF PlaceKept
    <3> QED BY <2>1, <3>1, <3>2 DEF Level
  <2> QED BY <1>3, <2>1 DEF Level
<1> QED BY <1>2, <1>3

LEMMA AnswersMoved ==
  ASSUME QInv, \A n \in 0 .. Len(received) : Level(n) => Level(n)',
         UNCHANGED <<buffered, replies, received, handshakeValidated, peerClosed>>
  PROVE  AnswerState'
<1>1. PICK p \in [0 .. Len(Arriving) -> 0 .. Len(received)] :
        Pairing(p) /\ Level(p[0])
  BY DEF QInv, AnswerState
<1>2. p[0] \in 0 .. Len(received)
  <2>1. 0 \in 0 .. Len(Arriving)
    BY ReplyFacts
  <2> QED BY <2>1
<1>3. Level(p[0])'
  BY <1>1, <1>2
<1>4. Arriving' = Arriving
  BY DEF Arriving
<1>5. Pairing(p)'
  BY <1>1, <1>4 DEF Pairing, AnsweredBy, NormalAnswer, Answer
<1> QED BY <1>1, <1>3, <1>4, <1>5 DEF QInv, AnswerState

LEMMA AnswersKept ==
  ASSUME QInv, StreamKept, PlaceKept, LastLeft' = LastLeft,
         ignoredResponses' = ignoredResponses, inHandshake' = inHandshake,
         eventLoop' = "reading" => eventLoop = "reading",
         UNCHANGED <<buffered, replies, received, handshakeValidated, peerClosed>>
  PROVE  AnswerState'
<1>1. \A n \in 0 .. Len(received) : Level(n) => Level(n)'
  BY StreamFacts, LevelKept
<1> QED BY <1>1, AnswersMoved

\* Steps that leave the stream, the replies and what the writer does alone: those
\* of users, the executor and the destructor, and most of the event loop's.
LEMMA ClientStep ==
  ASSUME QInv, QueueKept, IInv', StagedBound', FreshState',
         UNCHANGED <<writerPc, writing, bytesWritten, accepted, canWrite>>,
         UNCHANGED <<received, wire, peerClosed, buffered, replies, messages>>,
         UNCHANGED <<inHandshake, handshakeStaged, handshakeIterator,
                     handshakeValidated>>,
         eventLoop' = "reading" => eventLoop = "reading"
  PROVE  QInv'
<1>1. Stream' = Stream /\ Arriving' = Arriving
  BY DEF Stream, Arriving
<1>2. StreamKept
  <2>1. Len(Stream) \in Nat /\ received \in Seq(Units) /\ wire \in Seq(Units)
    BY StreamFacts
  <2> QED BY <1>1, <2>1 DEF StreamKept
<1>3. PlaceKept
  BY WriterPlaceKept
<1>4. LastLeft' = LastLeft /\ UNCHANGED <<nextToWrite, nextToAcknowledge, ignoredResponses>>
  BY DEF QueueKept
<1>5. WriterState' /\ MultiState'
  BY WriterStateKept, MultiKept
<1>6. StreamTypes' /\ StreamOrder'
  BY <1>2, TypesKept, OrderKept
<1>7. StreamEnd' /\ AnswerState'
  BY <1>2, <1>3, <1>4, EndKept, AnswersKept
<1>8. HandshakeState'
  <2>1. Running' <=> Running
    BY DEF Running
  <2>2. HandshakesSent' = HandshakesSent
    BY DEF HandshakesSent
  <2>3. Running => ((writing.kind = "request" \/ writerPc = "request") => ~inHandshake)
    BY DEF QInv, HandshakeState
  <2>4. Len(Stream) \in Nat
    BY StreamFacts
  <2>5. (writing' = writing /\ writerPc' = writerPc)
    OBVIOUS
  <2> QED BY <1>2, <1>4, <2>1, <2>2, <2>3, <2>4, <2>5, HandshakeKept
<1>9. PushBound'
  BY <1>1 DEF QInv, PushBound
<1> QED BY <1>5, <1>6, <1>7, <1>8, <1>9 DEF QInv

\* Staging
LEMMA StagingKeepsQueue ==
  ASSUME QInv, NEW kind, NEW size, EmplaceBack(kind, size),
         UNCHANGED iteratorVars
  PROVE  QueueKept
<1>1. /\ nextSequence \in Nat /\ nextToAcknowledge \in Nat /\ staged \in Nat
  BY Numbers
<1>2. /\ nextSequence' = nextSequence + 1 /\ staged' = staged + 1
      /\ UNCHANGED <<nextToWrite, nextToAcknowledge, ignoredResponses>>
  BY DEF EmplaceBack, iteratorVars
<1>3. LastLeft' = LastLeft
  BY <1>1, <1>2 DEF LastLeft, UnacknowledgedCount
<1>4. ASSUME NEW s \in DOMAIN requestQueue
      PROVE  s \in DOMAIN requestQueue' /\ requestQueue'[s] = requestQueue[s]
  <2>1. s # nextSequence
    BY <1>1, Numbers, InMemory
  <2> QED BY <2>1 DEF EmplaceBack
<1>5. nextSequence <= nextSequence' /\ staged <= staged' /\ staged' \in Nat /\ nextSequence' \in Nat
  BY <1>1, <1>2
<1> QED BY <1>2, <1>3, <1>4, <1>5 DEF QueueKept

LEMMA QueueUntouched ==
  ASSUME QInv, UNCHANGED <<queueVars, iteratorVars, staged>>
  PROVE  QueueKept
<1>1. UNCHANGED <<requestQueue, nextSequence, nextToWrite, nextToAcknowledge,
                  ignoredResponses, staged>>
  BY DEF queueVars, iteratorVars
<1>2. LastLeft' = LastLeft
  BY <1>1 DEF LastLeft, UnacknowledgedCount
<1>3. nextSequence \in Nat /\ staged \in Nat
  BY Numbers
<1> QED BY <1>1, <1>2, <1>3 DEF QueueKept

LEMMA UserKeepsQueue ==
  ASSUME QInv, NEW t \in Callers, User(t)
  PROVE  QueueKept
<1>1. CallerStep(t)
  BY DEF User
<1>2. ASSUME NEW kind, NEW size, Reserve(t, kind, size)
      PROVE  QueueKept
  BY <1>2, QueueUntouched DEF Reserve
<1>3. ASSUME NEW size, StageFuture(t, size)
      PROVE  QueueKept
  BY <1>3, StagingKeepsQueue DEF StageFuture
<1>4. CASE StageCallback(t)
  BY <1>4, StagingKeepsQueue DEF StageCallback
<1> QED BY <1>1, <1>2, <1>3, <1>4 DEF CallerStep

LEMMA UserStep ==
  ASSUME QInv, NEW t \in Callers, User(t)
  PROVE  [Next]_coreVars /\ QInv'
<1>1. CallerStep(t) /\ UNCHANGED <<writerVars, streamVars, shutdownFD, loopVars,
                                   buffered, serverVars>>
  BY DEF User
<1>2. [Next]_coreVars
  BY <1>1 DEF Next
<1>3. IInv' /\ StagedBound'
  BY <1>2, NextIInv, StagedBoundStep DEF QInv
<1>4. UNCHANGED <<handshakeVars, messages>>
  BY <1>1 DEF CallerStep, Reserve, StageFuture, StageCallback
<1>5. QueueKept
  BY UserKeepsQueue
<1>6. FreshState'
  <2>1. UNCHANGED <<writerPc, streamOk, peerClosed, received, wire, replies, buffered,
                    eventLoop, firstEpoch>>
    BY <1>1 DEF writerVars, streamVars, loopVars, serverVars
  <2>2. UNCHANGED <<ignoredResponses, nextToWrite, nextToAcknowledge>>
    BY <1>5 DEF QueueKept
  <2>3. UNCHANGED <<handshakeIterator, handshakeValidated, inHandshake>>
    BY <1>4 DEF handshakeVars
  <2> QED BY <2>1, <2>2, <2>3 DEF QInv, FreshState, Running
<1> QED BY <1>1, <1>2, <1>3, <1>4, <1>5, <1>6, ClientStep
        DEF writerVars, writerLocals, streamVars, loopVars, serverVars, handshakeVars

\* Steps that at most run a callback or set the blocking mode
LEMMA RestStep ==
  ASSUME QInv, [Next]_coreVars,
         UNCHANGED <<queueVars, iteratorVars, staged, messages>>,
         UNCHANGED <<inHandshake, handshakeStaged, handshakeIterator,
                     handshakeValidated>>,
         UNCHANGED <<writerPc, writing, bytesWritten, accepted, canWrite>>,
         UNCHANGED <<received, wire, peerClosed, streamOk, buffered, replies>>,
         eventLoop' = "reading" => eventLoop = "reading",
         (firstEpoch' \/ eventLoop' = "dial") => (firstEpoch \/ eventLoop = "dial"),
         firstEpoch' => eventLoop' = "connect"
  PROVE  QInv'
<1>1. IInv' /\ StagedBound'
  BY NextIInv, StagedBoundStep DEF QInv
<1>2. QueueKept
  BY QueueUntouched
<1>3. FreshState'
  <2>1. UNCHANGED <<ignoredResponses, nextToWrite, nextToAcknowledge>>
    BY DEF iteratorVars
  <2> QED BY <2>1 DEF QInv, FreshState, Running
<1> QED BY <1>1, <1>2, <1>3, ClientStep

LEMMA BlockingModeRest ==
  ASSUME NEW value \in BOOLEAN, SetBlockingMode(value)
  PROVE  /\ [Next]_coreVars
         /\ UNCHANGED <<queueVars, iteratorVars, staged, messages>>
         /\ UNCHANGED <<inHandshake, handshakeStaged, handshakeIterator,
                        handshakeValidated>>
BY DEF SetBlockingMode, Next, EventLoopStep, callerVars

LEMMA ExecutorStep ==
  ASSUME QInv, Executor
  PROVE  [Next]_coreVars /\ QInv'
<1>1. [Next]_coreVars
  BY DEF Executor, Next
<1>2. /\ UNCHANGED <<queueVars, iteratorVars, staged, messages, handshakeVars>>
      /\ UNCHANGED <<writerVars, streamVars, loopVars, buffered, serverVars>>
  BY DEF Executor, ExecuteCallback, callerVars
<1>3. firstEpoch' => eventLoop' = "connect"
  BY <1>2 DEF QInv, FreshState, loopVars
<1> QED BY <1>1, <1>2, <1>3, RestStep
        DEF writerVars, writerLocals, streamVars, loopVars, serverVars, handshakeVars

\* The event loop between epochs, and the destructor
QuietLoopStep ==
  \/ LeaveEpoch \/ Backoff \/ Connect \/ DialFails
  \/ Drain /\ buffered = <<>>
  \/ Destroy \/ DestructorStopsLoop \/ DestructorDeactivates \/ DestructorReturns

LEMMA QuietLoopStepRest ==
  ASSUME QInv, QuietLoopStep
  PROVE  [Next]_coreVars /\ QInv'
<1>1. /\ [Next]_coreVars
      /\ UNCHANGED <<queueVars, iteratorVars, staged, messages>>
      /\ UNCHANGED <<inHandshake, handshakeStaged, handshakeIterator,
                     handshakeValidated>>
      /\ UNCHANGED <<writerPc, writerLocals>>
  <2>1. CASE UNCHANGED <<coreVars, writerVars>>
    BY <2>1 DEF coreVars, callerVars, handshakeVars, writerVars
  <2>2. CASE RequestDeactivation
    <3>1. SetBlockingMode(FALSE) /\ UNCHANGED <<writerPc, writerLocals>>
      BY <2>2 DEF RequestDeactivation
    <3> QED BY <3>1, BlockingModeRest
  <2> QED BY <2>1, <2>2
          DEF QuietLoopStep, LeaveEpoch, Backoff, Connect, DialFails, Drain, FeedReply,
              Destroy, DestructorStopsLoop, DestructorDeactivates, DestructorReturns
<1>2. UNCHANGED <<received, wire, peerClosed, streamOk, buffered, replies>>
  BY DEF QuietLoopStep, LeaveEpoch, Backoff, Connect, DialFails, Drain, FeedReply,
         Destroy, DestructorStopsLoop, DestructorDeactivates, DestructorReturns,
         streamVars, serverVars
<1>3. /\ eventLoop' = "reading" => eventLoop = "reading"
      /\ firstEpoch' => firstEpoch
      /\ eventLoop' = "dial" => firstEpoch \/ eventLoop = "dial"
      /\ firstEpoch' => eventLoop' = "connect"
  <2>1. firstEpoch => eventLoop = "connect"
    BY DEF QInv, FreshState
  <2>2. CASE Connect
    BY <2>1, <2>2 DEF Connect
  <2>3. CASE LeaveEpoch \/ Backoff \/ DialFails \/ (Drain /\ buffered = <<>>)
    <3>1. /\ eventLoop' \in {"backoff", "draining", "connect", "exited"}
          /\ eventLoop # "connect" /\ firstEpoch' = firstEpoch
      BY <2>3 DEF LeaveEpoch, Backoff, DialFails, Drain, FeedReply
    <3> QED BY <2>1, <3>1
  <2>4. CASE Destroy \/ DestructorStopsLoop \/ DestructorDeactivates \/ DestructorReturns
    <3>1. eventLoop' = eventLoop /\ firstEpoch' = firstEpoch
      BY <2>4 DEF Destroy, DestructorStopsLoop, DestructorDeactivates, DestructorReturns
    <3> QED BY <2>1, <3>1
  <2> QED BY <2>2, <2>3, <2>4 DEF QuietLoopStep
<1> QED BY <1>1, <1>2, <1>3, RestStep DEF writerLocals

-----------------------------------------------------------------------------
(* The writer                                                                *)

\* Steps that only change what the writer knows, or take a handshake chunk
LEMMA WriterTakesOrMoves ==
  ASSUME QInv, [Next]_coreVars, Running,
         UNCHANGED <<queueVars, iteratorVars, staged, messages>>,
         UNCHANGED <<inHandshake, handshakeStaged, handshakeValidated>>,
         UNCHANGED <<received, wire, peerClosed, buffered, replies, eventLoop, firstEpoch>>,
         WriterState', PlaceKept, HandshakeState'
  PROVE  QInv'
<1>1. IInv' /\ StagedBound'
  BY NextIInv, StagedBoundStep DEF QInv
<1>2. QueueKept
  BY QueueUntouched
<1>3. Stream' = Stream /\ Arriving' = Arriving
  BY DEF Stream, Arriving
<1>4. StreamKept
  <2>1. Len(Stream) \in Nat /\ received \in Seq(Units) /\ wire \in Seq(Units)
    BY StreamFacts
  <2> QED BY <1>3, <2>1 DEF StreamKept
<1>5. MultiState' /\ StreamTypes' /\ StreamOrder'
  BY <1>2, <1>4, MultiKept, TypesKept, OrderKept
<1>6. LastLeft' = LastLeft /\ ignoredResponses' = ignoredResponses
  BY <1>2 DEF QueueKept
<1>7. StreamEnd' /\ AnswerState'
  BY <1>4, <1>6, EndKept, AnswersKept
<1>8. PushBound'
  BY <1>3 DEF QInv, PushBound
<1>9. FreshState'
  BY DEF QInv, FreshState
<1> QED BY <1>1, <1>5, <1>7, <1>8, <1>9 DEF QInv

LEMMA WriterMoves ==
  ASSUME QInv, UNCHANGED coreVars, Running,
         UNCHANGED <<received, wire, peerClosed, buffered, replies, eventLoop, firstEpoch>>,
         WriterState', PlaceKept,
         Running' => /\ HandshakesSent' = HandshakesSent
                     /\ (writing'.kind = "request" \/ writerPc' = "request") =>
                          ~inHandshake
  PROVE  [Next]_coreVars /\ QInv'
<1>1. [Next]_coreVars
  OBVIOUS
<1>2. /\ UNCHANGED <<queueVars, iteratorVars, staged, messages>>
      /\ UNCHANGED <<inHandshake, handshakeStaged, handshakeIterator, handshakeValidated>>
      /\ UNCHANGED <<nextToWrite, nextToAcknowledge, ignoredResponses>>
  BY DEF coreVars, handshakeVars, iteratorVars, callerVars
<1>3. StreamKept /\ Len(Stream) \in Nat
  <2>1. Len(Stream) \in Nat /\ received \in Seq(Units) /\ wire \in Seq(Units)
    BY StreamFacts
  <2>2. Stream' = Stream
    BY DEF Stream
  <2> QED BY <2>1, <2>2 DEF StreamKept
<1>4. HandshakeState'
  BY <1>2, <1>3, HandshakeKept
<1> QED BY <1>1, <1>2, <1>4, WriterTakesOrMoves

LEMMA PlaceSame ==
  ASSUME UNCHANGED <<nextToWrite, nextToAcknowledge>>, LastLeft' = LastLeft,
         Unfinished' <=> Unfinished, Unfinished => UnitsSent' = UnitsSent
  PROVE  PlaceKept \/ ~Running
<1>1. CASE Unfinished
  BY <1>1 DEF PlaceKept, WriteId, WriteIndex
<1>2. CASE ~Unfinished
  BY <1>2 DEF PlaceKept, WriteId, WriteIndex
<1> QED BY <1>1, <1>2

LEMMA CoreUntouched ==
  ASSUME UNCHANGED coreVars
  PROVE  /\ UNCHANGED <<nextToWrite, nextToAcknowledge, requestQueue, inHandshake,
                        handshakeIterator>>
         /\ LastLeft' = LastLeft
BY DEF coreVars, handshakeVars, queueVars, iteratorVars, callerVars, LastLeft,
       UnacknowledgedCount

LEMMA WritingFacts ==
  ASSUME QInv
  PROVE  /\ writing \in Items
         /\ writing.kind = "nothing" <=> writing = Nothing
         /\ writing.kind \in {"nothing", "handshake", "request"}
BY DEF QInv, WriterState, Items, Nothing

\* The rest of the system while the writer makes a step of its own
Others == UNCHANGED <<loopVars, buffered, serverVars>>

LEMMA OthersRest ==
  ASSUME Others
  PROVE  UNCHANGED <<received, buffered, replies, eventLoop, firstEpoch>>
BY DEF Others, loopVars, serverVars

LEMMA WriterLoopStep ==
  ASSUME QInv, WriterLoop, Others
  PROVE  [Next]_coreVars /\ QInv'
<1>1. /\ writerPc = "loop"
      /\ UNCHANGED <<coreVars, writing, accepted, canWrite, wire, peerClosed>>
      /\ bytesWritten' = IF writing = Nothing THEN 0 ELSE bytesWritten
      /\ writerPc' \in {"off", "poll", "send", "handshake", "request"}
      /\ writerPc' = "poll" => ~canWrite
      /\ writerPc' = "send" => writing # Nothing
      /\ writerPc' \in {"handshake", "request"} => writing = Nothing
      /\ writerPc' = "request" => ~inHandshake
      /\ writerPc' \in {"send", "handshake", "request"} => canWrite
  <2>1. writerPc' \in {"off", "poll", "send", "handshake", "request"}
    BY DEF WriterLoop
  <2>2. writerPc' = "poll" => ~canWrite
    BY DEF WriterLoop
  <2>3. writerPc' = "send" => writing # Nothing
    BY DEF WriterLoop
  <2>4. writerPc' \in {"handshake", "request"} => writing = Nothing
    BY DEF WriterLoop
  <2>5. writerPc' = "request" => ~inHandshake
    BY DEF WriterLoop
  <2>6. writerPc' \in {"send", "handshake", "request"} => canWrite
    BY DEF WriterLoop
  <2> QED BY <2>1, <2>2, <2>3, <2>4, <2>5, <2>6 DEF WriterLoop, streamVars
<1>2. Running
  BY <1>1 DEF Running
<1>3. ASSUME writing.kind = "request"
      PROVE  bytesWritten' = bytesWritten /\ LengthOf(writing)' = LengthOf(writing)
  BY <1>1, <1>3, WritingFacts, CoreUntouched DEF LengthOf
<1>4. WriterState'
  <2>1. WriterState /\ Running /\ UNCHANGED <<requestQueue, nextToWrite>>
    BY <1>1, <1>2, CoreUntouched DEF QInv
  <2>2. bytesWritten' \in Nat /\ accepted' \in Nat
    BY <1>1, <2>1 DEF WriterState
  <2>3. ASSUME writing.kind = "request"
        PROVE  /\ writing.sequence = nextToWrite - 1
               /\ writing.sequence \in DOMAIN requestQueue
               /\ bytesWritten' < LengthOf(writing)'
    BY <1>1, <1>3, <2>1, <2>3 DEF WriterState
  <2>4. ASSUME Running', ~canWrite'
        PROVE  writing # Nothing
    BY <1>1, <2>1, <2>4 DEF WriterState
  <2>5. ASSUME writing.kind = "handshake"
        PROVE  bytesWritten' = 0
    BY <1>1, <2>1, <2>5 DEF WriterState, Nothing
  <2>6. writerPc' \in {"handshake", "request"} => bytesWritten' = 0
    BY <1>1
  <2>7. writerPc' \in {"poll", "send", "sent"} => writing # Nothing
    BY <1>1, <1>2, <2>1, <2>4 DEF WriterState, Running
  <2>8. writing' \in Items /\ (writing'.kind = "nothing" => writing' = Nothing)
    BY <1>1, <2>1 DEF WriterState
  <2>9. writerPc' # "sent"
    BY <1>1
  <2>10. writerPc' \in {"send", "sent", "handshake", "request"} => canWrite'
    BY <1>1, <2>9
  <2> QED BY <1>1, <2>1, <2>2, <2>3, <2>4, <2>5, <2>6, <2>7, <2>8, <2>9, <2>10
          DEF WriterState
<1>5. PlaceKept
  <2>1. writing.kind = "request" => UnitsSent' = UnitsSent
    BY <1>1, <1>3 DEF UnitsSent
  <2>2. (Unfinished' <=> Unfinished) /\ (Unfinished => UnitsSent' = UnitsSent)
    BY <1>1, <1>3, <2>1 DEF Unfinished
  <2> QED BY <1>1, <1>2, <2>2, CoreUntouched, PlaceSame
<1>6. ASSUME Running'
      PROVE  /\ HandshakesSent' = HandshakesSent
             /\ (writing'.kind = "request" \/ writerPc' = "request") => ~inHandshake
  <2>1. HandshakesSent' = HandshakesSent
    BY <1>1, CoreUntouched DEF HandshakesSent
  <2>2. writing.kind = "request" => ~inHandshake
    BY <1>2 DEF QInv, HandshakeState
  <2> QED BY <1>1, <2>1, <2>2
<1> QED BY <1>1, <1>2, <1>4, <1>5, <1>6, OthersRest, WriterMoves

LEMMA WriterPollStep ==
  ASSUME QInv, WriterPoll \/ WriterWouldBlock, Others
  PROVE  [Next]_coreVars /\ QInv'
<1>1. /\ writerPc \in {"poll", "send"} /\ writerPc' \in {"send", "loop"}
      /\ writing # Nothing
      /\ UNCHANGED <<coreVars, writing, bytesWritten, accepted, wire, peerClosed>>
  BY DEF WriterPoll, WriterWouldBlock, streamVars, QInv, WriterState
<1>2. Running /\ Running'
  BY <1>1 DEF Running
<1>3. LengthOf(writing)' = LengthOf(writing)
  BY <1>1, CoreUntouched DEF LengthOf
<1>4. WriterState'
  <2>1. WriterState /\ Running /\ UNCHANGED <<requestQueue, nextToWrite>>
    BY <1>1, <1>2, CoreUntouched DEF QInv
  <2>2. writerPc' \in {"send", "sent", "handshake", "request"} => canWrite'
    BY <1>1 DEF WriterPoll, WriterWouldBlock
  <2>3. writerPc' # "sent" /\ writerPc # "sent"
    BY <1>1
  <2> QED BY <1>1, <1>2, <1>3, <2>1, <2>2, <2>3 DEF WriterState
<1>5. UnitsSent' = UnitsSent
  BY <1>1 DEF UnitsSent
<1>6. Unfinished' <=> Unfinished
  BY <1>1, <1>3, <1>5 DEF Unfinished
<1>7. PlaceKept
  BY <1>2, <1>5, <1>6, CoreUntouched, <1>1, PlaceSame
<1>8. /\ HandshakesSent' = HandshakesSent
      /\ (writing'.kind = "request" \/ writerPc' = "request") => ~inHandshake
  <2>1. HandshakesSent' = HandshakesSent
    BY <1>1, CoreUntouched DEF HandshakesSent
  <2>2. writing.kind = "request" => ~inHandshake
    BY <1>2 DEF QInv, HandshakeState
  <2> QED BY <1>1, <2>1, <2>2
<1> QED BY <1>1, <1>2, <1>4, <1>7, <1>8, OthersRest, WriterMoves

LEMMA WriterSendFailsStep ==
  ASSUME QInv, WriterSendFails, Others
  PROVE  [Next]_coreVars /\ QInv'
<1>1. /\ writerPc = "send" /\ writerPc' = "off"
      /\ UNCHANGED <<coreVars, writing, bytesWritten, accepted, canWrite, wire, peerClosed>>
  BY DEF WriterSendFails, writerLocals
<1>2. Running /\ ~Running' /\ PlaceKept
  BY <1>1 DEF Running, PlaceKept
<1>3. WriterState'
  BY <1>1, <1>2 DEF QInv, WriterState
<1> QED BY <1>1, <1>2, <1>3, OthersRest, WriterMoves

LEMMA WriterSentStep ==
  ASSUME QInv, WriterSent, Others
  PROVE  [Next]_coreVars /\ QInv'
<1> DEFINE total == bytesWritten + accepted
<1>1. /\ writerPc = "sent" /\ writerPc' = "loop" /\ bytesWritten' = total
      /\ UNCHANGED <<coreVars, accepted, wire, peerClosed>>
  BY DEF WriterSent, streamVars
<1>2. \/ total = LengthOf(writing) /\ writing' = Nothing /\ canWrite' = canWrite
      \/ total # LengthOf(writing) /\ writing' = writing /\ canWrite' = FALSE
  BY DEF WriterSent
<1>3. Running /\ Running' /\ writing # Nothing
  BY <1>1 DEF Running, QInv, WriterState
<1>4. WriterState /\ canWrite
  BY <1>1 DEF QInv, WriterState
<1>5. total \in Nat /\ bytesWritten \in Nat /\ accepted \in Nat
  BY <1>4 DEF WriterState
<1>6. Nothing \in Items /\ Nothing.kind = "nothing"
  BY DEF Nothing, Items
<1>7. CASE writing.kind = "handshake"
  <2>1. bytesWritten = 0 /\ accepted = 1 /\ LengthOf(writing) = 1
    BY <1>1, <1>3, <1>4, <1>7 DEF WriterState, LengthOf
  <2>2. writing' = Nothing /\ canWrite'
    BY <1>2, <1>4, <2>1
  <2>3. WriterState'
    BY <1>1, <1>3, <1>4, <1>5, <1>6, <2>2 DEF WriterState
  <2>4. ~Unfinished /\ ~Unfinished'
    BY <1>6, <1>7, <2>2 DEF Unfinished
  <2>5. PlaceKept
    BY <1>1, <1>3, <2>4, CoreUntouched, PlaceSame
  <2>6. HandshakesSent' = HandshakesSent
    BY <1>1, <1>6, <2>2, CoreUntouched DEF HandshakesSent
  <2>7. writing'.kind # "request" /\ writerPc' # "request"
    BY <1>1, <1>6, <2>2
  <2> QED BY <1>1, <1>3, <2>3, <2>5, <2>6, <2>7, OthersRest, WriterMoves
<1>8. CASE writing.kind = "request"
  <2>1. /\ writing.sequence = nextToWrite - 1
        /\ writing.sequence \in DOMAIN requestQueue
        /\ accepted > 0 /\ total <= LengthOf(writing)
    BY <1>1, <1>3, <1>4, <1>8 DEF WriterState
  <2>2. UnitsSent = total
    BY <1>1 DEF UnitsSent
  <2>3. LengthOf(writing)' = LengthOf(writing')
    BY <1>1, CoreUntouched DEF LengthOf
  <2>4. CASE total = LengthOf(writing)
    <3>1. writing' = Nothing /\ canWrite'
      BY <1>2, <1>4, <2>4
    <3>2. WriterState'
      BY <1>1, <1>3, <1>4, <1>5, <1>6, <3>1 DEF WriterState
    <3>3. ~Unfinished /\ ~Unfinished'
      BY <1>5, <1>6, <2>2, <2>4, <3>1 DEF Unfinished
    <3>4. PlaceKept
      BY <1>1, <1>3, <3>3, CoreUntouched, PlaceSame
    <3>5. HandshakesSent' = HandshakesSent
      BY <1>1, <1>6, <1>8, <3>1, CoreUntouched DEF HandshakesSent
    <3>6. writing'.kind # "request" /\ writerPc' # "request"
      BY <1>1, <1>6, <3>1
    <3> QED BY <1>1, <1>3, <3>2, <3>4, <3>5, <3>6, OthersRest, WriterMoves
  <2>5. CASE total # LengthOf(writing)
    <3>1. writing' = writing /\ UNCHANGED <<requestQueue, nextToWrite>>
      BY <1>1, <1>2, <2>5, CoreUntouched
    <3>2. LengthOf(writing) \in Nat /\ LengthOf(writing)' = LengthOf(writing)
      <4>1. requestQueue[writing.sequence].multiSize \in Nat
        BY <2>1, InMemory
      <4> QED BY <1>1, <1>8, <3>1, <4>1 DEF LengthOf
    <3>3. bytesWritten' < LengthOf(writing)' /\ bytesWritten' \in Nat
      BY <1>1, <1>5, <2>1, <2>5, <3>2
    <3>4. WriterState'
      BY <1>1, <1>3, <1>4, <1>8, <2>1, <3>1, <3>3 DEF WriterState
    <3>5. UnitsSent' = UnitsSent
      BY <1>1, <1>5, <2>2 DEF UnitsSent
    <3>6. Unfinished' <=> Unfinished
      BY <3>1, <3>2, <3>5 DEF Unfinished
    <3>7. PlaceKept
      BY <1>1, <1>3, <3>5, <3>6, CoreUntouched, PlaceSame
    <3>8. HandshakesSent' = HandshakesSent
      BY <1>1, <1>8, <3>1, CoreUntouched DEF HandshakesSent
    <3>9. ~inHandshake
      BY <1>3, <1>8 DEF QInv, HandshakeState
    <3> QED BY <1>1, <1>3, <3>4, <3>7, <3>8, <3>9, OthersRest, WriterMoves
  <2> QED BY <2>4, <2>5
<1> QED BY <1>3, <1>7, <1>8, WritingFacts

LEMMA TakeHandshakeStep ==
  ASSUME QInv, NEW found \in BOOLEAN, Others, UNCHANGED streamVars,
         writerPc = "handshake", FetchHandshake(found),
         writing' = IF found THEN [kind |-> "handshake", sequence |-> handshakeIterator]
                    ELSE Nothing,
         writerPc' = IF found THEN "send" ELSE "loop",
         UNCHANGED <<bytesWritten, accepted, canWrite>>
  PROVE  [Next]_coreVars /\ QInv'
<1>1. /\ Running /\ Running' /\ writing = Nothing /\ bytesWritten = 0
      /\ WriterState /\ canWrite
  BY DEF Running, QInv, WriterState
<1>2. Nothing \in Items /\ Nothing.kind = "nothing"
  BY DEF Nothing, Items
<1>3. UNCHANGED <<wire, peerClosed>>
  BY DEF streamVars
<1>4. CASE ~found
  <2>1. /\ writing' = Nothing /\ writing' = writing /\ writerPc' = "loop"
        /\ handshakeIterator' = handshakeIterator
    BY <1>1, <1>4 DEF FetchHandshake
  <2>2. UNCHANGED coreVars
    BY <1>4, <2>1 DEF FetchHandshake, coreVars, handshakeVars
  <2>3. WriterState'
    BY <1>1, <1>2, <2>1 DEF WriterState
  <2>4. ~Unfinished /\ ~Unfinished'
    BY <1>1, <1>2, <2>1 DEF Unfinished
  <2>5. PlaceKept
    BY <1>1, <2>2, <2>4, CoreUntouched, PlaceSame
  <2>6. HandshakesSent' = HandshakesSent
    BY <1>1, <1>2, <2>1 DEF HandshakesSent
  <2>7. writing'.kind # "request" /\ writerPc' # "request"
    BY <1>2, <2>1
  <2> QED BY <1>1, <1>3, <2>2, <2>3, <2>5, <2>6, <2>7, OthersRest, WriterMoves
<1>5. CASE found
  <2> DEFINE item == [kind |-> "handshake", sequence |-> handshakeIterator]
  <2>1. /\ writing' = item /\ writerPc' = "send"
        /\ handshakeIterator' = handshakeIterator + 1
        /\ handshakeIterator < handshakeStaged
    BY <1>5 DEF FetchHandshake, HandshakeArrived
  <2>2. [Next]_coreVars
    BY DEF Next, WriterStep
  <2>3. /\ UNCHANGED <<queueVars, iteratorVars, staged, messages>>
        /\ UNCHANGED <<inHandshake, handshakeStaged, handshakeValidated>>
    BY DEF FetchHandshake, callerVars
  <2>4. item \in Items /\ item.kind = "handshake" /\ item # Nothing
    BY Numbers DEF Items, Nothing
  <2>5. WriterState'
    <3> HIDE DEF item
    <3> QED BY <1>1, <2>1, <2>4 DEF WriterState
  <2>6. PlaceKept
    <3>1. ~Unfinished /\ ~Unfinished'
      BY <1>1, <1>2, <2>1, <2>4 DEF Unfinished
    <3>2. LastLeft' = LastLeft /\ UNCHANGED <<nextToWrite, nextToAcknowledge>>
      BY <2>3 DEF LastLeft, UnacknowledgedCount, queueVars, iteratorVars
    <3> QED BY <1>1, <3>1, <3>2, PlaceSame
  <2>7. HandshakeState'
    <3>1. /\ handshakeIterator \in Nat /\ handshakeStaged \in Nat
          /\ HandshakeRounds \in Nat /\ Len(Stream) \in Nat
      BY Numbers, StreamFacts
    <3>2. HandshakesSent = handshakeIterator
      BY <1>1, <1>2, <3>1 DEF HandshakesSent
    <3>3. HandshakesSent' = handshakeIterator
      BY <2>1, <2>4, <3>1 DEF HandshakesSent
    <3>4. Len(Stream)' = Len(Stream)
      BY <1>3, OthersRest DEF Stream
    <3>5. UNCHANGED <<nextToWrite, nextToAcknowledge, ignoredResponses>>
      BY <2>3 DEF iteratorVars
    <3>6. writing'.kind # "request" /\ writerPc' # "request"
      BY <2>1, <2>4
    <3>7. HandshakeState
      BY DEF QInv
    <3>8. inHandshake => Len(Stream) <= handshakeIterator + 1
      BY <3>1, <3>7 DEF HandshakeState
    <3>9. /\ ~inHandshake => HandshakesSent' = HandshakeRounds
          /\ Len(Stream) <= HandshakesSent' \/ HandshakesSent' = HandshakeRounds
          /\ ~peerClosed => Len(Stream) >= HandshakesSent'
      BY <1>1, <3>2, <3>3, <3>7 DEF HandshakeState
    <3>10. handshakeIterator' <= handshakeStaged
      BY <2>1, <3>1
    <3> QED BY <1>3, <2>1, <2>3, <3>4, <3>5, <3>6, <3>7, <3>8, <3>9, <3>10
            DEF HandshakeState
  <2> QED BY <1>1, <1>3, <2>2, <2>3, <2>5, <2>6, <2>7, OthersRest, WriterTakesOrMoves
<1> QED BY <1>4, <1>5

\* What FetchRequest() does to the queue: in exclusive mode it may free requests.
LEMMA FetchedRequest ==
  ASSUME QInv, Running, writing = Nothing, NEW found \in BOOLEAN, FetchRequest(found)
  PROVE  /\ nextToWrite' = (IF found THEN nextToWrite + 1 ELSE nextToWrite)
         /\ found => nextToWrite \in DOMAIN requestQueue'
         /\ nextToWrite >= nextToAcknowledge
         /\ LastLeft' + (nextToWrite - nextToAcknowledge') =
              LastLeft + (nextToWrite - nextToAcknowledge)
         /\ QueueMoves
         /\ IF Exclusive
            THEN /\ ignoredResponses = 0
                 /\ nextToAcknowledge' = nextToWrite \/ LastLeft' = LastLeft
            ELSE UNCHANGED <<queueVars, nextToAcknowledge>>
<1>1. /\ frontSequence \in Nat /\ nextSequence \in Nat /\ nextToWrite \in Nat
      /\ nextToAcknowledge \in Nat /\ staged \in Nat /\ ignoredResponses \in Nat
      /\ nextToAcknowledge = frontSequence + 1
      /\ nextToWrite <= nextSequence
      /\ LastLeft \in Nat /\ LastLeft = staged - (nextSequence - nextToAcknowledge)
  BY Numbers
<1>2. nextToWrite >= nextToAcknowledge
  <2>1. ~Unfinished
    BY DEF Unfinished, Nothing
  <2>2. WriteId = LastLeft + (nextToWrite - nextToAcknowledge) + 1 /\ WriteIndex = 0
    BY <2>1, Place
  <2>3. NotAfter(LastLeft + 1, ignoredResponses, WriteId, WriteIndex)
    BY DEF QInv, StreamEnd
  <2> QED BY <1>1, <2>2, <2>3 DEF NotAfter
<1>3. /\ nextToWrite' = (IF found THEN nextToWrite + 1 ELSE nextToWrite)
      /\ found => nextToWrite < nextSequence
      /\ nextSequence' = nextSequence /\ staged' = staged
  BY DEF FetchRequest, HasArrived, Discard, queueVars, callerVars
<1>4. Exclusive => ignoredResponses = 0
  BY <1>1 DEF QInv, MultiState
<1>5. DOMAIN requestQueue = frontSequence .. nextSequence - 1
  BY InMemory
<1>6. CASE Exclusive /\ nextToWrite > nextToAcknowledge
  <2> DEFINE n == nextToWrite - nextToAcknowledge
  <2>1. Discard(n)
    BY <1>6 DEF FetchRequest, Exclusive
  <2>2. n \in Nat
    BY <1>1, <1>6
  <2>3. /\ nextToAcknowledge' = nextToWrite
        /\ requestQueue' = [s \in nextToWrite - 1 .. nextSequence - 1 |-> requestQueue[s]]
    <3>1. /\ nextToAcknowledge + n = nextToWrite
          /\ frontSequence + n = nextToWrite - 1
      BY <1>1
    <3> QED BY <2>1, <3>1 DEF Discard
  <2>4. LastLeft' = LastLeft + n
    <3>1. LastLeft' = staged - (nextSequence - nextToWrite)
      BY <1>3, <2>3 DEF LastLeft, UnacknowledgedCount
    <3> QED BY <1>1, <3>1
  <2>5. found => nextToWrite \in DOMAIN requestQueue'
    BY <1>1, <1>3, <2>3
  <2>6. QueueMoves
    <3>1. \A s \in DOMAIN requestQueue :
            s >= nextToWrite => requestQueue'[s] = requestQueue[s]
      BY <1>1, <1>5, <2>3
    <3>2. /\ LastLeft' \in Nat /\ LastLeft <= LastLeft'
          /\ LastLeft' - nextToWrite = LastLeft - nextToAcknowledge
      BY <1>1, <2>2, <2>4
    <3>3. /\ nextToAcknowledge' = nextToWrite /\ nextToWrite \in Nat
          /\ staged' \in Nat /\ staged <= staged'
      BY <1>1, <1>3, <2>3
    <3> QED BY <3>1, <3>2, <3>3 DEF QueueMoves
  <2>7. LastLeft' + (nextToWrite - nextToAcknowledge') =
          LastLeft + (nextToWrite - nextToAcknowledge)
    BY <1>1, <2>3, <2>4
  <2> QED BY <1>2, <1>3, <1>4, <1>6, <2>3, <2>5, <2>6, <2>7
<1>7. CASE ~(Exclusive /\ nextToWrite > nextToAcknowledge)
  <2>1. UNCHANGED <<queueVars, nextToAcknowledge>>
    BY <1>7 DEF FetchRequest, Exclusive
  <2>2. LastLeft' = LastLeft
    BY <1>3, <2>1 DEF LastLeft, UnacknowledgedCount
  <2>3. QueueMoves
    BY <1>1, <1>3, <2>1, <2>2 DEF QueueMoves, queueVars
  <2>4. found => nextToWrite \in DOMAIN requestQueue'
    <3>1. found => nextToWrite \in frontSequence .. nextSequence - 1
      BY <1>1, <1>2, <1>3
    <3> QED BY <1>5, <2>1, <3>1 DEF queueVars
  <2> QED BY <1>2, <1>3, <1>4, <2>1, <2>2, <2>3, <2>4
<1> QED BY <1>6, <1>7

LEMMA TakeRequestStep ==
  ASSUME QInv, NEW found \in BOOLEAN, Others, UNCHANGED streamVars,
         writerPc = "request", FetchRequest(found),
         writing' = IF found THEN [kind |-> "request", sequence |-> nextToWrite]
                    ELSE Nothing,
         writerPc' = IF found THEN "send" ELSE "loop",
         UNCHANGED <<bytesWritten, accepted, canWrite>>
  PROVE  [Next]_coreVars /\ QInv'
<1>1. /\ Running /\ Running' /\ writing = Nothing /\ bytesWritten = 0
      /\ WriterState /\ canWrite /\ ~inHandshake
  BY DEF Running, QInv, WriterState, HandshakeState
<1>2. Nothing \in Items /\ Nothing.kind = "nothing"
  BY DEF Nothing, Items
<1>3. UNCHANGED <<wire, peerClosed>>
  BY DEF streamVars
<1>4. [Next]_coreVars
  BY <1>1 DEF Next, WriterStep
<1>5. IInv' /\ StagedBound'
  BY <1>4, NextIInv, StagedBoundStep DEF QInv
<1>6. UNCHANGED <<inHandshake, handshakeStaged, handshakeIterator, handshakeValidated,
                  ignoredResponses, staged, messages>>
  BY DEF FetchRequest, handshakeVars, callerVars
<1>7. /\ nextToWrite' = (IF found THEN nextToWrite + 1 ELSE nextToWrite)
      /\ found => nextToWrite \in DOMAIN requestQueue'
      /\ LastLeft' + (nextToWrite - nextToAcknowledge') =
           LastLeft + (nextToWrite - nextToAcknowledge)
      /\ QueueMoves
      /\ IF Exclusive
         THEN /\ ignoredResponses = 0
              /\ nextToAcknowledge' = nextToWrite \/ LastLeft' = LastLeft
         ELSE UNCHANGED <<queueVars, nextToAcknowledge>>
  BY <1>1, FetchedRequest
<1>8. /\ nextToWrite \in Nat /\ nextToAcknowledge \in Nat /\ LastLeft \in Nat
      /\ nextToAcknowledge' \in Nat /\ LastLeft' \in Nat
  BY <1>7, Numbers DEF QueueMoves
<1>9. UnitsSent' = 0
  BY <1>1 DEF UnitsSent
<1>10. found => LengthOf(writing)' \in Nat /\ LengthOf(writing)' > 0
  <2>1. found => requestQueue'[nextToWrite].multiSize \in Nat
    <3>1. requestQueue' \in [DOMAIN requestQueue' -> StagedRequest]
      BY <1>5 DEF IInv, TypeOK
    <3> QED BY <1>7, <3>1 DEF StagedRequest
  <2> QED BY <2>1 DEF LengthOf
<1>11. Unfinished' <=> found
  BY <1>2, <1>9, <1>10 DEF Unfinished
<1>12. WriterState'
  <2>1. found => /\ writing'.kind = "request" /\ writing' \in Items /\ writing' # Nothing
                 /\ writing'.sequence = nextToWrite' - 1
                 /\ writing'.sequence \in DOMAIN requestQueue'
    BY <1>7, <1>8 DEF Items, Nothing
  <2>2. found => bytesWritten' < LengthOf(writing)'
    BY <1>1, <1>10
  <2> QED BY <1>1, <1>2, <2>1, <2>2 DEF WriterState
<1>13. PlaceKept
  <2>1. ~Unfinished
    BY <1>1, <1>2 DEF Unfinished
  <2>2. WriteId = LastLeft + (nextToWrite - nextToAcknowledge) + 1 /\ WriteIndex = 0
    BY <2>1, Place
  <2>3. WriteIndex' = 0
    BY <1>9 DEF WriteIndex
  <2>4. CASE found
    <3>1. WriteId' = LastLeft' + (nextToWrite' - nextToAcknowledge')
      BY <1>7, <1>8, <1>11, <2>4 DEF WriteId
    <3>2. /\ nextToWrite' = nextToWrite + 1
          /\ LastLeft' + (nextToWrite - nextToAcknowledge') =
               LastLeft + (nextToWrite - nextToAcknowledge)
      BY <1>7, <2>4
    <3>3. WriteId' = WriteId
      <4> DEFINE l == LastLeft'
                 a == nextToAcknowledge'
      <4>1. /\ l \in Nat /\ a \in Nat
            /\ l + (nextToWrite - a) = LastLeft + (nextToWrite - nextToAcknowledge)
            /\ WriteId' = l + ((nextToWrite + 1) - a)
        BY <1>8, <3>1, <3>2
      <4> HIDE DEF l, a
      <4> QED BY <1>8, <2>2, <4>1
    <3> QED BY <1>1, <2>2, <2>3, <3>3 DEF PlaceKept
  <2>5. CASE ~found
    <3>1. WriteId' = LastLeft' + (nextToWrite' - nextToAcknowledge') + 1
      BY <1>7, <1>8, <1>11, <2>5 DEF WriteId
    <3> QED BY <1>1, <1>7, <1>8, <2>2, <2>3, <2>5, <3>1 DEF PlaceKept
  <2> QED BY <2>4, <2>5
<1>14. Stream' = Stream /\ Arriving' = Arriving
  BY <1>3, OthersRest DEF Stream, Arriving
<1>15. StreamKept
  <2>1. Len(Stream) \in Nat /\ received \in Seq(Units) /\ wire \in Seq(Units)
    BY StreamFacts
  <2> QED BY <1>3, <1>14, <2>1, OthersRest DEF StreamKept
<1>16. StreamTypes' /\ StreamOrder'
  BY <1>6, <1>7, <1>15, TypesMoved, OrderKept
<1>17. StreamEnd'
  <2>1. NotAfter(LastLeft + 1, ignoredResponses, WriteId, WriteIndex)
    BY <1>1 DEF QInv, StreamEnd
  <2>2. CASE LastLeft' = LastLeft
    BY <1>6, <1>13, <1>15, <2>2, EndKept
  <2>3. CASE Exclusive /\ nextToAcknowledge' = nextToWrite
    <3>1. ~Unfinished
      BY <1>1, <1>2 DEF Unfinished
    <3>2. LastLeft' + 1 = WriteId /\ ignoredResponses' = 0 /\ WriteIndex = 0
      <4>1. /\ LastLeft' + (nextToWrite - nextToAcknowledge') =
                 LastLeft + (nextToWrite - nextToAcknowledge)
            /\ nextToAcknowledge' = nextToWrite /\ ignoredResponses' = 0
        BY <1>6, <1>7, <2>3
      <4>2. WriteId = LastLeft + (nextToWrite - nextToAcknowledge) + 1 /\ WriteIndex = 0
        BY <3>1, Place
      <4>3. LastLeft' = LastLeft + (nextToWrite - nextToAcknowledge)
        <5> DEFINE l == LastLeft'
        <5>1. l \in Nat /\ l + (nextToWrite - nextToWrite) =
                            LastLeft + (nextToWrite - nextToAcknowledge)
          BY <1>8, <4>1
        <5> HIDE DEF l
        <5>2. l = LastLeft + (nextToWrite - nextToAcknowledge)
          BY <1>8, <5>1
        <5> QED BY <5>2 DEF l
      <4> QED BY <4>1, <4>2, <4>3
    <3>3. NotAfter(LastLeft' + 1, ignoredResponses', WriteId, WriteIndex)
      BY <3>2 DEF NotAfter
    <3> QED BY <1>13, <1>15, <3>3, EndMoved
  <2>4. CASE ~Exclusive
    BY <1>6, <1>7, <2>2, <2>4 DEF LastLeft, UnacknowledgedCount, queueVars
  <2> QED BY <1>7, <2>2, <2>3, <2>4
<1>18. AnswerState'
  <2>1. CASE Exclusive
    <3>1. \A n \in 0 .. Len(received) : Level(n)'
      BY <2>1 DEF Level, Exclusive
    <3> QED BY <1>3, <1>6, <3>1, OthersRest, AnswersMoved
  <2>2. CASE ~Exclusive
    <3>1. LastLeft' = LastLeft
      BY <1>6, <1>7, <2>2 DEF LastLeft, UnacknowledgedCount, queueVars
    <3> QED BY <1>3, <1>6, <1>13, <1>15, <3>1, OthersRest, AnswersKept
  <2> QED BY <2>1, <2>2
<1>19. MultiState'
  <2>1. CASE Exclusive
    BY <1>6, <1>7, <2>1 DEF MultiState
  <2>2. CASE ~Exclusive
    BY <1>6, <1>7, <2>2
    DEF QInv, MultiState, HasArrived, ToAcknowledge, Exclusive, queueVars
  <2> QED BY <2>1, <2>2
<1>20. HandshakeState'
  <2>1. HandshakesSent' = HandshakesSent
    BY <1>1, <1>2, <1>6 DEF HandshakesSent
  <2>2. Len(Stream) \in Nat
    BY StreamFacts
  <2> QED BY <1>1, <1>3, <1>6, <1>14, <2>1 DEF QInv, HandshakeState
<1>21. PushBound'
  BY <1>6, <1>14 DEF QInv, PushBound
<1>22. FreshState'
  BY <1>1, <1>3, OthersRest DEF QInv, FreshState
<1> QED BY <1>4, <1>5, <1>12, <1>16, <1>17, <1>18, <1>19, <1>20, <1>21, <1>22 DEF QInv

LEMMA WriterTakeStep ==
  ASSUME QInv, WriterTake, Others
  PROVE  [Next]_coreVars /\ QInv'
BY TakeHandshakeStep, TakeRequestStep DEF WriterTake

LEMMA Later ==
  ASSUME NEW a \in Int, NEW i \in Int, NEW b \in Int, NEW j \in Int,
         NEW c \in Int, NEW k \in Int, NotAfter(a, i, b, j), NotAfter(b, j, c, k)
  PROVE  NotAfter(a, i, c, k)
BY DEF NotAfter

\* A step of the writer that puts units on the wire
LEMMA SendRest ==
  ASSUME QInv, UNCHANGED coreVars, Running, Others, UNCHANGED peerClosed,
         WriterState', HandshakeState', StreamTypes', StreamOrder', StreamEnd',
         \A n \in 0 .. Len(received) : Level(n) => Level(n)'
  PROVE  [Next]_coreVars /\ QInv'
<1>1. [Next]_coreVars
  OBVIOUS
<1>2. IInv' /\ StagedBound'
  BY <1>1, NextIInv, StagedBoundStep DEF QInv
<1>3. /\ UNCHANGED <<queueVars, iteratorVars, staged, messages>>
      /\ UNCHANGED handshakeValidated
  BY DEF coreVars, callerVars, handshakeVars
<1>4. MultiState'
  BY <1>3, QueueUntouched, MultiKept
<1>5. AnswerState'
  BY <1>3, OthersRest, AnswersMoved
<1>6. PushBound'
  BY <1>3, OthersRest DEF QInv, PushBound, Arriving
<1>7. FreshState'
  BY OthersRest DEF QInv, FreshState
<1> QED BY <1>1, <1>2, <1>4, <1>5, <1>6, <1>7 DEF QInv

LEMMA UnitsAppended ==
  ASSUME QInv, received' = received, NEW units \in Seq(Units), wire' = wire \o units
  PROVE  /\ received' \in Seq(Units) /\ wire' \in Seq(Units)
         /\ Len(Stream') = Len(Stream) + Len(units)
         /\ \A i \in 1 .. Len(Stream) : Stream'[i] = Stream[i]
         /\ \A i \in 1 .. Len(units) : Stream'[Len(Stream) + i] = units[i]
<1>1. received \in Seq(Units) /\ wire \in Seq(Units) /\ Stream \in Seq(Units)
  BY StreamFacts
<1>2. wire' \in Seq(Units)
  BY <1>1, Concatenated
<1>3. Stream' = Stream \o units
  BY <1>1, ConcatAssociative DEF Stream
<1>4. /\ Len(Stream \o units) = Len(Stream) + Len(units)
      /\ \A i \in 1 .. Len(Stream) : (Stream \o units)[i] = Stream[i]
      /\ \A i \in 1 .. Len(units) : (Stream \o units)[Len(Stream) + i] = units[i]
  BY <1>1, Concatenated
<1> QED BY <1>1, <1>2, <1>3, <1>4

LEMMA SendFacts ==
  ASSUME QInv, writerPc = "send", NEW n \in 1 .. LengthOf(writing) - bytesWritten
  PROVE  /\ Running /\ canWrite /\ writing # Nothing /\ writing \in Items
         /\ bytesWritten \in Nat /\ n \in Nat /\ n > 0
         /\ LengthOf(writing) \in Nat /\ bytesWritten + n <= LengthOf(writing)
         /\ UnitsSent = bytesWritten
         /\ writing.kind \in {"handshake", "request"}
         /\ writing.kind = "handshake" => bytesWritten = 0 /\ n = 1 /\ LengthOf(writing) = 1
         /\ writing.kind = "request" =>
              /\ Unfinished /\ ~inHandshake
              /\ writing.sequence = nextToWrite - 1
              /\ nextToWrite > nextToAcknowledge
              /\ writing.sequence \in DOMAIN requestQueue
              /\ requestQueue[writing.sequence].id = WriteId
              /\ LengthOf(writing) = requestQueue[writing.sequence].multiSize + 1
              /\ WriteIndex = bytesWritten
<1>1. /\ Running /\ canWrite /\ writing # Nothing /\ WriterState
      /\ writing \in Items /\ bytesWritten \in Nat
  BY DEF Running, QInv, WriterState
<1>2. UnitsSent = bytesWritten
  BY <1>1 DEF UnitsSent
<1>3. writing.kind \in {"handshake", "request"}
  BY <1>1, WritingFacts
<1>4. ASSUME writing.kind = "handshake"
      PROVE  bytesWritten = 0 /\ n = 1 /\ LengthOf(writing) = 1
  <2>1. LengthOf(writing) = 1
    BY <1>4 DEF LengthOf
  <2>2. bytesWritten = 0
    BY <1>1, <1>4 DEF WriterState
  <2> QED BY <2>1, <2>2
<1>5. ASSUME writing.kind = "request"
      PROVE  /\ Unfinished /\ ~inHandshake
             /\ writing.sequence = nextToWrite - 1
             /\ nextToWrite > nextToAcknowledge
             /\ writing.sequence \in DOMAIN requestQueue
             /\ requestQueue[writing.sequence].id = WriteId
             /\ LengthOf(writing) = requestQueue[writing.sequence].multiSize + 1
             /\ requestQueue[writing.sequence].multiSize \in Nat
             /\ WriteIndex = bytesWritten
  <2>1. /\ writing.sequence = nextToWrite - 1
        /\ writing.sequence \in DOMAIN requestQueue
        /\ bytesWritten < LengthOf(writing)
    BY <1>1, <1>5 DEF WriterState
  <2>2. Unfinished
    BY <1>2, <1>5, <2>1 DEF Unfinished
  <2>3. /\ WriteId = LastLeft + (nextToWrite - nextToAcknowledge)
        /\ WriteIndex = bytesWritten
    BY <1>2, <2>2, Place
  <2>4. NotAfter(LastLeft + 1, ignoredResponses, WriteId, WriteIndex)
    BY <1>1 DEF QInv, StreamEnd
  <2>5. /\ nextToWrite \in Nat /\ nextToAcknowledge \in Nat /\ nextSequence \in Nat
        /\ LastLeft \in Nat /\ nextToWrite <= nextSequence
    BY Numbers
  <2>6. nextToWrite > nextToAcknowledge
    BY <2>3, <2>4, <2>5 DEF NotAfter
  <2>7. nextToWrite - 1 \in nextToAcknowledge .. nextSequence - 1
    BY <2>5, <2>6
  <2>8. /\ requestQueue[nextToWrite - 1].id =
             LastLeft + 1 + ((nextToWrite - 1) - nextToAcknowledge)
        /\ requestQueue[nextToWrite - 1].multiSize \in Nat
    BY <2>1, <2>7, InMemory
  <2>9. requestQueue[writing.sequence].id = WriteId
    BY <2>1, <2>3, <2>5, <2>8
  <2>10. LengthOf(writing) = requestQueue[writing.sequence].multiSize + 1
    BY <1>5, <2>1, <2>8 DEF LengthOf
  <2>11. ~inHandshake
    BY <1>1, <1>5 DEF QInv, HandshakeState
  <2> QED BY <2>1, <2>2, <2>3, <2>6, <2>8, <2>9, <2>10, <2>11
<1>6. LengthOf(writing) \in Nat
  BY <1>3, <1>4, <1>5
<1>7. n \in Nat /\ n > 0 /\ bytesWritten + n <= LengthOf(writing)
  BY <1>1, <1>6
<1> QED BY <1>1, <1>2, <1>3, <1>4, <1>5, <1>6, <1>7

\* WriterSend for one n
Sends(n) ==
  /\ writerPc = "send" /\ writerPc' = "sent"
  /\ accepted' = n
  /\ n \in 1 .. LengthOf(writing) - bytesWritten
  /\ wire' = IF peerClosed THEN wire
             ELSE wire \o [i \in 1 .. n |-> UnitOf(writing, bytesWritten + i - 1)]
  /\ UNCHANGED <<coreVars, writing, bytesWritten, canWrite, peerClosed>>

LEMMA SentState ==
  ASSUME QInv, NEW n, Sends(n)
  PROVE  /\ WriterState' /\ Running'
         /\ LastLeft' = LastLeft /\ UNCHANGED <<ignoredResponses, staged, requestQueue,
              nextToAcknowledge, inHandshake, handshakeStaged, handshakeIterator,
              handshakeValidated, nextToWrite>>
         /\ writing.kind = "handshake" =>
              /\ WriteId' = WriteId /\ WriteIndex' = WriteIndex
              /\ HandshakesSent' = HandshakesSent + 1
         /\ writing.kind = "request" =>
              /\ HandshakesSent' = HandshakesSent
              /\ IF bytesWritten + n < LengthOf(writing)
                 THEN WriteId' = WriteId /\ WriteIndex' = bytesWritten + n
                 ELSE WriteId' = WriteId + 1 /\ WriteIndex' = 0
<1>1. /\ writerPc = "send" /\ writerPc' = "sent" /\ accepted' = n
      /\ UNCHANGED <<writing, bytesWritten, canWrite>>
  BY DEF Sends
<1>2. /\ LastLeft' = LastLeft
      /\ UNCHANGED <<ignoredResponses, staged, requestQueue, nextToAcknowledge, nextToWrite,
                     inHandshake, handshakeStaged, handshakeIterator, handshakeValidated>>
  BY CoreUntouched DEF Sends, coreVars, handshakeVars, iteratorVars, queueVars, callerVars
<1>3. Running'
  BY <1>1 DEF Running
<1>4. LengthOf(writing)' = LengthOf(writing)
  BY <1>1, <1>2 DEF LengthOf
<1>5. /\ Running /\ canWrite /\ writing # Nothing /\ writing \in Items
      /\ bytesWritten \in Nat /\ n \in Nat /\ n > 0
      /\ LengthOf(writing) \in Nat /\ bytesWritten + n <= LengthOf(writing)
      /\ writing.kind \in {"handshake", "request"}
      /\ writing.kind = "handshake" => bytesWritten = 0 /\ n = 1 /\ LengthOf(writing) = 1
      /\ writing.kind = "request" =>
           /\ writing.sequence = nextToWrite - 1
           /\ writing.sequence \in DOMAIN requestQueue
  BY SendFacts DEF Sends
<1>6. WriterState'
  BY <1>1, <1>2, <1>4, <1>5 DEF WriterState
<1>7. UnitsSent' = bytesWritten + n
  BY <1>1 DEF UnitsSent
<1>8. ASSUME writing.kind = "handshake"
      PROVE  /\ WriteId' = WriteId /\ WriteIndex' = WriteIndex
             /\ HandshakesSent' = HandshakesSent + 1
  <2>1. ~Unfinished /\ ~Unfinished'
    BY <1>1, <1>8 DEF Unfinished
  <2>2. handshakeIterator \in Nat
    BY Numbers
  <2>3. HandshakesSent = handshakeIterator - 1 /\ HandshakesSent' = handshakeIterator
    BY <1>1, <1>2, <1>8, <2>2 DEF HandshakesSent
  <2> QED BY <1>2, <2>1, <2>2, <2>3 DEF WriteId, WriteIndex
<1>9. ASSUME writing.kind = "request"
      PROVE  /\ HandshakesSent' = HandshakesSent
             /\ IF bytesWritten + n < LengthOf(writing)
                THEN WriteId' = WriteId /\ WriteIndex' = bytesWritten + n
                ELSE WriteId' = WriteId + 1 /\ WriteIndex' = 0
  <2>1. HandshakesSent' = HandshakesSent
    BY <1>1, <1>2, <1>9 DEF HandshakesSent
  <2>2. Unfinished
    BY <1>9, SendFacts DEF Sends
  <2>3. WriteId = LastLeft + (nextToWrite - nextToAcknowledge)
    BY <2>2, Place
  <2>4. Unfinished' <=> bytesWritten + n < LengthOf(writing)
    BY <1>1, <1>4, <1>7, <1>9 DEF Unfinished
  <2>5. CASE Unfinished'
    <3>1. WriteIndex' = bytesWritten + n
      BY <1>7, <2>5 DEF WriteIndex
    <3>2. WriteId' = WriteId
      BY <1>2, <2>2, <2>5 DEF WriteId
    <3> QED BY <2>1, <2>4, <2>5, <3>1, <3>2
  <2>6. CASE ~Unfinished'
    <3>1. WriteIndex' = 0
      BY <2>6 DEF WriteIndex
    <3>2. WriteId' = LastLeft + (nextToWrite - nextToAcknowledge) + 1
      BY <1>2, <2>6 DEF WriteId
    <3> QED BY <2>1, <2>3, <2>4, <2>6, <3>1, <3>2
  <2> QED BY <2>5, <2>6
<1> QED BY <1>2, <1>3, <1>6, <1>8, <1>9

LEMMA SendsToNobody ==
  ASSUME QInv, NEW n, Sends(n), Others, peerClosed
  PROVE  [Next]_coreVars /\ QInv'
<1>1. wire' = wire /\ UNCHANGED <<coreVars, peerClosed>>
  BY DEF Sends
<1>2. UNCHANGED <<received, eventLoop>> /\ Stream' = Stream
  BY <1>1, OthersRest DEF Stream
<1>3. /\ Running /\ bytesWritten \in Nat /\ n \in Nat /\ n > 0
      /\ writing.kind \in {"handshake", "request"}
      /\ writing.kind = "request" => WriteIndex = bytesWritten /\ ~inHandshake
  BY SendFacts DEF Sends
<1>4. /\ WriterState' /\ Running' /\ LastLeft' = LastLeft
      /\ UNCHANGED <<ignoredResponses, staged, requestQueue, nextToAcknowledge,
                     nextToWrite, inHandshake, handshakeStaged, handshakeIterator,
                     handshakeValidated>>
  BY SentState
<1>5. /\ Len(Stream) \in Nat /\ HandshakeRounds \in Nat /\ handshakeIterator \in Nat
      /\ WriteId \in Int /\ WriteIndex \in Nat /\ LastLeft \in Nat
      /\ ignoredResponses \in Nat /\ handshakeStaged \in Nat
  BY StreamFacts, Numbers, Place
<1>6. NotAfter(WriteId, WriteIndex, WriteId', WriteIndex') /\ WriteId' \in Int /\ WriteIndex' \in Nat
  <2>1. CASE writing.kind = "handshake"
    <3>1. WriteId' = WriteId /\ WriteIndex' = WriteIndex
      BY <2>1, SentState
    <3> QED BY <1>5, <3>1 DEF NotAfter
  <2>2. CASE writing.kind = "request"
    <3>1. \/ WriteId' = WriteId /\ WriteIndex' = bytesWritten + n
          \/ WriteId' = WriteId + 1 /\ WriteIndex' = 0
      BY <2>2, SentState
    <3>2. WriteIndex = bytesWritten
      BY <1>3, <2>2
    <3> QED BY <1>3, <1>5, <3>1, <3>2 DEF NotAfter
  <2> QED BY <1>3, <2>1, <2>2
<1>7. StreamKept
  BY <1>1, <1>2, StreamFacts DEF StreamKept
<1>8. QueueMoves
  BY <1>4, Numbers DEF QueueMoves
<1>9. StreamTypes' /\ StreamOrder'
  BY <1>4, <1>7, <1>8, TypesMoved, OrderKept
<1>10. StreamEnd'
  <2>1. StreamEnd
    BY DEF QInv
  <2>2. NotAfter(LastLeft + 1, ignoredResponses, WriteId', WriteIndex')
    <3>1. NotAfter(LastLeft + 1, ignoredResponses, WriteId, WriteIndex)
      BY <1>3, <2>1 DEF StreamEnd
    <3>2. LastLeft + 1 \in Int /\ ignoredResponses \in Int /\ WriteIndex \in Int /\ WriteIndex' \in Int
      BY <1>5, <1>6
    <3> QED BY <1>5, <1>6, <3>1, <3>2, Later
  <2>3. ASSUME NEW i \in HandshakeRounds + 1 .. Len(Stream)
        PROVE  NotAfter(NextId(Stream[i]), NextIndex(Stream[i]), WriteId', WriteIndex')
    <3>1. NotAfter(NextId(Stream[i]), NextIndex(Stream[i]), WriteId, WriteIndex)
      BY <1>3, <2>1, <2>3 DEF StreamEnd
    <3>2. NextId(Stream[i]) \in Int /\ NextIndex(Stream[i]) \in Int
      <4>1. i \in 1 .. Len(Stream)
        BY <1>5
      <4> QED BY <4>1, StreamFacts
    <3>3. WriteIndex \in Int /\ WriteIndex' \in Int
      BY <1>5, <1>6
    <3> QED BY <1>5, <1>6, <3>1, <3>2, <3>3, Later
  <2> QED BY <1>1, <1>2, <1>4, <2>2, <2>3 DEF StreamEnd, NotAfter
<1>11. \A c \in 0 .. Len(received) : Level(c) => Level(c)'
  BY <1>1, <1>2, <1>4 DEF Level, NotAfter
<1>12. HandshakeState'
  <2>1. HandshakeState
    BY DEF QInv
  <2>2. CASE writing.kind = "handshake"
    <3>1. HandshakesSent' = HandshakesSent + 1 /\ HandshakesSent = handshakeIterator - 1
      <4>1. HandshakesSent = handshakeIterator - 1
        BY <2>2 DEF HandshakesSent, Sends
      <4> QED BY <2>2, <4>1, SentState
    <3>2. handshakeIterator <= HandshakeRounds /\ inHandshake /\ Len(Stream) < handshakeIterator
      BY <1>3, <1>5, <2>1, <3>1 DEF HandshakeState
    <3>3. writing'.kind # "request" /\ writerPc' # "request"
      BY <2>2 DEF Sends
    <3> QED BY <1>1, <1>2, <1>4, <1>5, <2>1, <3>1, <3>2, <3>3 DEF HandshakeState
  <2>3. CASE writing.kind = "request"
    <3>1. HandshakesSent' = HandshakesSent
      BY <2>3, SentState
    <3>2. ~inHandshake
      BY <1>3, <2>3
    <3> QED BY <1>1, <1>2, <1>3, <1>4, <2>1, <3>1, <3>2 DEF HandshakeState
  <2> QED BY <1>3, <2>2, <2>3
<1> QED BY <1>1, <1>3, <1>4, <1>9, <1>10, <1>11, <1>12, SendRest

LEMMA SendsHandshake ==
  ASSUME QInv, NEW n, Sends(n), Others, ~peerClosed, writing.kind = "handshake"
  PROVE  [Next]_coreVars /\ QInv'
<1> DEFINE units == [i \in 1 .. n |-> UnitOf(writing, bytesWritten + i - 1)]
<1>1. /\ UNCHANGED <<coreVars, peerClosed>> /\ UNCHANGED <<received, eventLoop>>
      /\ wire' = wire \o units
  BY OthersRest DEF Sends
<1>2. /\ Running /\ bytesWritten = 0 /\ n = 1 /\ LengthOf(writing) = 1
      /\ writing \in Items
  BY SendFacts DEF Sends
<1>3. /\ WriterState' /\ Running' /\ LastLeft' = LastLeft
      /\ UNCHANGED <<ignoredResponses, staged, requestQueue, nextToAcknowledge,
                     nextToWrite, inHandshake, handshakeStaged, handshakeIterator,
                     handshakeValidated>>
      /\ WriteId' = WriteId /\ WriteIndex' = WriteIndex
      /\ HandshakesSent' = HandshakesSent + 1
  BY SentState
<1>4. units = <<[kind |-> "handshake", id |-> writing.sequence, index |-> 0, last |-> 0]>>
  BY <1>2 DEF UnitOf
<1>5. /\ units \in Seq(Units) /\ Len(units) = 1
      /\ units[1].kind = "handshake" /\ units[1].index = 0 /\ units[1].last = 0
  BY <1>2, <1>4 DEF Units, Items
<1> HIDE DEF units
<1>6. /\ received' \in Seq(Units) /\ wire' \in Seq(Units)
      /\ Len(Stream') = Len(Stream) + 1
      /\ \A i \in 1 .. Len(Stream) : Stream'[i] = Stream[i]
      /\ Stream'[Len(Stream) + 1] = units[1]
  <2>1. wire' = wire \o units /\ received' = received /\ units \in Seq(Units)
    BY <1>1, <1>5
  <2>2. /\ received' \in Seq(Units) /\ wire' \in Seq(Units)
        /\ Len(Stream') = Len(Stream) + Len(units)
        /\ \A i \in 1 .. Len(Stream) : Stream'[i] = Stream[i]
        /\ \A i \in 1 .. Len(units) : Stream'[Len(Stream) + i] = units[i]
    BY <2>1, UnitsAppended
  <2> QED BY <1>5, <2>2
<1>7. /\ Len(Stream) \in Nat /\ HandshakeRounds \in Nat /\ handshakeIterator \in Nat
      /\ handshakeStaged \in Nat
  BY StreamFacts, Numbers
<1>8. /\ handshakeIterator <= HandshakeRounds /\ inHandshake
      /\ HandshakesSent = handshakeIterator - 1 /\ Len(Stream) = handshakeIterator - 1
  <2>1. HandshakesSent = handshakeIterator - 1
    BY DEF HandshakesSent, Sends
  <2>2. HandshakeState
    BY DEF QInv
  <2> QED BY <1>2, <1>7, <2>1, <2>2 DEF HandshakeState
<1>9. Len(Stream') <= HandshakeRounds
  BY <1>6, <1>7, <1>8
<1>10. StreamTypes'
  <2>1. ASSUME NEW i \in 1 .. Len(Stream')
        PROVE  /\ i <= HandshakeRounds
               /\ Stream'[i].kind = "handshake" /\ Stream'[i].index = 0 /\ Stream'[i].last = 0
    <3>1. CASE i \in 1 .. Len(Stream)
      BY <1>6, <1>7, <1>9, <3>1 DEF QInv, StreamTypes
    <3>2. CASE i = Len(Stream) + 1
      BY <1>5, <1>6, <1>7, <1>9, <3>2
    <3> QED BY <1>6, <1>7, <3>1, <3>2
  <2> QED BY <1>6, <1>7, <1>9, <2>1 DEF StreamTypes
<1>11. StreamOrder'
  BY <1>6, <1>7, <1>9 DEF StreamOrder
<1>12. StreamEnd'
  BY <1>1, <1>2, <1>3, <1>6, <1>7, <1>9 DEF QInv, StreamEnd, NotAfter
<1>13. \A c \in 0 .. Len(received) : Level(c) => Level(c)'
  BY <1>3, <1>8 DEF Level
<1>14. HandshakeState'
  <2>1. HandshakeState
    BY DEF QInv
  <2>2. writing'.kind # "request" /\ writerPc' # "request"
    BY DEF Sends
  <2> QED BY <1>1, <1>3, <1>6, <1>7, <1>8, <2>1, <2>2 DEF HandshakeState
<1> QED BY <1>1, <1>2, <1>3, <1>10, <1>11, <1>12, <1>13, <1>14, SendRest

LEMMA SendsRequest ==
  ASSUME QInv, NEW n, Sends(n), Others, ~peerClosed, writing.kind = "request"
  PROVE  [Next]_coreVars /\ QInv'
<1> DEFINE units == [i \in 1 .. n |-> UnitOf(writing, bytesWritten + i - 1)]
           last == requestQueue[writing.sequence].multiSize
<1>1. /\ UNCHANGED <<coreVars, peerClosed>> /\ UNCHANGED <<received, eventLoop>>
      /\ wire' = wire \o units
  BY OthersRest DEF Sends
<1>2. /\ Running /\ bytesWritten \in Nat /\ n \in Nat /\ n > 0
      /\ bytesWritten + n <= last + 1 /\ ~inHandshake
      /\ LengthOf(writing) = last + 1
      /\ requestQueue[writing.sequence].id = WriteId
      /\ writing.sequence = nextToWrite - 1 /\ nextToWrite > nextToAcknowledge
      /\ writing.sequence \in DOMAIN requestQueue
      /\ WriteIndex = bytesWritten /\ Unfinished
  BY SendFacts DEF Sends
<1>3. /\ WriterState' /\ Running' /\ LastLeft' = LastLeft
      /\ UNCHANGED <<ignoredResponses, staged, requestQueue, nextToAcknowledge,
                     nextToWrite, inHandshake, handshakeStaged, handshakeIterator,
                     handshakeValidated>>
      /\ HandshakesSent' = HandshakesSent
      /\ IF bytesWritten + n < last + 1
         THEN WriteId' = WriteId /\ WriteIndex' = bytesWritten + n
         ELSE WriteId' = WriteId + 1 /\ WriteIndex' = 0
  BY <1>2, SentState
<1>4. /\ last \in Nat /\ WriteId \in 1 .. staged /\ WriteId > LastLeft
      /\ SequenceOf(WriteId) = writing.sequence /\ WriteId \in Nat
  <2>1. /\ nextToWrite \in Nat /\ nextToAcknowledge \in Nat /\ nextSequence \in Nat
        /\ nextToWrite <= nextSequence /\ staged \in Nat /\ LastLeft \in Nat
        /\ LastLeft = staged - (nextSequence - nextToAcknowledge)
    BY Numbers
  <2>2. WriteId = LastLeft + (nextToWrite - nextToAcknowledge)
    BY <1>2, Place
  <2>3. last \in Nat
    BY <1>2, InMemory
  <2>4. SequenceOf(WriteId) = nextToWrite - 1
    BY <2>1, <2>2 DEF SequenceOf
  <2>5. WriteId <= staged /\ WriteId > LastLeft /\ WriteId \in Nat
    BY <1>2, <2>1, <2>2
  <2> QED BY <1>2, <2>1, <2>3, <2>4, <2>5
<1>5. \A i \in 1 .. n :
        units[i] = [kind |-> "request", id |-> WriteId,
                    index |-> bytesWritten + i - 1, last |-> last]
  <2>1. LengthOf(writing) - 1 = last
    BY <1>2, <1>4
  <2> QED BY <1>2, <2>1 DEF UnitOf
<1>6. units \in Seq(Units) /\ Len(units) = n
  <2>1. ASSUME NEW i \in 1 .. n
        PROVE  units[i] \in Units
    <3> HIDE DEF units, last
    <3>1. bytesWritten + i - 1 \in Nat
      BY <1>2
    <3>2. units[i] = [kind |-> "request", id |-> WriteId,
                      index |-> bytesWritten + i - 1, last |-> last]
      BY <1>5
    <3>3. WriteId \in Nat /\ last \in Nat
      BY <1>4
    <3> QED BY <3>1, <3>2, <3>3 DEF Units
  <2>2. units = [i \in 1 .. n |-> units[i]]
    OBVIOUS
  <2> HIDE DEF units
  <2> QED BY <1>2, <2>1, <2>2
<1> HIDE DEF units, last
<1>7. /\ received' \in Seq(Units) /\ wire' \in Seq(Units)
      /\ Len(Stream') = Len(Stream) + n
      /\ \A i \in 1 .. Len(Stream) : Stream'[i] = Stream[i]
      /\ \A i \in 1 .. n :
           Stream'[Len(Stream) + i] = [kind |-> "request", id |-> WriteId,
                                       index |-> bytesWritten + i - 1, last |-> last]
  <2>1. wire' = wire \o units /\ received' = received /\ units \in Seq(Units)
    BY <1>1, <1>6
  <2>2. /\ received' \in Seq(Units) /\ wire' \in Seq(Units)
        /\ Len(Stream') = Len(Stream) + Len(units)
        /\ \A i \in 1 .. Len(Stream) : Stream'[i] = Stream[i]
        /\ \A i \in 1 .. Len(units) : Stream'[Len(Stream) + i] = units[i]
    BY <2>1, UnitsAppended
  <2> QED BY <1>5, <1>6, <2>2
<1>8. Len(Stream) \in Nat /\ HandshakeRounds \in Nat /\ Len(Stream) >= HandshakeRounds
  BY <1>1, <1>2, StreamFacts, Numbers DEF QInv, HandshakeState
<1> DEFINE k == Len(Stream)
<1>9. ASSUME NEW i \in 1 .. Len(Stream')
      PROVE  \/ i \in 1 .. k /\ Stream'[i] = Stream[i]
             \/ /\ i > k /\ i - k \in 1 .. n
                /\ Stream'[i].kind = "request" /\ Stream'[i].id = WriteId
                /\ Stream'[i].index = bytesWritten + (i - k) - 1
                /\ Stream'[i].last = last
  <2>1. CASE i <= k
    BY <1>7, <1>8, <2>1
  <2>2. CASE i > k
    <3>1. i - k \in 1 .. n /\ k + (i - k) = i
      BY <1>2, <1>7, <1>8, <2>2
    <3>2. Stream'[k + (i - k)] = [kind |-> "request", id |-> WriteId,
                                  index |-> bytesWritten + (i - k) - 1, last |-> last]
      BY <1>7, <3>1
    <3> QED BY <2>2, <3>1, <3>2
  <2> QED BY <1>8, <2>1, <2>2
<1>10. StreamTypes'
  <2>1. ASSUME NEW i \in 1 .. Len(Stream')
        PROVE  IF i <= HandshakeRounds
               THEN /\ Stream'[i].kind = "handshake" /\ Stream'[i].index = 0
                    /\ Stream'[i].last = 0
               ELSE /\ Stream'[i].kind = "request"
                    /\ Stream'[i].id \in 1 .. staged
                    /\ Stream'[i].index <= Stream'[i].last
                    /\ Stream'[i].id > LastLeft =>
                         Stream'[i].last = requestQueue[SequenceOf(Stream'[i].id)].multiSize
    <3>1. CASE i \in 1 .. k /\ Stream'[i] = Stream[i]
      BY <3>1 DEF QInv, StreamTypes
    <3>2. CASE /\ i > k /\ i - k \in 1 .. n
               /\ Stream'[i].kind = "request" /\ Stream'[i].id = WriteId
               /\ Stream'[i].index = bytesWritten + (i - k) - 1
               /\ Stream'[i].last = last
      <4>1. i > HandshakeRounds /\ bytesWritten + (i - k) - 1 <= last
        BY <1>2, <1>4, <1>8, <3>2
      <4>2. last = requestQueue[SequenceOf(WriteId)].multiSize
        BY <1>4 DEF last
      <4> QED BY <1>4, <1>8, <3>2, <4>1, <4>2
    <3> QED BY <1>9, <3>1, <3>2
  <2>2. ASSUME NEW i \in 1 .. Len(Stream')
        PROVE  SequenceOf(Stream'[i].id) =
                 nextToAcknowledge' + (Stream'[i].id - (LastLeft' + 1))
    BY <1>3 DEF SequenceOf
  <2> QED BY <1>2, <1>3, <1>7, <2>1, <2>2 DEF StreamTypes, SequenceOf
<1>11. ASSUME NEW i \in k + 1 .. Len(Stream')
       PROVE  IF bytesWritten + (i - k) - 1 = last
              THEN NextId(Stream'[i]) = WriteId + 1 /\ NextIndex(Stream'[i]) = 0
              ELSE /\ NextId(Stream'[i]) = WriteId
                   /\ NextIndex(Stream'[i]) = bytesWritten + (i - k)
  <2>1. /\ Stream'[i].id = WriteId
        /\ Stream'[i].index = bytesWritten + (i - k) - 1
        /\ Stream'[i].last = last
    <3>1. i \in 1 .. Len(Stream') /\ ~(i \in 1 .. k)
      BY <1>8
    <3> QED BY <1>9, <3>1
  <2>2. (bytesWritten + (i - k) - 1) + 1 = bytesWritten + (i - k)
    BY <1>2, <1>8
  <2> QED BY <2>1, <2>2 DEF NextId, NextIndex
<1>12. StreamEnd /\ StreamOrder
  BY DEF QInv
<1>13. k + n \in Nat /\ Len(Stream') = k + n
  BY <1>2, <1>7, <1>8
<1>14. ASSUME NEW i \in HandshakeRounds + 1 .. k
       PROVE  /\ NotAfter(NextId(Stream[i]), NextIndex(Stream[i]), WriteId, bytesWritten)
              /\ NextId(Stream[i]) \in Nat /\ NextIndex(Stream[i]) \in Nat
              /\ Stream'[i] = Stream[i]
  <2>1. i \in 1 .. Len(Stream)
    BY <1>8
  <2>2. NextId(Stream[i]) \in Nat /\ NextIndex(Stream[i]) \in Nat
    BY <2>1, StreamFacts
  <2> QED BY <1>2, <1>7, <1>12, <2>1, <2>2 DEF StreamEnd
<1>15. StreamOrder'
  <2>1. Len(Stream') > HandshakeRounds => Stream'[HandshakeRounds + 1].index = 0
    <3>1. CASE k > HandshakeRounds
      <4>1. HandshakeRounds + 1 \in 1 .. k
        BY <1>8, <3>1
      <4> QED BY <1>7, <1>12, <3>1, <4>1 DEF StreamOrder
    <3>2. CASE k = HandshakeRounds
      <4>1. bytesWritten = 0
        BY <1>2, <1>12, <3>2 DEF StreamEnd
      <4>2. k + 1 \in 1 .. Len(Stream') /\ (k + 1) - k = 1 /\ ~(k + 1 \in 1 .. k)
        BY <1>2, <1>8, <1>13
      <4>3. Stream'[k + 1].index = bytesWritten + 1 - 1
        BY <1>9, <4>2
      <4> QED BY <3>2, <4>1, <4>3
    <3> QED BY <1>8, <3>1, <3>2
  <2>2. ASSUME NEW i \in HandshakeRounds + 1 .. Len(Stream'), i < Len(Stream')
        PROVE  /\ Stream'[i + 1].id = NextId(Stream'[i])
               /\ Stream'[i + 1].index = NextIndex(Stream'[i])
    <3>1. CASE i < k
      <4>1. i \in 1 .. k /\ i + 1 \in 1 .. k /\ i \in HandshakeRounds + 1 .. k
        BY <1>8, <3>1
      <4> QED BY <1>7, <1>12, <3>1, <4>1 DEF StreamOrder
    <3>2. CASE i = k
      <4>1. WriteId = NextId(Stream[k]) /\ bytesWritten = NextIndex(Stream[k])
        BY <1>2, <1>8, <1>12, <3>2 DEF StreamEnd
      <4>2. k + 1 \in 1 .. Len(Stream') /\ (k + 1) - k = 1 /\ ~(k + 1 \in 1 .. k) /\ k \in 1 .. k
        BY <1>2, <1>8, <1>13, <3>2
      <4>3. Stream'[k + 1].index = bytesWritten + 1 - 1 /\ Stream'[k + 1].id = WriteId
        BY <1>9, <4>2
      <4>4. Stream'[k] = Stream[k]
        BY <1>7, <4>2
      <4> QED BY <1>2, <3>2, <4>1, <4>3, <4>4
    <3>3. CASE i > k
      <4>1. /\ i \in k + 1 .. Len(Stream') /\ i + 1 \in k + 1 .. Len(Stream')
            /\ ~(i + 1 \in 1 .. k) /\ (i + 1) - k = (i - k) + 1 /\ i + 1 \in 1 .. Len(Stream')
        BY <1>8, <1>13, <2>2, <3>3
      <4>2. /\ Stream'[i + 1].index = bytesWritten + ((i - k) + 1) - 1
            /\ Stream'[i + 1].id = WriteId
        BY <1>9, <4>1
      <4>3. bytesWritten + (i - k) - 1 # last
        BY <1>2, <1>4, <1>8, <1>13, <2>2, <3>3
      <4>4. NextId(Stream'[i]) = WriteId /\ NextIndex(Stream'[i]) = bytesWritten + (i - k)
        BY <1>11, <4>1, <4>3
      <4>5. bytesWritten + ((i - k) + 1) - 1 = bytesWritten + (i - k)
        BY <1>2, <1>8
      <4> QED BY <4>2, <4>4, <4>5
    <3> QED BY <1>8, <3>1, <3>2, <3>3
  <2>3. ASSUME NEW i \in HandshakeRounds + 1 .. Len(Stream'),
               NEW j \in HandshakeRounds + 1 .. Len(Stream'), i < j
        PROVE  NotAfter(NextId(Stream'[i]), NextIndex(Stream'[i]),
                        Stream'[j].id, Stream'[j].index)
    <3>1. CASE j <= k
      <4>1. /\ i \in HandshakeRounds + 1 .. k /\ j \in HandshakeRounds + 1 .. k
            /\ i \in 1 .. k /\ j \in 1 .. k
        BY <1>8, <2>3, <3>1
      <4> QED BY <1>7, <1>12, <2>3, <4>1 DEF StreamOrder
    <3>2. CASE j > k
      <4>1. /\ Stream'[j].id = WriteId /\ Stream'[j].index = bytesWritten + (j - k) - 1
            /\ j \in k + 1 .. Len(Stream')
        BY <1>8, <1>9, <3>2
      <4>2. CASE i <= k
        <5>1. i \in HandshakeRounds + 1 .. k
          BY <1>8, <4>2
        <5>2. NotAfter(NextId(Stream[i]), NextIndex(Stream[i]), WriteId, bytesWritten)
          BY <1>14, <5>1
        <5>3. NextId(Stream[i]) \in Nat /\ NextIndex(Stream[i]) \in Nat /\ Stream'[i] = Stream[i]
          BY <1>14, <5>1
        <5>4. bytesWritten <= bytesWritten + (j - k) - 1 /\ bytesWritten + (j - k) - 1 \in Nat
          BY <1>2, <1>8, <3>2
        <5>5. NotAfter(NextId(Stream[i]), NextIndex(Stream[i]), WriteId,
                       bytesWritten + (j - k) - 1)
          BY <1>2, <1>4, <5>2, <5>3, <5>4 DEF NotAfter
        <5> QED BY <4>1, <5>3, <5>5
      <4>3. CASE i > k
        <5>1. i \in k + 1 .. Len(Stream') /\ bytesWritten + (i - k) - 1 # last
          BY <1>2, <1>4, <1>8, <1>13, <2>3, <4>3
        <5>2. NextId(Stream'[i]) = WriteId /\ NextIndex(Stream'[i]) = bytesWritten + (i - k)
          BY <1>11, <5>1
        <5>3. bytesWritten + (i - k) <= bytesWritten + (j - k) - 1
          BY <1>2, <1>8, <2>3, <4>3
        <5>4. NotAfter(WriteId, bytesWritten + (i - k), WriteId, bytesWritten + (j - k) - 1)
          BY <5>3 DEF NotAfter
        <5> QED BY <4>1, <5>2, <5>4
      <4> QED BY <1>8, <4>2, <4>3
    <3> QED BY <1>8, <3>1, <3>2
  <2> QED BY <2>1, <2>2, <2>3 DEF StreamOrder, NextId, NextIndex, NotAfter
<1>16. /\ WriteId \in Int /\ bytesWritten \in Int /\ LastLeft + 1 \in Int
       /\ ignoredResponses \in Int
  BY <1>2, <1>4, Numbers
<1>17. /\ NotAfter(WriteId, bytesWritten, WriteId', WriteIndex')
       /\ WriteId' \in Int /\ WriteIndex' \in Int
       /\ bytesWritten + n <= last => WriteId' = WriteId /\ WriteIndex' = bytesWritten + n
       /\ bytesWritten + n = last + 1 => WriteId' = WriteId + 1 /\ WriteIndex' = 0
  <2>1. \/ /\ bytesWritten + n <= last
           /\ WriteId' = WriteId /\ WriteIndex' = bytesWritten + n
        \/ /\ bytesWritten + n = last + 1
           /\ WriteId' = WriteId + 1 /\ WriteIndex' = 0
    BY <1>2, <1>3, <1>4
  <2> QED BY <1>2, <1>4, <2>1 DEF NotAfter
<1>18. NotAfter(LastLeft + 1, ignoredResponses, WriteId, bytesWritten)
  BY <1>2, <1>12 DEF StreamEnd
<1>19. StreamEnd'
  <2>1. NotAfter(LastLeft + 1, ignoredResponses, WriteId', WriteIndex')
    BY <1>16, <1>17, <1>18, Later
  <2>2. ASSUME NEW i \in HandshakeRounds + 1 .. Len(Stream')
        PROVE  NotAfter(NextId(Stream'[i]), NextIndex(Stream'[i]), WriteId', WriteIndex')
    <3>1. CASE i <= k
      <4>1. i \in HandshakeRounds + 1 .. k
        BY <1>8, <3>1
      <4>2. NotAfter(NextId(Stream[i]), NextIndex(Stream[i]), WriteId, bytesWritten)
        BY <1>14, <4>1
      <4>3. NextId(Stream[i]) \in Int /\ NextIndex(Stream[i]) \in Int /\ Stream'[i] = Stream[i]
        BY <1>14, <4>1
      <4>4. NotAfter(NextId(Stream[i]), NextIndex(Stream[i]), WriteId', WriteIndex')
        BY <1>16, <1>17, <4>2, <4>3, Later
      <4> QED BY <4>3, <4>4
    <3>2. CASE i > k
      <4>1. i \in k + 1 .. Len(Stream') /\ i - k \in 1 .. n
        BY <1>2, <1>8, <1>13, <3>2
      <4>2. CASE bytesWritten + (i - k) - 1 = last
        <5>1. NextId(Stream'[i]) = WriteId + 1 /\ NextIndex(Stream'[i]) = 0
          BY <1>11, <4>1, <4>2
        <5>2. bytesWritten + n = last + 1
          BY <1>2, <1>4, <4>1, <4>2
        <5> QED BY <1>17, <5>1, <5>2 DEF NotAfter
      <4>3. CASE bytesWritten + (i - k) - 1 # last
        <5>1. NextId(Stream'[i]) = WriteId /\ NextIndex(Stream'[i]) = bytesWritten + (i - k)
          BY <1>11, <4>1, <4>3
        <5>2. CASE bytesWritten + n <= last
          BY <1>2, <1>17, <4>1, <5>1, <5>2 DEF NotAfter
        <5>3. CASE bytesWritten + n = last + 1
          <6>1. WriteId < WriteId + 1
            BY <1>4
          <6> QED BY <1>17, <5>1, <5>3, <6>1 DEF NotAfter
        <5> QED BY <1>2, <1>4, <5>2, <5>3
      <4> QED BY <4>2, <4>3
    <3> QED BY <1>8, <3>1, <3>2
  <2>3. /\ WriteId' = NextId(Stream'[k + n])
        /\ WriteIndex' = NextIndex(Stream'[k + n])
    <3>1. k + n \in k + 1 .. Len(Stream') /\ (k + n) - k = n
      BY <1>2, <1>8, <1>13
    <3>2. CASE bytesWritten + n = last + 1
      <4>1. bytesWritten + ((k + n) - k) - 1 = last
        BY <1>2, <1>4, <1>8, <3>2
      <4> QED BY <1>11, <1>17, <3>1, <3>2, <4>1
    <3>3. CASE bytesWritten + n <= last
      <4>1. bytesWritten + ((k + n) - k) - 1 # last
        BY <1>2, <1>4, <3>1, <3>3
      <4>2. NextId(Stream'[k + n]) = WriteId /\ NextIndex(Stream'[k + n]) = bytesWritten + n
        BY <1>11, <3>1, <4>1
      <4> QED BY <1>17, <3>3, <4>2
    <3> QED BY <1>2, <1>4, <3>2, <3>3
  <2>4. Len(Stream') = k + n /\ k + n > HandshakeRounds
    BY <1>2, <1>8, <1>13
  <2>5. LastLeft' = LastLeft /\ ignoredResponses' = ignoredResponses
    BY <1>3
  <2>6. ~(Len(Stream') <= HandshakeRounds)
    BY <1>8, <1>13, <2>4
  <2> QED BY <2>1, <2>2, <2>3, <2>4, <2>5, <2>6 DEF StreamEnd, NotAfter, NextId, NextIndex
<1>20. ASSUME NEW c \in 0 .. Len(received), Level(c)
       PROVE  Level(c)'
  <2>1. c \in Nat /\ c <= k /\ (c < k \/ c = k)
    BY StreamFacts
  <2>2. CASE Exclusive
    BY <2>2 DEF Level, Exclusive
  <2>3. CASE ~Exclusive /\ c < k
    <3>1. c + 1 \in 1 .. k /\ c < Len(Stream')
      BY <1>2, <1>8, <1>13, <2>1, <2>3
    <3>2. Stream'[c + 1] = Stream[c + 1]
      BY <1>7, <3>1
    <3>3. /\ NotAfter(LastLeft + 1, ignoredResponses,
                      Stream[c + 1].id, Stream[c + 1].index)
          /\ eventLoop = "reading" =>
               /\ LastLeft + 1 = Stream[c + 1].id
               /\ ignoredResponses = Stream[c + 1].index
      BY <1>2, <1>20, <2>3 DEF Level
    <3> QED BY <1>1, <1>3, <3>1, <3>2, <3>3 DEF Level, NotAfter
  <2>4. CASE ~Exclusive /\ c = k
    <3>1. k + 1 \in 1 .. Len(Stream') /\ (k + 1) - k = 1 /\ ~(k + 1 \in 1 .. k)
          /\ bytesWritten + 1 - 1 = bytesWritten /\ k < Len(Stream')
      BY <1>2, <1>8, <1>13
    <3>2. Stream'[k + 1].index = bytesWritten /\ Stream'[k + 1].id = WriteId
      BY <1>9, <3>1
    <3>3. eventLoop = "reading" => LastLeft + 1 = WriteId /\ ignoredResponses = bytesWritten
      <4>1. ~(k < Len(Stream))
        BY <1>8
      <4> QED BY <1>2, <1>20, <2>4, <4>1 DEF Level
    <3> QED BY <1>1, <1>3, <1>18, <2>4, <3>1, <3>2, <3>3 DEF Level, NotAfter
  <2> QED BY <2>1, <2>2, <2>3, <2>4
<1>21. HandshakeState'
  <2>1. HandshakeState
    BY DEF QInv
  <2>2. HandshakesSent' = HandshakesSent
    BY <1>3
  <2>3. HandshakesSent = HandshakeRounds
    BY <1>2, <2>1 DEF HandshakeState
  <2>4. Len(Stream') >= HandshakeRounds
    BY <1>2, <1>8, <1>13
  <2> QED BY <1>1, <1>2, <1>3, <2>1, <2>2, <2>3, <2>4 DEF HandshakeState
<1> HIDE DEF k
<1> QED BY <1>1, <1>2, <1>3, <1>10, <1>15, <1>19, <1>20, <1>21, SendRest

LEMMA WriterSendStep ==
  ASSUME QInv, WriterSend, Others
  PROVE  [Next]_coreVars /\ QInv'
<1>1. PICK n : Sends(n)
  BY DEF WriterSend, Sends
<1>2. writing.kind \in {"handshake", "request"}
  BY <1>1, SendFacts DEF Sends
<1> QED BY <1>1, <1>2, SendsToNobody, SendsHandshake, SendsRequest

\* Every step of the writer
LEMMA WriterThreadStepKeeps ==
  ASSUME QInv, Writer
  PROVE  [Next]_coreVars /\ QInv'
<1>1. WriterThreadStep /\ Others
  BY DEF Writer, Others
<1> QED BY <1>1, WriterLoopStep, WriterPollStep, WriterTakeStep, WriterSendStep,
           WriterSendFailsStep, WriterSentStep DEF WriterThreadStep

-----------------------------------------------------------------------------
(* The server                                                                *)

LEMMA ServerStep ==
  ASSUME QInv, UNCHANGED <<coreVars, writerVars, loopVars>>,
         StreamKept, AnswerState', PushBound', ~firstEpoch, eventLoop # "dial"
  PROVE  [Next]_coreVars /\ QInv'
<1>1. [Next]_coreVars
  OBVIOUS
<1>2. IInv' /\ StagedBound'
  BY <1>1, NextIInv, StagedBoundStep DEF QInv
<1>3. /\ UNCHANGED <<queueVars, iteratorVars, staged, messages>>
      /\ UNCHANGED <<inHandshake, handshakeStaged, handshakeIterator,
                     handshakeValidated, nextToWrite, nextToAcknowledge,
                     ignoredResponses>>
  BY DEF coreVars, callerVars, handshakeVars, iteratorVars
<1>4. QueueKept
  BY <1>3, QueueUntouched
<1>5. UNCHANGED <<writerPc, writing, bytesWritten, accepted, canWrite>>
  BY DEF writerVars, writerLocals
<1>6. WriterState' /\ MultiState'
  BY <1>4, <1>5, WriterStateKept, MultiKept
<1>7. StreamTypes' /\ StreamOrder'
  BY <1>3, <1>4, TypesKept, OrderKept
<1>8. StreamEnd'
  <2>1. PlaceKept
    BY <1>4, <1>5, WriterPlaceKept
  <2> QED BY <1>4, <2>1, EndKept DEF QueueKept
<1>9. HandshakeState'
  <2>1. Running' <=> Running
    BY <1>5 DEF Running
  <2>2. HandshakesSent' = HandshakesSent
    BY <1>3, <1>5 DEF HandshakesSent
  <2>3. Running => ((writing.kind = "request" \/ writerPc = "request") => ~inHandshake)
    BY DEF QInv, HandshakeState
  <2>4. Len(Stream) \in Nat
    BY StreamFacts
  <2>5. (writing' = writing /\ writerPc' = writerPc)
    BY <1>5
  <2> QED BY <1>3, <2>1, <2>2, <2>3, <2>4, <2>5, HandshakeKept
<1>10. FreshState'
  <2>1. UNCHANGED <<eventLoop, firstEpoch>>
    BY DEF loopVars
  <2> QED BY <2>1 DEF FreshState
<1> QED BY <1>1, <1>2, <1>6, <1>7, <1>8, <1>9, <1>10 DEF QInv

LEMMA LevelUnmoved ==
  ASSUME QInv, UNCHANGED <<coreVars, writerVars, loopVars>>, StreamKept
  PROVE  \A n \in 0 .. Len(received) : Level(n) => Level(n)'
<1>1. UNCHANGED <<queueVars, iteratorVars, staged, inHandshake>>
  BY DEF coreVars, callerVars, handshakeVars
<1>2. QueueKept
  BY <1>1, QueueUntouched
<1>3. UNCHANGED <<writerPc, writing, bytesWritten, accepted, canWrite, eventLoop>>
  BY DEF writerVars, writerLocals, loopVars
<1>4. PlaceKept
  BY <1>2, <1>3, WriterPlaceKept
<1> QED BY <1>1, <1>2, <1>3, <1>4, StreamFacts, LevelKept DEF QueueKept

\* A reply is on its way: a push, or the one to the unit just received.
LEMMA ReplyArrives ==
  ASSUME QInv, UNCHANGED <<coreVars, writerVars, loopVars, buffered, peerClosed>>,
         ~peerClosed, Stream' = Stream, received' \in Seq(Units), wire' \in Seq(Units),
         NEW reply \in ServerReplies, replies' = Append(replies, reply),
         \/ reply.kind = "push" /\ received' = received
         \/ /\ reply.kind # "push" /\ received' # <<>>
            /\ Len(received') = Len(received) + 1
            /\ \A i \in 1 .. Len(received) : received'[i] = received[i]
            /\ AnsweredBy(received'[Len(received) + 1], reply)
  PROVE  StreamKept /\ AnswerState'
<1>1. StreamKept
  BY StreamFacts DEF StreamKept
<1>2. /\ buffered \in Seq(ServerReplies) /\ replies \in Seq(ServerReplies)
      /\ Arriving \in Seq(ServerReplies) /\ Len(Arriving) \in Nat
  BY ReplyFacts
<1>3. /\ Arriving' = Append(Arriving, reply) /\ replies' \in Seq(ServerReplies)
      /\ Len(Arriving') = Len(Arriving) + 1
      /\ \A i \in 1 .. Len(Arriving) : Arriving'[i] = Arriving[i]
      /\ Arriving'[Len(Arriving) + 1] = reply
  <2>1. Arriving' = Append(Arriving, reply)
    BY <1>2, AppendBehind DEF Arriving
  <2> QED BY <1>2, <2>1
<1>4. PICK p \in [0 .. Len(Arriving) -> 0 .. Len(received)] :
        Pairing(p) /\ Level(p[0])
  BY DEF QInv, AnswerState
<1> DEFINE k == Len(Arriving)
           m == Len(received)
<1>5. m \in Nat /\ k \in Nat /\ p[k] = m
  BY <1>2, <1>4, StreamFacts DEF Pairing
<1>6. /\ m <= Len(received') /\ Len(received') \in Nat
      /\ \A i \in 1 .. m : received'[i] = received[i]
      /\ reply.kind = "push" => Len(received') = m
      /\ reply.kind # "push" => Len(received') = m + 1
  BY <1>5
<1>7. PICK q \in [0 .. Len(Arriving') -> 0 .. Len(received')] :
        /\ \A j \in 0 .. k : q[j] = p[j]
        /\ q[k + 1] = IF reply.kind = "push" THEN m ELSE m + 1
  <2> DEFINE r == [j \in 0 .. k + 1 |->
                     IF j <= k THEN p[j] ELSE IF reply.kind = "push" THEN m ELSE m + 1]
  <2>1. r \in [0 .. Len(Arriving') -> 0 .. Len(received')]
    BY <1>3, <1>5, <1>6
  <2>2. \A j \in 0 .. k : r[j] = p[j]
    BY <1>5
  <2>3. r[k + 1] = IF reply.kind = "push" THEN m ELSE m + 1
    BY <1>5
  <2> HIDE DEF r
  <2> QED BY <2>1, <2>2, <2>3
<1>8. \A j \in 0 .. k : q[j] = p[j] /\ p[j] \in 0 .. m
  BY <1>5, <1>7
<1>9. q[k + 1] = IF reply.kind = "push" THEN m ELSE m + 1
  BY <1>7
<1>10. ASSUME NEW j \in 1 .. Len(Arriving')
       PROVE  IF Arriving'[j].kind = "push" THEN q[j] = q[j - 1]
              ELSE q[j] = q[j - 1] + 1 /\ AnsweredBy(received'[q[j]], Arriving'[j])
  <2>1. CASE j <= k
    <3>1. j \in 1 .. k /\ j \in 0 .. k /\ j - 1 \in 0 .. k
      BY <1>5, <2>1
    <3>2. q[j] = p[j] /\ q[j - 1] = p[j - 1] /\ Arriving'[j] = Arriving[j]
      BY <1>3, <1>8, <3>1
    <3>3. IF Arriving[j].kind = "push" THEN p[j] = p[j - 1]
          ELSE p[j] = p[j - 1] + 1 /\ AnsweredBy(received[p[j]], Arriving[j])
      BY <1>4, <3>1 DEF Pairing
    <3>4. Arriving[j].kind # "push" => received'[p[j]] = received[p[j]]
      <4>1. p[j] \in 0 .. m /\ p[j - 1] \in 0 .. m
        BY <1>8, <3>1
      <4>2. Arriving[j].kind # "push" => p[j] \in 1 .. m
        BY <1>5, <3>3, <4>1
      <4> QED BY <1>6, <4>2
    <3> QED BY <3>2, <3>3, <3>4
  <2>2. CASE j = k + 1
    <3>1. Arriving'[j] = reply /\ j - 1 = k /\ q[k] = m
      <4>1. k \in 0 .. k
        BY <1>5
      <4>2. q[k] = m
        BY <1>5, <1>8, <4>1
      <4>3. Arriving'[j] = reply
        BY <1>3, <2>2
      <4>4. j - 1 = k
        BY <1>5, <2>2
      <4> QED BY <4>2, <4>3, <4>4
    <3>2. CASE reply.kind = "push"
      BY <1>9, <2>2, <3>1, <3>2
    <3>3. CASE reply.kind # "push"
      <4>1. AnsweredBy(received'[m + 1], reply)
        BY <3>3
      <4> QED BY <1>9, <2>2, <3>1, <3>3, <4>1
    <3> QED BY <3>2, <3>3
  <2> QED BY <1>3, <1>5, <2>1, <2>2
<1>11. q[Len(Arriving')] = Len(received')
  BY <1>3, <1>6, <1>9
<1>12. q[0] = p[0] /\ p[0] \in 0 .. m
  BY <1>5, <1>8
<1>13. handshakeValidated' <= q[0]
  BY <1>4, <1>12 DEF Pairing, coreVars, handshakeVars
<1>14. Pairing(q)'
  BY <1>10, <1>11, <1>13 DEF Pairing, AnsweredBy, NormalAnswer, Answer
<1>15. Level(q[0])'
  <2>1. Level(p[0])'
    BY <1>1, <1>4, <1>12, LevelUnmoved
  <2> QED BY <1>12, <2>1
<1>16. buffered' \in Seq(ServerReplies)
  BY <1>2
<1> QED BY <1>1, <1>3, <1>7, <1>14, <1>15, <1>16 DEF AnswerState

LEMMA ReceivedUnit ==
  ASSUME QInv, ServerReceives
  PROVE  /\ received' \in Seq(Units) /\ wire' \in Seq(Units) /\ Stream' = Stream
         /\ received' # <<>> /\ Len(received') = Len(received) + 1
         /\ \A i \in 1 .. Len(received) : received'[i] = received[i]
         /\ received'[Len(received) + 1] = Head(wire) /\ Head(wire) \in Units
         /\ NormalAnswer(Head(wire)).of \in 0 .. MaxStaged
         /\ ~firstEpoch /\ eventLoop # "dial"
<1>1. wire # <<>> /\ wire' = Tail(wire) /\ received' = Append(received, Head(wire))
  BY DEF ServerReceives
<1>2. received \in Seq(Units) /\ wire \in Seq(Units) /\ Len(received) \in Nat
  BY StreamFacts
<1>3. /\ received' \in Seq(Units) /\ wire' \in Seq(Units) /\ Stream' = Stream
      /\ Stream[Len(received) + 1] = Head(wire)
  BY <1>1, <1>2, MovedAlong DEF Stream
<1>4. Head(wire) \in Units
  BY <1>1, <1>2
<1>5. /\ received' # <<>> /\ Len(received') = Len(received) + 1
      /\ \A i \in 1 .. Len(received) : received'[i] = received[i]
      /\ received'[Len(received) + 1] = Head(wire)
  BY <1>1, <1>2, <1>4
<1>6. NormalAnswer(Head(wire)).of \in 0 .. MaxStaged
  <2>1. MaxStaged \in Nat /\ staged \in Nat /\ staged <= MaxStaged
    BY SizesAssumption, Numbers, HoldingCounted DEF QInv, StagedBound
  <2>2. CASE Head(wire).kind = "handshake"
    BY <2>1, <2>2 DEF NormalAnswer, Answer
  <2>3. CASE Head(wire).kind # "handshake"
    <3>1. Len(received) + 1 \in 1 .. Len(Stream)
      <4>1. Len(wire) > 0 /\ Len(wire) \in Nat
        BY <1>1, <1>2
      <4> QED BY <1>2, <4>1, StreamFacts
    <3>2. Head(wire).id \in 1 .. staged
      <4>1. ~(Len(received) + 1 <= HandshakeRounds)
        BY <1>3, <2>3, <3>1 DEF QInv, StreamTypes
      <4> QED BY <1>3, <3>1, <4>1 DEF QInv, StreamTypes
    <3>3. NormalAnswer(Head(wire)).of = Head(wire).id
      BY <2>3 DEF NormalAnswer, Answer
    <3> QED BY <2>1, <3>2, <3>3
  <2> QED BY <2>2, <2>3
<1>7. ~firstEpoch /\ eventLoop # "dial"
  BY <1>1 DEF QInv, FreshState
<1> QED BY <1>3, <1>4, <1>5, <1>6, <1>7

LEMMA ReplyCounted ==
  ASSUME QInv, UNCHANGED <<coreVars, buffered>>, NEW reply \in ServerReplies,
         replies' = Append(replies, reply),
         reply.kind = "push" =>
           Len(messages) + Cardinality(Pushed(Arriving)) < MaxMessages
  PROVE  PushBound'
<1>1. /\ buffered \in Seq(ServerReplies) /\ replies \in Seq(ServerReplies)
      /\ Arriving \in Seq(ServerReplies)
  BY ReplyFacts
<1>2. Arriving' = Append(Arriving, reply)
  BY <1>1, AppendBehind DEF Arriving
<1>3. Cardinality(Pushed(Append(Arriving, reply))) =
        Cardinality(Pushed(Arriving)) + (IF reply.kind = "push" THEN 1 ELSE 0)
  BY <1>1, PushesAppended
<1>4. messages' = messages /\ Len(messages) \in Nat
  BY DEF coreVars, QInv, IInv, TypeOK
<1>5. Cardinality(Pushed(Arriving)) \in Nat /\ MaxMessages \in Nat
  BY <1>1, PushesCounted, SizesAssumption
<1>6. Len(messages) + Cardinality(Pushed(Arriving)) <= MaxMessages
  BY DEF QInv, PushBound
<1>7. Len(messages) + Cardinality(Pushed(Append(Arriving, reply))) <= MaxMessages
  BY <1>3, <1>4, <1>5, <1>6
<1> QED BY <1>2, <1>4, <1>7 DEF PushBound, Pushed

LEMMA ServerAnswersStep ==
  ASSUME QInv, ServerAnswers \/ ServerRefuses
  PROVE  [Next]_coreVars /\ QInv'
<1>1. /\ ServerReceives
      /\ UNCHANGED <<coreVars, writerVars, loopVars, buffered, peerClosed>>
      /\ ~peerClosed
  BY DEF ServerAnswers, ServerRefuses, ServerReceives
<1>2. PICK reply \in ServerReplies :
        /\ replies' = Append(replies, reply) /\ reply.kind # "push"
        /\ AnsweredBy(Head(wire), reply)
  <2>1. CASE ServerAnswers
    <3>1. NormalAnswer(Head(wire)) \in ServerReplies
      BY <1>1, ReceivedUnit DEF NormalAnswer, Answer, ServerReplies
    <3>2. NormalAnswer(Head(wire)).kind # "push"
      BY DEF NormalAnswer, Answer
    <3> QED BY <2>1, <3>1, <3>2 DEF ServerAnswers, AnsweredBy
  <2>2. CASE ServerRefuses
    <3>1. PICK kind \in {"error", "unavailable", "moved"} :
            replies' = Append(replies, Answer(kind, NormalAnswer(Head(wire)).of))
      BY <2>2 DEF ServerRefuses
    <3>2. Answer(kind, NormalAnswer(Head(wire)).of) \in ServerReplies
      BY <1>1, ReceivedUnit DEF Answer, ServerReplies
    <3> QED BY <3>1, <3>2 DEF AnsweredBy, Answer
  <2> QED BY <2>1, <2>2
<1>3. /\ received' \in Seq(Units) /\ wire' \in Seq(Units) /\ Stream' = Stream
      /\ received' # <<>> /\ Len(received') = Len(received) + 1
      /\ \A i \in 1 .. Len(received) : received'[i] = received[i]
      /\ received'[Len(received) + 1] = Head(wire)
      /\ ~firstEpoch /\ eventLoop # "dial"
  BY <1>1, ReceivedUnit
<1>4. StreamKept /\ AnswerState'
  BY <1>1, <1>2, <1>3, ReplyArrives
<1>5. PushBound'
  BY <1>1, <1>2, ReplyCounted
<1> QED BY <1>1, <1>3, <1>4, <1>5, ServerStep

LEMMA ServerPushesStep ==
  ASSUME QInv, ServerPushes
  PROVE  [Next]_coreVars /\ QInv'
<1> DEFINE reply == Answer("push", 0)
<1>1. /\ UNCHANGED <<coreVars, writerVars, loopVars, buffered, peerClosed>>
      /\ ~peerClosed /\ received' = received /\ wire' = wire
      /\ replies' = Append(replies, reply)
      /\ ~firstEpoch /\ eventLoop # "dial"
  BY DEF ServerPushes, streamVars, QInv, FreshState
<1>2. reply \in ServerReplies /\ reply.kind = "push"
  BY SizesAssumption DEF Answer, ServerReplies
<1>3. Len(messages) + Cardinality(Pushed(Arriving)) < MaxMessages
  BY DEF ServerPushes, Pushed, Arriving
<1> HIDE DEF reply
<1>4. Stream' = Stream /\ received' \in Seq(Units) /\ wire' \in Seq(Units)
  BY <1>1, StreamFacts DEF Stream
<1>5. StreamKept /\ AnswerState'
  BY <1>1, <1>2, <1>4, ReplyArrives
<1>6. PushBound'
  BY <1>1, <1>2, <1>3, ReplyCounted
<1> QED BY <1>1, <1>5, <1>6, ServerStep

LEMMA ServerClosesStep ==
  ASSUME QInv, ServerCloses
  PROVE  [Next]_coreVars /\ QInv'
<1>1. /\ UNCHANGED <<coreVars, writerVars, loopVars, buffered>>
      /\ ~peerClosed /\ peerClosed' = TRUE /\ received' = received /\ wire' = <<>>
      /\ ~firstEpoch /\ eventLoop # "dial"
  BY DEF ServerCloses, QInv, FreshState
<1>2. /\ buffered \in Seq(ServerReplies) /\ replies \in Seq(ServerReplies)
      /\ Arriving \in Seq(ServerReplies) /\ Len(buffered) \in Nat /\ Len(replies) \in Nat
  BY ReplyFacts
<1>3. PICK n \in 0 .. Len(replies) : replies' = SubSeq(replies, 1, n)
  BY DEF ServerCloses
<1>4. /\ replies' \in Seq(ServerReplies) /\ Len(replies') = n
      /\ \A i \in 1 .. n : replies'[i] = replies[i]
  BY <1>2, <1>3
<1>5. /\ Arriving' \in Seq(ServerReplies) /\ Len(Arriving') <= Len(Arriving)
      /\ Len(Arriving') \in Nat /\ Len(Arriving) \in Nat
      /\ \A i \in 1 .. Len(Arriving') : Arriving'[i] = Arriving[i]
  <2>1. Arriving' = buffered \o replies'
    BY <1>1 DEF Arriving
  <2>2. /\ Arriving' \in Seq(ServerReplies) /\ Len(Arriving') = Len(buffered) + n
        /\ \A i \in 1 .. Len(buffered) : Arriving'[i] = buffered[i]
        /\ \A i \in 1 .. n : Arriving'[Len(buffered) + i] = replies'[i]
    BY <1>2, <1>4, <2>1, Concatenated
  <2>3. /\ Len(Arriving) = Len(buffered) + Len(replies)
        /\ \A i \in 1 .. Len(buffered) : Arriving[i] = buffered[i]
        /\ \A i \in 1 .. Len(replies) : Arriving[Len(buffered) + i] = replies[i]
    BY <1>2, Concatenated DEF Arriving
  <2>4. ASSUME NEW i \in 1 .. Len(Arriving')
        PROVE  Arriving'[i] = Arriving[i]
    <3>1. CASE i <= Len(buffered)
      <4>1. i \in 1 .. Len(buffered)
        BY <1>2, <2>2, <3>1
      <4> QED BY <2>2, <2>3, <4>1
    <3>2. CASE i > Len(buffered)
      <4>1. /\ i - Len(buffered) \in 1 .. n /\ i - Len(buffered) \in 1 .. Len(replies)
            /\ Len(buffered) + (i - Len(buffered)) = i
        BY <1>2, <1>3, <2>2, <3>2
      <4>2. Arriving'[i] = replies'[i - Len(buffered)]
        BY <2>2, <4>1
      <4>3. Arriving[i] = replies[i - Len(buffered)]
        BY <2>3, <4>1
      <4> QED BY <1>4, <4>1, <4>2, <4>3
    <3> QED BY <1>2, <3>1, <3>2
  <2> QED BY <1>2, <1>3, <2>2, <2>3, <2>4
<1>6. StreamKept
  <2>1. Stream' = received
    BY <1>1, StreamFacts DEF Stream
  <2> QED BY <1>1, <2>1, StreamFacts DEF StreamKept
<1>7. AnswerState'
  <2>1. PICK p \in [0 .. Len(Arriving) -> 0 .. Len(received)] :
          Pairing(p) /\ Level(p[0])
    BY DEF QInv, AnswerState
  <2>2. PICK q \in [0 .. Len(Arriving') -> 0 .. Len(received')] :
          \A j \in 0 .. Len(Arriving') : q[j] = p[j]
    <3> DEFINE r == [j \in 0 .. Len(Arriving') |-> p[j]]
    <3>1. r \in [0 .. Len(Arriving') -> 0 .. Len(received')]
      BY <1>1, <1>5
    <3>2. \A j \in 0 .. Len(Arriving') : r[j] = p[j]
      OBVIOUS
    <3> HIDE DEF r
    <3> QED BY <3>1, <3>2
  <2>3. ASSUME NEW j \in 1 .. Len(Arriving')
        PROVE  IF Arriving'[j].kind = "push" THEN q[j] = q[j - 1]
               ELSE q[j] = q[j - 1] + 1 /\ AnsweredBy(received'[q[j]], Arriving'[j])
    <3>1. /\ j \in 1 .. Len(Arriving) /\ j \in 0 .. Len(Arriving')
          /\ j - 1 \in 0 .. Len(Arriving')
      BY <1>5
    <3>2. Arriving'[j] = Arriving[j] /\ q[j] = p[j] /\ q[j - 1] = p[j - 1]
      BY <1>5, <2>2, <3>1
    <3> QED BY <1>1, <2>1, <3>1, <3>2 DEF Pairing
  <2>4. q[0] = p[0] /\ p[0] \in 0 .. Len(received)
    BY <1>5, <2>2
  <2>5. handshakeValidated' <= q[0]
    BY <1>1, <2>1, <2>4 DEF Pairing, coreVars, handshakeVars
  <2>6. Pairing(q)'
    BY <1>1, <2>3, <2>5 DEF Pairing, AnsweredBy, NormalAnswer, Answer
  <2>7. Level(p[0])'
    BY <1>1, <1>6, <2>1, <2>4, LevelUnmoved
  <2>8. Level(q[0])'
    BY <2>4, <2>7
  <2> QED BY <1>1, <1>2, <1>4, <2>2, <2>6, <2>8 DEF AnswerState
<1>8. PushBound'
  <2>1. Cardinality(Pushed(Arriving')) <= Cardinality(Pushed(Arriving))
    BY <1>2, <1>5, PushesKept
  <2>2. /\ Cardinality(Pushed(Arriving)) \in Nat /\ Cardinality(Pushed(Arriving')) \in Nat
        /\ MaxMessages \in Nat
    BY <1>2, <1>5, PushesCounted, SizesAssumption
  <2>3. messages' = messages /\ Len(messages) \in Nat
    BY <1>1 DEF coreVars, QInv, IInv, TypeOK
  <2>4. Len(messages) + Cardinality(Pushed(Arriving)) <= MaxMessages
    BY DEF QInv, PushBound
  <2>5. Len(messages) + Cardinality(Pushed(Arriving')) <= MaxMessages
    BY <2>1, <2>2, <2>3, <2>4
  <2> QED BY <2>3, <2>5 DEF PushBound, Pushed
<1> QED BY <1>1, <1>6, <1>7, <1>8, ServerStep

LEMMA ServerStepKeeps ==
  ASSUME QInv, Server
  PROVE  [Next]_coreVars /\ QInv'
BY ServerAnswersStep, ServerPushesStep, ServerClosesStep DEF Server

-----------------------------------------------------------------------------
(* The event loop, while there is a connection                               *)

LEMMA ReceiveStep ==
  ASSUME QInv, Receive
  PROVE  [Next]_coreVars /\ QInv'
<1>1. /\ UNCHANGED <<coreVars, writerVars, loopVars, streamVars>> /\ received' = received
      /\ buffered = <<>> /\ buffered' = replies /\ replies' = <<>>
      /\ ~firstEpoch /\ eventLoop # "dial"
  BY DEF Receive, QInv, FreshState
<1>2. UNCHANGED <<wire, peerClosed>>
  BY <1>1 DEF streamVars
<1>3. /\ buffered \in Seq(ServerReplies) /\ replies \in Seq(ServerReplies)
  BY ReplyFacts
<1>4. Arriving' = Arriving
  <2>1. <<>> \o replies = replies /\ replies \o <<>> = replies
    BY <1>3, ConcatEmptySeq
  <2> QED BY <1>1, <2>1 DEF Arriving
<1>5. StreamKept
  BY <1>1, <1>2, StreamFacts DEF StreamKept, Stream
<1>6. AnswerState'
  <2>1. PICK p \in [0 .. Len(Arriving) -> 0 .. Len(received)] :
          Pairing(p) /\ Level(p[0])
    BY DEF QInv, AnswerState
  <2>2. p[0] \in 0 .. Len(received)
    <3>1. 0 \in 0 .. Len(Arriving)
      BY ReplyFacts
    <3> QED BY <3>1
  <2>3. Level(p[0])'
    BY <1>1, <1>5, <2>1, <2>2, LevelUnmoved
  <2>4. Pairing(p)'
    BY <1>1, <1>2, <1>4, <2>1
    DEF Pairing, AnsweredBy, NormalAnswer, Answer, coreVars, handshakeVars
  <2> QED BY <1>1, <1>3, <1>4, <2>1, <2>3, <2>4 DEF AnswerState
<1>7. PushBound'
  BY <1>1, <1>4 DEF coreVars, QInv, PushBound, Pushed
<1> QED BY <1>1, <1>5, <1>6, <1>7, ServerStep

\* The event loop takes the first reply out of the response builder.
TakesReply ==
  /\ eventLoop \in {"reading", "draining"}
  /\ eventLoop' \in {"reading", "draining", "backoff", "exited"}
  /\ eventLoop' = "reading" => eventLoop = "reading"
  /\ buffered # <<>> /\ buffered' = Tail(buffered)
  /\ UNCHANGED <<writerVars, streamVars, firstEpoch, received, replies>>
  /\ IF Head(buffered).kind = "push" THEN Len(messages') <= Len(messages) + 1
     ELSE messages' = messages

\* The reply is for the place behind c units.
Faces(c) ==
  /\ c \in 0 .. Len(received) /\ Level(c) /\ handshakeValidated <= c
  /\ Head(buffered).kind # "push" =>
       c < Len(received) /\ AnsweredBy(received[c + 1], Head(buffered))
Looked(c) == IF Head(buffered).kind = "push" THEN c ELSE c + 1

LEMMA TakenReply ==
  ASSUME QInv, buffered # <<>>, buffered' = Tail(buffered), replies' = replies
  PROVE  /\ Arriving' = Tail(Arriving) /\ Head(Arriving) = Head(buffered)
         /\ Arriving \in Seq(ServerReplies) /\ Arriving # <<>>
         /\ Len(Arriving) \in Nat /\ Len(Arriving') = Len(Arriving) - 1
         /\ Arriving[1] = Head(buffered) /\ Head(buffered) \in ServerReplies
         /\ \A i \in 1 .. Len(Arriving') : Arriving'[i] = Arriving[i + 1]
         /\ buffered' \in Seq(ServerReplies)
<1>1. /\ buffered \in Seq(ServerReplies) /\ replies \in Seq(ServerReplies)
      /\ Arriving \in Seq(ServerReplies) /\ Len(buffered) \in Nat
      /\ Len(Arriving) = Len(buffered) + Len(replies) /\ Len(replies) \in Nat
  BY ReplyFacts
<1>2. Len(buffered) > 0 /\ 1 \in 1 .. Len(buffered)
  BY <1>1
<1>3. Arriving # <<>> /\ Len(Arriving) > 0
  BY <1>1, <1>2
<1>4. Arriving[1] = buffered[1] /\ Head(buffered) = buffered[1]
  BY <1>1, <1>2, Concatenated DEF Arriving
<1>5. Arriving' = Tail(Arriving)
  <2>1. Tail(buffered) \in Seq(ServerReplies) /\ Len(Tail(buffered)) = Len(buffered) - 1
        /\ \A i \in 1 .. Len(Tail(buffered)) : Tail(buffered)[i] = buffered[i + 1]
    BY <1>1, HeadTailProperties
  <2>2. Tail(Arriving) \in Seq(ServerReplies) /\ Len(Tail(Arriving)) = Len(Arriving) - 1
        /\ \A i \in 1 .. Len(Tail(Arriving)) : Tail(Arriving)[i] = Arriving[i + 1]
    BY <1>1, <1>3, HeadTailProperties
  <2>3. /\ Arriving' = Tail(buffered) \o replies /\ Arriving' \in Seq(ServerReplies)
        /\ Len(Arriving') = Len(Arriving) - 1
        /\ \A i \in 1 .. Len(buffered) - 1 : Arriving'[i] = Tail(buffered)[i]
        /\ \A i \in 1 .. Len(replies) : Arriving'[(Len(buffered) - 1) + i] = replies[i]
    <3>1. Arriving' = Tail(buffered) \o replies
      BY DEF Arriving
    <3>2. /\ Tail(buffered) \o replies \in Seq(ServerReplies)
          /\ Len(Tail(buffered) \o replies) = Len(Tail(buffered)) + Len(replies)
          /\ \A i \in 1 .. Len(Tail(buffered)) :
               (Tail(buffered) \o replies)[i] = Tail(buffered)[i]
          /\ \A i \in 1 .. Len(replies) :
               (Tail(buffered) \o replies)[Len(Tail(buffered)) + i] = replies[i]
      BY <1>1, <2>1, Concatenated
    <3> QED BY <1>1, <2>1, <3>1, <3>2
  <2>4. ASSUME NEW i \in 1 .. Len(Arriving) - 1
        PROVE  Arriving'[i] = Tail(Arriving)[i]
    <3>1. Tail(Arriving)[i] = Arriving[i + 1]
      BY <2>2
    <3>2. CASE i <= Len(buffered) - 1
      <4>1. i \in 1 .. Len(buffered) - 1 /\ i + 1 \in 1 .. Len(buffered)
        BY <1>1, <3>2
      <4>2. Arriving[i + 1] = buffered[i + 1]
        BY <1>1, <4>1, Concatenated DEF Arriving
      <4> QED BY <2>1, <2>3, <3>1, <4>1, <4>2
    <3>3. CASE i > Len(buffered) - 1
      <4> DEFINE j == i - (Len(buffered) - 1)
      <4>1. /\ j \in 1 .. Len(replies) /\ (Len(buffered) - 1) + j = i
            /\ Len(buffered) + j = i + 1
        BY <1>1, <3>3
      <4>2. Arriving[Len(buffered) + j] = replies[j]
        BY <1>1, <4>1, Concatenated DEF Arriving
      <4>3. Arriving'[(Len(buffered) - 1) + j] = replies[j]
        BY <2>3, <4>1
      <4> QED BY <3>1, <4>1, <4>2, <4>3
    <3> QED BY <1>1, <3>2, <3>3
  <2> QED BY <2>2, <2>3, <2>4, SeqEqual
<1>6. /\ Len(Arriving') = Len(Arriving) - 1
      /\ \A i \in 1 .. Len(Arriving') : Arriving'[i] = Arriving[i + 1]
  BY <1>1, <1>3, <1>5, HeadTailProperties
<1>7. Head(Arriving) = Arriving[1]
  BY <1>1, <1>3
<1>8. Head(buffered) \in ServerReplies /\ Tail(buffered) \in Seq(ServerReplies)
  BY <1>1
<1> QED BY <1>1, <1>3, <1>4, <1>5, <1>6, <1>7, <1>8


LEMMA StreamSame ==
  ASSUME QInv, UNCHANGED streamVars, received' = received
  PROVE  /\ StreamKept /\ Stream' = Stream
         /\ UNCHANGED <<wire, peerClosed, streamOk>>
<1>1. UNCHANGED <<wire, peerClosed, streamOk>>
  BY DEF streamVars
<1>2. Stream' = Stream
  BY <1>1 DEF Stream
<1> QED BY <1>1, <1>2, StreamFacts DEF StreamKept

LEMMA PushesTaken ==
  ASSUME QInv, TakesReply, messages' \in Seq(Nat)
  PROVE  PushBound' /\ Len(messages') <= MaxMessages
<1>1. /\ Arriving' = Tail(Arriving) /\ Head(Arriving) = Head(buffered)
      /\ Arriving \in Seq(ServerReplies) /\ Arriving # <<>>
  BY TakenReply DEF TakesReply, serverVars
<1>2. Tail(Arriving) \in Seq(ServerReplies)
  BY <1>1
<1> DEFINE before == Cardinality(Pushed(Arriving))
           after == Cardinality(Pushed(Tail(Arriving)))
           k == Len(messages)
           m == Len(messages')
<1>3. before \in Nat /\ after \in Nat
  BY <1>1, <1>2, PushesCounted
<1>4. after = before - (IF Head(buffered).kind = "push" THEN 1 ELSE 0)
  BY <1>1, PushesLeft
<1>5. k \in Nat /\ m \in Nat /\ MaxMessages \in Nat
  BY SizesAssumption DEF QInv, IInv, TypeOK
<1>6. IF Head(buffered).kind = "push" THEN m <= k + 1 ELSE m = k
  BY DEF TakesReply
<1>7. k + before <= MaxMessages
  BY DEF QInv, PushBound
<1>8. PushBound' <=> m + after <= MaxMessages
  BY <1>1 DEF PushBound, Pushed
<1> HIDE DEF before, after, k, m
<1>9. m + after <= MaxMessages /\ m <= MaxMessages
  <2>1. CASE Head(buffered).kind = "push"
    BY <2>1, <1>3, <1>4, <1>5, <1>6, <1>7
  <2>2. CASE Head(buffered).kind # "push"
    BY <2>2, <1>3, <1>4, <1>5, <1>6, <1>7
  <2> QED BY <2>1, <2>2
<1> QED BY <1>8, <1>9 DEF m

\* There is a place the first reply is for, and the next one is for the place
\* behind it.
LEMMA FirstPlace ==
  ASSUME QInv, TakesReply, NEW p \in [0 .. Len(Arriving) -> 0 .. Len(received)],
         Pairing(p), Level(p[0])
  PROVE  /\ p[0] \in 0 .. Len(received) /\ p[1] \in 0 .. Len(received)
         /\ Faces(p[0]) /\ p[1] = Looked(p[0])
<1>0. /\ Arriving # <<>> /\ Len(Arriving) \in Nat /\ Arriving[1] = Head(buffered)
      /\ Len(Arriving) > 0 /\ 1 \in 1 .. Len(Arriving)
  <2>1. /\ Arriving # <<>> /\ Arriving[1] = Head(buffered)
        /\ Arriving \in Seq(ServerReplies)
    BY TakenReply DEF TakesReply
  <2> QED BY <2>1
<1>1. /\ p[0] \in 0 .. Len(received) /\ p[1] \in 0 .. Len(received)
      /\ Len(received) \in Nat
  <2>1. 0 \in 0 .. Len(Arriving) /\ 1 \in 0 .. Len(Arriving)
    BY <1>0
  <2> QED BY <2>1, StreamFacts
<1>2. IF Head(buffered).kind = "push" THEN p[1] = p[0]
      ELSE p[1] = p[0] + 1 /\ AnsweredBy(received[p[1]], Head(buffered))
  <2>1. IF Arriving[1].kind = "push" THEN p[1] = p[1 - 1]
        ELSE p[1] = p[1 - 1] + 1 /\ AnsweredBy(received[p[1]], Arriving[1])
    BY <1>0 DEF Pairing
  <2>2. 1 - 1 = 0
    OBVIOUS
  <2> QED BY <1>0, <2>1, <2>2
<1>3. handshakeValidated <= p[0] /\ handshakeValidated \in Nat
  BY Numbers DEF Pairing
<1>4. Faces(p[0]) /\ p[1] = Looked(p[0])
  <2>1. CASE Head(buffered).kind = "push"
    BY <1>1, <1>2, <1>3, <2>1 DEF Faces, Looked
  <2>2. CASE Head(buffered).kind # "push"
    <3>1. p[0] < Len(received)
      BY <1>1, <1>2, <2>2
    <3> QED BY <1>1, <1>2, <1>3, <2>2, <3>1 DEF Faces, Looked
  <2> QED BY <2>1, <2>2
<1> QED BY <1>1, <1>4

LEMMA RepliesBehind ==
  ASSUME QInv, TakesReply,
         handshakeValidated' <=
           handshakeValidated + (IF Head(buffered).kind = "push" THEN 0 ELSE 1),
         handshakeValidated' \in Nat,
         \A c, n \in Nat : Faces(c) /\ n = Looked(c) => Level(n)'
  PROVE  AnswerState'
<1>1. PICK p \in [0 .. Len(Arriving) -> 0 .. Len(received)] :
        Pairing(p) /\ Level(p[0])
  BY DEF QInv, AnswerState
<1>2. /\ Arriving # <<>> /\ Len(Arriving) \in Nat /\ Len(Arriving') = Len(Arriving) - 1
      /\ Arriving[1] = Head(buffered) /\ Arriving \in Seq(ServerReplies)
      /\ \A i \in 1 .. Len(Arriving') : Arriving'[i] = Arriving[i + 1]
      /\ buffered' \in Seq(ServerReplies)
  BY TakenReply DEF TakesReply
<1>3. Len(Arriving) > 0 /\ 1 \in 1 .. Len(Arriving)
  BY <1>2
<1>4. received' = received /\ replies' = replies /\ peerClosed' = peerClosed
  BY DEF TakesReply, streamVars
<1>5. PICK q \in [0 .. Len(Arriving') -> 0 .. Len(received')] :
        \A j \in 0 .. Len(Arriving') : q[j] = p[j + 1]
  <2> DEFINE r == [j \in 0 .. Len(Arriving') |-> p[j + 1]]
  <2>1. \A j \in 0 .. Len(Arriving') : j + 1 \in 0 .. Len(Arriving)
    BY <1>2, <1>3
  <2>2. r \in [0 .. Len(Arriving') -> 0 .. Len(received')]
    BY <1>4, <2>1
  <2>3. \A j \in 0 .. Len(Arriving') : r[j] = p[j + 1]
    OBVIOUS
  <2> HIDE DEF r
  <2> QED BY <2>2, <2>3
<1>6. /\ p[0] \in 0 .. Len(received) /\ p[1] \in 0 .. Len(received)
      /\ Len(received) \in Nat
      /\ handshakeValidated <= p[0] /\ handshakeValidated \in Nat
      /\ Faces(p[0]) /\ p[1] = Looked(p[0])
  BY <1>1, StreamFacts, Numbers, FirstPlace DEF Pairing
<1>7. p[1] = IF Head(buffered).kind = "push" THEN p[0] ELSE p[0] + 1
  BY <1>6 DEF Looked
<1>10. p[0] \in Nat /\ p[1] \in Nat
  BY <1>6
<1>11. Level(p[1])'
  BY <1>6, <1>10
<1>12. Len(Arriving') \in Nat
  BY <1>2, <1>3
<1>13. q[0] = p[1]
  <2>1. 0 \in 0 .. Len(Arriving') /\ 0 + 1 = 1
    BY <1>12
  <2> QED BY <1>5, <2>1
<1>14. ASSUME NEW j \in 1 .. Len(Arriving')
       PROVE  IF Arriving'[j].kind = "push" THEN q[j] = q[j - 1]
              ELSE q[j] = q[j - 1] + 1 /\ AnsweredBy(received'[q[j]], Arriving'[j])
  <2>1. /\ j + 1 \in 1 .. Len(Arriving) /\ j \in 0 .. Len(Arriving')
        /\ j - 1 \in 0 .. Len(Arriving') /\ (j + 1) - 1 = j /\ (j - 1) + 1 = j
    BY <1>2, <1>12
  <2>2. q[j] = p[j + 1] /\ q[j - 1] = p[j] /\ Arriving'[j] = Arriving[j + 1]
    BY <1>2, <1>5, <2>1
  <2>3. IF Arriving[j + 1].kind = "push" THEN p[j + 1] = p[j]
        ELSE p[j + 1] = p[j] + 1 /\ AnsweredBy(received[p[j + 1]], Arriving[j + 1])
    BY <1>1, <2>1 DEF Pairing
  <2> QED BY <1>4, <2>2, <2>3
<1>15. ~peerClosed' => q[Len(Arriving')] = Len(received')
  <2>1. Len(Arriving') \in 0 .. Len(Arriving') /\ Len(Arriving') + 1 = Len(Arriving)
    BY <1>2, <1>12
  <2>2. q[Len(Arriving')] = p[Len(Arriving)]
    BY <1>5, <2>1
  <2> QED BY <1>1, <1>4, <2>2 DEF Pairing
<1>16. handshakeValidated' <= q[0]
  <2>1. CASE Head(buffered).kind = "push"
    BY <1>6, <1>7, <1>13, <2>1
  <2>2. CASE Head(buffered).kind # "push"
    BY <1>6, <1>7, <1>13, <2>2
  <2> QED BY <2>1, <2>2
<1>17. Pairing(q)'
  BY <1>14, <1>15, <1>16 DEF Pairing, AnsweredBy, NormalAnswer, Answer
<1>18. Level(q[0])'
  BY <1>11, <1>13
<1>19. replies' \in Seq(ServerReplies)
  BY <1>4, ReplyFacts
<1> QED BY <1>2, <1>5, <1>17, <1>18, <1>19 DEF AnswerState

LEMMA ReplyTaken ==
  ASSUME QInv, [Next]_coreVars, TakesReply,
         WriterState', HandshakeState', MultiState', StreamTypes', StreamEnd',
         handshakeValidated' <=
           handshakeValidated + (IF Head(buffered).kind = "push" THEN 0 ELSE 1),
         \A c, n \in Nat : Faces(c) /\ n = Looked(c) => Level(n)'
  PROVE  QInv'
<1>1. IInv' /\ StagedBound'
  BY NextIInv, StagedBoundStep DEF QInv
<1>2. messages' \in Seq(Nat) /\ handshakeValidated' \in Nat
  BY <1>1 DEF IInv, TypeOK
<1>3. PushBound'
  BY <1>2, PushesTaken
<1>4. StreamOrder'
  BY StreamSame, OrderKept DEF TakesReply
<1>5. AnswerState'
  BY <1>2, RepliesBehind
<1>6. FreshState'
  BY DEF FreshState, TakesReply, QInv
<1> QED BY <1>1, <1>3, <1>4, <1>5, <1>6 DEF QInv


LEMMA SomePlace ==
  ASSUME QInv, TakesReply
  PROVE  \E c \in Nat : Faces(c)
<1>1. PICK p \in [0 .. Len(Arriving) -> 0 .. Len(received)] :
        Pairing(p) /\ Level(p[0])
  BY DEF QInv, AnswerState
<1>2. p[0] \in 0 .. Len(received) /\ Faces(p[0])
  BY <1>1, FirstPlace
<1> QED BY <1>2, StreamFacts

\* What is known of the unit a reply is for, outside the handshake
LEMMA UnitFaced ==
  ASSUME QInv, ~inHandshake, ~Exclusive,
         NEW c \in Nat, Faces(c), Head(buffered).kind # "push"
  PROVE  LET unit == Stream[c + 1] IN
         /\ c + 1 \in HandshakeRounds + 1 .. Len(Stream)
         /\ unit.kind = "request" /\ unit.index <= unit.last
         /\ unit.id \in Nat /\ unit.index \in Nat /\ unit.last \in Nat
         /\ NextId(unit) \in Nat /\ NextIndex(unit) \in Nat
         /\ NotAfter(LastLeft + 1, ignoredResponses, unit.id, unit.index)
         /\ eventLoop = "reading" =>
              LastLeft + 1 = unit.id /\ ignoredResponses = unit.index
         /\ LastLeft + 1 = unit.id => unit.last = ToAcknowledge.multiSize
         /\ Running => NotAfter(NextId(unit), NextIndex(unit), WriteId, WriteIndex)
         /\ (Running /\ ~peerClosed /\ c + 1 = Len(Stream)) =>
              NextId(unit) = WriteId /\ NextIndex(unit) = WriteIndex
         /\ c + 1 < Len(Stream) =>
              /\ Stream[(c + 1) + 1].id = NextId(unit)
              /\ Stream[(c + 1) + 1].index = NextIndex(unit)
<1>1. /\ HandshakeRounds \in Nat /\ LastLeft \in Nat /\ nextToAcknowledge \in Nat
      /\ Len(received) \in Nat /\ Len(wire) \in Nat
      /\ Len(Stream) = Len(received) + Len(wire)
  BY Numbers, StreamFacts
<1>2. handshakeValidated = HandshakeRounds
  BY DEF QInv, HandshakeState
<1>3. c < Len(received) /\ HandshakeRounds <= c
  BY <1>2 DEF Faces
<1>4. /\ c + 1 \in HandshakeRounds + 1 .. Len(Stream) /\ c + 1 \in 1 .. Len(Stream)
      /\ ~(c + 1 <= HandshakeRounds) /\ c < Len(Stream) /\ Len(Stream) > HandshakeRounds
  BY <1>1, <1>3
<1> DEFINE unit == Stream[c + 1]
<1>5. /\ unit.id \in Nat /\ unit.index \in Nat /\ unit.last \in Nat
      /\ NextId(unit) \in Nat /\ NextIndex(unit) \in Nat
  BY <1>4, StreamFacts
<1>6. /\ unit.kind = "request" /\ unit.index <= unit.last
      /\ unit.id > LastLeft =>
           unit.last = requestQueue[SequenceOf(unit.id)].multiSize
  BY <1>4 DEF QInv, StreamTypes
<1>7. /\ NotAfter(LastLeft + 1, ignoredResponses, unit.id, unit.index)
      /\ eventLoop = "reading" =>
           LastLeft + 1 = unit.id /\ ignoredResponses = unit.index
  BY <1>4 DEF Faces, Level
<1>8. LastLeft + 1 = unit.id => unit.last = ToAcknowledge.multiSize
  <2> HIDE DEF unit
  <2> SUFFICES ASSUME LastLeft + 1 = unit.id
               PROVE  unit.last = ToAcknowledge.multiSize
    OBVIOUS
  <2>1. unit.id > LastLeft /\ SequenceOf(unit.id) = nextToAcknowledge
    BY <1>1, <1>5 DEF SequenceOf
  <2> QED BY <1>6, <2>1 DEF ToAcknowledge
<1>9. /\ Running => NotAfter(NextId(unit), NextIndex(unit), WriteId, WriteIndex)
      /\ (Running /\ ~peerClosed /\ c + 1 = Len(Stream)) =>
           NextId(unit) = WriteId /\ NextIndex(unit) = WriteIndex
  BY <1>4 DEF QInv, StreamEnd
<1>10. c + 1 < Len(Stream) =>
         /\ Stream[(c + 1) + 1].id = NextId(unit)
         /\ Stream[(c + 1) + 1].index = NextIndex(unit)
  BY <1>4 DEF QInv, StreamOrder
<1> QED BY <1>4, <1>5, <1>6, <1>7, <1>8, <1>9, <1>10

\* The core goes on to the place behind that unit, or lags behind it.
LEMMA LevelBehind ==
  ASSUME QInv, ~inHandshake, ~Exclusive,
         NEW c \in Nat, Faces(c), Head(buffered).kind # "push",
         UNCHANGED streamVars, received' = received, PlaceKept,
         eventLoop' = "reading" => eventLoop = "reading",
         NotAfter(LastLeft' + 1, ignoredResponses',
                  NextId(Stream[c + 1]), NextIndex(Stream[c + 1])),
         eventLoop' = "reading" =>
           /\ LastLeft' + 1 = NextId(Stream[c + 1])
           /\ ignoredResponses' = NextIndex(Stream[c + 1])
  PROVE  Level(c + 1)'
<1>1. Stream' = Stream /\ peerClosed' = peerClosed
  BY StreamSame
<1>2. c + 1 \in HandshakeRounds + 1 .. Len(Stream) /\ Len(Stream) \in Nat
  BY UnitFaced, StreamFacts
<1>3. CASE c + 1 < Len(Stream)
  <2>1. /\ Stream[(c + 1) + 1].id = NextId(Stream[c + 1])
        /\ Stream[(c + 1) + 1].index = NextIndex(Stream[c + 1])
    BY <1>3, UnitFaced
  <2>2. /\ NotAfter(LastLeft' + 1, ignoredResponses',
                    Stream[(c + 1) + 1].id, Stream[(c + 1) + 1].index)
        /\ eventLoop' = "reading" =>
             /\ LastLeft' + 1 = Stream[(c + 1) + 1].id
             /\ ignoredResponses' = Stream[(c + 1) + 1].index
    BY <2>1
  <2> QED BY <1>1, <1>3, <2>2 DEF Level, NotAfter
<1>4. CASE ~(c + 1 < Len(Stream))
  <2>1. c + 1 = Len(Stream)
    BY <1>2, <1>4
  <2>2. ASSUME Running', ~peerClosed', eventLoop' = "reading"
        PROVE  LastLeft' + 1 = WriteId' /\ ignoredResponses' = WriteIndex'
    <3>1. Running /\ WriteId' = WriteId /\ WriteIndex' = WriteIndex /\ ~peerClosed
      BY <1>1, <2>2 DEF PlaceKept
    <3>2. /\ NextId(Stream[c + 1]) = WriteId
          /\ NextIndex(Stream[c + 1]) = WriteIndex
      BY <2>1, <3>1, UnitFaced
    <3> QED BY <2>2, <3>1, <3>2
  <2> QED BY <1>1, <1>4, <2>2 DEF Level
<1> QED BY <1>3, <1>4

\* One place is not after another if the place behind it is not after the one
\* behind the other.
LEMMA NotAfterNext ==
  ASSUME NEW unit, unit.id \in Nat, unit.index \in Nat, unit.last \in Nat,
         unit.index <= unit.last,
         NEW id \in Nat, NEW index \in Nat, NotAfter(id, index, unit.id, unit.index)
  PROVE  /\ NotAfter(id, index, NextId(unit), NextIndex(unit))
         /\ NotAfter(id, index + 1, NextId(unit), NextIndex(unit))
BY DEF NotAfter, NextId, NextIndex

-----------------------------------------------------------------------------
(* A reply is looked at                                                      *)

\* The event loop feeds the first reply; alive is what it makes of it.
Feeds(alive) ==
  /\ FeedReply(alive) /\ alive \in BOOLEAN
  /\ eventLoop \in {"reading", "draining"}
  /\ eventLoop' = IF alive THEN eventLoop
                  ELSE IF eventLoop = "reading" THEN "backoff" ELSE "exited"

LEMMA FeedsRest ==
  ASSUME QInv, NEW alive, Feeds(alive),
         IF Head(buffered).kind = "push" THEN Len(messages') <= Len(messages) + 1
         ELSE messages' = messages
  PROVE  /\ TakesReply
         /\ UNCHANGED <<writerPc, writing, bytesWritten, accepted, canWrite>>
         /\ UNCHANGED streamVars /\ received' = received
         /\ eventLoop' = "reading" => alive /\ eventLoop = "reading"
         /\ buffered # <<>>
BY DEF Feeds, FeedReply, TakesReply, writerVars, writerLocals, serverVars

\* The reply changes nothing but the state of the handshake, if anything.
LEMMA QueueRest ==
  ASSUME QInv, UNCHANGED <<queueVars, iteratorVars, staged>>,
         inHandshake' => inHandshake,
         UNCHANGED <<writerPc, writing, bytesWritten, accepted, canWrite>>,
         UNCHANGED streamVars, received' = received
  PROVE  WriterState' /\ MultiState' /\ StreamTypes' /\ StreamEnd' /\ PlaceKept
<1>1. QueueKept
  BY QueueUntouched
<1>2. PlaceKept
  BY <1>1, WriterPlaceKept
<1>3. StreamKept
  BY StreamSame
<1>4. LastLeft' = LastLeft /\ ignoredResponses' = ignoredResponses
  BY <1>1 DEF QueueKept
<1> QED BY <1>1, <1>2, <1>3, <1>4, WriterStateKept, MultiKept, TypesKept, EndKept


LEMMA HandshakeRest ==
  ASSUME QInv, UNCHANGED <<inHandshake, handshakeStaged, handshakeIterator,
                           handshakeValidated, nextToWrite, nextToAcknowledge,
                           ignoredResponses>>,
         UNCHANGED <<writerPc, writing, bytesWritten, accepted, canWrite>>,
         UNCHANGED streamVars, received' = received
  PROVE  HandshakeState'
<1>1. StreamKept /\ Len(Stream) \in Nat
  BY StreamSame, StreamFacts
<1>2. Running' <=> Running
  BY DEF Running
<1>3. HandshakesSent' = HandshakesSent
  BY DEF HandshakesSent
<1>4. Running => ((writing.kind = "request" \/ writerPc = "request") => ~inHandshake)
  BY DEF QInv, HandshakeState
<1>5. writing' = writing /\ writerPc' = writerPc
  OBVIOUS
<1> QED BY <1>1, <1>2, <1>3, <1>4, <1>5, HandshakeKept

\* The reply breaks the connection.
LEMMA FeedBreaks ==
  ASSUME QInv, Feeds(FALSE), UNCHANGED coreVars
  PROVE  [Next]_coreVars /\ QInv'
<1>1. [Next]_coreVars
  OBVIOUS
<1>2. /\ UNCHANGED <<queueVars, iteratorVars, staged, messages>>
      /\ UNCHANGED <<inHandshake, handshakeStaged, handshakeIterator,
                     handshakeValidated, nextToWrite, nextToAcknowledge,
                     ignoredResponses>>
  BY DEF coreVars, callerVars, handshakeVars, iteratorVars
<1>3. Len(messages) \in Nat /\ handshakeValidated \in Nat
  BY Numbers DEF QInv, IInv, TypeOK
<1>4. /\ TakesReply
      /\ UNCHANGED <<writerPc, writing, bytesWritten, accepted, canWrite>>
      /\ UNCHANGED streamVars /\ received' = received
      /\ eventLoop' # "reading"
  <2>1. IF Head(buffered).kind = "push" THEN Len(messages') <= Len(messages) + 1
        ELSE messages' = messages
    BY <1>2, <1>3
  <2>2. FALSE \in BOOLEAN
    OBVIOUS
  <2> QED BY <2>1, <2>2, FeedsRest
<1>5. inHandshake' => inHandshake
  BY <1>2
<1>6. WriterState' /\ MultiState' /\ StreamTypes' /\ StreamEnd' /\ PlaceKept
  BY <1>2, <1>4, <1>5, QueueRest
<1>7. HandshakeState'
  BY <1>2, <1>4, HandshakeRest
<1>8. LastLeft' = LastLeft /\ ignoredResponses' = ignoredResponses
  BY CoreUntouched, <1>2
<1>9. ASSUME NEW c \in Nat, NEW n \in Nat, Faces(c), n = Looked(c)
      PROVE  Level(n)'
  <2>1. CASE Head(buffered).kind = "push"
    <3>1. n = c
      BY <1>9, <2>1 DEF Looked
    <3> QED BY <1>2, <1>4, <1>6, <1>8, <1>9, <3>1, StreamSame, LevelKept DEF Faces
  <2>2. CASE Head(buffered).kind # "push"
    <3>1. n = c + 1
      BY <1>9, <2>2 DEF Looked
    <3>2. CASE inHandshake \/ Exclusive
      BY <1>2, <3>2 DEF Level, Exclusive
    <3>3. CASE ~inHandshake /\ ~Exclusive
      <4>1. NotAfter(LastLeft + 1, ignoredResponses,
                     NextId(Stream[c + 1]), NextIndex(Stream[c + 1]))
        <5>1. LastLeft + 1 \in Nat /\ ignoredResponses \in Nat
          BY Numbers
        <5> QED BY <1>9, <2>2, <3>3, <5>1, UnitFaced, NotAfterNext
      <4>2. Level(c + 1)'
        BY <1>4, <1>6, <1>8, <1>9, <2>2, <3>3, <4>1, LevelBehind
      <4> QED BY <3>1, <4>2
    <3> QED BY <3>2, <3>3
  <2> QED BY <2>1, <2>2
<1>10. \A c, n \in Nat : Faces(c) /\ n = Looked(c) => Level(n)'
  BY <1>9
<1>11. handshakeValidated' <=
         handshakeValidated + (IF Head(buffered).kind = "push" THEN 0 ELSE 1)
  BY <1>2, <1>3
<1> QED BY <1>1, <1>4, <1>6, <1>7, <1>10, <1>11, ReplyTaken


\* A reply the core looks at is one of those it may be given.
LEMMA FeedNext ==
  ASSUME QInv, NEW alive, Feeds(alive), ConsumeResponse(Head(buffered), alive),
         IF Head(buffered).kind = "push" THEN Len(messages') <= Len(messages) + 1
         ELSE messages' = messages,
         messages' \in Seq(Nat)
  PROVE  [Next]_coreVars
<1>1. TakesReply /\ buffered # <<>> /\ replies' = replies /\ buffered' = Tail(buffered)
      /\ alive \in BOOLEAN
  BY FeedsRest DEF TakesReply, Feeds
<1>2. Head(buffered) \in Replies
  BY <1>1, TakenReply, ServerAssumption
<1>3. Len(messages') <= MaxMessages
  BY <1>1, PushesTaken
<1> QED BY <1>1, <1>2, <1>3 DEF Next, EventLoopStep

\* During the handshake
LEMMA FeedHandshake ==
  ASSUME QInv, Feeds(TRUE), ConsumeHandshake(Head(buffered), TRUE)
  PROVE  [Next]_coreVars /\ QInv'
<1>1. /\ UNCHANGED <<queueVars, iteratorVars, staged, messages>>
      /\ UNCHANGED <<handshakeIterator, nextToWrite, nextToAcknowledge,
                     ignoredResponses>>
      /\ inHandshake /\ Head(buffered).kind = "ok"
      /\ handshakeValidated' = handshakeValidated + 1
      /\ IF handshakeValidated + 1 = HandshakeRounds
         THEN inHandshake' = FALSE /\ handshakeStaged' = handshakeStaged
         ELSE inHandshake' = inHandshake /\ handshakeStaged' = handshakeStaged + 1
  BY DEF ConsumeHandshake, callerVars, iteratorVars
<1>2. Head(buffered).kind # "push"
  BY <1>1
<1>3. IF Head(buffered).kind = "push" THEN Len(messages') <= Len(messages) + 1
      ELSE messages' = messages
  BY <1>1, <1>2
<1>4. [Next]_coreVars
  <2>1. messages' \in Seq(Nat)
    BY <1>1 DEF QInv, IInv, TypeOK
  <2> QED BY <1>3, <2>1, FeedNext DEF ConsumeResponse
<1>5. /\ TakesReply
      /\ UNCHANGED <<writerPc, writing, bytesWritten, accepted, canWrite>>
      /\ UNCHANGED streamVars /\ received' = received
  BY <1>3, FeedsRest
<1>6. WriterState' /\ MultiState' /\ StreamTypes' /\ StreamEnd' /\ PlaceKept
  BY <1>1, <1>5, QueueRest
<1>7. Stream' = Stream /\ peerClosed' = peerClosed
  BY <1>5, StreamSame
<1>8. /\ handshakeStaged \in Nat /\ handshakeIterator \in Nat
      /\ handshakeValidated \in Nat /\ HandshakeRounds \in Nat
      /\ LastLeft \in Nat /\ nextToWrite \in Nat
      /\ Len(Stream) \in Nat /\ Len(received) \in Nat /\ Len(received) <= Len(Stream)
  <2>1. /\ Len(received) \in Nat /\ Len(wire) \in Nat
        /\ Len(Stream) = Len(received) + Len(wire)
    BY StreamFacts
  <2>2. Len(Stream) \in Nat /\ Len(received) <= Len(Stream)
    BY <2>1
  <2> QED BY <2>1, <2>2, Numbers
<1>9. /\ handshakeIterator <= handshakeStaged /\ handshakeStaged <= HandshakeRounds
      /\ handshakeStaged = handshakeValidated + 1
      /\ nextToWrite = nextToAcknowledge /\ ignoredResponses = 0
      /\ Len(Stream) <= handshakeIterator
      /\ Running =>
           /\ writing.kind # "request" /\ writerPc # "request"
           /\ Len(Stream) <= HandshakesSent \/ HandshakesSent = HandshakeRounds
           /\ ~peerClosed => Len(Stream) >= HandshakesSent
  BY <1>1 DEF QInv, HandshakeState
<1>10. /\ HandshakesSent \in Int /\ HandshakesSent <= handshakeIterator
       /\ HandshakesSent' = HandshakesSent
  BY <1>1, <1>5, <1>8 DEF HandshakesSent
<1>11. ASSUME NEW c \in Nat, Faces(c)
       PROVE  c < Len(received) /\ handshakeValidated <= c
  BY <1>2, <1>11 DEF Faces
<1>12. PICK d \in Nat : Faces(d)
  BY <1>5, SomePlace
<1>13. Running' <=> Running
  BY <1>5 DEF Running
<1>14. CASE handshakeValidated + 1 = HandshakeRounds
  <2>1. HandshakeState'
    <3>1. /\ inHandshake' = FALSE /\ handshakeStaged' = HandshakeRounds
          /\ handshakeValidated' = HandshakeRounds
      BY <1>1, <1>9, <1>14
    <3>2. Running => HandshakesSent = HandshakeRounds
      BY <1>8, <1>9, <1>10, <1>11, <1>12, <1>14
    <3>3. Running => (~peerClosed => Len(Stream) >= HandshakesSent)
      BY <1>9
    <3>4. handshakeIterator <= handshakeStaged'
      BY <1>9, <1>1, <1>14
    <3> QED BY <1>1, <1>7, <1>8, <1>10, <1>13, <3>1, <3>2, <3>3, <3>4 DEF HandshakeState
  <2>2. ASSUME NEW c \in Nat, Faces(c)
        PROVE  Level(c + 1)'
    <3>1. ~(c + 1 < Len(Stream))
      BY <1>8, <1>9, <1>11, <1>14, <2>2
    <3>2. LastLeft' = LastLeft /\ ignoredResponses' = 0
      BY <1>1, <1>9 DEF LastLeft, UnacknowledgedCount, queueVars
    <3>3. Running => LastLeft + 1 = WriteId /\ 0 = WriteIndex
      <4> SUFFICES ASSUME Running
                   PROVE  LastLeft + 1 = WriteId /\ 0 = WriteIndex
        OBVIOUS
      <4>1. ~Unfinished
        BY <1>9 DEF Unfinished
      <4>2. WriteIndex = 0 /\ WriteId = LastLeft + (nextToWrite - nextToAcknowledge) + 1
        BY <4>1, Place
      <4> QED BY <1>8, <1>9, <4>2
    <3>4. Running' => WriteId' = WriteId /\ WriteIndex' = WriteIndex
      BY <1>6 DEF PlaceKept
    <3> QED BY <1>7, <1>13, <3>1, <3>2, <3>3, <3>4 DEF Level
  <2>3. \A c, n \in Nat : Faces(c) /\ n = Looked(c) => Level(n)'
    BY <1>2, <2>2 DEF Looked
  <2>4. handshakeValidated' <=
          handshakeValidated + (IF Head(buffered).kind = "push" THEN 0 ELSE 1)
    BY <1>1, <1>2, <1>8
  <2> QED BY <1>4, <1>5, <1>6, <2>1, <2>3, <2>4, ReplyTaken
<1>15. CASE handshakeValidated + 1 # HandshakeRounds
  <2>1. HandshakeState'
    <3>1. /\ inHandshake' = TRUE /\ handshakeStaged' = handshakeStaged + 1
          /\ handshakeValidated' = handshakeValidated + 1
      BY <1>1, <1>15
    <3>2. /\ handshakeIterator <= handshakeStaged + 1
          /\ handshakeStaged + 1 <= HandshakeRounds
          /\ handshakeStaged + 1 = (handshakeValidated + 1) + 1
      BY <1>8, <1>9, <1>15
    <3> QED BY <1>1, <1>5, <1>7, <1>9, <1>10, <1>13, <3>1, <3>2 DEF HandshakeState
  <2>2. ASSUME NEW n \in Nat
        PROVE  Level(n)'
    BY <1>1, <1>15 DEF Level
  <2>3. \A c, n \in Nat : Faces(c) /\ n = Looked(c) => Level(n)'
    BY <2>2
  <2>4. handshakeValidated' <=
          handshakeValidated + (IF Head(buffered).kind = "push" THEN 0 ELSE 1)
    BY <1>1, <1>2, <1>8
  <2> QED BY <1>4, <1>5, <1>6, <2>1, <2>3, <2>4, ReplyTaken
<1> QED BY <1>14, <1>15

\* A message for the listener
LEMMA FeedMessage ==
  ASSUME QInv, NEW alive, Feeds(alive), ConsumeMessage(Head(buffered), alive)
  PROVE  [Next]_coreVars /\ QInv'
<1>1. /\ UNCHANGED <<queueVars, iteratorVars, staged>>
      /\ UNCHANGED <<inHandshake, handshakeStaged, handshakeIterator,
                     handshakeValidated, nextToWrite, nextToAcknowledge,
                     ignoredResponses>>
  BY DEF ConsumeMessage, callerVars, handshakeVars, iteratorVars
<1>2. /\ ~inHandshake
      /\ IsPush(Head(buffered)) \/ (HasListener /\ ExclusivePubsub)
      /\ alive = (HasListener => Head(buffered).kind \in {"push", "message"})
      /\ messages' = IF HasListener /\ alive
                     THEN Append(messages, Head(buffered).of) ELSE messages
  BY DEF ConsumeMessage
<1>3. /\ Head(buffered).kind \notin {"badpush", "message"}
      /\ Head(buffered).of \in Nat
  <2>1. Head(buffered) \in ServerReplies
    BY ReplyFacts DEF Feeds, FeedReply
  <2> QED BY <2>1 DEF ServerReplies
<1>4. Head(buffered).kind = "push" \/ (Exclusive /\ messages' = messages)
  BY <1>2, <1>3 DEF IsPush, Exclusive
<1>5. /\ messages \in Seq(Nat) /\ messages' \in Seq(Nat)
      /\ Len(messages') <= Len(messages) + 1
  <2>1. messages \in Seq(Nat) /\ Len(messages) \in Nat
    BY DEF QInv, IInv, TypeOK
  <2>2. CASE messages' = messages
    BY <2>1, <2>2
  <2>3. CASE messages' = Append(messages, Head(buffered).of)
    BY <1>3, <2>1, <2>3
  <2> QED BY <1>2, <2>1, <2>2, <2>3
<1>6. IF Head(buffered).kind = "push" THEN Len(messages') <= Len(messages) + 1
      ELSE messages' = messages
  BY <1>4, <1>5
<1>7. [Next]_coreVars
  BY <1>5, <1>6, FeedNext DEF ConsumeResponse
<1>8. /\ TakesReply
      /\ UNCHANGED <<writerPc, writing, bytesWritten, accepted, canWrite>>
      /\ UNCHANGED streamVars /\ received' = received
      /\ eventLoop' = "reading" => eventLoop = "reading"
  BY <1>6, FeedsRest
<1>9. inHandshake' => inHandshake
  BY <1>1
<1>10. WriterState' /\ MultiState' /\ StreamTypes' /\ StreamEnd' /\ PlaceKept
  BY <1>1, <1>8, <1>9, QueueRest
<1>11. HandshakeState'
  BY <1>1, <1>8, HandshakeRest
<1>12. LastLeft' = LastLeft
  BY <1>1 DEF LastLeft, UnacknowledgedCount, queueVars
<1>13. ASSUME NEW c \in Nat, NEW n \in Nat, Faces(c), n = Looked(c)
       PROVE  Level(n)'
  <2>1. CASE Exclusive
    BY <2>1 DEF Level, Exclusive
  <2>2. CASE ~Exclusive
    <3>1. n = c
      BY <1>4, <1>13, <2>2 DEF Looked
    <3> QED BY <1>1, <1>8, <1>10, <1>12, <1>13, <3>1, StreamSame, LevelKept DEF Faces
  <2> QED BY <2>1, <2>2
<1>14. \A c, n \in Nat : Faces(c) /\ n = Looked(c) => Level(n)'
  BY <1>13
<1>15. handshakeValidated' <=
         handshakeValidated + (IF Head(buffered).kind = "push" THEN 0 ELSE 1)
  BY <1>1, Numbers
<1> QED BY <1>7, <1>8, <1>10, <1>11, <1>14, <1>15, ReplyTaken


\* A reply to the block at the front is swallowed.
LEMMA FeedMultiPrefix ==
  ASSUME QInv, NEW alive, Feeds(alive), ConsumeMultiPrefix(Head(buffered), alive)
  PROVE  [Next]_coreVars /\ QInv'
<1>1. /\ UNCHANGED <<queueVars, staged, messages>>
      /\ UNCHANGED <<inHandshake, handshakeStaged, handshakeIterator,
                     handshakeValidated, nextToWrite, nextToAcknowledge>>
      /\ ~inHandshake /\ ~Exclusive /\ Head(buffered).kind # "push"
      /\ HasArrived(nextToAcknowledge)
      /\ ignoredResponses + 1 <= ToAcknowledge.multiSize
      /\ ignoredResponses' = ignoredResponses + 1
  BY DEF ConsumeMultiPrefix, AnswersRequest, IsPush, Exclusive, callerVars, handshakeVars
<1>2. IF Head(buffered).kind = "push" THEN Len(messages') <= Len(messages) + 1
      ELSE messages' = messages
  BY <1>1
<1>3. [Next]_coreVars
  <2>1. messages' \in Seq(Nat)
    BY <1>1 DEF QInv, IInv, TypeOK
  <2> QED BY <1>2, <2>1, FeedNext DEF ConsumeResponse
<1>4. /\ TakesReply
      /\ UNCHANGED <<writerPc, writing, bytesWritten, accepted, canWrite>>
      /\ UNCHANGED streamVars /\ received' = received
      /\ eventLoop' = "reading" => eventLoop = "reading"
  BY <1>2, FeedsRest
<1>5. /\ Stream' = Stream /\ StreamKept
      /\ UNCHANGED <<peerClosed, nextSequence, requestQueue>>
      /\ LastLeft' = LastLeft
  BY <1>1, <1>4, StreamSame DEF queueVars, LastLeft, UnacknowledgedCount
<1>6. /\ ignoredResponses \in Nat /\ LastLeft \in Nat /\ nextToAcknowledge \in Nat
      /\ staged \in Nat /\ handshakeValidated \in Nat
  BY Numbers
<1>7. Running' <=> Running
  BY <1>4 DEF Running
<1>8. WriterState'
  BY <1>1, <1>4, <1>5, <1>7 DEF QInv, WriterState, LengthOf
<1>9. PlaceKept
  <2>1. (Unfinished' <=> Unfinished) /\ UnitsSent' = UnitsSent
    BY <1>4, <1>5 DEF Unfinished, UnitsSent, LengthOf
  <2> QED BY <1>1, <1>5, <1>7, <2>1, PlaceSame DEF PlaceKept
<1>10. HandshakeState'
  <2>1. HandshakesSent' = HandshakesSent
    BY <1>1, <1>4 DEF HandshakesSent
  <2>2. writing' = writing /\ writerPc' = writerPc
    BY <1>4
  <2> QED BY <1>1, <1>5, <1>7, <2>1, <2>2 DEF QInv, HandshakeState
<1>11. MultiState'
  BY <1>1, <1>5 DEF MultiState, HasArrived, ToAcknowledge, Exclusive
<1>12. StreamTypes'
  <2>1. QueueMoves
    BY <1>1, <1>5, <1>6 DEF QueueMoves
  <2>2. inHandshake' => inHandshake
    BY <1>1
  <2> QED BY <1>5, <2>1, <2>2, TypesMoved
<1>13. ASSUME NEW c \in Nat, Faces(c)
       PROVE  /\ Running => NotAfter(LastLeft' + 1, ignoredResponses', WriteId, WriteIndex)
              /\ Level(c + 1)'
  <2> DEFINE unit == Stream[c + 1]
  <2>1. /\ unit.index <= unit.last
        /\ unit.id \in Nat /\ unit.index \in Nat /\ unit.last \in Nat
        /\ NextId(unit) \in Nat /\ NextIndex(unit) \in Nat
        /\ NotAfter(LastLeft + 1, ignoredResponses, unit.id, unit.index)
        /\ eventLoop = "reading" =>
             LastLeft + 1 = unit.id /\ ignoredResponses = unit.index
        /\ LastLeft + 1 = unit.id => unit.last = ToAcknowledge.multiSize
        /\ Running => NotAfter(NextId(unit), NextIndex(unit), WriteId, WriteIndex)
    BY <1>1, <1>13, UnitFaced
  <2>2. LastLeft + 1 \in Nat /\ ignoredResponses + 1 \in Nat
    BY <1>6
  <2>3. NotAfter(LastLeft + 1, ignoredResponses + 1, NextId(unit), NextIndex(unit))
    <3> HIDE DEF unit
    <3> QED BY <1>6, <2>1, <2>2, NotAfterNext
  <2>4. eventLoop = "reading" =>
          LastLeft + 1 = NextId(unit) /\ ignoredResponses + 1 = NextIndex(unit)
    <3> HIDE DEF unit
    <3> SUFFICES ASSUME eventLoop = "reading"
                 PROVE  LastLeft + 1 = NextId(unit) /\ ignoredResponses + 1 = NextIndex(unit)
      OBVIOUS
    <3>1. unit.index # unit.last
      BY <1>1, <1>6, <2>1
    <3> QED BY <2>1, <3>1 DEF NextId, NextIndex
  <2>5. Running => NotAfter(LastLeft + 1, ignoredResponses + 1, WriteId, WriteIndex)
    <3>1. WriteId \in Int /\ WriteIndex \in Int
      BY Place
    <3> HIDE DEF unit
    <3> QED BY <2>1, <2>2, <2>3, <3>1, Later
  <2>6. Level(c + 1)'
    <3>1. NotAfter(LastLeft' + 1, ignoredResponses',
                   NextId(Stream[c + 1]), NextIndex(Stream[c + 1]))
      BY <1>1, <1>5, <2>3
    <3>2. eventLoop' = "reading" =>
            /\ LastLeft' + 1 = NextId(Stream[c + 1])
            /\ ignoredResponses' = NextIndex(Stream[c + 1])
      BY <1>1, <1>4, <1>5, <2>4
    <3> QED BY <1>1, <1>4, <1>9, <1>13, <3>1, <3>2, LevelBehind
  <2>7. Running => NotAfter(LastLeft' + 1, ignoredResponses', WriteId, WriteIndex)
    BY <1>1, <1>5, <2>5
  <2> QED BY <2>6, <2>7
<1>14. StreamEnd'
  <2>1. PICK d \in Nat : Faces(d)
    BY <1>4, SomePlace
  <2>2. Running' => NotAfter(LastLeft' + 1, ignoredResponses', WriteId, WriteIndex)
    BY <1>7, <1>13, <2>1
  <2> QED BY <1>5, <1>9, <2>2, EndMoved
<1>15. \A c, n \in Nat : Faces(c) /\ n = Looked(c) => Level(n)'
  BY <1>1, <1>13 DEF Looked
<1>16. handshakeValidated' <=
         handshakeValidated + (IF Head(buffered).kind = "push" THEN 0 ELSE 1)
  BY <1>1, <1>6
<1> QED BY <1>3, <1>4, <1>8, <1>10, <1>11, <1>12, <1>14, <1>15, <1>16, ReplyTaken


\* The oldest request is acknowledged: by the place the writer is at, it has been
\* written completely, and the writer has a later one in hands, or none.
LEMMA Acknowledged ==
  ASSUME QInv, ~inHandshake, ~Exclusive, Head(buffered).kind # "push",
         HasArrived(nextToAcknowledge),
         ToAcknowledge.multiSize = 0 \/ ignoredResponses + 1 > ToAcknowledge.multiSize,
         NEW c \in Nat, Faces(c)
  PROVE  /\ NotAfter(LastLeft + 2, 0, NextId(Stream[c + 1]), NextIndex(Stream[c + 1]))
         /\ eventLoop = "reading" =>
              LastLeft + 2 = NextId(Stream[c + 1]) /\ 0 = NextIndex(Stream[c + 1])
         /\ Running => NotAfter(LastLeft + 2, 0, WriteId, WriteIndex)
         /\ (Running /\ writing.kind = "request") => nextToAcknowledge < nextToWrite
<1> DEFINE unit == Stream[c + 1]
<1>1. /\ unit.index <= unit.last
      /\ unit.id \in Nat /\ unit.index \in Nat /\ unit.last \in Nat
      /\ NextId(unit) \in Nat /\ NextIndex(unit) \in Nat
      /\ NotAfter(LastLeft + 1, ignoredResponses, unit.id, unit.index)
      /\ eventLoop = "reading" =>
           LastLeft + 1 = unit.id /\ ignoredResponses = unit.index
      /\ LastLeft + 1 = unit.id => unit.last = ToAcknowledge.multiSize
      /\ Running => NotAfter(NextId(unit), NextIndex(unit), WriteId, WriteIndex)
  BY UnitFaced
<1>2. /\ LastLeft \in Nat /\ ignoredResponses \in Nat /\ nextToAcknowledge \in Nat
      /\ nextToWrite \in Nat /\ nextSequence \in Nat
  BY Numbers
<1>3. ToAcknowledge.multiSize \in Nat
  <2>1. nextToAcknowledge \in frontSequence .. nextSequence - 1
    BY Numbers DEF HasArrived
  <2> QED BY <2>1, InMemory DEF ToAcknowledge
<1>4. ignoredResponses = ToAcknowledge.multiSize
  <2>1. ignoredResponses > 0 => ignoredResponses <= ToAcknowledge.multiSize
    BY DEF QInv, MultiState
  <2> QED BY <1>2, <1>3, <2>1
<1> HIDE DEF unit
<1>5. /\ NotAfter(LastLeft + 2, 0, NextId(unit), NextIndex(unit))
      /\ eventLoop = "reading" => LastLeft + 2 = NextId(unit) /\ 0 = NextIndex(unit)
  <2>1. CASE LastLeft + 1 = unit.id
    <3>1. unit.index = unit.last
      BY <1>1, <1>2, <1>4, <2>1 DEF NotAfter
    <3>2. NextId(unit) = LastLeft + 2 /\ NextIndex(unit) = 0
      BY <1>2, <2>1, <3>1 DEF NextId, NextIndex
    <3> QED BY <1>2, <3>2 DEF NotAfter
  <2>2. CASE LastLeft + 1 < unit.id
    <3>1. NextId(unit) >= LastLeft + 2
      BY <1>1, <1>2, <2>2 DEF NextId
    <3>2. eventLoop # "reading"
      BY <1>1, <1>2, <2>2
    <3> QED BY <1>1, <1>2, <3>1, <3>2 DEF NotAfter
  <2> QED BY <1>1, <1>2, <2>1, <2>2 DEF NotAfter
<1>6. ASSUME Running
      PROVE  /\ NotAfter(LastLeft + 2, 0, WriteId, WriteIndex)
             /\ writing.kind = "request" => nextToAcknowledge < nextToWrite
  <2>1. WriteId \in Int /\ WriteIndex \in Nat
    BY Place
  <2>2. NotAfter(LastLeft + 2, 0, WriteId, WriteIndex)
    <3>1. LastLeft + 2 \in Int /\ WriteIndex \in Int
      BY <1>2, <2>1
    <3> QED BY <1>1, <1>5, <1>6, <2>1, <3>1, Later
  <2>3. WriteId >= LastLeft + 2
    BY <1>2, <2>1, <2>2 DEF NotAfter
  <2>4. nextToWrite - nextToAcknowledge >= 1
    <3>1. CASE Unfinished
      BY <1>2, <2>3, <3>1, Place
    <3>2. CASE ~Unfinished
      BY <1>2, <2>3, <3>2, Place
    <3> QED BY <3>1, <3>2
  <2> QED BY <1>2, <2>2, <2>4
<1> QED BY <1>5, <1>6 DEF unit

\* The oldest request gets its reply.
LEMMA FeedAnswer ==
  ASSUME QInv, Feeds(TRUE), ConsumeReply(Head(buffered), TRUE)
  PROVE  [Next]_coreVars /\ QInv'
<1>1. /\ UNCHANGED <<staged, messages, nextSequence>>
      /\ UNCHANGED <<inHandshake, handshakeStaged, handshakeIterator,
                     handshakeValidated, nextToWrite>>
      /\ ~inHandshake /\ ~Exclusive /\ Head(buffered).kind # "push"
      /\ HasArrived(nextToAcknowledge)
      /\ ToAcknowledge.multiSize = 0 \/ ignoredResponses + 1 > ToAcknowledge.multiSize
      /\ ignoredResponses' = IF ToAcknowledge.multiSize = 0 THEN ignoredResponses ELSE 0
      /\ Discard(1)
  BY DEF ConsumeReply, AcknowledgePending, AnswersRequest, IsPush, Exclusive, callerVars,
         handshakeVars, Discard
<1>2. IF Head(buffered).kind = "push" THEN Len(messages') <= Len(messages) + 1
      ELSE messages' = messages
  BY <1>1
<1>3. [Next]_coreVars
  <2>1. messages' \in Seq(Nat)
    BY <1>1 DEF QInv, IInv, TypeOK
  <2> QED BY <1>2, <2>1, FeedNext DEF ConsumeResponse
<1>4. /\ TakesReply
      /\ UNCHANGED <<writerPc, writing, bytesWritten, accepted, canWrite>>
      /\ UNCHANGED streamVars /\ received' = received
      /\ eventLoop' = "reading" => eventLoop = "reading"
  BY <1>2, FeedsRest
<1>5. Stream' = Stream /\ StreamKept /\ peerClosed' = peerClosed
  BY <1>4, StreamSame
<1>6. /\ ignoredResponses \in Nat /\ LastLeft \in Nat /\ nextToAcknowledge \in Nat
      /\ staged \in Nat /\ handshakeValidated \in Nat /\ nextToWrite \in Nat
      /\ frontSequence \in Nat /\ nextSequence \in Nat
      /\ nextToAcknowledge = frontSequence + 1 /\ nextToWrite <= nextSequence
      /\ LastLeft = staged - (nextSequence - nextToAcknowledge)
  BY Numbers
<1>7. /\ nextToAcknowledge' = nextToAcknowledge + 1
      /\ requestQueue' = [s \in nextToAcknowledge .. nextSequence - 1 |-> requestQueue[s]]
  BY <1>1, <1>6 DEF Discard
<1>8. ignoredResponses' = 0
  <2>1. ignoredResponses > 0 => ignoredResponses <= ToAcknowledge.multiSize
    BY DEF QInv, MultiState
  <2> QED BY <1>1, <1>6, <2>1
<1>9. LastLeft' = LastLeft + 1 /\ LastLeft + 1 <= staged
  <2>1. LastLeft' = staged - (nextSequence - (nextToAcknowledge + 1))
    BY <1>1, <1>7 DEF LastLeft, UnacknowledgedCount
  <2>2. nextToAcknowledge < nextSequence
    BY <1>1 DEF HasArrived
  <2> QED BY <1>6, <2>1, <2>2
<1>10. PICK d \in Nat : Faces(d)
  BY <1>4, SomePlace
<1>11. ASSUME NEW c \in Nat, Faces(c)
       PROVE  /\ NotAfter(LastLeft + 2, 0, NextId(Stream[c + 1]), NextIndex(Stream[c + 1]))
              /\ eventLoop = "reading" =>
                   LastLeft + 2 = NextId(Stream[c + 1]) /\ 0 = NextIndex(Stream[c + 1])
              /\ Running => NotAfter(LastLeft + 2, 0, WriteId, WriteIndex)
              /\ (Running /\ writing.kind = "request") => nextToAcknowledge < nextToWrite
  BY <1>1, <1>11, Acknowledged
<1>12. Running' <=> Running
  BY <1>4 DEF Running
<1>13. ASSUME Running, writing.kind = "request"
       PROVE  /\ writing.sequence \in DOMAIN requestQueue'
              /\ requestQueue'[writing.sequence] = requestQueue[writing.sequence]
              /\ LengthOf(writing)' = LengthOf(writing)
  <2>1. writing.sequence = nextToWrite - 1 /\ nextToAcknowledge < nextToWrite
    BY <1>10, <1>11, <1>13 DEF QInv, WriterState
  <2>2. writing.sequence \in nextToAcknowledge .. nextSequence - 1
    BY <1>6, <2>1
  <2>3. requestQueue'[writing.sequence] = requestQueue[writing.sequence]
    BY <1>7, <2>2
  <2> QED BY <1>4, <1>7, <2>2, <2>3 DEF LengthOf
<1>14. WriterState'
  <2>1. WriterState
    BY DEF QInv
  <2>2. ASSUME Running, writing.kind = "request"
        PROVE  /\ writing.sequence = nextToWrite' - 1
               /\ writing.sequence \in DOMAIN requestQueue'
               /\ IF writerPc = "sent"
                  THEN accepted > 0 /\ bytesWritten + accepted <= LengthOf(writing)'
                  ELSE bytesWritten < LengthOf(writing)'
    BY <1>1, <1>13, <2>1, <2>2 DEF WriterState
  <2> QED BY <1>4, <1>12, <2>1, <2>2 DEF WriterState
<1>15. PlaceKept
  <2> SUFFICES ASSUME Running
               PROVE  WriteId' = WriteId /\ WriteIndex' = WriteIndex
    BY <1>12 DEF PlaceKept
  <2>1. UnitsSent' = UnitsSent
    BY <1>4 DEF UnitsSent
  <2>2. Unfinished' <=> Unfinished
    BY <1>4, <1>13, <2>1 DEF Unfinished
  <2>3. LastLeft' + (nextToWrite' - nextToAcknowledge') =
          LastLeft + (nextToWrite - nextToAcknowledge)
    <3>1. (LastLeft + 1) + (nextToWrite - (nextToAcknowledge + 1)) =
            LastLeft + (nextToWrite - nextToAcknowledge)
      BY <1>6
    <3> QED BY <1>1, <1>7, <1>9, <3>1
  <2>4. CASE Unfinished
    BY <2>1, <2>2, <2>3, <2>4 DEF WriteId, WriteIndex
  <2>5. CASE ~Unfinished
    BY <2>1, <2>2, <2>3, <2>5 DEF WriteId, WriteIndex
  <2> QED BY <2>4, <2>5
<1>16. HandshakeState'
  <2>1. HandshakesSent' = HandshakesSent
    BY <1>1, <1>4 DEF HandshakesSent
  <2>2. writing' = writing /\ writerPc' = writerPc
    BY <1>4
  <2> QED BY <1>1, <1>5, <1>12, <2>1, <2>2 DEF QInv, HandshakeState
<1>17. MultiState'
  BY <1>8 DEF MultiState
<1>18. StreamTypes'
  <2>1. QueueMoves
    <3> DEFINE l == LastLeft'
               k == LastLeft
    <3>1. l = k + 1 /\ k \in Nat
      BY <1>6, <1>9
    <3> HIDE DEF l, k
    <3>2. /\ l \in Nat /\ k <= l
          /\ l - (nextToAcknowledge + 1) = k - nextToAcknowledge
      BY <1>6, <3>1
    <3>3. \A s \in DOMAIN requestQueue :
            s >= nextToAcknowledge + 1 => requestQueue'[s] = requestQueue[s]
      <4> SUFFICES ASSUME NEW s \in DOMAIN requestQueue, s >= nextToAcknowledge + 1
                   PROVE  requestQueue'[s] = requestQueue[s]
        OBVIOUS
      <4>1. s \in frontSequence .. nextSequence - 1
        BY InMemory
      <4>2. s \in nextToAcknowledge .. nextSequence - 1
        BY <1>6, <4>1
      <4> QED BY <1>7, <4>2
    <3>4. nextToAcknowledge + 1 \in Nat /\ staged' = staged /\ staged <= staged
      BY <1>1, <1>6
    <3> QED BY <1>6, <1>7, <3>2, <3>3, <3>4 DEF QueueMoves, l, k
  <2>2. inHandshake' => inHandshake
    BY <1>1
  <2> QED BY <1>5, <2>1, <2>2, TypesMoved
<1>19. LastLeft' + 1 = LastLeft + 2
  BY <1>6, <1>9
<1>20. StreamEnd'
  <2>1. Running' => NotAfter(LastLeft' + 1, ignoredResponses', WriteId, WriteIndex)
    BY <1>8, <1>10, <1>11, <1>12, <1>19
  <2> QED BY <1>5, <1>15, <2>1, EndMoved
<1>21. ASSUME NEW c \in Nat, Faces(c)
       PROVE  Level(c + 1)'
  <2>1. NotAfter(LastLeft' + 1, ignoredResponses',
                 NextId(Stream[c + 1]), NextIndex(Stream[c + 1]))
    BY <1>8, <1>11, <1>19, <1>21
  <2>2. eventLoop' = "reading" =>
          /\ LastLeft' + 1 = NextId(Stream[c + 1])
          /\ ignoredResponses' = NextIndex(Stream[c + 1])
    BY <1>4, <1>8, <1>11, <1>19, <1>21
  <2> QED BY <1>1, <1>4, <1>15, <1>21, <2>1, <2>2, LevelBehind
<1>22. \A c, n \in Nat : Faces(c) /\ n = Looked(c) => Level(n)'
  BY <1>1, <1>21 DEF Looked
<1>23. handshakeValidated' <=
         handshakeValidated + (IF Head(buffered).kind = "push" THEN 0 ELSE 1)
  BY <1>1, <1>6
<1> QED BY <1>3, <1>4, <1>14, <1>16, <1>17, <1>18, <1>20, <1>22, <1>23, ReplyTaken

LEMMA FeedStep ==
  ASSUME QInv, NEW alive, Feeds(alive)
  PROVE  [Next]_coreVars /\ QInv'
<1>1. alive \in BOOLEAN
  BY DEF Feeds
<1>2. CASE UNCHANGED coreVars /\ alive = FALSE
  BY <1>2, FeedBreaks
<1>3. CASE ConsumeHandshake(Head(buffered), alive)
  <2>1. CASE alive = TRUE
    BY <1>3, <2>1, FeedHandshake
  <2>2. CASE alive = FALSE
    <3>1. UNCHANGED coreVars
      BY <1>3, <2>2 DEF ConsumeHandshake, coreVars
    <3> QED BY <2>2, <3>1, FeedBreaks
  <2> QED BY <1>1, <2>1, <2>2
<1>4. CASE ConsumeMessage(Head(buffered), alive)
  BY <1>4, FeedMessage
<1>5. CASE ConsumeMultiPrefix(Head(buffered), alive)
  BY <1>5, FeedMultiPrefix
<1>6. CASE ConsumeReply(Head(buffered), alive)
  <2>1. alive = TRUE
    BY <1>6 DEF ConsumeReply
  <2> QED BY <1>6, <2>1, FeedAnswer
<1> QED BY <1>2, <1>3, <1>4, <1>5, <1>6
        DEF Feeds, FeedReply, ConsumeResponse, ConsumeUnavailable, ConsumeUnexpected

LEMMA ReadReplyStep ==
  ASSUME QInv, ReadReply \/ (Drain /\ buffered # <<>>)
  PROVE  [Next]_coreVars /\ QInv'
<1>1. CASE ReadReply
  <2>1. PICK alive \in BOOLEAN : Feeds(alive)
    BY <1>1 DEF ReadReply, Feeds
  <2> QED BY <2>1, FeedStep
<1>2. CASE Drain /\ buffered # <<>>
  <2>1. PICK alive \in BOOLEAN : Feeds(alive)
    BY <1>2 DEF Drain, Feeds
  <2> QED BY <2>1, FeedStep
<1> QED BY <1>1, <1>2


-----------------------------------------------------------------------------
(* The event loop, and the destructor, while there is no connection           *)

LEMMA NoReplies ==
  ASSUME NEW s, NEW t, s = <<>>, t = <<>>
  PROVE  /\ s \o t = <<>> /\ Len(s \o t) = 0
         /\ \E p \in [0 .. 0 -> 0 .. 0] : p[0] = 0
         /\ Cardinality(Pushed(s \o t)) = 0
<1>1. s \o t = <<>> /\ Len(s \o t) = 0
  OBVIOUS
<1>2. \E p \in [0 .. 0 -> 0 .. 0] : p[0] = 0
  <2> DEFINE p == [j \in 0 .. 0 |-> 0]
  <2>1. p \in [0 .. 0 -> 0 .. 0] /\ p[0] = 0
    OBVIOUS
  <2> QED BY <2>1
<1>3. Pushed(s \o t) = {}
  BY <1>1 DEF Pushed
<1> QED BY <1>1, <1>2, <1>3, FS_EmptySet

LEMMA CleanupStep ==
  ASSUME QInv, Cleanup, firstEpoch' => eventLoop' = "connect"
  PROVE  [Next]_coreVars /\ QInv'
<1>1. /\ writerPc = "off" /\ streamOk' = FALSE /\ peerClosed' = FALSE
      /\ wire' = <<>> /\ replies' = <<>> /\ buffered' = <<>> /\ received' = <<>>
      /\ UNCHANGED <<writerPc, writing, bytesWritten, accepted, canWrite>>
      /\ Reconnection \/ ClearAllPending
  BY DEF Cleanup, Joined, writerVars, writerLocals
<1>2. [Next]_coreVars
  BY <1>1 DEF Next, EventLoopStep
<1>3. IInv' /\ StagedBound'
  BY <1>2, NextIInv, StagedBoundStep DEF QInv
<1>4. /\ RestartHandshake /\ ignoredResponses' = 0
      /\ nextToWrite' = nextToAcknowledge' /\ messages' = messages
  BY <1>1 DEF Reconnection, ClearAllPending
<1>5. Stream' = <<>> /\ Len(Stream') = 0 /\ Arriving' = <<>> /\ Len(Arriving') = 0
  BY <1>1 DEF Stream, Arriving
<1>6. ~Running'
  BY <1>1 DEF Running
<1>7. /\ handshakeStaged \in Nat /\ handshakeIterator \in Nat
      /\ handshakeValidated \in Nat /\ HandshakeRounds \in Nat
  BY Numbers
<1>8. /\ handshakeIterator' = 0 /\ handshakeValidated' = 0
      /\ inHandshake' = (HandshakeRounds > 0)
      /\ handshakeStaged' = IF HandshakeRounds > 0 THEN 1 ELSE 0
  <2>1. CASE HandshakeRounds > 0
    BY <1>4, <2>1 DEF RestartHandshake
  <2>2. CASE ~(HandshakeRounds > 0)
    <3>1. /\ handshakeStaged <= HandshakeRounds /\ handshakeIterator <= handshakeStaged
          /\ IF inHandshake THEN handshakeStaged = handshakeValidated + 1
             ELSE handshakeValidated = HandshakeRounds
      BY DEF QInv, HandshakeState
    <3>2. handshakeStaged = 0 /\ handshakeIterator = 0
      BY <1>7, <2>2, <3>1
    <3>3. handshakeValidated = 0
      BY <1>7, <2>2, <3>1, <3>2
    <3> QED BY <1>4, <2>2, <3>2, <3>3 DEF RestartHandshake
  <2> QED BY <2>1, <2>2
<1>9. WriterState'
  BY <1>1, <1>6 DEF QInv, WriterState
<1>10. HandshakeState'
  <2>1. CASE HandshakeRounds > 0
    <3>1. inHandshake' /\ handshakeStaged' = 1 /\ 1 <= HandshakeRounds /\ 0 <= 1 /\ 1 = 0 + 1
      <4>1. 1 <= HandshakeRounds /\ 0 <= 1 /\ 1 = 0 + 1
        BY <1>7, <2>1
      <4>2. inHandshake' /\ handshakeStaged' = 1
        BY <1>8, <2>1, Zenon
      <4> QED BY <4>1, <4>2
    <3>2. Len(Stream') <= 0
      BY <1>5
    <3> QED BY <1>4, <1>6, <1>8, <3>1, <3>2 DEF HandshakeState
  <2>2. CASE ~(HandshakeRounds > 0)
    <3>1. /\ ~inHandshake' /\ handshakeStaged' = 0 /\ 0 <= HandshakeRounds /\ 0 <= 0
          /\ HandshakeRounds = 0
      <4>1. 0 <= HandshakeRounds /\ 0 <= 0 /\ HandshakeRounds = 0
        BY <1>7, <2>2
      <4>2. ~inHandshake' /\ handshakeStaged' = 0
        BY <1>8, <2>2, Zenon
      <4> QED BY <4>1, <4>2
    <3> QED BY <1>6, <1>8, <3>1 DEF HandshakeState
  <2> QED BY <2>1, <2>2
<1>11. MultiState'
  BY <1>4 DEF MultiState
<1>12. StreamTypes'
  BY <1>1, <1>5, <1>7 DEF StreamTypes
<1>13. StreamOrder' /\ StreamEnd'
  BY <1>5, <1>6, <1>7 DEF StreamOrder, StreamEnd
<1>14. AnswerState'
  <2>1. PICK p \in [0 .. 0 -> 0 .. 0] : p[0] = 0
    BY <1>1, NoReplies
  <2>2. Level(0)'
    BY <1>5, <1>6 DEF Level
  <2>3. Pairing(p)'
    BY <1>1, <1>5, <1>8, <2>1 DEF Pairing
  <2>4. Level(p[0])'
    BY <2>1, <2>2
  <2>5. Len(Arriving') = 0 /\ Len(received') = 0
    BY <1>1, <1>5
  <2> QED BY <1>1, <2>1, <2>3, <2>4, <2>5 DEF AnswerState
<1>15. FreshState'
  BY <1>1, <1>4, <1>6, <1>8 DEF FreshState
<1>16. PushBound'
  <2>1. Cardinality(Pushed(Arriving')) = 0
    BY <1>1, NoReplies DEF Arriving
  <2>2. /\ Cardinality(Pushed(Arriving)) \in Nat /\ MaxMessages \in Nat
        /\ Len(messages) \in Nat
    BY ReplyFacts, PushesCounted, SizesAssumption DEF QInv, IInv, TypeOK
  <2>3. Len(messages) <= MaxMessages
    BY <2>2 DEF QInv, PushBound
  <2>4. Len(messages) + 0 <= MaxMessages
    BY <2>2, <2>3
  <2> QED BY <1>4, <2>1, <2>4 DEF PushBound, Pushed
<1> QED BY <1>2, <1>3, <1>9, <1>10, <1>11, <1>12, <1>13, <1>14, <1>15, <1>16 DEF QInv

LEMMA CleanupStepKeeps ==
  ASSUME QInv, EventLoopCleanup \/ DestructorCleanup
  PROVE  [Next]_coreVars /\ QInv'
<1>1. Cleanup
  BY DEF EventLoopCleanup, DestructorCleanup
<1>2. firstEpoch' => eventLoop' = "connect"
  <2>1. firstEpoch' = firstEpoch
    BY <1>1 DEF Cleanup
  <2>2. firstEpoch => eventLoop = "connect"
    BY DEF QInv, FreshState
  <2> QED BY <2>1, <2>2 DEF EventLoopCleanup, DestructorCleanup
<1> QED BY <1>1, <1>2, CleanupStep

LEMMA DialSucceedsStep ==
  ASSUME QInv, DialSucceeds
  PROVE  [Next]_coreVars /\ QInv'
<1>1. /\ eventLoop = "dial" /\ eventLoop' = "reading" /\ firstEpoch' = firstEpoch
      /\ SetBlockingMode(TRUE)
      /\ writerPc' = "loop" /\ writing' = Nothing
      /\ bytesWritten' = 0 /\ accepted' = 0 /\ canWrite' = TRUE
      /\ UNCHANGED <<wire, peerClosed, buffered, received, replies>>
  BY DEF DialSucceeds, Activate, serverVars
<1>2. /\ received = <<>> /\ wire = <<>> /\ replies = <<>> /\ buffered = <<>>
      /\ ignoredResponses = 0 /\ nextToWrite = nextToAcknowledge
      /\ handshakeIterator = 0 /\ handshakeValidated = 0
      /\ inHandshake = (HandshakeRounds > 0) /\ ~peerClosed /\ ~firstEpoch
  BY <1>1 DEF QInv, FreshState
<1>3. /\ [Next]_coreVars
      /\ UNCHANGED <<queueVars, iteratorVars, staged, messages>>
      /\ UNCHANGED <<inHandshake, handshakeStaged, handshakeIterator, handshakeValidated>>
      /\ UNCHANGED <<nextToWrite, nextToAcknowledge, ignoredResponses>>
  <2>1. TRUE \in BOOLEAN
    OBVIOUS
  <2> QED BY <1>1, <2>1, BlockingModeRest DEF iteratorVars
<1>4. IInv' /\ StagedBound'
  BY <1>3, NextIInv, StagedBoundStep DEF QInv
<1>5. QueueKept
  BY <1>3, QueueUntouched
<1>6. Stream' = <<>> /\ Len(Stream') = 0 /\ Arriving' = <<>> /\ Len(Arriving') = 0
      /\ Arriving' = Arriving /\ Stream' = Stream
  BY <1>1, <1>2 DEF Stream, Arriving
<1>7. /\ HandshakeRounds \in Nat /\ LastLeft \in Nat /\ nextToWrite \in Nat
      /\ handshakeStaged \in Nat
  BY Numbers
<1>8. WriterState'
  BY <1>1 DEF WriterState, Items, Nothing, Running
<1>9. HandshakeState'
  <2>1. HandshakesSent' = 0
    <3>1. writing'.kind # "handshake" /\ handshakeIterator' = 0
      BY <1>1, <1>2, <1>3 DEF Nothing
    <3>2. HandshakesSent' = handshakeIterator' - 0
      BY <3>1 DEF HandshakesSent
    <3> QED BY <3>1, <3>2
  <2>2. writing'.kind = "nothing" /\ writerPc' = "loop" /\ Len(Stream') = 0
    BY <1>1, <1>6 DEF Nothing
  <2>3. /\ handshakeStaged <= HandshakeRounds
        /\ IF inHandshake THEN handshakeStaged = handshakeValidated + 1
           ELSE handshakeStaged = HandshakeRounds /\ handshakeValidated = HandshakeRounds
    BY DEF QInv, HandshakeState
  <2>4. CASE HandshakeRounds > 0
    BY <1>2, <1>3, <1>7, <2>1, <2>2, <2>3, <2>4 DEF HandshakeState
  <2>5. CASE ~(HandshakeRounds > 0)
    BY <1>2, <1>3, <1>7, <2>1, <2>2, <2>3, <2>5 DEF HandshakeState
  <2> QED BY <2>4, <2>5
<1>10. MultiState'
  BY <1>5, MultiKept
<1>11. StreamTypes' /\ StreamOrder'
  <2>1. StreamKept
    BY <1>1, <1>6, StreamFacts DEF StreamKept
  <2>2. inHandshake' => inHandshake
    BY <1>3
  <2> QED BY <1>5, <2>1, <2>2, TypesKept, OrderKept
<1>12. LastLeft' = LastLeft /\ ignoredResponses' = 0
  BY <1>2, <1>5 DEF QueueKept
<1>13. WriteId' = LastLeft + 1 /\ WriteIndex' = 0
  <2>1. ~Unfinished'
    BY <1>1 DEF Unfinished, Nothing
  <2>2. LastLeft + (nextToWrite - nextToAcknowledge) + 1 = LastLeft + 1
    BY <1>2, <1>7
  <2> QED BY <1>3, <1>12, <2>1, <2>2 DEF WriteId, WriteIndex
<1>14. StreamEnd'
  <2>1. NotAfter(LastLeft' + 1, ignoredResponses', WriteId', WriteIndex')
    BY <1>12, <1>13 DEF NotAfter
  <2> QED BY <1>6, <1>7, <1>13, <2>1 DEF StreamEnd, NotAfter
<1>15. AnswerState'
  <2>1. PICK p \in [0 .. 0 -> 0 .. 0] : p[0] = 0
    BY <1>2, NoReplies
  <2>2. Level(0)'
    BY <1>6, <1>12, <1>13 DEF Level
  <2>3. Pairing(p)'
    BY <1>1, <1>2, <1>3, <1>6, <2>1 DEF Pairing
  <2>4. Level(p[0])'
    BY <2>1, <2>2
  <2>5. Len(Arriving') = 0 /\ Len(received') = 0
    BY <1>1, <1>2, <1>6
  <2> QED BY <1>1, <1>2, <2>1, <2>3, <2>4, <2>5 DEF AnswerState
<1>16. FreshState'
  BY <1>1, <1>2 DEF FreshState
<1>17. PushBound'
  BY <1>3, <1>6 DEF QInv, PushBound, Pushed
<1> QED BY <1>3, <1>4, <1>8, <1>9, <1>10, <1>11, <1>14, <1>15, <1>16, <1>17 DEF QInv

LEMMA InitQInv ==
  ASSUME QInit
  PROVE  QInv
<1>1. /\ writerPc = "off" /\ streamOk = FALSE /\ peerClosed = FALSE
      /\ wire = <<>> /\ replies = <<>> /\ buffered = <<>> /\ received = <<>>
      /\ writing = Nothing /\ bytesWritten = 0 /\ accepted = 0 /\ canWrite = TRUE
      /\ eventLoop = "connect"
      /\ ignoredResponses = 0 /\ nextToWrite = 1 /\ nextToAcknowledge = 1
      /\ messages = <<>> /\ handshakeIterator = 0 /\ handshakeValidated = 0
      /\ inHandshake = (HandshakeRounds > 0)
      /\ handshakeStaged = IF HandshakeRounds > 0 THEN 1 ELSE 0
      /\ staged = 0 /\ staging = [t \in Callers |-> Idle]
  BY DEF QInit, Init, WriterInit
<1>2. IInv
  BY InitIInv DEF QInit
<1>3. StagedBound
  <2>1. Holding = {}
    BY <1>1 DEF Holding
  <2>2. Cardinality(Holding) = 0 /\ MaxStaged \in Nat
    BY <2>1, FS_EmptySet, SizesAssumption
  <2> QED BY <1>1, <2>2 DEF StagedBound
<1>4. Stream = <<>> /\ Len(Stream) = 0 /\ Arriving = <<>> /\ Len(Arriving) = 0
  BY <1>1 DEF Stream, Arriving
<1>5. ~Running /\ HandshakeRounds \in Nat
  BY <1>1, SizesAssumption DEF Running
<1>6. WriterState
  BY <1>1 DEF WriterState, Items, Nothing, Running
<1>7. HandshakeState
  <2>1. CASE HandshakeRounds > 0
    <3>1. inHandshake /\ handshakeStaged = 1 /\ 1 <= HandshakeRounds /\ 0 <= 1 /\ 1 = 0 + 1
      <4>1. 1 <= HandshakeRounds /\ 0 <= 1 /\ 1 = 0 + 1
        BY <1>5, <2>1
      <4>2. inHandshake /\ handshakeStaged = 1
        BY <1>1, <2>1, Zenon
      <4> QED BY <4>1, <4>2
    <3>2. Len(Stream) <= 0 /\ nextToWrite = nextToAcknowledge
      BY <1>1, <1>4
    <3> QED BY <1>1, <1>5, <3>1, <3>2 DEF HandshakeState
  <2>2. CASE ~(HandshakeRounds > 0)
    <3>1. /\ ~inHandshake /\ handshakeStaged = 0 /\ 0 <= HandshakeRounds /\ 0 <= 0
          /\ HandshakeRounds = 0
      <4>1. 0 <= HandshakeRounds /\ 0 <= 0 /\ HandshakeRounds = 0
        BY <1>5, <2>2
      <4>2. ~inHandshake /\ handshakeStaged = 0
        BY <1>1, <2>2, Zenon
      <4> QED BY <4>1, <4>2
    <3> QED BY <1>1, <1>5, <3>1 DEF HandshakeState
  <2> QED BY <2>1, <2>2
<1>8. MultiState
  BY <1>1 DEF MultiState
<1>9. StreamTypes
  BY <1>1, <1>4, <1>5 DEF StreamTypes
<1>10. StreamOrder /\ StreamEnd
  BY <1>4, <1>5 DEF StreamOrder, StreamEnd
<1>11. AnswerState
  <2>1. PICK p \in [0 .. 0 -> 0 .. 0] : p[0] = 0
    BY <1>1, NoReplies
  <2>2. Level(0)
    BY <1>4, <1>5 DEF Level
  <2>3. Pairing(p)
    BY <1>1, <1>4, <2>1 DEF Pairing
  <2>4. Len(Arriving) = 0 /\ Len(received) = 0
    BY <1>1, <1>4
  <2> QED BY <1>1, <2>1, <2>2, <2>3, <2>4 DEF AnswerState
<1>12. FreshState
  BY <1>1, <1>5 DEF FreshState
<1>13. PushBound
  <2>1. Cardinality(Pushed(Arriving)) = 0 /\ Len(messages) = 0 /\ MaxMessages \in Nat
    BY <1>1, NoReplies, SizesAssumption DEF Arriving
  <2> QED BY <2>1 DEF PushBound
<1> QED BY <1>2, <1>3, <1>6, <1>7, <1>8, <1>9, <1>10, <1>11, <1>12, <1>13 DEF QInv

-----------------------------------------------------------------------------
(* The system                                                                *)

LEMMA QNextQInv ==
  ASSUME QInv, [QNext]_vars
  PROVE  [Next]_coreVars /\ QInv'
<1>1. CASE \E t \in Callers : User(t)
  BY <1>1, UserStep
<1>2. CASE Executor
  BY <1>2, ExecutorStep
<1>3. CASE Writer
  BY <1>3, WriterThreadStepKeeps
<1>4. CASE Server
  BY <1>4, ServerStepKeeps
<1>5. CASE EventLoopThread
  <2>1. CASE Receive
    BY <2>1, ReceiveStep
  <2>2. CASE ReadReply
    BY <2>2, ReadReplyStep
  <2>3. CASE Drain
    <3>1. CASE buffered = <<>>
      BY <2>3, <3>1, QuietLoopStepRest DEF QuietLoopStep
    <3>2. CASE buffered # <<>>
      BY <2>3, <3>2, ReadReplyStep
    <3> QED BY <3>1, <3>2
  <2>4. CASE LeaveEpoch \/ Backoff \/ Connect \/ DialFails
    BY <2>4, QuietLoopStepRest DEF QuietLoopStep
  <2>5. CASE EventLoopCleanup
    BY <2>5, CleanupStepKeeps
  <2>6. CASE DialSucceeds
    BY <2>6, DialSucceedsStep
  <2> QED BY <1>5, <2>1, <2>2, <2>3, <2>4, <2>5, <2>6 DEF EventLoopThread
<1>6. CASE Destroy
  BY <1>6, QuietLoopStepRest DEF QuietLoopStep
<1>7. CASE DestructorGoesOn
  <2>1. CASE DestructorCleanup
    BY <2>1, CleanupStepKeeps
  <2>2. CASE DestructorStopsLoop \/ DestructorDeactivates \/ DestructorReturns
    BY <2>2, QuietLoopStepRest DEF QuietLoopStep
  <2> QED BY <1>7, <2>1, <2>2 DEF DestructorGoesOn
<1>8. CASE UNCHANGED vars
  <2>1. [Next]_coreVars
    BY <1>8 DEF vars
  <2>2. /\ UNCHANGED <<queueVars, iteratorVars, staged, messages>>
        /\ UNCHANGED <<inHandshake, handshakeStaged, handshakeIterator,
                       handshakeValidated>>
        /\ UNCHANGED <<writerPc, writing, bytesWritten, accepted, canWrite>>
        /\ UNCHANGED <<received, wire, peerClosed, streamOk, buffered, replies>>
        /\ UNCHANGED <<eventLoop, firstEpoch>>
    BY <1>8 DEF vars, coreVars, callerVars, handshakeVars, writerVars, writerLocals,
                streamVars, serverVars, loopVars
  <2>3. firstEpoch' => eventLoop' = "connect"
    BY <2>2 DEF QInv, FreshState
  <2> QED BY <2>1, <2>2, <2>3, RestStep
<1> QED BY <1>1, <1>2, <1>3, <1>4, <1>5, <1>6, <1>7, <1>8 DEF QNext


\* Along every behaviour of the system
LEMMA QInvAlways == QSpec => []QInv
<1>1. QInit => QInv
  BY InitQInv
<1>2. QInv /\ [QNext]_vars => QInv'
  BY QNextQInv
<1> QED BY <1>1, <1>2, PTL DEF QSpec

\* Every step of the client, the server included, is a step of the connection
\* core or leaves it alone: neither the event loop nor the destructor rewinds
\* the core under a running writer (WriterThread::deactivate() joins it), and
\* staging, feeding and purging are only done where ConnectionCore allows it.
\* Hence what is proved of the core holds of the client.
THEOREM UsesCoreAsAllowed == QSpec => CoreContract
<1>1. QInit => Init
  BY DEF QInit
<1>2. QInv /\ [QNext]_vars => [Next]_coreVars
  BY QNextQInv
<1> QED BY <1>1, <1>2, QInvAlways, PTL DEF QSpec, CoreContract, Spec

\* The request in the hands of WriterThread::eventLoop() has not been freed by the
\* acknowledgement of what it has already given to the kernel.
THEOREM WriterItemStaysInMemory == QSpec => []WriterItemInMemory
<1>1. QInv => WriterItemInMemory
  BY DEF QInv, WriterState, WriterItemInMemory, Running
<1> QED BY <1>1, QInvAlways, PTL

LEMMA OrderedStream ==
  ASSUME QInv
  PROVE  StreamInOrder
<1>1. /\ StreamTypes /\ StreamOrder /\ HandshakeRounds \in Nat /\ Len(Stream) \in Nat
  BY StreamFacts, Numbers DEF QInv
<1>2. \A i \in 1 .. Len(Stream) :
        /\ i <= HandshakeRounds => Stream[i].kind = "handshake" /\ Stream[i].index = 0
        /\ ~(i <= HandshakeRounds) => Stream[i].kind = "request"
  BY <1>1 DEF StreamTypes
<1>3. ASSUME NEW i \in 1 .. Len(Stream), Stream[i].kind = "request"
      PROVE  /\ ~inHandshake
             /\ Cardinality({j \in 1 .. i : Stream[j].kind = "handshake"}) = HandshakeRounds
  <2>1. ~(i <= HandshakeRounds)
    BY <1>2, <1>3
  <2>2. Len(Stream) > HandshakeRounds
    BY <1>1, <2>1
  <2>3. {j \in 1 .. i : Stream[j].kind = "handshake"} = 1 .. HandshakeRounds
    <3>1. \A j \in 1 .. i : Stream[j].kind = "handshake" <=> j <= HandshakeRounds
      BY <1>1, <1>2
    <3> QED BY <1>1, <2>1, <3>1
  <2>4. Cardinality(1 .. HandshakeRounds) = HandshakeRounds
    BY <1>1, FS_Interval
  <2> QED BY <1>1, <2>2, <2>3, <2>4 DEF StreamTypes
<1>4. ASSUME NEW i \in 2 .. Len(Stream)
      PROVE  Follows(Stream[i - 1], Stream[i])
  <2>1. i \in 1 .. Len(Stream) /\ i - 1 \in 1 .. Len(Stream)
    BY <1>1
  <2>2. CASE i <= HandshakeRounds
    BY <1>2, <2>1, <2>2 DEF Follows
  <2>3. CASE i = HandshakeRounds + 1
    <3>1. i - 1 <= HandshakeRounds /\ Len(Stream) > HandshakeRounds
      BY <1>1, <2>1, <2>3
    <3>2. Stream[i].index = 0
      BY <1>1, <2>3, <3>1 DEF StreamOrder
    <3> QED BY <1>2, <2>1, <3>1, <3>2 DEF Follows
  <2>4. CASE i > HandshakeRounds + 1
    <3>1. /\ i - 1 \in HandshakeRounds + 1 .. Len(Stream) /\ i - 1 < Len(Stream)
          /\ (i - 1) + 1 = i /\ ~(i - 1 <= HandshakeRounds)
      BY <1>1, <2>1, <2>4
    <3>2. /\ Stream[i].id = NextId(Stream[i - 1])
          /\ Stream[i].index = NextIndex(Stream[i - 1])
      <4>1. /\ Stream[(i - 1) + 1].id = NextId(Stream[i - 1])
            /\ Stream[(i - 1) + 1].index = NextIndex(Stream[i - 1])
        BY <1>1, <3>1 DEF StreamOrder
      <4> QED BY <3>1, <4>1
    <3>3. Stream[i - 1].kind = "request"
      BY <1>2, <2>1, <3>1
    <3> QED BY <3>2, <3>3 DEF Follows, NextId, NextIndex
  <2> QED BY <1>1, <2>1, <2>2, <2>3, <2>4
<1>5. Stream # <<>> => Stream[1].index = 0
  <2> SUFFICES ASSUME Stream # <<>>
               PROVE  Stream[1].index = 0
    OBVIOUS
  <2>1. Len(Stream) > 0
    BY StreamFacts
  <2>2. CASE HandshakeRounds = 0
    BY <1>1, <2>1, <2>2 DEF StreamOrder
  <2>3. CASE HandshakeRounds # 0
    <3>1. 1 \in 1 .. Len(Stream) /\ 1 <= HandshakeRounds
      BY <1>1, <2>1, <2>3
    <3> QED BY <1>2, <3>1
  <2> QED BY <2>2, <2>3
<1> QED BY <1>3, <1>4, <1>5 DEF StreamInOrder, HandshakeFirst, Stream

\* What the server sees on one connection: the whole handshake, accepted before any
\* request is sent (ConnectionCore::getNextToWrite), then whole requests one after
\* the other in the order they were staged, each from its first command.
THEOREM StreamStaysInOrder == QSpec => []StreamInOrder
<1>1. QInv => StreamInOrder
  BY OrderedStream
<1> QED BY <1>1, QInvAlways, PTL

-----------------------------------------------------------------------------
(* The core takes no answer to a request that was not written: the queue is    *)
(* consumed behind the writer, also between the end of one writer thread and   *)
(* the cleanup of its connection, when replies are still fed.                  *)

\* What the server may have seen was taken by the writer, and is not beyond it.
TakenInv ==
  /\ nextToAcknowledge <= nextToWrite
  /\ \A i \in HandshakeRounds + 1 .. Len(Stream) :
       Stream[i].id <= LastLeft + (nextToWrite - nextToAcknowledge)

\* A running writer knows: both the units sent and what is acknowledged are not
\* after its place.
LEMMA RunningTaken ==
  ASSUME QInv, Running
  PROVE  TakenInv
<1>1. /\ LastLeft \in Nat /\ nextToWrite \in Nat /\ nextToAcknowledge \in Nat
      /\ ignoredResponses \in Nat /\ HandshakeRounds \in Nat /\ Len(Stream) \in Nat
  BY Numbers, StreamFacts
<1>2. /\ WriteId \in Int /\ WriteIndex \in Nat
      /\ Unfinished => WriteId = LastLeft + (nextToWrite - nextToAcknowledge)
      /\ ~Unfinished => WriteIndex = 0
      /\ ~Unfinished => WriteId = LastLeft + (nextToWrite - nextToAcknowledge) + 1
  BY Place
<1>3. NotAfter(LastLeft + 1, ignoredResponses, WriteId, WriteIndex)
  BY DEF QInv, StreamEnd
<1>4. nextToAcknowledge <= nextToWrite
  <2>1. LastLeft + 1 <= WriteId
    BY <1>1, <1>2, <1>3 DEF NotAfter
  <2>2. CASE Unfinished
    BY <1>1, <1>2, <2>1, <2>2
  <2>3. CASE ~Unfinished
    BY <1>1, <1>2, <2>1, <2>3
  <2> QED BY <2>2, <2>3
<1>5. ASSUME NEW i \in HandshakeRounds + 1 .. Len(Stream)
      PROVE  Stream[i].id <= LastLeft + (nextToWrite - nextToAcknowledge)
  <2>1. PICK unit : unit = Stream[i]
    OBVIOUS
  <2>2. i \in 1 .. Len(Stream) /\ ~(i <= HandshakeRounds)
    BY <1>1
  <2>3. /\ unit.id \in Nat /\ unit.index \in Nat /\ unit.last \in Nat
        /\ unit.index <= unit.last
    BY <2>1, <2>2, StreamFacts DEF QInv, StreamTypes
  <2>4. NotAfter(NextId(unit), NextIndex(unit), WriteId, WriteIndex)
    BY <2>1 DEF QInv, StreamEnd
  <2>5. CASE unit.index = unit.last
    <3>1. unit.id + 1 <= WriteId
      BY <1>2, <2>3, <2>4, <2>5 DEF NotAfter, NextId, NextIndex
    <3>2. CASE Unfinished
      BY <1>1, <1>2, <2>3, <3>1, <3>2, <2>1
    <3>3. CASE ~Unfinished
      BY <1>1, <1>2, <2>3, <3>1, <3>3, <2>1
    <3> QED BY <3>2, <3>3
  <2>6. CASE unit.index # unit.last
    <3>1. unit.id < WriteId \/ (unit.id = WriteId /\ unit.index + 1 <= WriteIndex)
      BY <2>4, <2>6 DEF NotAfter, NextId, NextIndex
    <3>2. CASE Unfinished
      BY <1>1, <1>2, <2>3, <3>1, <3>2, <2>1
    <3>3. CASE ~Unfinished
      <4>1. unit.id < WriteId
        BY <1>2, <2>3, <3>1, <3>3
      <4> QED BY <1>1, <1>2, <2>3, <3>3, <4>1, <2>1
    <3> QED BY <3>2, <3>3
  <2> QED BY <2>5, <2>6
<1> QED BY <1>4, <1>5 DEF TakenInv

LEMMA TakenKept ==
  ASSUME QInv, TakenInv, QueueKept, Len(Stream') \in Nat, Len(Stream') <= Len(Stream),
         \A i \in 1 .. Len(Stream') : Stream'[i] = Stream[i]
  PROVE  TakenInv'
<1>1. /\ nextToWrite' = nextToWrite /\ nextToAcknowledge' = nextToAcknowledge
      /\ LastLeft' = LastLeft
  BY DEF QueueKept
<1>2. HandshakeRounds \in Nat /\ Len(Stream) \in Nat
  BY Numbers, StreamFacts
<1>3. ASSUME NEW i \in HandshakeRounds + 1 .. Len(Stream')
      PROVE  Stream'[i].id <= LastLeft + (nextToWrite - nextToAcknowledge)
  <2>1. i \in 1 .. Len(Stream') /\ i \in HandshakeRounds + 1 .. Len(Stream)
    BY <1>2
  <2>2. Stream'[i] = Stream[i]
    BY <2>1
  <2> QED BY <2>1, <2>2 DEF TakenInv
<1>4. nextToAcknowledge <= nextToWrite
  BY DEF TakenInv
<1> QED BY <1>1, <1>3, <1>4 DEF TakenInv

\* Steps that touch neither the queue nor the stream
LEMMA TakenRest ==
  ASSUME QInv, TakenInv, UNCHANGED <<queueVars, iteratorVars, staged>>,
         Stream' = Stream
  PROVE  TakenInv'
<1>1. QueueKept
  BY QueueUntouched
<1> QED BY <1>1, TakenKept, StreamFacts

\* A reply answers the oldest request only if a unit of it, or of a later one, is
\* on the stream.
LEMMA FeedTaken ==
  ASSUME QInv, TakenInv, NEW alive, Feeds(alive)
  PROVE  TakenInv'
<1>1. Stream' = Stream
  BY DEF Feeds, FeedReply, serverVars, streamVars, Stream
<1>2. CASE UNCHANGED <<queueVars, iteratorVars, staged>>
  BY <1>1, <1>2, TakenRest
<1>3. CASE ConsumeMultiPrefix(Head(buffered), alive)
  <2>1. UNCHANGED <<queueVars, nextToWrite, nextToAcknowledge, staged>>
    BY <1>3 DEF ConsumeMultiPrefix, callerVars
  <2>2. LastLeft' = LastLeft
    BY <2>1 DEF queueVars, LastLeft, UnacknowledgedCount
  <2> QED BY <1>1, <2>1, <2>2 DEF TakenInv
<1>4. CASE ConsumeReply(Head(buffered), alive)
  <2>1. /\ ~inHandshake /\ ~Exclusive /\ Head(buffered).kind # "push"
        /\ messages' = messages /\ staged' = staged /\ nextToWrite' = nextToWrite
        /\ Discard(1)
    BY <1>4 DEF ConsumeReply, AcknowledgePending, AnswersRequest, IsPush, Exclusive,
                callerVars
  <2>2. TakesReply
    BY <2>1, FeedsRest
  <2>3. PICK c \in Nat : Faces(c)
    BY <2>2, SomePlace
  <2>4. PICK unit : unit = Stream[c + 1]
    OBVIOUS
  <2>5. /\ c + 1 \in HandshakeRounds + 1 .. Len(Stream)
        /\ unit.id \in Nat /\ unit.index \in Nat
        /\ NotAfter(LastLeft + 1, ignoredResponses, unit.id, unit.index)
    BY <2>1, <2>3, <2>4, UnitFaced
  <2>6. unit.id <= LastLeft + (nextToWrite - nextToAcknowledge)
    BY <2>4, <2>5 DEF TakenInv
  <2>7. /\ LastLeft \in Nat /\ nextToWrite \in Nat /\ nextToAcknowledge \in Nat
        /\ nextSequence \in Nat /\ staged \in Nat /\ ignoredResponses \in Nat
        /\ LastLeft = staged - (nextSequence - nextToAcknowledge)
    BY Numbers
  <2>8. nextToAcknowledge + 1 <= nextToWrite
    BY <2>5, <2>6, <2>7 DEF NotAfter
  <2>9. nextToAcknowledge' = nextToAcknowledge + 1 /\ nextSequence' = nextSequence
    BY <2>1 DEF Discard
  <2>10. LastLeft' = LastLeft + 1
    BY <2>1, <2>7, <2>9 DEF LastLeft, UnacknowledgedCount
  <2>11. LastLeft' + (nextToWrite' - nextToAcknowledge')
           = LastLeft + (nextToWrite - nextToAcknowledge)
    BY <2>1, <2>7, <2>9, <2>10
  <2> QED BY <1>1, <2>1, <2>8, <2>9, <2>11 DEF TakenInv
<1>5. ConsumeResponse(Head(buffered), alive) \/ UNCHANGED coreVars
  BY DEF Feeds, FeedReply
<1>6. \/ UNCHANGED <<queueVars, iteratorVars, staged>>
      \/ ConsumeMultiPrefix(Head(buffered), alive) \/ ConsumeReply(Head(buffered), alive)
  BY <1>5 DEF ConsumeResponse, ConsumeUnavailable, ConsumeHandshake, ConsumeMessage,
              ConsumeUnexpected, coreVars, callerVars
<1> QED BY <1>2, <1>3, <1>4, <1>6

\* cleanup() rewinds both iterators to the same place, and forgets the stream.
LEMMA CleanupTaken ==
  ASSUME QInv, Cleanup
  PROVE  TakenInv'
<1>1. received' = <<>> /\ wire' = <<>>
  BY DEF Cleanup
<1>2. Len(Stream') = 0 /\ HandshakeRounds \in Nat
  BY <1>1, NoReplies, Numbers DEF Stream
<1>3. nextToWrite' = nextToAcknowledge' /\ nextToAcknowledge' \in Nat
  <2>1. frontSequence + 1 \in Nat
    BY Numbers
  <2>2. Reconnection \/ ClearAllPending
    BY DEF Cleanup
  <2>3. CASE Reconnection
    BY <2>1, <2>3 DEF Reconnection
  <2>4. CASE ClearAllPending
    BY <2>4 DEF ClearAllPending
  <2> QED BY <2>2, <2>3, <2>4
<1> QED BY <1>2, <1>3 DEF TakenInv

LEMMA WriterStops ==
  ASSUME QInv, TakenInv, Writer, ~Running'
  PROVE  TakenInv'
<1>1. WriterLoop \/ WriterSendFails
  BY DEF Writer, WriterThreadStep, WriterPoll, WriterTake, WriterSend,
         WriterWouldBlock, WriterSent, Running
<1>2. UNCHANGED <<coreVars, wire, received>>
  BY <1>1 DEF Writer, WriterLoop, WriterSendFails, streamVars, serverVars
<1> QED BY <1>2, TakenRest DEF coreVars, callerVars, Stream

LEMMA ServerTaken ==
  ASSUME QInv, TakenInv, Server
  PROVE  TakenInv'
<1>1. UNCHANGED <<queueVars, iteratorVars, staged>>
  BY DEF Server, ServerAnswers, ServerRefuses, ServerPushes, ServerCloses, coreVars,
         callerVars
<1>2. CASE ServerAnswers \/ ServerRefuses
  <2>1. Stream' = Stream
    BY <1>2, ReceivedUnit DEF ServerAnswers, ServerRefuses
  <2> QED BY <1>1, <2>1, TakenRest
<1>3. CASE ServerPushes
  BY <1>1, <1>3, TakenRest DEF ServerPushes, streamVars, Stream
<1>4. CASE ServerCloses
  <2>1. received' = received /\ wire' = <<>>
    BY <1>4 DEF ServerCloses
  <2>2. received \in Seq(Units)
    BY StreamFacts
  <2>3. Stream' = received
    BY <2>1, <2>2 DEF Stream
  <2> QED BY <1>1, <2>3, QueueUntouched, TakenKept, StreamFacts
<1> QED BY <1>2, <1>3, <1>4 DEF Server

LEMMA NextTaken ==
  ASSUME QInv, TakenInv, [QNext]_vars, ~Running'
  PROVE  TakenInv'
<1>1. ASSUME NEW t \in Callers, User(t)
      PROVE  TakenInv'
  <2>1. Stream' = Stream
    BY <1>1 DEF User, serverVars, streamVars, Stream
  <2> QED BY <1>1, <2>1, UserKeepsQueue, TakenKept, StreamFacts
<1>2. CASE Executor
  BY <1>2, TakenRest DEF Executor, ExecuteCallback, callerVars, serverVars, streamVars,
                         Stream
<1>3. CASE Writer
  BY <1>3, WriterStops
<1>4. CASE Server
  BY <1>4, ServerTaken
<1>5. CASE QuietLoopStep
  <2>1. UNCHANGED <<queueVars, iteratorVars, staged>>
    BY <1>5, BlockingModeRest
    DEF QuietLoopStep, LeaveEpoch, Backoff, Connect, DialFails, Drain, FeedReply, Destroy,
        DestructorStopsLoop, DestructorDeactivates, DestructorReturns,
        RequestDeactivation, coreVars, callerVars
  <2>2. Stream' = Stream
    BY <1>5
    DEF QuietLoopStep, LeaveEpoch, Backoff, Connect, DialFails, Drain, FeedReply, Destroy,
        DestructorStopsLoop, DestructorDeactivates, DestructorReturns, streamVars,
        serverVars, Stream
  <2> QED BY <2>1, <2>2, TakenRest
<1>6. CASE Receive
  BY <1>6, TakenRest DEF Receive, coreVars, callerVars, streamVars, Stream
<1>7. CASE ReadReply \/ (Drain /\ buffered # <<>>)
  <2>1. PICK alive \in BOOLEAN : Feeds(alive)
    BY <1>7 DEF ReadReply, Drain, Feeds
  <2> QED BY <2>1, FeedTaken
<1>8. CASE EventLoopCleanup \/ DestructorCleanup
  BY <1>8, CleanupTaken DEF EventLoopCleanup, DestructorCleanup
<1>9. CASE UNCHANGED vars
  BY <1>9, TakenRest DEF vars, coreVars, callerVars, serverVars, streamVars, Stream
<1>10. ~DialSucceeds
  BY DEF DialSucceeds, Activate, Running
<1> QED BY <1>1, <1>2, <1>3, <1>4, <1>5, <1>6, <1>7, <1>8, <1>9, <1>10
        DEF QNext, EventLoopThread, DestructorGoesOn, QuietLoopStep

\* In the whole client, whatever is refused, lost, retried or purged, the writer's
\* iterator never points at a request that is answered and gone: replies only come
\* for what was written.  (The core alone does not see to it, see core_surplus.)
THEOREM IteratorsStayInside == QSpec => []IteratorsInsideQueue
<1>1. QInv /\ Running => TakenInv
  BY RunningTaken
<1>2. QInit => TakenInv
  <2> SUFFICES ASSUME QInit
               PROVE  TakenInv
    OBVIOUS
  <2>1. /\ received = <<>> /\ wire = <<>>
        /\ nextToWrite = 1 /\ nextToAcknowledge = 1
    BY DEF QInit, WriterInit, Init
  <2>2. Len(Stream) = 0
    BY <2>1, NoReplies DEF Stream
  <2> QED BY <2>1, <2>2, SizesAssumption DEF TakenInv
<1>3. QInv /\ TakenInv /\ [QNext]_vars /\ ~Running' => TakenInv'
  BY NextTaken
<1>4. QInv /\ TakenInv => IteratorsInsideQueue
  BY DEF QInv, IInv, QueueInv, TakenInv, IteratorsInsideQueue
<1> QED BY <1>1, <1>2, <1>3, <1>4, QInvAlways, PTL DEF QSpec


-----------------------------------------------------------------------------
(* Replies reach the requests they answer                                     *)

\* What a callback or future of the request may be given.
Fits(reply, id) ==
  IF reply = NullReply THEN RetryMode # "InfiniteRetries"
  ELSE id = reply.of /\ reply.kind \in {"value", "error", "unavailable", "moved"}

PendingFit ==
  \A i \in 1 .. Len(pendingCallbacks) :
    Fits(pendingCallbacks[i].reply, pendingCallbacks[i].id)
DeliveredFit ==
  \A i \in 1 .. Len(delivered) : Fits(delivered[i].reply, delivered[i].request)

\* While the client is not destroyed, the event loop drains nothing.
MatchInv ==
  /\ destructor = "alive" /\ eventLoop \notin {"draining", "exited"}
  /\ PendingFit /\ DeliveredFit

LEMMA FeedFits ==
  ASSUME QInv, PendingFit, Feeds(TRUE), ConsumeReply(Head(buffered), TRUE),
         eventLoop = "reading"
  PROVE  PendingFit'
<1> DEFINE reply == Head(buffered)
<1>1. /\ ~inHandshake /\ ~Exclusive /\ Head(buffered).kind # "push"
      /\ HasArrived(nextToAcknowledge)
      /\ ToAcknowledge.multiSize = 0 \/ ignoredResponses + 1 > ToAcknowledge.multiSize
      /\ pendingCallbacks' =
           Append(pendingCallbacks, Acknowledgement(ToAcknowledge, Head(buffered)))
      /\ messages' = messages
  BY DEF ConsumeReply, AcknowledgePending, AnswersRequest, IsPush, Exclusive
<1>2. TakesReply /\ buffered # <<>>
  BY <1>1, FeedsRest
<1>3. PICK c \in Nat : Faces(c)
  BY <1>2, SomePlace
<1> DEFINE unit == Stream[c + 1]
<1>4. /\ unit.kind = "request" /\ unit.index <= unit.last
      /\ unit.id \in Nat /\ unit.index \in Nat /\ unit.last \in Nat
      /\ LastLeft + 1 = unit.id /\ ignoredResponses = unit.index
      /\ unit.last = ToAcknowledge.multiSize
  BY <1>1, <1>3, UnitFaced
<1>5. unit.index = unit.last
  <2>1. ignoredResponses > 0 => ignoredResponses <= ToAcknowledge.multiSize
    BY DEF QInv, MultiState
  <2> HIDE DEF unit
  <2> QED BY <1>1, <1>4, <2>1
<1>6. AnsweredBy(unit, reply)
  <2>1. c < Len(received) /\ AnsweredBy(received[c + 1], reply)
    BY <1>1, <1>3 DEF Faces
  <2>2. c + 1 \in 1 .. Len(received)
    BY <2>1, StreamFacts
  <2>3. received[c + 1] = Stream[c + 1]
    BY <2>2, StreamFacts
  <2> QED BY <2>1, <2>3
<1>7. ToAcknowledge.id = LastLeft + 1
  <2>1. /\ nextToAcknowledge \in nextToAcknowledge .. nextSequence - 1
        /\ LastLeft + 1 + (nextToAcknowledge - nextToAcknowledge) = LastLeft + 1
    <3>1. /\ nextToAcknowledge \in Nat /\ nextSequence \in Nat /\ LastLeft \in Nat
      BY Numbers
    <3>2. HasArrived(nextToAcknowledge)
      BY <1>1
    <3>3. nextToAcknowledge < nextSequence
      BY <3>1, <3>2 DEF HasArrived
    <3> QED BY <3>1, <3>3
  <2> QED BY <2>1, InMemory DEF ToAcknowledge
<1>8. Fits(reply, ToAcknowledge.id)
  <2>1. NormalAnswer(unit) = [kind |-> "value", of |-> unit.id]
    BY <1>4, <1>5 DEF NormalAnswer, Answer
  <2>2. /\ reply.of = unit.id
        /\ reply.kind \in {"value", "error", "unavailable", "moved"}
    BY <1>6, <2>1 DEF AnsweredBy
  <2>3. reply # NullReply
    BY <2>2 DEF NullReply
  <2> QED BY <1>4, <1>7, <2>2, <2>3 DEF Fits
<1>9. /\ Len(pendingCallbacks') = Len(pendingCallbacks) + 1
      /\ \A i \in 1 .. Len(pendingCallbacks) : pendingCallbacks'[i] = pendingCallbacks[i]
      /\ pendingCallbacks'[Len(pendingCallbacks) + 1] = Acknowledgement(ToAcknowledge, reply)
      /\ Len(pendingCallbacks) \in Nat
  <2>1. pendingCallbacks \in Seq(PendingCallback)
    BY DEF QInv, IInv, TypeOK
  <2> QED BY <1>1, <2>1
<1>10. ASSUME NEW i \in 1 .. Len(pendingCallbacks')
       PROVE  Fits(pendingCallbacks'[i].reply, pendingCallbacks'[i].id)
  <2>1. CASE i \in 1 .. Len(pendingCallbacks)
    BY <1>9, <2>1 DEF PendingFit
  <2>2. CASE i = Len(pendingCallbacks) + 1
    <3>1. /\ pendingCallbacks'[i].reply = reply
          /\ pendingCallbacks'[i].id = ToAcknowledge.id
      BY <1>9, <2>2 DEF Acknowledgement
    <3> QED BY <1>8, <3>1
  <2> QED BY <1>9, <2>1, <2>2
<1> QED BY <1>10 DEF PendingFit, Fits

LEMMA ClearFits ==
  ASSUME IInv, PendingFit, ClearAllPending, RetryMode # "InfiniteRetries"
  PROVE  PendingFit'
<1> DEFINE n == UnacknowledgedCount
           nulls == [i \in 1 .. n |->
                       Acknowledgement(requestQueue[nextToAcknowledge + i - 1],
                                       NullReply)]
           T == PendingCallback \cup {nulls[i] : i \in 1 .. n}
<1>1. pendingCallbacks' = pendingCallbacks \o nulls
  BY DEF ClearAllPending
<1>2. n \in Nat /\ Len(pendingCallbacks) \in Nat
  BY Counters
<1>3. \A i \in 1 .. n : nulls[i].reply = NullReply
  BY DEF Acknowledgement
<1>4. nulls \in Seq(T) /\ Len(nulls) = n
  <2>1. nulls \in [1 .. n -> T]
    OBVIOUS
  <2> HIDE DEF nulls, T
  <2> QED BY <1>2, <2>1
<1>5. pendingCallbacks \in Seq(T)
  <2>1. PendingCallback \subseteq T
    OBVIOUS
  <2> HIDE DEF T
  <2> QED BY <2>1, Counters, SeqMonotonic
<1> HIDE DEF nulls, T, n
<1>6. /\ Len(pendingCallbacks') = Len(pendingCallbacks) + n
      /\ \A i \in 1 .. Len(pendingCallbacks) + n :
           pendingCallbacks'[i] = IF i <= Len(pendingCallbacks) THEN pendingCallbacks[i]
                                  ELSE nulls[i - Len(pendingCallbacks)]
  <2>1. \A i \in 1 .. Len(pendingCallbacks) + n :
          (pendingCallbacks \o nulls)[i] =
            IF i <= Len(pendingCallbacks) THEN pendingCallbacks[i]
            ELSE nulls[i - Len(pendingCallbacks)]
    BY <1>4, <1>5, ConcatProperties
  <2>2. Len(pendingCallbacks') = Len(pendingCallbacks) + n
    BY <1>1, <1>4, <1>5, ConcatProperties
  <2> QED BY <1>1, <2>1, <2>2
<1>7. ASSUME NEW i \in 1 .. Len(pendingCallbacks')
      PROVE  Fits(pendingCallbacks'[i].reply, pendingCallbacks'[i].id)
  <2>1. CASE i \in 1 .. Len(pendingCallbacks)
    BY <1>6, <2>1 DEF PendingFit
  <2>2. CASE i > Len(pendingCallbacks)
    <3>1. /\ i - Len(pendingCallbacks) \in 1 .. n
          /\ Len(pendingCallbacks) + (i - Len(pendingCallbacks)) = i
      BY <1>2, <1>6, <2>2
    <3>2. pendingCallbacks'[i].reply = NullReply
      BY <1>3, <1>6, <3>1
    <3> QED BY <3>2 DEF Fits
  <2> QED BY <1>2, <1>6, <2>1, <2>2
<1> QED BY <1>7 DEF PendingFit, Fits

LEMMA ExecuteFits ==
  ASSUME IInv, PendingFit, DeliveredFit, ExecuteCallback
  PROVE  PendingFit' /\ DeliveredFit'
<1> DEFINE cb == Head(pendingCallbacks)
           to == IF cb.callback = "future" THEN Head(promises) ELSE cb.id
           given == [request |-> cb.id, to |-> to, reply |-> cb.reply]
<1>1. /\ pendingCallbacks # <<>> /\ pendingCallbacks' = Tail(pendingCallbacks)
      /\ delivered' = IF cb.callback = "none" THEN delivered ELSE Append(delivered, given)
  BY DEF ExecuteCallback
<1>2. /\ pendingCallbacks \in Seq(PendingCallback)
      /\ delivered \in Seq([request : Nat, to : Nat, reply : Replies \cup {NullReply}])
  BY DEF IInv, TypeOK
<1>3. /\ Len(pendingCallbacks) \in Nat /\ Len(pendingCallbacks) > 0
      /\ Len(pendingCallbacks') = Len(pendingCallbacks) - 1
      /\ \A i \in 1 .. Len(pendingCallbacks') :
           pendingCallbacks'[i] = pendingCallbacks[i + 1]
      /\ cb = pendingCallbacks[1]
  BY <1>1, <1>2, HeadTailProperties
<1>4. PendingFit'
  <2>1. ASSUME NEW i \in 1 .. Len(pendingCallbacks')
        PROVE  Fits(pendingCallbacks'[i].reply, pendingCallbacks'[i].id)
    <3>1. i + 1 \in 1 .. Len(pendingCallbacks)
      BY <1>3
    <3> QED BY <1>3, <3>1 DEF PendingFit
  <2> QED BY <2>1 DEF PendingFit, Fits
<1>5. Fits(cb.reply, cb.id)
  BY <1>3 DEF PendingFit
<1>6. DeliveredFit'
  <2>1. CASE delivered' = delivered
    BY <2>1 DEF DeliveredFit, Fits
  <2>2. CASE delivered' = Append(delivered, given)
    <3>1. given.request = cb.id /\ given.reply = cb.reply
      OBVIOUS
    <3> HIDE DEF given
    <3>2. /\ Len(delivered) \in Nat /\ Len(delivered') = Len(delivered) + 1
          /\ \A i \in 1 .. Len(delivered) : delivered'[i] = delivered[i]
          /\ delivered'[Len(delivered) + 1] = given
      BY <1>2, <2>2
    <3>3. ASSUME NEW i \in 1 .. Len(delivered')
          PROVE  Fits(delivered'[i].reply, delivered'[i].request)
      <4>1. CASE i \in 1 .. Len(delivered)
        BY <3>2, <4>1 DEF DeliveredFit
      <4>2. CASE i = Len(delivered) + 1
        BY <1>5, <3>1, <3>2, <4>2
      <4> QED BY <3>2, <4>1, <4>2
    <3> QED BY <3>3 DEF DeliveredFit, Fits
  <2> QED BY <1>1, <2>1, <2>2
<1> QED BY <1>4, <1>6


\* What neither the event loop's replies nor a purge nor the executor does
LEMMA AnswersUntouched ==
  ASSUME QInv,
         \/ \E t \in Callers : User(t)
         \/ Writer \/ Server \/ Receive \/ QuietLoopStep \/ DialSucceeds
         \/ UNCHANGED vars
  PROVE  UNCHANGED <<pendingCallbacks, delivered>>
<1>1. ASSUME NEW t \in Callers, User(t)
      PROVE  UNCHANGED <<pendingCallbacks, delivered>>
  BY <1>1 DEF User, CallerStep, Reserve, StageFuture, StageCallback, answerVars
<1>2. CASE Writer
  BY <1>2 DEF Writer, WriterThreadStep, WriterLoop, WriterPoll, WriterTake, WriterSend,
              WriterWouldBlock, WriterSendFails, WriterSent, FetchHandshake, FetchRequest,
              coreVars, answerVars
<1>3. CASE UNCHANGED coreVars
  BY <1>3 DEF coreVars, answerVars
<1>4. ASSUME NEW value, SetBlockingMode(value)
      PROVE  UNCHANGED <<pendingCallbacks, delivered>>
  BY <1>4 DEF SetBlockingMode, answerVars
<1>5. CASE Server
  BY <1>3, <1>5 DEF Server, ServerAnswers, ServerRefuses, ServerPushes, ServerCloses
<1>6. CASE Receive \/ UNCHANGED vars
  BY <1>3, <1>6 DEF Receive, vars
<1>7. CASE DialSucceeds
  BY <1>4, <1>7 DEF DialSucceeds, Activate
<1>8. CASE QuietLoopStep
  BY <1>3, <1>4, <1>8
  DEF QuietLoopStep, LeaveEpoch, Backoff, Connect, DialFails, Drain, FeedReply, Destroy,
      DestructorStopsLoop, DestructorDeactivates, DestructorReturns, RequestDeactivation
<1> QED BY <1>1, <1>2, <1>5, <1>6, <1>7, <1>8

LEMMA CleanupFits ==
  ASSUME QInv, MatchInv, EventLoopCleanup
  PROVE  PendingFit' /\ DeliveredFit'
<1>1. PICK purge \in BOOLEAN :
        /\ ShouldPurge(purge, successfulEver')
        /\ IF purge THEN ClearAllPending ELSE Reconnection
  BY DEF EventLoopCleanup, Cleanup
<1>2. CASE purge
  <2>1. RetryMode # "InfiniteRetries"
    BY <1>1, <1>2 DEF ShouldPurge
  <2>2. PendingFit'
    BY <1>1, <1>2, <2>1, ClearFits DEF QInv, MatchInv
  <2>3. delivered' = delivered
    BY <1>1, <1>2 DEF ClearAllPending
  <2> QED BY <2>2, <2>3 DEF MatchInv, DeliveredFit, Fits
<1>3. CASE ~purge
  <2>1. UNCHANGED <<pendingCallbacks, delivered>>
    BY <1>1, <1>3 DEF Reconnection, answerVars
  <2> QED BY <2>1 DEF MatchInv, PendingFit, DeliveredFit, Fits
<1> QED BY <1>1, <1>2, <1>3

LEMMA ReadReplyFits ==
  ASSUME QInv, MatchInv, ReadReply
  PROVE  PendingFit' /\ DeliveredFit'
<1>1. PICK alive \in BOOLEAN : Feeds(alive)
  BY DEF ReadReply, Feeds
<1>2. CASE ConsumeReply(Head(buffered), alive)
  <2>1. alive = TRUE /\ delivered' = delivered
    BY <1>2 DEF ConsumeReply
  <2>2. PendingFit'
    BY <1>1, <1>2, <2>1, FeedFits DEF MatchInv, ReadReply
  <2> QED BY <2>1, <2>2 DEF MatchInv, DeliveredFit, Fits
<1>3. CASE ~ConsumeReply(Head(buffered), alive)
  <2>1. UNCHANGED <<pendingCallbacks, delivered>>
    BY <1>1, <1>3 DEF Feeds, FeedReply, ConsumeResponse, ConsumeUnavailable,
                      ConsumeHandshake, ConsumeMessage, ConsumeUnexpected,
                      ConsumeMultiPrefix, coreVars, answerVars
  <2> QED BY <2>1 DEF MatchInv, PendingFit, DeliveredFit, Fits
<1> QED BY <1>2, <1>3

LEMMA QNextMatch ==
  ASSUME ~MayDestroy, QInv, MatchInv, [QNext]_vars
  PROVE  MatchInv'
<1>1. destructor = "alive" /\ eventLoop \notin {"draining", "exited"}
      /\ PendingFit /\ DeliveredFit
  BY DEF MatchInv
<1>2. destructor' = "alive" /\ eventLoop' \notin {"draining", "exited"}
  <2>1. CASE (\E t \in Callers : User(t)) \/ Executor \/ Writer \/ Server \/ UNCHANGED vars
    <3>1. UNCHANGED <<destructor, eventLoop>>
      BY <2>1 DEF User, Executor, Writer, Server, ServerAnswers, ServerRefuses,
                  ServerPushes, ServerCloses, vars, loopVars
    <3> QED BY <1>1, <3>1
  <2>2. CASE EventLoopThread
    <3>1. ~Drain
      BY <1>1 DEF Drain
    <3>2. destructor' = destructor
      BY <2>2, <3>1 DEF EventLoopThread, Receive, ReadReply, FeedReply, LeaveEpoch,
           Backoff, Connect, EventLoopCleanup, DialSucceeds, DialFails, loopVars
    <3>3. eventLoop' \in {"reading", "backoff", "connect", "dial", "join"}
      BY <1>1, <2>2, <3>1 DEF EventLoopThread, Receive, ReadReply, LeaveEpoch,
           Backoff, TerminationRequested, Connect, EventLoopCleanup, DialSucceeds,
           DialFails, loopVars
    <3> QED BY <1>1, <3>2, <3>3
  <2>3. CASE Destroy \/ DestructorGoesOn
    BY <1>1, <2>3 DEF Destroy, DestructorGoesOn, DestructorStopsLoop,
       DestructorDeactivates, DestructorCleanup, DestructorReturns
  <2> QED BY <2>1, <2>2, <2>3 DEF QNext
<1>3. PendingFit' /\ DeliveredFit'
  <2>1. CASE UNCHANGED <<pendingCallbacks, delivered>>
    BY <1>1, <2>1 DEF PendingFit, DeliveredFit, Fits
  <2>2. CASE Executor
    BY <1>1, <2>2, ExecuteFits DEF QInv, Executor
  <2>3. CASE ReadReply
    BY <2>3, ReadReplyFits
  <2>4. CASE EventLoopCleanup
    BY <2>4, CleanupFits
  <2>5. ~DestructorGoesOn /\ ~Drain
    BY <1>1 DEF DestructorGoesOn, DestructorStopsLoop, DestructorDeactivates,
       DestructorCleanup, DestructorReturns, Drain
  <2> QED BY <2>1, <2>2, <2>3, <2>4, <2>5, AnswersUntouched
          DEF QNext, EventLoopThread, QuietLoopStep
<1> QED BY <1>2, <1>3 DEF MatchInv

\* Whatever was lost, retried or purged before (QClient::connect, cleanup), the
\* reply a callback or future is given is the server's to that very request; with
\* infinite retries it is never null.  This is for a client that is not being
\* destroyed: the event loop of one that is feeds what the dead connection left in
\* the response builder to a core that has already been told to reconnect.
THEOREM RepliesReachTheirRequests ==
  ASSUME ~MayDestroy
  PROVE  QSpec => []RepliesMatch
<1>1. QInit => MatchInv
  BY DEF QInit, Init, MatchInv, PendingFit, DeliveredFit
<1>2. QInv /\ MatchInv /\ [QNext]_vars => MatchInv'
  BY QNextMatch
<1>3. QInv /\ MatchInv => RepliesMatch
  <2> SUFFICES ASSUME QInv, MatchInv, NEW i \in 1 .. Len(delivered)
               PROVE  IF delivered[i].reply = NullReply THEN RetryMode # "InfiniteRetries"
                      ELSE /\ delivered[i].to = delivered[i].reply.of
                           /\ delivered[i].reply.kind
                                \in {"value", "error", "unavailable", "moved"}
    BY DEF RepliesMatch
  <2>1. Fits(delivered[i].reply, delivered[i].request)
    BY DEF MatchInv, DeliveredFit
  <2>2. delivered[i].to = delivered[i].request
    BY DEF QInv, IInv, AnsweredToOwner
  <2> QED BY <2>1, <2>2 DEF Fits
<1> QED BY <1>1, <1>2, <1>3, QInvAlways, PTL DEF QSpec

-----------------------------------------------------------------------------
(* Without retries nothing is executed twice                                 *)

Succeeded == successful \/ successfulEver
Fresh == firstEpoch \/ eventLoop = "dial"

\* The unit that has the request executed: a transaction is by its EXEC.
Executes(unit, id) == unit.kind = "request" /\ unit.id = id /\ unit.index = unit.last
Coming(id) == \E i \in 1 .. Len(wire) : Executes(wire[i], id)

\* What was executed is behind the writer and no longer on its way, and once there
\* is no connection it has left the queue.  Requests are only sent, and thus only
\* executed, when the handshake has succeeded, after which the next cleanup() purges.
Executed(id) ==
  /\ id <= staged
  /\ Succeeded
  /\ ~Coming(id)
  /\ Running => id < WriteId
  /\ Fresh => id <= LastLeft

ExecInv ==
  /\ executions \in [1 .. MaxStaged -> {0, 1}]
  /\ ~inHandshake => Succeeded
  /\ \A id \in 1 .. MaxStaged : executions[id] = 1 => Executed(id)

\* Units on the wire were there, or are for the place of the writer.
WireFits ==
  \A i \in 1 .. Len(wire') :
    \/ \E j \in 1 .. Len(wire) : wire'[i] = wire[j]
    \/ wire'[i].kind = "request" => Running /\ wire'[i].id = WriteId

Forward == Running' => Running /\ WriteId <= WriteId'

LEMMA PlaceCounted ==
  ASSUME QInv
  PROVE  /\ WriteId = staged - nextSequence + nextToWrite + (IF Unfinished THEN 0 ELSE 1)
         /\ staged \in Nat /\ nextSequence \in Nat /\ nextToWrite \in Nat
BY DEF QInv, IInv, TypeOK, WriteId, LastLeft, UnacknowledgedCount

LEMMA PlaceLater ==
  ASSUME QInv'
  PROVE  /\ WriteId' = staged' - nextSequence' + nextToWrite'
                         + (IF Unfinished' THEN 0 ELSE 1)
         /\ staged' \in Nat /\ nextSequence' \in Nat /\ nextToWrite' \in Nat
         /\ WriteId' \in Int
<1>1. /\ staged' \in Nat /\ nextSequence' \in Nat /\ nextToWrite' \in Nat
      /\ nextToAcknowledge' \in Nat
  BY DEF QInv, IInv, TypeOK
<1>2. CASE Unfinished'
  BY <1>1, <1>2 DEF WriteId, LastLeft, UnacknowledgedCount
<1>3. CASE ~Unfinished'
  BY <1>1, <1>3 DEF WriteId, LastLeft, UnacknowledgedCount
<1> QED BY <1>1, <1>2, <1>3

\* The place of the writer does not move back while it is running.
LEMMA MovesForward ==
  ASSUME QInv, QInv', staged' - nextSequence' = staged - nextSequence,
         \/ nextToWrite' = nextToWrite /\ (Unfinished' => Unfinished)
         \/ nextToWrite' = nextToWrite + 1
  PROVE  WriteId <= WriteId'
BY PlaceCounted, PlaceLater

LEMMA StaysExecuted ==
  ASSUME QInv, QInv', staged <= staged', WireFits, Succeeded => Succeeded',
         Forward, Fresh' => Fresh /\ LastLeft' = LastLeft,
         NEW id \in Nat, Executed(id)
  PROVE  Executed(id)'
<1>1. Executed(id)
  OBVIOUS
<1>2. id <= staged'
  <2>1. staged \in Nat /\ staged' \in Nat
    BY DEF QInv, IInv, TypeOK
  <2> QED BY <1>1, <2>1 DEF Executed
<1>3. Succeeded' /\ (Fresh' => id <= LastLeft')
  BY <1>1 DEF Executed
<1>4. ~Coming(id)'
  <2> SUFFICES ASSUME NEW i \in 1 .. Len(wire'), Executes(wire'[i], id)
               PROVE  FALSE
    BY DEF Coming, Executes
  <2>1. ASSUME NEW j \in 1 .. Len(wire), wire'[i] = wire[j]
        PROVE  FALSE
    BY <1>1, <2>1 DEF Executed, Coming
  <2>2. ASSUME Running, id = WriteId
        PROVE  FALSE
    BY <1>1, <2>2 DEF Executed
  <2> QED BY <2>1, <2>2 DEF WireFits, Executes
<1>5. ASSUME Running'
      PROVE  id < WriteId'
  <2>1. id < WriteId /\ WriteId <= WriteId'
    BY <1>1, <1>5 DEF Executed, Forward
  <2>2. WriteId \in Int
    BY Place
  <2>3. WriteId' \in Int
    BY PlaceLater
  <2> DEFINE w == WriteId'
  <2> HIDE DEF w
  <2>4. id < w
    BY <2>1, <2>2, <2>3 DEF w
  <2> QED BY <2>4 DEF w
<1> QED BY <1>2, <1>3, <1>4, <1>5 DEF Executed

LEMMA ExecutedKept ==
  ASSUME QInv, QInv', ExecInv, executions' = executions, staged <= staged', WireFits,
         Succeeded => Succeeded', ~inHandshake' => ~inHandshake \/ Succeeded',
         Forward, Fresh' => Fresh /\ LastLeft' = LastLeft
  PROVE  ExecInv'
<1>1. ASSUME NEW id \in 1 .. MaxStaged, executions[id] = 1
      PROVE  Executed(id)'
  <2>1. Executed(id) /\ id \in Nat
    BY <1>1 DEF ExecInv
  <2> QED BY <2>1, StaysExecuted
<1> QED BY <1>1 DEF ExecInv

LEMMA RestForward ==
  ASSUME QInv, QueueKept, UNCHANGED <<writerPc, writing, bytesWritten, accepted>>
  PROVE  Forward
<1>1. PlaceKept
  BY WriterPlaceKept
<1>2. WriteId \in Int
  BY Place
<1>3. WriteId <= WriteId
  BY <1>2
<1> QED BY <1>1, <1>3 DEF PlaceKept, Forward

LEMMA RestExecuted ==
  ASSUME QInv, QInv', ExecInv, QueueKept, WireFits,
         UNCHANGED <<writerPc, writing, bytesWritten, accepted, inHandshake, executions>>,
         UNCHANGED <<successful, successfulEver>>, Fresh' => Fresh
  PROVE  ExecInv'
<1>1. /\ staged <= staged' /\ LastLeft' = LastLeft
  BY DEF QueueKept
<1>2. Succeeded' <=> Succeeded
  BY DEF Succeeded
<1>3. Forward
  BY RestForward
<1> QED BY <1>1, <1>2, <1>3, ExecutedKept

LEMMA WireSame ==
  ASSUME wire' = wire \/ wire' = <<>>
  PROVE  WireFits
BY DEF WireFits

LEMMA QuietExecuted ==
  ASSUME QInv, QInv', ExecInv,
         \/ \E t \in Callers : User(t)
         \/ Executor \/ Receive \/ QuietLoopStep \/ UNCHANGED vars
         \/ ServerPushes \/ ServerCloses
  PROVE  ExecInv'
<1>1. ASSUME NEW t \in Callers, User(t)
      PROVE  ExecInv'
  <2>1. /\ UNCHANGED <<writerPc, writing, bytesWritten, accepted, executions, wire>>
        /\ UNCHANGED <<successful, successfulEver, firstEpoch, eventLoop, inHandshake>>
    BY <1>1 DEF User, CallerStep, Reserve, StageFuture, StageCallback, handshakeVars,
                writerVars, writerLocals, streamVars, loopVars, serverVars
  <2> QED BY <1>1, <2>1, UserKeepsQueue, WireSame, RestExecuted DEF Fresh
<1>2. CASE Executor \/ Receive \/ QuietLoopStep \/ UNCHANGED vars \/ ServerPushes
             \/ ServerCloses
  <2>1. /\ UNCHANGED <<queueVars, iteratorVars, staged, inHandshake>>
        /\ UNCHANGED <<writerPc, writing, bytesWritten, accepted>>
    <3>1. CASE UNCHANGED <<coreVars, writerVars>>
      BY <3>1 DEF coreVars, callerVars, handshakeVars, writerVars, writerLocals
    <3>2. CASE RequestDeactivation
      BY <3>2 DEF RequestDeactivation, SetBlockingMode, callerVars, writerLocals
    <3>3. CASE ExecuteCallback /\ UNCHANGED writerVars
      BY <3>3 DEF ExecuteCallback, callerVars, handshakeVars, writerVars, writerLocals
    <3> QED BY <1>2, <3>1, <3>2, <3>3
            DEF Executor, Receive, QuietLoopStep, LeaveEpoch, Backoff, Connect, DialFails,
                Drain, FeedReply, Destroy, DestructorStopsLoop, DestructorDeactivates,
                DestructorReturns, vars, ServerPushes, ServerCloses
  <2>2. /\ UNCHANGED <<executions, successful, successfulEver>>
        /\ wire' = wire \/ wire' = <<>>
    BY <1>2
    DEF Executor, Receive, QuietLoopStep, LeaveEpoch, Backoff, Connect, DialFails,
        Drain, FeedReply, Destroy, DestructorStopsLoop, DestructorDeactivates,
        DestructorReturns, vars, ServerPushes, ServerCloses, streamVars, loopVars,
        serverVars
  <2>3. Fresh' => Fresh
    <3>1. CASE Connect
      <4>1. firstEpoch' = FALSE
        BY <3>1 DEF Connect
      <4>2. firstEpoch \/ eventLoop' = "join"
        BY <3>1 DEF Connect
      <4> QED BY <4>1, <4>2 DEF Fresh
    <3>2. CASE ~Connect
      <4>1. firstEpoch' = firstEpoch /\ (eventLoop' = "dial" => eventLoop = "dial")
        BY <1>2, <3>2
        DEF Executor, Receive, QuietLoopStep, LeaveEpoch, Backoff, DialFails,
            Drain, FeedReply, Destroy, DestructorStopsLoop, DestructorDeactivates,
            DestructorReturns, vars, ServerPushes, ServerCloses, loopVars
      <4> QED BY <4>1 DEF Fresh
    <3> QED BY <3>1, <3>2
  <2> QED BY <2>1, <2>2, <2>3, WireSame, QueueUntouched, RestExecuted
<1> QED BY <1>1, <1>2

\* The server takes a unit
LEMMA FirstOnWire ==
  ASSUME QInv, ServerReceives
  PROVE  /\ WireFits /\ Head(wire) \in Units
         /\ \A id \in Nat : Executes(Head(wire), id) => Coming(id)
         /\ ~Fresh /\ Len(wire) \in Nat /\ Len(wire) > 0
         /\ \A i \in 1 .. Len(wire') : wire'[i] = wire[i + 1] /\ i + 1 \in 1 .. Len(wire)
<1>1. wire # <<>> /\ wire' = Tail(wire) /\ wire \in Seq(Units)
  BY StreamFacts DEF ServerReceives
<1>2. /\ Len(wire) \in Nat /\ Len(wire) > 0 /\ Head(wire) = wire[1] /\ Head(wire) \in Units
      /\ Len(wire') = Len(wire) - 1 /\ \A i \in 1 .. Len(wire') : wire'[i] = wire[i + 1]
  BY <1>1, HeadTailProperties
<1>3. ASSUME NEW i \in 1 .. Len(wire')
      PROVE  wire'[i] = wire[i + 1] /\ i + 1 \in 1 .. Len(wire)
  BY <1>2
<1>4. 1 \in 1 .. Len(wire)
  BY <1>2
<1>5. ~Fresh
  BY <1>1 DEF QInv, FreshState, Fresh
<1> QED BY <1>2, <1>3, <1>4, <1>5 DEF WireFits, Coming

LEMMA RefusalExecuted ==
  ASSUME QInv, QInv', ExecInv, ServerRefuses
  PROVE  ExecInv'
<1>1. ServerReceives /\ UNCHANGED <<coreVars, writerVars, loopVars, executions>>
  BY DEF ServerRefuses
<1>2. /\ UNCHANGED <<queueVars, iteratorVars, staged, inHandshake>>
      /\ UNCHANGED <<writerPc, writing, bytesWritten, accepted>>
      /\ UNCHANGED <<successful, successfulEver, firstEpoch, eventLoop>>
  BY <1>1 DEF coreVars, callerVars, handshakeVars, writerVars, writerLocals, loopVars
<1> QED BY <1>1, <1>2, FirstOnWire, QueueUntouched, RestExecuted DEF Fresh

\* The server executes a request for the first time: what has been executed is not
\* on its way.  What follows on the wire is for later places, and so is the writer.
LEMMA FirstExecution ==
  ASSUME QInv, QInv', ExecInv, ServerAnswers, NEW id \in Nat, Executes(Head(wire), id)
  PROVE  /\ id \in 1 .. MaxStaged /\ executions[id] = 0
         /\ Executed(id)'
<1> DEFINE unit == Head(wire)
           k == Len(received) + 1
<1>1. /\ ServerReceives /\ UNCHANGED <<coreVars, writerVars, loopVars>>
      /\ unit.kind = "request" /\ unit.id = id /\ unit.index = unit.last
  BY DEF ServerAnswers, Executes
<1>2. /\ Stream[k] = unit /\ k \in 1 .. Len(Stream) /\ unit \in Units
      /\ Stream \in Seq(Units) /\ Len(Stream) = Len(received) + Len(wire)
      /\ Len(received) \in Nat /\ Len(wire) \in Nat /\ Len(wire) > 0
  <2>1. /\ received \in Seq(Units) /\ wire \in Seq(Units) /\ wire # <<>>
        /\ Len(received) \in Nat /\ Stream \in Seq(Units)
        /\ Len(Stream) = Len(received) + Len(wire)
    BY <1>1, StreamFacts DEF ServerReceives
  <2>2. Stream[k] = unit
    BY <2>1, MovedAlong DEF Stream
  <2> QED BY <1>1, <2>1, <2>2, FirstOnWire
<1>3. /\ k > HandshakeRounds /\ ~inHandshake
      /\ id \in 1 .. staged
  <2>1. ~(k <= HandshakeRounds)
    BY <1>1, <1>2 DEF QInv, StreamTypes
  <2>2. HandshakeRounds \in Nat
    BY Numbers
  <2>3. k > HandshakeRounds /\ Len(Stream) > HandshakeRounds
    BY <1>2, <2>1, <2>2
  <2> QED BY <1>1, <1>2, <2>1, <2>3 DEF QInv, StreamTypes
<1>4. id \in 1 .. MaxStaged
  <2>1. MaxStaged \in Nat /\ staged \in Nat /\ staged <= MaxStaged
    BY SizesAssumption, Numbers, HoldingCounted DEF QInv, StagedBound
  <2> QED BY <1>3, <2>1
<1>5. executions[id] = 0
  <2>1. Coming(id)
    BY <1>1, <1>4, FirstOnWire DEF Executes
  <2> QED BY <1>4, <2>1 DEF ExecInv, Executed
<1>6. Succeeded' /\ id <= staged' /\ ~Fresh'
  <2>1. UNCHANGED <<staged, successful, successfulEver, firstEpoch, eventLoop>>
    BY <1>1 DEF coreVars, callerVars, loopVars
  <2>2. Succeeded /\ ~Fresh
    BY <1>1, <1>3, FirstOnWire DEF ExecInv
  <2>3. id <= staged
    BY <1>3, Numbers
  <2> QED BY <2>1, <2>2, <2>3 DEF Succeeded, Fresh
<1>7. NextId(unit) = id + 1 /\ NextIndex(unit) = 0
  BY <1>1 DEF NextId, NextIndex
<1>8. ~Coming(id)'
  <2> SUFFICES ASSUME NEW i \in 1 .. Len(wire'), Executes(wire'[i], id)
               PROVE  FALSE
    BY DEF Coming, Executes
  <2>1. /\ wire'[i] = wire[i + 1] /\ i + 1 \in 1 .. Len(wire)
    BY <1>1, FirstOnWire
  <2> DEFINE j == Len(received) + (i + 1)
  <2>2. Stream[j] = wire[i + 1]
    BY <2>1, StreamFacts, Concatenated DEF Stream
  <2>3. /\ j \in HandshakeRounds + 1 .. Len(Stream) /\ k < j
        /\ k \in HandshakeRounds + 1 .. Len(Stream)
    <3>1. HandshakeRounds \in Nat /\ i + 1 <= Len(wire) /\ i + 1 > 1 /\ i + 1 \in Int
      BY <2>1, Numbers
    <3> QED BY <1>2, <1>3, <3>1
  <2>4. NotAfter(NextId(Stream[k]), NextIndex(Stream[k]), Stream[j].id, Stream[j].index)
    BY <2>3 DEF QInv, StreamOrder
  <2>5. Stream[j].id = id
    BY <1>2, <2>1, <2>2 DEF Executes, Units
  <2>6. NotAfter(id + 1, 0, id, Stream[j].index)
    BY <1>2, <1>7, <2>4, <2>5
  <2> QED BY <2>5, <2>6 DEF NotAfter
<1>9. ASSUME Running'
      PROVE  id < WriteId'
  <2>1. UNCHANGED <<writerPc, writing, bytesWritten, accepted>>
    BY <1>1 DEF writerVars, writerLocals
  <2>2. Running
    BY <1>9, <2>1 DEF Running
  <2>3. UNCHANGED <<queueVars, iteratorVars, staged>>
    BY <1>1 DEF coreVars, callerVars
  <2>4. WriteId' = WriteId
    BY <1>9, <2>1, <2>3, QueueUntouched, WriterPlaceKept DEF PlaceKept
  <2>5. k \in HandshakeRounds + 1 .. Len(Stream)
    <3>1. HandshakeRounds \in Nat
      BY Numbers
    <3> QED BY <1>2, <1>3, <3>1
  <2>6. NotAfter(NextId(Stream[k]), NextIndex(Stream[k]), WriteId, WriteIndex)
    BY <2>2, <2>5 DEF QInv, StreamEnd
  <2>7. NotAfter(id + 1, 0, WriteId, WriteIndex)
    BY <1>2, <1>7, <2>6
  <2>8. id < WriteId
    BY <1>4, <2>7, Place DEF NotAfter
  <2> QED BY <2>4, <2>8
<1> QED BY <1>4, <1>5, <1>6, <1>8, <1>9 DEF Executed

LEMMA AnswerExecuted ==
  ASSUME QInv, QInv', ExecInv, ServerAnswers
  PROVE  ExecInv'
<1>1. /\ ServerReceives /\ UNCHANGED <<coreVars, writerVars, loopVars>>
      /\ executions' = IF Head(wire).kind = "request" /\ Head(wire).index = Head(wire).last
                       THEN [executions EXCEPT ![Head(wire).id] = Once(@)]
                       ELSE executions
  BY DEF ServerAnswers
<1>2. /\ UNCHANGED <<queueVars, iteratorVars, staged, inHandshake>>
      /\ UNCHANGED <<writerPc, writing, bytesWritten, accepted>>
      /\ UNCHANGED <<successful, successfulEver, firstEpoch, eventLoop>>
  BY <1>1 DEF coreVars, callerVars, handshakeVars, writerVars, writerLocals, loopVars
<1>3. CASE ~(Head(wire).kind = "request" /\ Head(wire).index = Head(wire).last)
  BY <1>1, <1>2, <1>3, FirstOnWire, QueueUntouched, RestExecuted DEF Fresh
<1>4. CASE Head(wire).kind = "request" /\ Head(wire).index = Head(wire).last
  <2>1. PICK new \in Nat : new = Head(wire).id
    BY <1>1, FirstOnWire DEF Units
  <2>2. new \in 1 .. MaxStaged /\ executions[new] = 0 /\ Executed(new)'
    BY <1>4, <2>1, FirstExecution DEF Executes
  <2>3. executions' = [executions EXCEPT ![new] = 1]
    BY <1>1, <1>4, <2>1, <2>2 DEF Once
  <2>4. executions' \in [1 .. MaxStaged -> {0, 1}]
    BY <2>3 DEF ExecInv
  <2>5. ~inHandshake' => Succeeded'
    BY <1>2 DEF ExecInv, Succeeded
  <2>6. ASSUME NEW id \in 1 .. MaxStaged, executions'[id] = 1
        PROVE  Executed(id)'
    <3>1. CASE id = new
      BY <2>2, <3>1
    <3>2. CASE id # new
      <4>1. Executed(id) /\ id \in Nat
        BY <2>2, <2>3, <2>6, <3>2 DEF ExecInv
      <4>2. QueueKept /\ Forward
        BY <1>2, QueueUntouched, RestForward
      <4>3. staged <= staged' /\ LastLeft' = LastLeft
        BY <4>2 DEF QueueKept
      <4>4. (Succeeded => Succeeded') /\ (Fresh' => Fresh)
        BY <1>2 DEF Succeeded, Fresh
      <4> QED BY <1>1, <4>1, <4>2, <4>3, <4>4, FirstOnWire, StaysExecuted
    <3> QED BY <3>1, <3>2
  <2> QED BY <2>4, <2>5, <2>6 DEF ExecInv
<1> QED BY <1>3, <1>4

\* What the writer finds in the queue, and what it sends, is not behind it.
LEMMA WriterForward ==
  ASSUME QInv, QInv', WriterThreadStep
  PROVE  Running /\ staged' = staged /\ inHandshake' = inHandshake /\ WriteId <= WriteId'
<1>1. Running
  BY DEF Running, WriterThreadStep, WriterLoop, WriterPoll, WriterTake, WriterSend,
         WriterWouldBlock, WriterSendFails, WriterSent
<1>2. CASE WriterLoop \/ WriterPoll \/ WriterWouldBlock \/ WriterSendFails \/ WriterSent
  <2>1. /\ UNCHANGED coreVars
        /\ staged' = staged /\ nextSequence' = nextSequence /\ inHandshake' = inHandshake
    BY <1>2 DEF WriterLoop, WriterPoll, WriterWouldBlock, WriterSendFails, WriterSent,
                coreVars, callerVars, queueVars, handshakeVars
  <2>2. Unfinished' => Unfinished
    <3>1. LengthOf(writing)' = LengthOf(writing) \/ writing' # writing
      BY <2>1, CoreUntouched DEF LengthOf
    <3>2. CASE WriterLoop
      <4>1. /\ writerPc = "loop" /\ writerPc' # "sent" /\ writing' = writing
            /\ writing = Nothing \/ bytesWritten' = bytesWritten
        BY <3>2 DEF WriterLoop
      <4>2. CASE writing = Nothing
        BY <4>1, <4>2 DEF Unfinished, Nothing
      <4>3. CASE bytesWritten' = bytesWritten
        <5>1. UnitsSent' = UnitsSent
          BY <4>1, <4>3 DEF UnitsSent
        <5> QED BY <3>1, <4>1, <5>1 DEF Unfinished
      <4> QED BY <4>1, <4>2, <4>3
    <3>3. CASE WriterPoll \/ WriterWouldBlock \/ WriterSendFails
      <4>1. /\ writerPc # "sent" /\ writerPc' # "sent"
            /\ UNCHANGED <<writing, bytesWritten>>
        BY <3>3 DEF WriterPoll, WriterWouldBlock, WriterSendFails, writerLocals
      <4>2. UnitsSent' = UnitsSent
        BY <4>1 DEF UnitsSent
      <4> QED BY <3>1, <4>1, <4>2 DEF Unfinished
    <3>4. CASE WriterSent
      <4>1. /\ writerPc = "sent" /\ writerPc' = "loop"
            /\ bytesWritten' = bytesWritten + accepted
            /\ writing' = writing \/ writing' = Nothing
        BY <3>4 DEF WriterSent
      <4>2. UnitsSent' = UnitsSent
        BY <4>1, Numbers DEF UnitsSent
      <4> QED BY <3>1, <4>1, <4>2 DEF Unfinished, Nothing
    <3> QED BY <1>2, <3>2, <3>3, <3>4
  <2> QED BY <1>1, <2>1, <2>2, CoreUntouched, MovesForward
<1>3. CASE WriterTake
  <2>1. PICK found \in BOOLEAN :
          \/ /\ writerPc = "handshake" /\ FetchHandshake(found)
             /\ writing'.kind # "request"
          \/ /\ writerPc = "request" /\ FetchRequest(found)
             /\ ~found => writing'.kind # "request"
    BY <1>3 DEF WriterTake, Nothing
  <2>2. CASE FetchHandshake(found) /\ writing'.kind # "request"
    <3>1. UNCHANGED <<staged, nextSequence, nextToWrite, inHandshake>> /\ ~Unfinished'
      BY <2>2 DEF FetchHandshake, Unfinished, callerVars, queueVars, iteratorVars
    <3> QED BY <1>1, <3>1, MovesForward
  <2>3. CASE FetchRequest(found) /\ (~found => writing'.kind # "request")
    <3>1. UNCHANGED <<staged, nextSequence, inHandshake>>
      BY <2>3 DEF FetchRequest, Discard, callerVars, queueVars, handshakeVars
    <3>2. IF found THEN nextToWrite' = nextToWrite + 1
          ELSE nextToWrite' = nextToWrite /\ ~Unfinished'
      BY <2>3 DEF FetchRequest, Unfinished
    <3> QED BY <1>1, <3>1, <3>2, MovesForward
  <2> QED BY <2>1, <2>2, <2>3
<1>4. CASE WriterSend
  <2>1. PICK n : Sends(n)
    BY <1>4 DEF WriterSend, Sends
  <2>2. n \in 1 .. LengthOf(writing) - bytesWritten /\ writerPc = "send"
    BY <2>1 DEF Sends
  <2>3. UNCHANGED <<staged, inHandshake>>
    BY <2>1, SentState
  <2>4. WriteId' = WriteId \/ WriteId' = WriteId + 1
    BY <2>1, <2>2, SendFacts, SentState
  <2>5. WriteId \in Int
    BY Place
  <2>6. WriteId <= WriteId /\ WriteId <= WriteId + 1
    BY <2>5
  <2> QED BY <1>1, <2>3, <2>4, <2>6
<1> QED BY <1>2, <1>3, <1>4 DEF WriterThreadStep

LEMMA WriterWireFits ==
  ASSUME QInv, WriterThreadStep
  PROVE  WireFits
<1>1. CASE wire' = wire
  BY <1>1, WireSame
<1>2. CASE wire' # wire
  <2>1. PICK n : Sends(n)
    BY <1>2 DEF WriterThreadStep, WriterLoop, WriterPoll, WriterTake, WriterSend, Sends,
                WriterWouldBlock, WriterSendFails, WriterSent, streamVars
  <2> DEFINE units == [i \in 1 .. n |-> UnitOf(writing, bytesWritten + i - 1)]
  <2>2. /\ n \in 1 .. LengthOf(writing) - bytesWritten /\ writerPc = "send"
        /\ wire' = wire \o units
    BY <1>2, <2>1 DEF Sends
  <2>3. /\ n \in Nat /\ Running
        /\ writing.kind = "request" => requestQueue[writing.sequence].id = WriteId
    BY <2>2, SendFacts
  <2>4. ASSUME NEW i \in 1 .. n
        PROVE  units[i].kind = "request" => units[i].id = WriteId
    <3>1. units[i] = UnitOf(writing, bytesWritten + i - 1)
      OBVIOUS
    <3> HIDE DEF units
    <3>2. units[i].kind = writing.kind
      BY <3>1 DEF UnitOf
    <3>3. CASE writing.kind = "request"
      <4>1. units[i].id = requestQueue[writing.sequence].id
        BY <3>1, <3>3 DEF UnitOf
      <4> QED BY <2>3, <3>3, <4>1
    <3> QED BY <3>2, <3>3
  <2>5. wire \in Seq(Units) /\ Len(wire) \in Nat
    BY StreamFacts
  <2> DEFINE T == Units \cup {units[i] : i \in 1 .. n}
  <2>6. units \in [1 .. n -> T] /\ Units \subseteq T
    OBVIOUS
  <2> HIDE DEF units, T
  <2>7. units \in Seq(T) /\ Len(units) = n /\ wire \in Seq(T)
    <3>1. wire \in Seq(T)
      BY <2>5, <2>6, SeqMonotonic
    <3>2. n \in Nat
      BY <2>3
    <3>3. units \in Seq(T) /\ Len(units) = n
      BY <2>6, <3>2
    <3> QED BY <3>1, <3>3
  <2>8. /\ Len(wire') = Len(wire) + n
        /\ \A i \in 1 .. Len(wire) + n :
             wire'[i] = IF i <= Len(wire) THEN wire[i] ELSE units[i - Len(wire)]
    BY <2>2, <2>7, ConcatProperties
  <2>9. ASSUME NEW i \in 1 .. Len(wire')
        PROVE  \/ \E j \in 1 .. Len(wire) : wire'[i] = wire[j]
               \/ wire'[i].kind = "request" => Running /\ wire'[i].id = WriteId
    <3>1. CASE i <= Len(wire)
      <4>1. i \in 1 .. Len(wire) /\ wire'[i] = wire[i]
        BY <2>5, <2>8, <3>1, <2>3
      <4> QED BY <4>1
    <3>2. CASE ~(i <= Len(wire))
      <4>1. n \in Nat /\ Len(wire) \in Nat
        BY <2>3, <2>5
      <4>2. i - Len(wire) \in 1 .. n /\ i \in 1 .. Len(wire) + n
        BY <2>8, <3>2, <4>1
      <4>3. wire'[i] = units[i - Len(wire)]
        BY <2>8, <3>2, <4>2
      <4>4. units[i - Len(wire)].kind = "request" => units[i - Len(wire)].id = WriteId
        BY <2>4, <4>2
      <4>5. Running
        BY <2>3
      <4> QED BY <4>3, <4>4, <4>5
    <3> QED BY <3>1, <3>2
  <2> QED BY <2>9 DEF WireFits
<1> QED BY <1>1, <1>2

LEMMA WriterExecuted ==
  ASSUME QInv, QInv', ExecInv, Writer
  PROVE  ExecInv'
<1>1. WriterThreadStep /\ UNCHANGED <<loopVars, executions>>
  BY DEF Writer, serverVars
<1>2. /\ Running /\ staged' = staged /\ inHandshake' = inHandshake /\ WriteId <= WriteId'
      /\ WireFits
  BY <1>1, WriterForward, WriterWireFits
<1>3. staged <= staged'
  BY <1>2, Numbers
<1>4. Succeeded' <=> Succeeded
  BY <1>1 DEF loopVars, Succeeded
<1>5. ~Fresh'
  BY <1>1, <1>2 DEF loopVars, Fresh, QInv, FreshState
<1>6. Forward
  BY <1>2 DEF Forward
<1> QED BY <1>1, <1>2, <1>3, <1>4, <1>5, <1>6, ExecutedKept

\* A reply is looked at; the last one of the handshake is a success.
LEMMA FeedExecuted ==
  ASSUME QInv, QInv', ExecInv, NEW alive, Feeds(alive)
  PROVE  ExecInv'
<1>1. /\ UNCHANGED <<writerVars, streamVars, successfulEver, executions>>
      /\ successful' = (alive \/ successful) /\ alive \in BOOLEAN
      /\ eventLoop \in {"reading", "draining"}
      /\ eventLoop' \in {"reading", "draining", "backoff", "exited"}
      /\ firstEpoch' = firstEpoch
      /\ UNCHANGED coreVars \/ ConsumeResponse(Head(buffered), alive)
  BY DEF Feeds, FeedReply, serverVars
<1>2. /\ UNCHANGED <<staged, nextSequence, nextToWrite>>
      /\ inHandshake' = inHandshake \/ alive
      /\ requestQueue' = requestQueue \/ Discard(1)
  <2>1. CASE UNCHANGED coreVars
    BY <2>1 DEF coreVars, callerVars, queueVars, iteratorVars, handshakeVars
  <2>2. CASE ConsumeHandshake(Head(buffered), alive)
    BY <2>2 DEF ConsumeHandshake, callerVars, queueVars, iteratorVars, handshakeVars
  <2>3. CASE ConsumeMessage(Head(buffered), alive) \/ ConsumeMultiPrefix(Head(buffered), alive)
    BY <2>3 DEF ConsumeMessage, ConsumeMultiPrefix, callerVars, queueVars, iteratorVars,
                handshakeVars
  <2>4. CASE ConsumeReply(Head(buffered), alive)
    BY <2>4 DEF ConsumeReply, AcknowledgePending, Discard, callerVars, handshakeVars
  <2> QED BY <1>1, <2>1, <2>2, <2>3, <2>4
          DEF ConsumeResponse, ConsumeUnavailable, ConsumeUnexpected
<1>3. UNCHANGED <<writerPc, writing, bytesWritten, accepted, wire>>
  BY <1>1 DEF writerVars, writerLocals, streamVars
<1>4. Forward
  <2> SUFFICES ASSUME Running
               PROVE  WriteId <= WriteId'
    BY <1>3 DEF Forward, Running
  <2>1. ASSUME writing.kind = "request"
        PROVE  LengthOf(writing)' = LengthOf(writing)
    <3>1. writing'.sequence \in DOMAIN requestQueue'
      BY <1>3, <2>1 DEF QInv, WriterState, Running
    <3>2. requestQueue'[writing.sequence] = requestQueue[writing.sequence]
      <4>1. writing.sequence \in DOMAIN requestQueue'
        BY <1>3, <3>1
      <4>2. CASE requestQueue' = requestQueue
        BY <4>2
      <4>3. CASE Discard(1)
        <5>1. requestQueue' = [s \in frontSequence + 1 .. nextSequence - 1 |->
                                 requestQueue[s]]
          BY <4>3 DEF Discard
        <5> QED BY <4>1, <5>1
      <4> QED BY <1>2, <4>2, <4>3
    <3> QED BY <1>3, <3>2 DEF LengthOf
  <2>2. UnitsSent' = UnitsSent
    BY <1>3 DEF UnitsSent
  <2>3. Unfinished' => Unfinished
    BY <1>3, <2>1, <2>2 DEF Unfinished
  <2> QED BY <1>2, <2>3, MovesForward
<1>5. ~Fresh'
  <2>1. ~firstEpoch
    BY <1>1 DEF QInv, FreshState
  <2> QED BY <1>1, <2>1 DEF Fresh
<1>6. (Succeeded => Succeeded') /\ (~inHandshake' => ~inHandshake \/ Succeeded')
  <2>1. successfulEver' = successfulEver /\ successful' = (alive \/ successful)
    BY <1>1
  <2>2. inHandshake' = inHandshake \/ alive
    BY <1>2
  <2>3. (alive \/ successful) => successful'
    BY <2>1
  <2> QED BY <2>1, <2>2, <2>3 DEF Succeeded
<1>7. staged <= staged'
  BY <1>2, Numbers
<1> QED BY <1>1, <1>3, <1>4, <1>5, <1>6, <1>7, WireSame, ExecutedKept

\* cleanup() after a success purges what is unanswered: nothing of it is sent again.
LEMMA CleanupExecuted ==
  ASSUME QInv, QInv', ExecInv, Cleanup, RetryMode = "NoRetries", HandshakeRounds > 0
  PROVE  ExecInv'
<1>1. PICK purge \in BOOLEAN :
        /\ ShouldPurge(purge, successfulEver')
        /\ IF purge THEN ClearAllPending ELSE Reconnection
  BY DEF Cleanup
<1>2. /\ writerPc' = "off" /\ wire' = <<>> /\ executions' = executions
      /\ successfulEver' = (successfulEver \/ successful)
  BY DEF Cleanup, Joined, writerVars
<1>3. inHandshake' /\ staged' = staged
  <2>1. RestartHandshake /\ staged' = staged
    BY <1>1 DEF ClearAllPending, Reconnection, callerVars
  <2> QED BY <2>1 DEF RestartHandshake
<1>4. ASSUME NEW id \in 1 .. MaxStaged, executions[id] = 1
      PROVE  Executed(id)'
  <2>1. Executed(id)
    BY <1>4 DEF ExecInv
  <2>2. successfulEver'
    BY <1>2, <2>1 DEF Executed, Succeeded
  <2>3. purge
    BY <1>1, <2>2 DEF ShouldPurge
  <2>4. ClearAllPending
    BY <1>1, <2>3
  <2>5. LastLeft' = staged'
    <3>1. nextSequence' = 1 /\ nextToAcknowledge' = 1
      BY <2>4 DEF ClearAllPending
    <3>2. staged' \in Nat
      BY <1>3, Numbers
    <3>3. UnacknowledgedCount' = 0
      BY <3>1 DEF UnacknowledgedCount
    <3>4. LastLeft' = staged' - 0
      BY <3>3 DEF LastLeft
    <3> DEFINE left == LastLeft'
               all == staged'
    <3>5. left = all - 0 /\ all \in Nat
      BY <3>2, <3>4
    <3> HIDE DEF left, all
    <3>6. left = all
      BY <3>5
    <3> QED BY <3>6 DEF left, all
  <2>6. id <= staged' /\ id <= LastLeft'
    BY <1>3, <2>1, <2>5 DEF Executed
  <2>7. ~Coming(id)' /\ ~Running' /\ Succeeded'
    BY <1>2, <2>2 DEF Coming, Running, Succeeded
  <2> QED BY <2>6, <2>7 DEF Executed
<1> QED BY <1>2, <1>3, <1>4 DEF ExecInv

LEMMA DialExecuted ==
  ASSUME QInv, QInv', ExecInv, DialSucceeds
  PROVE  ExecInv'
<1>1. /\ eventLoop = "dial" /\ eventLoop' = "reading"
      /\ UNCHANGED <<firstEpoch, successful, successfulEver, executions, wire>>
      /\ UNCHANGED <<staged, inHandshake, queueVars, iteratorVars>>
      /\ writing' = Nothing
  BY DEF DialSucceeds, Activate, SetBlockingMode, callerVars, serverVars
<1>2. nextToWrite = nextToAcknowledge
  BY <1>1 DEF QInv, FreshState
<1>3. WriteId' = LastLeft + 1
  <2>1. ~Unfinished'
    BY <1>1 DEF Unfinished, Nothing
  <2>2. WriteId' = staged - nextSequence + nextToWrite + 1
    BY <1>1, <2>1, PlaceLater DEF queueVars, iteratorVars
  <2> QED BY <1>2, <2>2, Numbers
<1>4. ASSUME NEW id \in 1 .. MaxStaged, executions[id] = 1
      PROVE  Executed(id)'
  <2>1. Executed(id) /\ Fresh
    BY <1>1, <1>4 DEF ExecInv, Fresh
  <2>2. id < WriteId'
    <3>1. id <= LastLeft /\ LastLeft \in Nat
      BY <2>1, Numbers DEF Executed
    <3>2. id < LastLeft + 1
      BY <3>1
    <3> QED BY <1>3, <3>2
  <2>3. ~firstEpoch
    BY <1>1 DEF QInv, FreshState
  <2>4. ~Fresh'
    BY <1>1, <2>3 DEF Fresh
  <2> QED BY <1>1, <2>1, <2>2, <2>4 DEF Executed, Coming, Executes, Succeeded
<1> QED BY <1>1, <1>4 DEF ExecInv, Succeeded

LEMMA QNextExecuted ==
  ASSUME RetryMode = "NoRetries", HandshakeRounds > 0, QInv, QInv', ExecInv,
         [QNext]_vars
  PROVE  ExecInv'
<1>1. CASE Writer
  BY <1>1, WriterExecuted
<1>2. CASE Server
  BY <1>2, AnswerExecuted, RefusalExecuted, QuietExecuted DEF Server
<1>3. CASE EventLoopCleanup \/ DestructorCleanup
  BY <1>3, CleanupExecuted DEF EventLoopCleanup, DestructorCleanup
<1>4. CASE DialSucceeds
  BY <1>4, DialExecuted
<1>5. CASE ReadReply \/ (Drain /\ buffered # <<>>)
  <2>1. PICK alive \in BOOLEAN : Feeds(alive)
    BY <1>5 DEF ReadReply, Drain, Feeds
  <2> QED BY <2>1, FeedExecuted
<1> QED BY <1>1, <1>2, <1>3, <1>4, <1>5, QuietExecuted
        DEF QNext, EventLoopThread, DestructorGoesOn, QuietLoopStep

\* Without retries (cleanup() after a successful connection purges what was not
\* answered) no request is executed twice, however often the connection is lost,
\* whatever is refused, and whether or not the client is destroyed meanwhile.
\* This takes a handshake: the first success is then known to the client before
\* any request is sent.
THEOREM ExecutedOnceWithoutRetries ==
  ASSUME RetryMode = "NoRetries", HandshakeRounds > 0
  PROVE  QSpec => []ExecutedAtMostOnce
<1>1. QInit => ExecInv
  <2>1. MaxStaged \in Nat
    BY SizesAssumption
  <2> SUFFICES ASSUME QInit
               PROVE  ExecInv
    OBVIOUS
  <2>2. executions = [id \in 1 .. MaxStaged |-> 0]
    BY DEF QInit
  <2>3. inHandshake
    BY DEF QInit, Init
  <2> QED BY <2>1, <2>2, <2>3 DEF ExecInv
<1>2. QInv /\ ExecInv /\ [QNext]_vars => ExecInv'
  BY QNextQInv, QNextExecuted
<1>3. ExecInv => ExecutedAtMostOnce
  BY DEF ExecInv, ExecutedAtMostOnce
<1> QED BY <1>1, <1>2, <1>3, QInvAlways, PTL DEF QSpec
=============================================================================
