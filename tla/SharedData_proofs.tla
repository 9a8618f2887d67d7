-------------------------- MODULE SharedData_proofs --------------------------
(***************************************************************************)
(* The data that clients share and the queue that persists them, for any      *)
(* contents and any number of changes, commands, crashes and connections.      *)
(* What a PersistentSharedHash returns is what the server had at the version   *)
(* it returns, and at rest it is the newest; so is the size a SharedDeque       *)
(* remembers.  The persistent queue meets its promises: the server meets the   *)
(* commands first in the order of recording, what is gone from the queue was   *)
(* executed, and what was reported as done is never executed again.            *)
(***************************************************************************)
EXTENDS PersistentSharedHash, SharedDeque, BackgroundFlusher, SequenceTheorems,
        FiniteSetTheorems, TLAPS

-----------------------------------------------------------------------------
(* PersistentSharedHash: the inductive invariant                             *)

IsSequence(s) == \E S : s \in Seq(S)

\* What a reply, and what a publication, says of the history is true.
TrueReply(m) == m.revision \in 0 .. Revision /\ m.contents = ContentsAt(m.revision)
TrueChange(m) ==
  /\ m.type = "publish" /\ m.revision \in 1 .. Revision
  /\ ContentsAt(m.revision) = Apply(ContentsAt(m.revision - 1), m.contents)

Shape ==
  /\ IsSequence(history) /\ IsSequence(stream) /\ IsSequence(commands)
  /\ IsSequence(executorQueue) /\ IsSequence(subscriberFed)
  /\ asked \in Nat \ {0}

Copy ==
  /\ Len(history) # 0
  /\ currentVersion \in 0 .. Revision /\ contents = ContentsAt(currentVersion)

Messages ==
  /\ \A i \in DOMAIN stream :
       \/ TrueChange(stream[i])
       \/ stream[i].type = "reply" /\ TrueReply(stream[i])
  /\ arrived = NoMessage \/ TrueChange(arrived)
  /\ \A i \in DOMAIN executorQueue :
       \/ executorQueue[i].type = "null"
       \/ executorQueue[i].type = "reply" /\ TrueReply(executorQueue[i])
  /\ futureReply.type \in {"pending", "null", "reply"}
  /\ futureReply.type = "reply" => TrueReply(futureReply)

\* A revision is published once, after the earlier ones.
InOrder ==
  /\ \A i, j \in DOMAIN stream :
       (i < j /\ stream[i].type = "publish" /\ stream[j].type = "publish") =>
         stream[i].revision < stream[j].revision
  /\ \A i \in DOMAIN stream : stream[i].type = "publish" =>
       /\ arrived # NoMessage => arrived.revision < stream[i].revision
       /\ \A k \in DOMAIN subscriberFed : subscriberFed[k] < stream[i].revision
  /\ arrived # NoMessage =>
       \A k \in DOMAIN subscriberFed : subscriberFed[k] < arrived.revision
  /\ \A k \in DOMAIN subscriberFed : subscriberFed[k] \in 1 .. Revision
  /\ \A k, l \in DOMAIN subscriberFed : k < l => subscriberFed[k] < subscriberFed[l]

ContentsInv == Shape /\ Copy /\ Messages /\ InOrder

\* The last VHGETALL is the one whose reply counts.
Ids ==
  /\ \A i \in DOMAIN commands : commands[i] \in 0 .. asked
  /\ \A i \in DOMAIN stream : stream[i].type = "reply" => stream[i].of \in 0 .. asked
  /\ \A i \in DOMAIN executorQueue :
       executorQueue[i].of \in Int /\ executorQueue[i].of <= asked
  /\ futureReply.of = 0 \/ futureReply.of = asked

Told ==
  /\ "subscriber" \notin establishing =>
       subscribed \/ \E i \in DOMAIN commands : commands[i] = SubscribeCommand
  /\ ("subscriber" \in establishing /\ "hash" \notin establishing) => aheadOfSubscribe

\* The publications after a revision are still to come; after a reply, unless
\* it would lower the version.
Coming(revision) ==
  \A r \in revision + 1 .. Revision :
    \/ arrived # NoMessage /\ arrived.revision = r
    \/ \E i \in DOMAIN stream : stream[i].type = "publish" /\ stream[i].revision = r
Current(m) == subscribed /\ (currentVersion <= m.revision => Coming(m.revision))

\* Where the last VHGETALL or its reply is, and that it makes the copy current.
Whereabouts ==
  /\ (futureReply.of = asked /\ futureReply.type = "pending") =>
       \/ \E i \in DOMAIN commands : commands[i] = asked
       \/ \E i \in DOMAIN stream : stream[i].type = "reply" /\ stream[i].of = asked
       \/ \E i \in DOMAIN executorQueue : executorQueue[i].of = asked
  /\ \A i \in DOMAIN commands : commands[i] = asked =>
       subscribed \/ \E j \in 1 .. i - 1 : commands[j] = SubscribeCommand
  /\ \A i \in DOMAIN stream : (stream[i].type = "reply" /\ stream[i].of = asked) =>
       Current(stream[i])
  /\ \A i \in DOMAIN executorQueue : executorQueue[i].of = asked =>
       executorQueue[i].type = "reply" /\ Current(executorQueue[i])
  /\ (futureReply.of = asked /\ futureReply.type # "pending") =>
       futureReply.type = "reply" /\ Current(futureReply)
  /\ futureReply.of = 0 => subscribed /\ Coming(currentVersion)

CurrentInv ==
  /\ Ids /\ Told
  /\ (establishing = {} /\ ~aheadOfSubscribe /\ ~regressed) => Whereabouts

PersistentInv == ContentsInv /\ CurrentInv


-----------------------------------------------------------------------------
(* Sequences of any elements                                                 *)

LEMMA EmptyIsSequence == IsSequence(<<>>)
<1>1. <<>> \in Seq({})
  OBVIOUS
<1> QED BY <1>1 DEF IsSequence

LEMMA SequenceDomain ==
  ASSUME NEW s, IsSequence(s) PROVE Len(s) \in Nat /\ DOMAIN s = 1 .. Len(s)
<1> QED BY DEF IsSequence

LEMMA Appended ==
  ASSUME NEW s, IsSequence(s), NEW x
  PROVE  /\ IsSequence(Append(s, x)) /\ Len(Append(s, x)) = Len(s) + 1
         /\ DOMAIN s = 1 .. Len(s) /\ DOMAIN Append(s, x) = 1 .. Len(s) + 1
         /\ Len(s) \in Nat
         /\ Append(s, x)[Len(s) + 1] = x
         /\ \A i \in 1 .. Len(s) : Append(s, x)[i] = s[i]
<1>1. PICK S : s \in Seq(S)
  BY DEF IsSequence
<1> DEFINE T == S \cup {x}
<1>2. s \in Seq(T) /\ x \in T
  BY <1>1, SeqMonotonic
<1> HIDE DEF T
<1>3. Append(s, x) \in Seq(T) /\ Len(Append(s, x)) = Len(s) + 1
  BY <1>2
<1>4. IsSequence(Append(s, x))
  BY <1>3 DEF IsSequence
<1> QED BY <1>2, <1>3, <1>4, AppendProperties

LEMMA Rest ==
  ASSUME NEW s, IsSequence(s), s # <<>>
  PROVE  /\ IsSequence(Tail(s)) /\ Len(s) \in Nat \ {0} /\ DOMAIN s = 1 .. Len(s)
         /\ Len(Tail(s)) = Len(s) - 1 /\ DOMAIN Tail(s) = 1 .. Len(s) - 1
         /\ Head(s) = s[1]
         /\ \A i \in 1 .. Len(s) - 1 : Tail(s)[i] = s[i + 1]
<1>1. PICK S : s \in Seq(S)
  BY DEF IsSequence
<1>2. Tail(s) \in Seq(S)
  BY <1>1
<1>3. IsSequence(Tail(s))
  BY <1>2 DEF IsSequence
<1> QED BY <1>1, <1>2, <1>3

LEMMA Joined ==
  ASSUME NEW s, IsSequence(s), NEW t, IsSequence(t)
  PROVE  /\ IsSequence(s \o t) /\ DOMAIN s = 1 .. Len(s)
         /\ Len(s) \in Nat /\ Len(t) \in Nat
         /\ DOMAIN (s \o t) = 1 .. Len(s) + Len(t)
         /\ \A i \in 1 .. Len(s) : (s \o t)[i] = s[i]
         /\ \A i \in Len(s) + 1 .. Len(s) + Len(t) : (s \o t)[i] = t[i - Len(s)]
<1>1. PICK R, S : s \in Seq(R) /\ t \in Seq(S)
  BY DEF IsSequence
<1> DEFINE T == R \cup S
           m == Len(s)
           n == Len(t)
<1>2. s \in Seq(T) /\ t \in Seq(T)
  BY <1>1, SeqMonotonic
<1> HIDE DEF T
<1>3. /\ s \o t \in Seq(T) /\ Len(s \o t) = m + n
      /\ \A i \in 1 .. m + n : (s \o t)[i] = IF i <= m THEN s[i] ELSE t[i - m]
  BY <1>2, ConcatProperties
<1>4. m \in Nat /\ n \in Nat /\ DOMAIN s = 1 .. m /\ DOMAIN (s \o t) = 1 .. m + n
  BY <1>2, <1>3
<1>5. IsSequence(s \o t)
  BY <1>3 DEF IsSequence
<1> HIDE DEF m, n
<1>6. /\ \A i \in 1 .. m : (s \o t)[i] = s[i]
      /\ \A i \in m + 1 .. m + n : (s \o t)[i] = t[i - m]
  BY <1>3, <1>4
<1> QED BY <1>4, <1>5, <1>6 DEF m, n

-----------------------------------------------------------------------------
(* The initial state                                                         *)

LEMMA InitPersistent == PersistentInit => PersistentInv
<1> SUFFICES ASSUME PersistentInit PROVE PersistentInv
  OBVIOUS
<1>1. PICK first \in [Fields -> Values \cup {Absent}] :
        history \in {<<Empty>>, <<Empty, first>>}
  BY DEF PersistentInit
<1>2. /\ stream = <<>> /\ executorQueue = <<>> /\ subscriberFed = <<>>
      /\ DOMAIN stream = {} /\ DOMAIN executorQueue = {} /\ DOMAIN subscriberFed = {}
      /\ commands = <<SubscribeCommand, 1>> /\ asked = 1 /\ arrived = NoMessage
      /\ establishing = {} /\ contents = Empty /\ currentVersion = 0
      /\ futureReply = [NotReady EXCEPT !.of = 1]
  BY DEF PersistentInit
<1>3. commands \in Seq(Nat) /\ DOMAIN commands = 1 .. 2
      /\ commands[1] = SubscribeCommand /\ commands[2] = 1
  BY <1>2 DEF SubscribeCommand
<1>4. history \in Seq({Empty, first}) /\ Len(history) \in {1, 2} /\ history[1] = Empty
  <2>1. CASE history = <<Empty>>
    BY <2>1
  <2>2. CASE history = <<Empty, first>>
    BY <2>2
  <2> QED BY <1>1, <2>1, <2>2
<1>5. Shape
  BY <1>2, <1>3, <1>4, EmptyIsSequence DEF Shape, IsSequence
<1>6. Copy
  BY <1>2, <1>4 DEF Copy, Revision, ContentsAt
<1>7. futureReply.of = 1 /\ futureReply.type = "pending"
  BY <1>2 DEF NotReady
<1>8. Messages /\ InOrder
  BY <1>2, <1>7 DEF Messages, InOrder
<1>9. Ids /\ Told
  BY <1>2, <1>3, <1>7 DEF Ids, Told, SubscribeCommand
<1>10. Whereabouts
  BY <1>2, <1>3, <1>7 DEF Whereabouts, SubscribeCommand
<1> QED BY <1>5, <1>6, <1>8, <1>9, <1>10 DEF PersistentInv, ContentsInv, CurrentInv

-----------------------------------------------------------------------------
(* The server                                                                *)

LEMMA SameHistory ==
  ASSUME NEW m, UNCHANGED history
  PROVE  /\ TrueReply(m)' <=> TrueReply(m)
         /\ TrueChange(m)' <=> TrueChange(m)
  BY DEF TrueReply, TrueChange, Revision, ContentsAt

\* One more revision does not change the earlier ones.
LEMMA HistoryGrows ==
  ASSUME PersistentInv, NEW x, history' = Append(history, x)
  PROVE  /\ IsSequence(history') /\ Revision' = Revision + 1 /\ Revision \in Nat
         /\ Len(history') # 0
         /\ \A k \in Nat : k = Revision + 1 => ContentsAt(k)' = x
         /\ \A k \in 0 .. Revision : ContentsAt(k)' = ContentsAt(k)
<1>1. IsSequence(history) /\ Len(history) # 0
  BY DEF PersistentInv, ContentsInv, Shape, Copy
<1>2. /\ IsSequence(history') /\ Len(history') = Len(history) + 1 /\ Len(history) \in Nat
      /\ history'[Len(history) + 1] = x
      /\ \A i \in 1 .. Len(history) : history'[i] = history[i]
  BY <1>1, Appended
<1>3. PICK n \in Nat : n = Len(history) /\ n # 0
  BY <1>1, <1>2
<1>4. /\ Revision' = Revision + 1 /\ Revision = n - 1 /\ Len(history') # 0
      /\ history'[n + 1] = x /\ \A i \in 1 .. n : history'[i] = history[i]
  BY <1>2, <1>3 DEF Revision
<1>5. ASSUME NEW k \in Nat, k = Revision + 1 PROVE ContentsAt(k)' = x
  BY <1>3, <1>4, <1>5 DEF ContentsAt
<1>6. ASSUME NEW k \in 0 .. Revision PROVE ContentsAt(k)' = ContentsAt(k)
  <2>1. k + 1 \in 1 .. n
    BY <1>3, <1>4
  <2> QED BY <1>4, <2>1 DEF ContentsAt
<1> QED BY <1>2, <1>3, <1>4, <1>5, <1>6

LEMMA StaysTrue ==
  ASSUME PersistentInv, NEW x, history' = Append(history, x), NEW m
  PROVE  /\ TrueReply(m) => TrueReply(m)'
         /\ TrueChange(m) => TrueChange(m)'
<1> DEFINE n == Revision
           after == Revision'
<1>1. after = n + 1 /\ n \in Nat
  BY HistoryGrows
<1>2. \A k \in 0 .. n : ContentsAt(k)' = ContentsAt(k)
  BY HistoryGrows
<1> HIDE DEF n, after
<1>3. ASSUME TrueReply(m) PROVE TrueReply(m)'
  <2>1. m.revision \in 0 .. n /\ m.contents = ContentsAt(m.revision)
    BY <1>3 DEF TrueReply, n
  <2>2. m.revision \in 0 .. after
    BY <1>1, <2>1
  <2>3. m.contents = ContentsAt(m.revision)'
    BY <1>2, <2>1
  <2> QED BY <2>2, <2>3 DEF TrueReply, after
<1>4. ASSUME TrueChange(m) PROVE TrueChange(m)'
  <2>1. /\ m.type = "publish" /\ m.revision \in 1 .. n
        /\ ContentsAt(m.revision) = Apply(ContentsAt(m.revision - 1), m.contents)
    BY <1>4 DEF TrueChange, n
  <2>2. /\ m.revision \in 1 .. after
        /\ m.revision \in 0 .. n /\ m.revision - 1 \in 0 .. n
    BY <1>1, <2>1
  <2>3. /\ ContentsAt(m.revision)' = ContentsAt(m.revision)
        /\ ContentsAt(m.revision - 1)' = ContentsAt(m.revision - 1)
    BY <1>2, <2>2
  <2>4. ContentsAt(m.revision)' = Apply(ContentsAt(m.revision - 1)', m.contents)
    BY <2>1, <2>3
  <2> QED BY <2>1, <2>2, <2>4 DEF TrueChange, after
<1> QED BY <1>3, <1>4

\* What PersistentInv says of revisions.
LEMMA RevisionFacts ==
  ASSUME PersistentInv
  PROVE  /\ Revision \in Nat /\ currentVersion \in 0 .. Revision
         /\ asked \in Nat \ {0}
         /\ Len(stream) \in Nat /\ DOMAIN stream = 1 .. Len(stream)
         /\ Len(commands) \in Nat /\ DOMAIN commands = 1 .. Len(commands)
         /\ Len(executorQueue) \in Nat /\ DOMAIN executorQueue = 1 .. Len(executorQueue)
         /\ Len(subscriberFed) \in Nat /\ DOMAIN subscriberFed = 1 .. Len(subscriberFed)
         /\ \A i \in DOMAIN stream :
              /\ stream[i].revision \in 0 .. Revision
              /\ stream[i].type = "publish" => TrueChange(stream[i])
              /\ stream[i].type \in {"publish", "reply"}
         /\ arrived # NoMessage => arrived.revision \in 1 .. Revision /\ TrueChange(arrived)
<1>1. /\ Shape /\ Copy /\ Messages
  BY DEF PersistentInv, ContentsInv
<1>2. Len(history) \in Nat /\ Revision \in Nat
  BY <1>1, SequenceDomain DEF Shape, Copy, Revision
<1>3. ASSUME NEW i \in DOMAIN stream
      PROVE  /\ stream[i].revision \in 0 .. Revision
             /\ stream[i].type = "publish" => TrueChange(stream[i])
             /\ stream[i].type \in {"publish", "reply"}
  BY <1>1, <1>2 DEF Messages, TrueChange, TrueReply
<1>4. arrived # NoMessage => arrived.revision \in 1 .. Revision /\ TrueChange(arrived)
  BY <1>1 DEF Messages, TrueChange
<1> QED BY <1>1, <1>2, <1>3, <1>4, SequenceDomain DEF Shape, Copy

LEMMA ChangeKeepsContents ==
  ASSUME PersistentInv, NEW change, Change(change) PROVE ContentsInv'
<1>0. PICK x, m : /\ x = Apply(ContentsAt(Revision), change)
                  /\ m = [type |-> "publish", revision |-> Revision + 1,
                          contents |-> change, of |-> 0]
  OBVIOUS
<1>1. /\ history' = Append(history, x)
      /\ stream' = IF subscribed THEN Append(stream, m) ELSE stream
      /\ UNCHANGED <<commands, arrived, executorQueue, asked, futureReply, contents,
                     currentVersion, subscriberFed>>
  BY <1>0 DEF Change, loopVars, hashVars
<1>2. /\ Shape /\ Copy /\ Messages /\ InOrder
  BY DEF PersistentInv, ContentsInv
<1>3. PICK n \in Nat : n = Revision /\ Revision' = n + 1
  BY <1>1, HistoryGrows
<1>4. TrueChange(m)'
  <2>1. ContentsAt(n + 1)' = x /\ ContentsAt(n)' = ContentsAt(n)
    BY <1>1, <1>3, HistoryGrows
  <2>2. m.revision = n + 1 /\ m.revision - 1 = n /\ m.contents = change /\ m.type = "publish"
    BY <1>0, <1>3
  <2>3. x = Apply(ContentsAt(n), change)
    BY <1>0, <1>3
  <2>4. m.revision \in 1 .. Revision'
    BY <1>3, <2>2
  <2>5. ContentsAt(m.revision)' = Apply(ContentsAt(m.revision - 1)', m.contents)
    BY <2>1, <2>2, <2>3
  <2> QED BY <2>2, <2>4, <2>5 DEF TrueChange
<1>5. m.type = "publish" /\ m.revision = n + 1
  BY <1>0, <1>3
<1>6. IsSequence(stream)
  BY <1>2 DEF Shape
<1> DEFINE l == Len(stream)
<1>7. l \in Nat /\ DOMAIN stream = 1 .. l
  BY <1>6, SequenceDomain
<1>8. /\ IsSequence(stream')
      /\ \/ stream' = stream
         \/ /\ DOMAIN stream' = 1 .. l + 1 /\ stream'[l + 1] = m
            /\ \A i \in 1 .. l : stream'[i] = stream[i]
  BY <1>1, <1>6, Appended
<1> HIDE DEF l
<1>9. \A i \in DOMAIN stream' :
        \/ i \in DOMAIN stream /\ stream'[i] = stream[i]
        \/ i = l + 1 /\ stream'[i] = m
  BY <1>7, <1>8
<1>10. Shape'
  BY <1>1, <1>2, <1>8, HistoryGrows DEF Shape
<1>11. Copy'
  <2>1. currentVersion \in 0 .. n /\ contents = ContentsAt(currentVersion)
    BY <1>2, <1>3 DEF Copy
  <2>2. PICK v \in 0 .. n : v = currentVersion
    BY <2>1
  <2>3. contents' = ContentsAt(v)'
    BY <1>1, <1>3, <2>1, <2>2, HistoryGrows
  <2>4. ContentsAt(v)' = ContentsAt(currentVersion)'
    BY <1>1, <2>2 DEF ContentsAt
  <2>5. currentVersion' \in 0 .. Revision'
    BY <1>1, <1>3, <2>1
  <2> QED BY <1>1, <2>3, <2>4, <2>5, HistoryGrows DEF Copy
<1>12. Messages'
  <2>1. ASSUME NEW i \in DOMAIN stream'
        PROVE  TrueChange(stream[i])' \/ (stream[i].type = "reply" /\ TrueReply(stream[i]))'
    <3>1. PICK k : k = stream'[i]
      OBVIOUS
    <3>2. TrueChange(k)' \/ (k.type = "reply" /\ TrueReply(k)')
      <4>1. CASE k = m
        BY <1>4, <4>1
      <4>2. CASE i \in DOMAIN stream /\ k = stream[i]
        <5>1. TrueChange(k) \/ (k.type = "reply" /\ TrueReply(k))
          BY <1>2, <4>2 DEF Messages
        <5> QED BY <1>1, <5>1, StaysTrue
      <4> QED BY <1>9, <3>1, <4>1, <4>2
    <3> QED BY <3>1, <3>2 DEF TrueChange, TrueReply
  <2>2. arrived' = NoMessage \/ TrueChange(arrived)'
    <3>1. PICK k : k = arrived
      OBVIOUS
    <3>2. k = NoMessage \/ TrueChange(k)'
      BY <1>1, <1>2, <3>1, StaysTrue DEF Messages
    <3> QED BY <1>1, <3>1, <3>2 DEF TrueChange
  <2>3. ASSUME NEW i \in DOMAIN executorQueue
        PROVE  \/ executorQueue'[i].type = "null"
               \/ (executorQueue[i].type = "reply" /\ TrueReply(executorQueue[i]))'
    <3>1. PICK k : k = executorQueue[i]
      OBVIOUS
    <3>2. k.type = "null" \/ (k.type = "reply" /\ TrueReply(k)')
      BY <1>1, <1>2, <3>1, StaysTrue DEF Messages
    <3> QED BY <1>1, <3>1, <3>2 DEF TrueReply
  <2>4. futureReply'.type = "reply" => TrueReply(futureReply)'
    <3>1. PICK k : k = futureReply
      OBVIOUS
    <3>2. k.type = "reply" => TrueReply(k)'
      BY <1>1, <1>2, <3>1, StaysTrue DEF Messages
    <3> QED BY <1>1, <3>1, <3>2 DEF TrueReply
  <2>5. futureReply'.type \in {"pending", "null", "reply"} /\ NoMessage' = NoMessage
    BY <1>1, <1>2 DEF Messages, NoMessage, Empty
  <2> QED BY <1>1, <2>1, <2>2, <2>3, <2>4, <2>5 DEF Messages
<1>13. InOrder'
  <2>1. \A i \in DOMAIN stream : stream[i].revision \in 0 .. n
    BY <1>3, RevisionFacts
  <2>2. ASSUME NEW i \in DOMAIN stream', NEW j \in DOMAIN stream', i < j,
               stream'[i].type = "publish", stream'[j].type = "publish"
        PROVE  stream'[i].revision < stream'[j].revision
    <3>1. i \in DOMAIN stream /\ stream'[i] = stream[i]
      BY <1>7, <1>8, <1>9, <2>2
    <3>2. CASE stream'[j] = m
      BY <1>5, <2>1, <3>1, <3>2
    <3>3. CASE j \in DOMAIN stream /\ stream'[j] = stream[j]
      BY <1>2, <2>2, <3>1, <3>3 DEF InOrder
    <3> QED BY <1>9, <3>2, <3>3
  <2>3. \A k \in DOMAIN subscriberFed : subscriberFed[k] \in 1 .. n
    BY <1>2, <1>3 DEF InOrder
  <2>4. arrived # NoMessage => arrived.revision \in 1 .. n
    BY <1>3, RevisionFacts
  <2>5. ASSUME NEW i \in DOMAIN stream', stream'[i].type = "publish"
        PROVE  /\ arrived # NoMessage => arrived.revision < stream'[i].revision
               /\ \A k \in DOMAIN subscriberFed : subscriberFed[k] < stream'[i].revision
    <3>1. CASE stream'[i] = m
      BY <1>5, <2>3, <2>4, <3>1
    <3>2. CASE i \in DOMAIN stream /\ stream'[i] = stream[i]
      BY <1>2, <2>5, <3>2 DEF InOrder
    <3> QED BY <1>9, <3>1, <3>2
  <2>6. \A k \in DOMAIN subscriberFed : subscriberFed[k] \in 1 .. n + 1
    BY <2>3
  <2>7. NoMessage' = NoMessage
    BY DEF NoMessage, Empty
  <2> QED BY <1>1, <1>2, <1>3, <2>2, <2>5, <2>6, <2>7 DEF InOrder
<1> QED BY <1>10, <1>11, <1>12, <1>13 DEF ContentsInv

\* Publications to come, over a change of the stream.
LEMMA ComingMonotonic ==
  ASSUME NEW k \in Nat, NEW l \in Nat, k <= l, Coming(k), Revision \in Nat
  PROVE  Coming(l)
  BY DEF Coming

LEMMA ChangeKeepsCurrent ==
  ASSUME PersistentInv, NEW change, Change(change) PROVE CurrentInv'
<1>0. PICK x, m : /\ x = Apply(ContentsAt(Revision), change)
                  /\ m = [type |-> "publish", revision |-> Revision + 1,
                          contents |-> change, of |-> 0]
  OBVIOUS
<1>1. /\ history' = Append(history, x)
      /\ stream' = IF subscribed THEN Append(stream, m) ELSE stream
      /\ UNCHANGED <<commands, arrived, executorQueue, asked, futureReply, establishing,
                     aheadOfSubscribe, regressed, subscribed, currentVersion>>
  BY <1>0 DEF Change, loopVars, hashVars
<1>2. Ids /\ Told /\ IsSequence(stream)
  BY DEF PersistentInv, CurrentInv, ContentsInv, Shape
<1>3. PICK n \in Nat : n = Revision /\ Revision' = n + 1
  BY <1>1, HistoryGrows
<1>4. m.type = "publish" /\ m.revision = n + 1
  BY <1>0, <1>3
<1> DEFINE l == Len(stream)
<1>5. /\ l \in Nat /\ DOMAIN stream = 1 .. l
      /\ \/ stream' = stream
         \/ /\ DOMAIN stream' = 1 .. l + 1 /\ stream'[l + 1] = m
            /\ \A i \in 1 .. l : stream'[i] = stream[i]
      /\ subscribed => stream' # stream
  <2>1. ASSUME subscribed PROVE stream' # stream
    <3>1. Len(stream') = l + 1 /\ l \in Nat
      BY <1>1, <1>2, <2>1, Appended
    <3> QED BY <3>1
  <2> QED BY <1>1, <1>2, <2>1, Appended, SequenceDomain
<1> HIDE DEF l
<1>6. /\ \A i \in DOMAIN stream' :
           \/ i \in DOMAIN stream /\ stream'[i] = stream[i]
           \/ stream'[i] = m
      /\ \A i \in DOMAIN stream : i \in DOMAIN stream' /\ stream'[i] = stream[i]
  BY <1>5
<1>7. Ids' /\ Told'
  BY <1>1, <1>2, <1>4, <1>6 DEF Ids, Told
<1>8. ASSUME subscribed, NEW k \in Nat, Coming(k) PROVE Coming(k)'
  <2> SUFFICES ASSUME NEW r \in k + 1 .. Revision'
               PROVE  \/ arrived' # NoMessage' /\ arrived'.revision = r
                      \/ \E i \in DOMAIN stream' : /\ stream'[i].type = "publish"
                                                   /\ stream'[i].revision = r
    BY DEF Coming
  <2>1. CASE r = n + 1
    <3>1. l + 1 \in DOMAIN stream' /\ stream'[l + 1] = m
      BY <1>5, <1>8
    <3> QED BY <1>4, <2>1, <3>1
  <2>2. CASE r \in k + 1 .. n
    <3>1. \/ arrived # NoMessage /\ arrived.revision = r
          \/ \E i \in DOMAIN stream : stream[i].type = "publish" /\ stream[i].revision = r
      BY <1>3, <1>8, <2>2 DEF Coming
    <3>2. NoMessage' = NoMessage
      BY DEF NoMessage, Empty
    <3> QED BY <1>1, <1>6, <3>1, <3>2
  <2> QED BY <1>3, <2>1, <2>2
<1>9. ASSUME NEW k, k.revision \in Nat, Current(k) PROVE Current(k)'
  BY <1>1, <1>8, <1>9 DEF Current
<1>10. ASSUME establishing = {}, ~aheadOfSubscribe, ~regressed PROVE Whereabouts'
  <2>1. Whereabouts
    BY <1>10 DEF PersistentInv, CurrentInv
  <2>2. ASSUME NEW i \in DOMAIN stream', stream'[i].type = "reply", stream'[i].of = asked
        PROVE  Current(stream[i])'
    <3>1. i \in DOMAIN stream /\ stream'[i] = stream[i]
      BY <1>4, <1>6, <2>2
    <3>2. PICK k : k = stream[i]
      OBVIOUS
    <3>3. k.revision \in Nat /\ Current(k)
      BY <2>1, <2>2, <3>1, <3>2, RevisionFacts DEF Whereabouts
    <3>4. Current(k)'
      BY <1>9, <3>3
    <3> QED BY <3>1, <3>2, <3>4 DEF Current
  <2>3. ASSUME NEW i \in DOMAIN executorQueue, executorQueue[i].of = asked
        PROVE  executorQueue'[i].type = "reply" /\ Current(executorQueue[i])'
    <3>1. PICK k : k = executorQueue[i]
      OBVIOUS
    <3>2. k.type = "reply" /\ Current(k)
      BY <2>1, <2>3, <3>1 DEF Whereabouts
    <3>3. k.revision \in Nat
      BY <2>3, <3>1, <3>2, RevisionFacts
         DEF PersistentInv, ContentsInv, Messages, TrueReply
    <3>4. Current(k)'
      BY <1>9, <3>2, <3>3
    <3> QED BY <1>1, <3>1, <3>2, <3>4 DEF Current
  <2>4. ASSUME futureReply.of = asked, futureReply.type # "pending"
        PROVE  futureReply.type = "reply" /\ Current(futureReply)'
    <3>1. PICK k : k = futureReply
      OBVIOUS
    <3>2. k.type = "reply" /\ Current(k)
      BY <2>1, <2>4, <3>1 DEF Whereabouts
    <3>3. k.revision \in Nat
      BY <3>1, <3>2, RevisionFacts DEF PersistentInv, ContentsInv, Messages, TrueReply
    <3>4. Current(k)'
      BY <1>9, <3>2, <3>3
    <3> QED BY <1>1, <3>1, <3>2, <3>4 DEF Current
  <2>5. ASSUME futureReply.of = 0 PROVE subscribed' /\ Coming(currentVersion)'
    <3>1. PICK v \in Nat : v = currentVersion
      BY RevisionFacts
    <3>2. subscribed /\ Coming(v)
      BY <2>1, <2>5, <3>1 DEF Whereabouts
    <3>3. Coming(v)'
      BY <1>8, <3>2
    <3> QED BY <1>1, <3>1, <3>2, <3>3 DEF Coming
  <2> QED BY <1>1, <1>6, <2>1, <2>2, <2>3, <2>4, <2>5 DEF Whereabouts
<1> QED BY <1>1, <1>7, <1>10 DEF CurrentInv

-----------------------------------------------------------------------------
(* Messages on their way from one place to the next                          *)

LEMMA MessagesMove ==
  ASSUME PersistentInv, UNCHANGED history,
         \A i \in DOMAIN stream' :
           \/ \E j \in DOMAIN stream : stream'[i] = stream[j]
           \/ (stream[i].type = "reply" /\ TrueReply(stream[i]))',
         \/ arrived' = NoMessage \/ arrived' = arrived
         \/ \E j \in DOMAIN stream : stream[j].type = "publish" /\ arrived' = stream[j],
         \A i \in DOMAIN executorQueue' :
           \/ executorQueue'[i].type = "null"
           \/ \E j \in DOMAIN executorQueue : executorQueue'[i] = executorQueue[j]
           \/ \E j \in DOMAIN stream : /\ stream[j].type = "reply"
                                       /\ executorQueue'[i] = stream[j],
         \/ futureReply' = futureReply \/ futureReply'.type = "pending"
         \/ \E j \in DOMAIN executorQueue : futureReply' = executorQueue[j]
  PROVE  Messages'
<1>1. Messages
  BY DEF PersistentInv, ContentsInv
<1>2. ASSUME NEW i \in DOMAIN stream'
      PROVE  TrueChange(stream[i])' \/ (stream[i].type = "reply" /\ TrueReply(stream[i]))'
  <2>1. CASE \E j \in DOMAIN stream : stream'[i] = stream[j]
    <3>1. PICK k : k = stream'[i] /\ (TrueChange(k) \/ (k.type = "reply" /\ TrueReply(k)))
      BY <1>1, <2>1 DEF Messages
    <3>2. TrueChange(k)' \/ (k.type = "reply" /\ TrueReply(k)')
      BY <3>1, SameHistory
    <3> QED BY <3>1, <3>2 DEF TrueChange, TrueReply
  <2> QED BY <2>1
<1>3. arrived' = NoMessage \/ TrueChange(arrived)'
  <2>1. \A j \in DOMAIN stream : stream[j].type = "publish" => TrueChange(stream[j])
    BY RevisionFacts
  <2>2. PICK k : k = arrived'
    OBVIOUS
  <2>3. k = NoMessage \/ TrueChange(k)
    BY <1>1, <2>1, <2>2 DEF Messages
  <2>4. k = NoMessage \/ TrueChange(k)'
    BY <2>3, SameHistory
  <2> QED BY <2>2, <2>4 DEF TrueChange
<1>4. ASSUME NEW i \in DOMAIN executorQueue'
      PROVE  \/ executorQueue'[i].type = "null"
             \/ (executorQueue[i].type = "reply" /\ TrueReply(executorQueue[i]))'
  <2>1. PICK k : k = executorQueue'[i]
    OBVIOUS
  <2>2. k.type = "null" \/ (k.type = "reply" /\ TrueReply(k))
    <3>1. ASSUME NEW j \in DOMAIN stream, stream[j].type = "reply" PROVE TrueReply(stream[j])
      BY <1>1, <3>1 DEF Messages, TrueChange
    <3> QED BY <1>1, <1>4, <2>1, <3>1 DEF Messages
  <2>3. k.type = "null" \/ (k.type = "reply" /\ TrueReply(k)')
    BY <2>2, SameHistory
  <2> QED BY <2>1, <2>3 DEF TrueReply
<1>5. /\ futureReply'.type \in {"pending", "null", "reply"}
      /\ futureReply'.type = "reply" => TrueReply(futureReply)'
  <2>1. PICK k : k = futureReply'
    OBVIOUS
  <2>2. k.type \in {"pending", "null", "reply"} /\ (k.type = "reply" => TrueReply(k))
    BY <1>1, <2>1 DEF Messages
  <2>3. k.type = "reply" => TrueReply(k)'
    BY <2>2, SameHistory
  <2> QED BY <2>1, <2>2, <2>3 DEF TrueReply
<1>6. NoMessage' = NoMessage
  BY DEF NoMessage, Empty
<1> QED BY <1>2, <1>3, <1>4, <1>5, <1>6 DEF Messages

LEMMA CurrentStays ==
  ASSUME PersistentInv, UNCHANGED <<subscribed, currentVersion>>,
         \A k \in Nat : Coming(k) => Coming(k)'
  PROVE  /\ \A k : (k.revision \in Nat /\ Current(k)) => Current(k)'
         /\ Coming(currentVersion) => Coming(currentVersion)'
<1>1. ASSUME NEW k, k.revision \in Nat, Current(k) PROVE Current(k)'
  BY <1>1 DEF Current
<1>2. ASSUME Coming(currentVersion) PROVE Coming(currentVersion)'
  <2>1. PICK v \in Nat : v = currentVersion
    BY RevisionFacts
  <2>2. Coming(v)'
    BY <1>2, <2>1
  <2> QED BY <2>1, <2>2 DEF Coming
<1> QED BY <1>1, <1>2

\* The replies that count.
LEMMA CountingReplies ==
  ASSUME PersistentInv, Whereabouts
  PROVE  /\ \A j \in DOMAIN stream : (stream[j].type = "reply" /\ stream[j].of = asked) =>
              stream[j].revision \in Nat /\ Current(stream[j])
         /\ \A j \in DOMAIN executorQueue : executorQueue[j].of = asked =>
              /\ executorQueue[j].type = "reply" /\ executorQueue[j].revision \in Nat
              /\ Current(executorQueue[j])
         /\ (futureReply.of = asked /\ futureReply.type # "pending") =>
              /\ futureReply.type = "reply" /\ futureReply.revision \in Nat
              /\ Current(futureReply)
<1>1. Messages /\ Revision \in Nat
  BY RevisionFacts DEF PersistentInv, ContentsInv
<1>2. ASSUME NEW j \in DOMAIN stream, stream[j].type = "reply", stream[j].of = asked
      PROVE  stream[j].revision \in Nat /\ Current(stream[j])
  BY <1>1, <1>2, RevisionFacts DEF Whereabouts
<1>3. ASSUME NEW j \in DOMAIN executorQueue, executorQueue[j].of = asked
      PROVE  /\ executorQueue[j].type = "reply" /\ executorQueue[j].revision \in Nat
             /\ Current(executorQueue[j])
  <2>1. executorQueue[j].type = "reply" /\ Current(executorQueue[j])
    BY <1>3 DEF Whereabouts
  <2>2. TrueReply(executorQueue[j])
    BY <1>1, <2>1 DEF Messages
  <2> QED BY <1>1, <2>1, <2>2 DEF TrueReply
<1>4. ASSUME futureReply.of = asked, futureReply.type # "pending"
      PROVE  /\ futureReply.type = "reply" /\ futureReply.revision \in Nat
             /\ Current(futureReply)
  <2>1. futureReply.type = "reply" /\ Current(futureReply)
    BY <1>4 DEF Whereabouts
  <2>2. TrueReply(futureReply)
    BY <1>1, <2>1 DEF Messages
  <2> QED BY <1>1, <2>1, <2>2 DEF TrueReply
<1> QED BY <1>2, <1>3, <1>4

LEMMA WhereaboutsMove ==
  ASSUME PersistentInv, Whereabouts, UNCHANGED asked,
         \A k : (k.revision \in Nat /\ Current(k)) => Current(k)',
         (futureReply'.of = asked /\ futureReply'.type = "pending") =>
           \/ \E i \in DOMAIN commands' : commands'[i] = asked
           \/ \E i \in DOMAIN stream' : stream'[i].type = "reply" /\ stream'[i].of = asked
           \/ \E i \in DOMAIN executorQueue' : executorQueue'[i].of = asked,
         \A i \in DOMAIN commands' : commands'[i] = asked =>
           subscribed' \/ \E j \in 1 .. i - 1 : commands'[j] = SubscribeCommand,
         \A i \in DOMAIN stream' : (stream'[i].type = "reply" /\ stream'[i].of = asked) =>
           (\E j \in DOMAIN stream : stream'[i] = stream[j]) \/ Current(stream[i])',
         \A i \in DOMAIN executorQueue' : executorQueue'[i].of = asked =>
           \/ \E j \in DOMAIN executorQueue : executorQueue'[i] = executorQueue[j]
           \/ \E j \in DOMAIN stream : /\ stream[j].type = "reply"
                                       /\ executorQueue'[i] = stream[j],
         \/ futureReply' = futureReply \/ futureReply'.of = 0
         \/ \E j \in DOMAIN executorQueue : futureReply' = executorQueue[j],
         futureReply'.of = 0 => subscribed' /\ Coming(currentVersion)'
  PROVE  Whereabouts'
<1>1. ASSUME NEW i \in DOMAIN stream', stream'[i].type = "reply", stream'[i].of = asked
      PROVE  Current(stream[i])'
  <2>1. CASE \E j \in DOMAIN stream : stream'[i] = stream[j]
    <3>1. PICK k : k = stream'[i]
      OBVIOUS
    <3>2. k.revision \in Nat /\ Current(k)
      BY <1>1, <2>1, <3>1, CountingReplies
    <3>3. Current(k)'
      BY <3>2
    <3> QED BY <3>1, <3>3 DEF Current
  <2> QED BY <1>1, <2>1
<1>2. ASSUME NEW i \in DOMAIN executorQueue', executorQueue'[i].of = asked
      PROVE  executorQueue'[i].type = "reply" /\ Current(executorQueue[i])'
  <2>1. PICK k : k = executorQueue'[i]
    OBVIOUS
  <2>2. k.type = "reply" /\ k.revision \in Nat /\ Current(k)
    BY <1>2, <2>1, CountingReplies
  <2>3. Current(k)'
    BY <2>2
  <2> QED BY <2>1, <2>2, <2>3 DEF Current
<1>3. ASSUME futureReply'.of = asked, futureReply'.type # "pending"
      PROVE  futureReply'.type = "reply" /\ Current(futureReply)'
  <2>1. PICK k : k = futureReply'
    OBVIOUS
  <2>2. asked # 0
    BY RevisionFacts
  <2>3. k.type = "reply" /\ k.revision \in Nat /\ Current(k)
    BY <1>3, <2>1, <2>2, CountingReplies
  <2>4. Current(k)'
    BY <2>3
  <2> QED BY <2>1, <2>3, <2>4 DEF Current
<1> QED BY <1>1, <1>2, <1>3 DEF Whereabouts

LEMMA ExecuteKeeps ==
  ASSUME PersistentInv, ExecuteCommand PROVE PersistentInv'
<1>1. /\ commands # <<>> /\ commands' = Tail(commands)
      /\ UNCHANGED <<history, arrived, executorQueue, asked, futureReply, contents,
                     currentVersion, subscriberFed, regressed, establishing,
                     aheadOfSubscribe>>
  BY DEF ExecuteCommand, loopVars, hashVars
<1>2. /\ Shape /\ Copy /\ Messages /\ InOrder /\ Ids /\ Told
  BY DEF PersistentInv, ContentsInv, CurrentInv
<1>3. PICK n \in Nat : n = Len(commands) /\ n # 0
  BY <1>1, <1>2, Rest DEF Shape
<1>4. /\ IsSequence(commands') /\ DOMAIN commands = 1 .. n /\ DOMAIN commands' = 1 .. n - 1
      /\ Head(commands) = commands[1]
      /\ \A i \in 1 .. n - 1 : commands'[i] = commands[i + 1]
  BY <1>1, <1>2, <1>3, Rest DEF Shape
<1>5. PICK c, m : /\ c = commands[1]
                  /\ m = [type |-> "reply", revision |-> Revision,
                          contents |-> ContentsAt(Revision), of |-> c]
  OBVIOUS
<1>6. /\ c = SubscribeCommand => subscribed' = TRUE /\ stream' = stream
      /\ c # SubscribeCommand => subscribed' = subscribed /\ stream' = Append(stream, m)
  BY <1>4, <1>5 DEF ExecuteCommand
<1> DEFINE l == Len(stream)
<1>7. /\ IsSequence(stream') /\ l \in Nat /\ DOMAIN stream = 1 .. l
      /\ \/ c = SubscribeCommand /\ stream' = stream
         \/ /\ c # SubscribeCommand
            /\ DOMAIN stream' = 1 .. l + 1 /\ stream'[l + 1] = m
            /\ \A i \in 1 .. l : stream'[i] = stream[i]
  <2>1. IsSequence(stream) /\ l \in Nat /\ DOMAIN stream = 1 .. l
    BY <1>2, SequenceDomain DEF Shape
  <2>2. CASE c = SubscribeCommand
    BY <1>6, <2>1, <2>2
  <2>3. CASE c # SubscribeCommand
    <3>1. stream' = Append(stream, m)
      BY <1>6, <2>3
    <3>2. /\ IsSequence(stream') /\ DOMAIN stream' = 1 .. l + 1 /\ stream'[l + 1] = m
          /\ \A i \in 1 .. l : stream'[i] = stream[i]
      BY <2>1, <3>1, Appended
    <3> QED BY <2>1, <2>3, <3>2
  <2> QED BY <2>2, <2>3
<1> HIDE DEF l
<1>8. /\ \A i \in DOMAIN stream' :
           \/ i \in DOMAIN stream /\ stream'[i] = stream[i]
           \/ i = l + 1 /\ stream'[i] = m
      /\ \A i \in DOMAIN stream : i \in DOMAIN stream' /\ stream'[i] = stream[i]
  BY <1>7
<1>9. m.type = "reply" /\ m.revision = Revision /\ m.of = c /\ TrueReply(m)
  BY <1>5, RevisionFacts DEF TrueReply
<1>10. PICK r \in Nat : r = Revision /\ Revision' = r
  BY <1>1, RevisionFacts DEF Revision
<1>11. Shape' /\ Copy'
  BY <1>1, <1>2, <1>4, <1>7 DEF Shape, Copy, Revision, ContentsAt
<1>12. Messages'
  <2>1. ASSUME NEW i \in DOMAIN stream'
        PROVE  \/ \E j \in DOMAIN stream : stream'[i] = stream[j]
               \/ (stream[i].type = "reply" /\ TrueReply(stream[i]))'
    <3>1. TrueReply(m)'
      BY <1>1, <1>9, SameHistory
    <3>2. CASE stream'[i] = m
      BY <1>9, <3>1, <3>2 DEF TrueReply
    <3> QED BY <1>8, <3>2
  <2> QED BY <1>1, <2>1, MessagesMove
<1>13. InOrder'
  <2>1. \A i \in DOMAIN stream' : stream'[i].type = "publish" =>
          i \in DOMAIN stream /\ stream'[i] = stream[i]
    BY <1>8, <1>9
  <2>2. NoMessage' = NoMessage
    BY DEF NoMessage, Empty
  <2> QED BY <1>1, <1>2, <1>10, <2>1, <2>2 DEF InOrder
<1>14. c \in 0 .. asked
  BY <1>2, <1>3, <1>4, <1>5 DEF Ids
<1>15. Ids'
  <2>1. \A i \in DOMAIN commands' : commands'[i] \in 0 .. asked
    BY <1>2, <1>3, <1>4 DEF Ids
  <2> QED BY <1>1, <1>2, <1>8, <1>9, <1>14, <2>1 DEF Ids
<1>16. Told'
  <2>1. ASSUME ~subscribed', NEW i \in DOMAIN commands, commands[i] = SubscribeCommand
        PROVE  \E j \in DOMAIN commands' : commands'[j] = SubscribeCommand
    <3>1. i # 1
      BY <1>5, <1>6, <2>1
    <3>2. i - 1 \in 1 .. n - 1 /\ (i - 1) + 1 = i
      BY <1>3, <1>4, <3>1
    <3> QED BY <1>4, <2>1, <3>2
  <2>2. subscribed => subscribed'
    BY <1>6
  <2> QED BY <1>1, <1>2, <2>1, <2>2 DEF Told
<1>17. \A k \in Nat : Coming(k) => Coming(k)'
  <2>1. NoMessage' = NoMessage
    BY DEF NoMessage, Empty
  <2> QED BY <1>1, <1>8, <1>10, <2>1 DEF Coming
<1>18. ASSUME NEW k, k.revision \in Nat, Current(k) PROVE Current(k)'
  BY <1>1, <1>6, <1>17, <1>18 DEF Current
<1>19. ASSUME establishing = {}, ~aheadOfSubscribe, ~regressed PROVE Whereabouts'
  <2>1. Whereabouts
    BY <1>19 DEF PersistentInv, CurrentInv
  <2>2. ASSUME futureReply.of = asked, futureReply.type = "pending"
        PROVE  \/ \E i \in DOMAIN commands' : commands'[i] = asked
               \/ \E i \in DOMAIN stream' : stream'[i].type = "reply" /\ stream'[i].of = asked
               \/ \E i \in DOMAIN executorQueue' : executorQueue'[i].of = asked
    <3>1. ASSUME NEW i \in DOMAIN commands, commands[i] = asked
          PROVE  \/ \E j \in DOMAIN commands' : commands'[j] = asked
                 \/ \E j \in DOMAIN stream' : stream'[j].type = "reply" /\ stream'[j].of = asked
      <4>1. CASE i = 1
        <5>1. c = asked /\ c # SubscribeCommand
          BY <1>5, <3>1, <4>1, RevisionFacts DEF SubscribeCommand
        <5>2. l + 1 \in DOMAIN stream' /\ stream'[l + 1] = m
          BY <1>7, <5>1
        <5> QED BY <1>9, <5>1, <5>2
      <4>2. CASE i # 1
        <5>1. i - 1 \in 1 .. n - 1 /\ (i - 1) + 1 = i
          BY <1>3, <1>4, <4>2
        <5> QED BY <1>4, <3>1, <5>1
      <4> QED BY <4>1, <4>2
    <3> QED BY <1>1, <1>8, <2>1, <2>2, <3>1 DEF Whereabouts
  <2>3. ASSUME NEW i \in DOMAIN commands', commands'[i] = asked, ~subscribed'
        PROVE  \E j \in 1 .. i - 1 : commands'[j] = SubscribeCommand
    <3>1. i + 1 \in DOMAIN commands /\ commands[i + 1] = asked /\ i \in 1 .. n - 1
      BY <1>3, <1>4, <2>3
    <3>2. ~subscribed
      BY <1>6, <2>3
    <3>3. PICK j \in 1 .. (i + 1) - 1 : commands[j] = SubscribeCommand
      BY <2>1, <3>1, <3>2 DEF Whereabouts
    <3>4. j # 1
      BY <1>5, <1>6, <2>3, <3>3
    <3>5. j - 1 \in 1 .. i - 1 /\ j - 1 \in 1 .. n - 1 /\ (j - 1) + 1 = j
      BY <1>3, <3>1, <3>4
    <3> QED BY <1>4, <3>3, <3>5
  <2>4. ASSUME NEW i \in DOMAIN stream', stream'[i].type = "reply", stream'[i].of = asked
        PROVE  (\E j \in DOMAIN stream : stream'[i] = stream[j]) \/ Current(stream[i])'
    <3>1. CASE stream'[i] = m /\ i = l + 1
      <4>1. c = asked
        BY <1>9, <2>4, <3>1
      <4>2. subscribed
        <5>1. 1 \in DOMAIN commands /\ commands[1] = asked
          BY <1>3, <1>4, <1>5, <4>1
        <5> QED BY <2>1, <5>1 DEF Whereabouts
      <4>3. Coming(r)'
        BY <1>10 DEF Coming
      <4>4. subscribed' /\ stream'[i].revision = r
        BY <1>6, <1>9, <1>10, <3>1, <4>2
      <4> QED BY <4>3, <4>4 DEF Current, Coming
    <3> QED BY <1>8, <3>1
  <2>5. futureReply.of = 0 => subscribed' /\ Coming(currentVersion)'
    <3>1. futureReply.of = 0 => subscribed /\ Coming(currentVersion)
      BY <2>1 DEF Whereabouts
    <3>2. PICK v \in Nat : v = currentVersion
      BY RevisionFacts
    <3>3. Coming(v) => Coming(v)'
      BY <1>17
    <3>4. Coming(currentVersion) => Coming(currentVersion)'
      BY <1>1, <3>2, <3>3 DEF Coming
    <3>5. subscribed => subscribed'
      BY <1>6
    <3> QED BY <3>1, <3>4, <3>5
  <2> QED BY <1>1, <1>18, <2>1, <2>2, <2>3, <2>4, <2>5, WhereaboutsMove
<1> QED BY <1>1, <1>11, <1>12, <1>13, <1>15, <1>16, <1>19
        DEF PersistentInv, ContentsInv, CurrentInv

-----------------------------------------------------------------------------
(* checkFuture()                                                             *)

LEMMA CheckCases ==
  ASSUME PersistentInv, CheckFuture
  PROVE  /\ UNCHANGED subscriberFed
         /\ \/ UNCHANGED <<futureReply, contents, currentVersion, regressed>>
            \/ /\ futureReply' = NotReady /\ futureReply.type = "null"
               /\ futureReply.of = asked /\ futureReply.of # 0
               /\ UNCHANGED <<contents, currentVersion, regressed>>
            \/ /\ futureReply' = NotReady /\ futureReply.type = "reply"
               /\ futureReply.of = asked /\ futureReply.of # 0
               /\ TrueReply(futureReply)
               /\ currentVersion' = futureReply.revision
               /\ contents' = futureReply.contents
               /\ regressed' = (regressed \/ futureReply.revision < currentVersion)
<1>1. /\ futureReply.of = 0 \/ futureReply.of = asked
      /\ futureReply.type \in {"pending", "null", "reply"}
      /\ futureReply.type = "reply" => TrueReply(futureReply)
  BY DEF PersistentInv, ContentsInv, CurrentInv, Ids, Messages
<1>2. CASE futureReply.type = "pending" \/ futureReply.of = 0
  BY <1>2 DEF CheckFuture, hashVars
<1>3. CASE ~(futureReply.type = "pending" \/ futureReply.of = 0)
  BY <1>1, <1>3 DEF CheckFuture, hashVars, Resilver
<1> QED BY <1>2, <1>3

LEMMA CheckedCopy ==
  ASSUME PersistentInv, CheckFuture, UNCHANGED history PROVE Copy'
<1>1. Copy
  BY DEF PersistentInv, ContentsInv
<1>2. CASE UNCHANGED <<contents, currentVersion>>
  BY <1>1, <1>2 DEF Copy, Revision, ContentsAt
<1>3. CASE /\ TrueReply(futureReply)
           /\ currentVersion' = futureReply.revision /\ contents' = futureReply.contents
  BY <1>1, <1>3 DEF Copy, TrueReply, Revision, ContentsAt
<1> QED BY <1>2, <1>3, CheckCases

LEMMA CheckedCurrent ==
  ASSUME PersistentInv, Whereabouts, CheckFuture, UNCHANGED <<history, subscribed>>,
         ~regressed', \A k \in Nat : Coming(k) => Coming(k)'
  PROVE  /\ \A k : (k.revision \in Nat /\ Current(k)) => Current(k)'
         /\ futureReply'.of = 0 => subscribed' /\ Coming(currentVersion)'
<1>1. CASE UNCHANGED <<futureReply, currentVersion>>
  <2>1. futureReply.of = 0 => subscribed /\ Coming(currentVersion)
    BY DEF Whereabouts
  <2>2. UNCHANGED <<subscribed, currentVersion>>
    BY <1>1
  <2>3. /\ \A k : (k.revision \in Nat /\ Current(k)) => Current(k)'
        /\ Coming(currentVersion) => Coming(currentVersion)'
    BY <2>2, CurrentStays
  <2> QED BY <1>1, <2>1, <2>3
<1>2. ASSUME futureReply.of = asked, futureReply.type = "null" PROVE FALSE
  BY <1>2 DEF Whereabouts
<1>3. ASSUME futureReply.of = asked, futureReply.type = "reply",
             currentVersion' = futureReply.revision,
             regressed' = (regressed \/ futureReply.revision < currentVersion)
      PROVE  /\ \A k : (k.revision \in Nat /\ Current(k)) => Current(k)'
             /\ futureReply'.of = 0 => subscribed' /\ Coming(currentVersion)'
  <2>1. Current(futureReply) /\ futureReply.revision \in Nat
    BY <1>3, CountingReplies
  <2>2. PICK v \in Nat : v = futureReply.revision /\ ~(v < currentVersion)
    BY <1>3, <2>1
  <2>3. currentVersion <= v /\ Revision \in Nat
    BY <2>2, RevisionFacts
  <2>4. subscribed /\ Coming(v)
    BY <2>1, <2>2, <2>3 DEF Current
  <2>5. ASSUME NEW k, k.revision \in Nat, Current(k) PROVE Current(k)'
    <3>1. ASSUME v <= k.revision PROVE Coming(k.revision)
      BY <2>3, <2>4, <2>5, <3>1, ComingMonotonic
    <3>2. ASSUME v <= k.revision PROVE Coming(k.revision)'
      BY <2>5, <3>1, <3>2
    <3>3. currentVersion' = v
      BY <1>3, <2>2
    <3> QED BY <2>4, <3>2, <3>3 DEF Current
  <2>6. Coming(currentVersion)'
    <3>1. Coming(v)' /\ currentVersion' = v
      BY <1>3, <2>2, <2>4
    <3> QED BY <3>1 DEF Coming
  <2> QED BY <2>4, <2>5, <2>6
<1> QED BY <1>1, <1>2, <1>3, CheckCases

LEMMA NeverUnregressed ==
  ASSUME PersistentInv, CheckFuture, ~regressed' PROVE ~regressed
  BY CheckCases

LEMMA GetKeeps ==
  ASSUME PersistentInv, Get PROVE PersistentInv'
<1>1. /\ CheckFuture
      /\ UNCHANGED <<history, subscribed, commands, stream, arrived, executorQueue, asked,
                     establishing, aheadOfSubscribe>>
  BY DEF Get, serverVars, loopVars
<1>2. UNCHANGED subscriberFed /\ (futureReply' = futureReply \/ futureReply' = NotReady)
  BY <1>1, CheckCases
<1>3. /\ Shape /\ InOrder /\ Ids /\ Told
  BY DEF PersistentInv, ContentsInv, CurrentInv
<1>4. Shape' /\ Told' /\ Ids'
  BY <1>1, <1>2, <1>3 DEF Shape, Told, Ids, NotReady
<1>5. InOrder'
  BY <1>1, <1>2, <1>3 DEF InOrder, Revision, NoMessage, Empty
<1>6. Messages'
  <2>1. futureReply' = futureReply \/ futureReply'.type = "pending"
    BY <1>2 DEF NotReady
  <2> QED BY <1>1, <2>1, MessagesMove
<1>7. ASSUME establishing = {}, ~aheadOfSubscribe, ~regressed' PROVE Whereabouts'
  <2>1. Whereabouts
    BY <1>1, <1>7, NeverUnregressed DEF PersistentInv, CurrentInv
  <2>2. \A k \in Nat : Coming(k) => Coming(k)'
    BY <1>1 DEF Coming, Revision, NoMessage, Empty
  <2>3. /\ \A k : (k.revision \in Nat /\ Current(k)) => Current(k)'
        /\ futureReply'.of = 0 => subscribed' /\ Coming(currentVersion)'
    BY <1>1, <1>7, <2>1, <2>2, CheckedCurrent
  <2>4. futureReply' = futureReply \/ futureReply'.of = 0
    BY <1>2 DEF NotReady
  <2>5. asked # 0
    BY RevisionFacts
  <2>6. (futureReply'.of = asked /\ futureReply'.type = "pending") =>
          \/ \E i \in DOMAIN commands' : commands'[i] = asked
          \/ \E i \in DOMAIN stream' : stream'[i].type = "reply" /\ stream'[i].of = asked
          \/ \E i \in DOMAIN executorQueue' : executorQueue'[i].of = asked
    BY <1>1, <2>1, <2>4, <2>5 DEF Whereabouts
  <2>7. \A i \in DOMAIN commands' : commands'[i] = asked =>
          subscribed' \/ \E j \in 1 .. i - 1 : commands'[j] = SubscribeCommand
    BY <1>1, <2>1 DEF Whereabouts
  <2> QED BY <1>1, <2>1, <2>3, <2>4, <2>6, <2>7, WhereaboutsMove
<1> QED BY <1>1, <1>4, <1>5, <1>6, <1>7, CheckedCopy
        DEF PersistentInv, ContentsInv, CurrentInv

-----------------------------------------------------------------------------
(* The event loop and the executor                                           *)

LEMMA ArrivesKeeps ==
  ASSUME PersistentInv, Arrives PROVE PersistentInv'
<1>1. /\ stream # <<>> /\ arrived = NoMessage /\ establishing = {}
      /\ stream' = Tail(stream)
      /\ UNCHANGED <<history, subscribed, commands, establishing, aheadOfSubscribe, asked>>
  BY DEF Arrives
<1>2. /\ Shape /\ Copy /\ Messages /\ InOrder /\ Ids /\ Told
  BY DEF PersistentInv, ContentsInv, CurrentInv
<1>3. PICK n \in Nat : n = Len(stream) /\ n # 0
  BY <1>1, <1>2, Rest DEF Shape
<1>4. /\ IsSequence(stream') /\ DOMAIN stream = 1 .. n /\ DOMAIN stream' = 1 .. n - 1
      /\ Head(stream) = stream[1]
      /\ \A i \in 1 .. n - 1 : stream'[i] = stream[i + 1]
  BY <1>1, <1>2, <1>3, Rest DEF Shape
<1>5. PICK m : m = stream[1]
  OBVIOUS
<1>6. \/ /\ m.type = "reply" /\ executorQueue' = Append(executorQueue, m)
         /\ UNCHANGED <<arrived, futureReply, contents, currentVersion, subscriberFed,
                        regressed>>
      \/ /\ m.type # "reply" /\ arrived' = m /\ CheckFuture /\ UNCHANGED executorQueue
  BY <1>4, <1>5 DEF Arrives, hashVars
<1>7. \A i \in 1 .. n - 1 : i + 1 \in DOMAIN stream /\ stream'[i] = stream[i + 1]
  BY <1>3, <1>4
<1>8. \A i \in DOMAIN stream' : \E j \in DOMAIN stream : stream'[i] = stream[j] /\ j = i + 1
  BY <1>4, <1>7
<1>9. \A j \in DOMAIN stream : stream[j] = m \/ \E i \in DOMAIN stream' : stream'[i] = stream[j]
  <2> TAKE j \in DOMAIN stream
  <2>1. CASE j = 1
    BY <1>5, <2>1
  <2>2. CASE j # 1
    <3>1. j - 1 \in 1 .. n - 1 /\ (j - 1) + 1 = j
      BY <1>3, <1>4, <2>2
    <3> QED BY <1>4, <3>1
  <2> QED BY <2>1, <2>2
<1>10. 1 \in DOMAIN stream /\ m.type \in {"publish", "reply"}
       /\ (m.type = "publish" => m # NoMessage)
  BY <1>3, <1>4, <1>5, RevisionFacts DEF NoMessage
<1>11. /\ IsSequence(executorQueue')
       /\ \A i \in DOMAIN executorQueue' :
            \/ \E j \in DOMAIN executorQueue : executorQueue'[i] = executorQueue[j]
            \/ m.type = "reply" /\ executorQueue'[i] = m
       /\ \A j \in DOMAIN executorQueue : \E i \in DOMAIN executorQueue' :
            executorQueue'[i] = executorQueue[j]
       /\ m.type = "reply" => \E i \in DOMAIN executorQueue' : executorQueue'[i] = m
  <2>1. IsSequence(executorQueue)
    BY <1>2 DEF Shape
  <2>2. CASE executorQueue' = executorQueue /\ m.type # "reply"
    BY <2>1, <2>2
  <2>3. CASE executorQueue' = Append(executorQueue, m) /\ m.type = "reply"
    <3>1. PICK l \in Nat : l = Len(executorQueue)
      BY <2>1, Appended
    <3>2. /\ IsSequence(executorQueue') /\ DOMAIN executorQueue = 1 .. l
          /\ DOMAIN executorQueue' = 1 .. l + 1 /\ executorQueue'[l + 1] = m
          /\ \A i \in 1 .. l : executorQueue'[i] = executorQueue[i]
      BY <2>1, <2>3, <3>1, Appended
    <3> QED BY <2>3, <3>2
  <2> QED BY <1>6, <2>2, <2>3
<1>12. UNCHANGED subscriberFed /\ (futureReply' = futureReply \/ futureReply' = NotReady)
  BY <1>6, CheckCases
<1>13. Shape'
  BY <1>1, <1>2, <1>4, <1>11, <1>12 DEF Shape
<1>14. Copy'
  BY <1>1, <1>2, <1>6, CheckedCopy DEF Copy, Revision, ContentsAt
<1>15. Messages'
  <2>1. \/ arrived' = NoMessage
        \/ \E j \in DOMAIN stream : stream[j].type = "publish" /\ arrived' = stream[j]
    BY <1>1, <1>5, <1>6, <1>10
  <2>2. futureReply' = futureReply \/ futureReply'.type = "pending"
    BY <1>12 DEF NotReady
  <2>3. \A i \in DOMAIN executorQueue' :
          \/ \E j \in DOMAIN executorQueue : executorQueue'[i] = executorQueue[j]
          \/ \E j \in DOMAIN stream : stream[j].type = "reply" /\ executorQueue'[i] = stream[j]
    BY <1>5, <1>10, <1>11
  <2> QED BY <1>1, <1>8, <2>1, <2>2, <2>3, MessagesMove
<1>16. NoMessage' = NoMessage /\ Revision' = Revision
  BY <1>1 DEF NoMessage, Empty, Revision
<1>17. arrived' # NoMessage => arrived' = m /\ m.type = "publish"
  BY <1>1, <1>6, <1>10
<1>18. InOrder'
  <2>1. ASSUME NEW i \in DOMAIN stream', NEW j \in DOMAIN stream', i < j,
               stream'[i].type = "publish", stream'[j].type = "publish"
        PROVE  stream'[i].revision < stream'[j].revision
    <3>1. /\ i + 1 \in DOMAIN stream /\ stream'[i] = stream[i + 1]
          /\ j + 1 \in DOMAIN stream /\ stream'[j] = stream[j + 1]
          /\ i + 1 < j + 1
      BY <1>3, <1>4, <1>7, <2>1
    <3> QED BY <1>2, <2>1, <3>1 DEF InOrder
  <2>2. ASSUME NEW i \in DOMAIN stream', stream'[i].type = "publish"
        PROVE  /\ arrived' # NoMessage => arrived'.revision < stream'[i].revision
               /\ \A k \in DOMAIN subscriberFed : subscriberFed[k] < stream'[i].revision
    <3>1. i + 1 \in DOMAIN stream /\ stream'[i] = stream[i + 1] /\ 1 < i + 1
      BY <1>3, <1>4, <1>7, <2>2
    <3>2. \A k \in DOMAIN subscriberFed : subscriberFed[k] < stream'[i].revision
      BY <1>2, <2>2, <3>1 DEF InOrder
    <3>3. m.type = "publish" => m.revision < stream'[i].revision
      BY <1>2, <1>5, <1>10, <2>2, <3>1 DEF InOrder
    <3> QED BY <1>17, <3>2, <3>3
  <2>3. arrived' # NoMessage => \A k \in DOMAIN subscriberFed : subscriberFed[k] < arrived'.revision
    BY <1>2, <1>5, <1>10, <1>17 DEF InOrder
  <2> QED BY <1>2, <1>12, <1>16, <2>1, <2>2, <2>3 DEF InOrder
<1>19. Ids' /\ Told'
  <2>1. \A i \in DOMAIN stream' : stream'[i].type = "reply" => stream'[i].of \in 0 .. asked
    BY <1>2, <1>8 DEF Ids
  <2>2. m.type = "reply" => m.of \in Int /\ m.of <= asked
    BY <1>2, <1>5, <1>10, RevisionFacts DEF Ids
  <2>3. \A i \in DOMAIN executorQueue' :
          executorQueue'[i].of \in Int /\ executorQueue'[i].of <= asked
    BY <1>2, <1>11, <2>2 DEF Ids
  <2>4. futureReply'.of = 0 \/ futureReply'.of = asked
    BY <1>2, <1>12 DEF Ids, NotReady
  <2> QED BY <1>1, <1>2, <2>1, <2>3, <2>4 DEF Ids, Told
<1>20. ASSUME NEW k \in Nat, Coming(k) PROVE Coming(k)'
  <2> SUFFICES ASSUME NEW r \in k + 1 .. Revision
               PROVE  \/ arrived' # NoMessage /\ arrived'.revision = r
                      \/ \E i \in DOMAIN stream' : /\ stream'[i].type = "publish"
                                                   /\ stream'[i].revision = r
    BY <1>16 DEF Coming
  <2>1. PICK j \in DOMAIN stream : stream[j].type = "publish" /\ stream[j].revision = r
    BY <1>1, <1>20 DEF Coming
  <2>2. CASE stream[j] = m
    BY <1>6, <1>10, <2>1, <2>2
  <2> QED BY <1>9, <2>1, <2>2
<1>21. ASSUME ~aheadOfSubscribe, ~regressed' PROVE Whereabouts'
  <2>1. ~regressed
    BY <1>6, <1>21, NeverUnregressed
  <2>2. Whereabouts
    BY <1>1, <1>21, <2>1 DEF PersistentInv, CurrentInv
  <2>3. /\ \A k : (k.revision \in Nat /\ Current(k)) => Current(k)'
        /\ futureReply'.of = 0 => subscribed' /\ Coming(currentVersion)'
    <3>1. CASE CheckFuture
      BY <1>1, <1>20, <1>21, <2>2, <3>1, CheckedCurrent
    <3>2. CASE UNCHANGED <<futureReply, currentVersion>>
      <4>1. UNCHANGED <<subscribed, currentVersion>>
        BY <1>1, <3>2
      <4>2. /\ \A k : (k.revision \in Nat /\ Current(k)) => Current(k)'
            /\ Coming(currentVersion) => Coming(currentVersion)'
        BY <1>20, <4>1, CurrentStays
      <4>3. futureReply.of = 0 => subscribed /\ Coming(currentVersion)
        BY <2>2 DEF Whereabouts
      <4> QED BY <3>2, <4>1, <4>2, <4>3
    <3> QED BY <1>6, <3>1, <3>2
  <2>4. futureReply' = futureReply \/ futureReply'.of = 0
    BY <1>12 DEF NotReady
  <2>5. asked # 0
    BY RevisionFacts
  <2>6. (futureReply'.of = asked /\ futureReply'.type = "pending") =>
          \/ \E i \in DOMAIN commands' : commands'[i] = asked
          \/ \E i \in DOMAIN stream' : stream'[i].type = "reply" /\ stream'[i].of = asked
          \/ \E i \in DOMAIN executorQueue' : executorQueue'[i].of = asked
    <3> SUFFICES ASSUME futureReply'.of = asked, futureReply'.type = "pending"
                 PROVE  \/ \E i \in DOMAIN commands' : commands'[i] = asked
                        \/ \E i \in DOMAIN stream' : /\ stream'[i].type = "reply"
                                                     /\ stream'[i].of = asked
                        \/ \E i \in DOMAIN executorQueue' : executorQueue'[i].of = asked
      OBVIOUS
    <3>1. \/ \E i \in DOMAIN commands : commands[i] = asked
          \/ \E i \in DOMAIN stream : stream[i].type = "reply" /\ stream[i].of = asked
          \/ \E i \in DOMAIN executorQueue : executorQueue[i].of = asked
      BY <2>2, <2>4, <2>5 DEF Whereabouts
    <3>2. ASSUME NEW j \in DOMAIN stream, stream[j].type = "reply", stream[j].of = asked
          PROVE  \/ \E i \in DOMAIN stream' : stream'[i].type = "reply" /\ stream'[i].of = asked
                 \/ \E i \in DOMAIN executorQueue' : executorQueue'[i].of = asked
      BY <1>9, <1>11, <3>2
    <3> QED BY <1>1, <1>11, <3>1, <3>2
  <2>7. \A i \in DOMAIN commands' : commands'[i] = asked =>
          subscribed' \/ \E j \in 1 .. i - 1 : commands'[j] = SubscribeCommand
    BY <1>1, <2>2 DEF Whereabouts
  <2>8. \A i \in DOMAIN executorQueue' :
          \/ \E j \in DOMAIN executorQueue : executorQueue'[i] = executorQueue[j]
          \/ \E j \in DOMAIN stream : stream[j].type = "reply" /\ executorQueue'[i] = stream[j]
    BY <1>5, <1>10, <1>11
  <2> QED BY <1>1, <1>8, <2>2, <2>3, <2>4, <2>6, <2>7, <2>8, WhereaboutsMove
<1> QED BY <1>1, <1>13, <1>14, <1>15, <1>18, <1>19, <1>21
        DEF PersistentInv, ContentsInv, CurrentInv


LEMMA ExecutorKeeps ==
  ASSUME PersistentInv, ExecutorDelivers PROVE PersistentInv'
<1>1. /\ executorQueue # <<>> /\ executorQueue' = Tail(executorQueue)
      /\ UNCHANGED <<history, subscribed, commands, stream, establishing, aheadOfSubscribe,
                     arrived, asked, contents, currentVersion, subscriberFed, regressed>>
  BY DEF ExecutorDelivers, serverVars, hashVars
<1>2. /\ Shape /\ Copy /\ Messages /\ InOrder /\ Ids /\ Told
  BY DEF PersistentInv, ContentsInv, CurrentInv
<1>3. PICK n \in Nat : n = Len(executorQueue) /\ n # 0
  BY <1>1, <1>2, Rest DEF Shape
<1>4. /\ IsSequence(executorQueue') /\ DOMAIN executorQueue = 1 .. n
      /\ DOMAIN executorQueue' = 1 .. n - 1 /\ Head(executorQueue) = executorQueue[1]
      /\ \A i \in 1 .. n - 1 : executorQueue'[i] = executorQueue[i + 1]
  BY <1>1, <1>2, <1>3, Rest DEF Shape
<1>5. PICK h : h = executorQueue[1]
  OBVIOUS
<1>6. \/ futureReply' = h /\ h.of = futureReply.of
      \/ futureReply' = futureReply /\ h.of # futureReply.of
  BY <1>4, <1>5 DEF ExecutorDelivers
<1>7. 1 \in DOMAIN executorQueue /\ h.type \in {"null", "reply"}
  <2>1. 1 \in DOMAIN executorQueue
    BY <1>3, <1>4
  <2> QED BY <1>2, <1>5, <2>1 DEF Messages
<1>8. /\ \A i \in DOMAIN executorQueue' : \E j \in DOMAIN executorQueue :
           executorQueue'[i] = executorQueue[j]
      /\ \A j \in DOMAIN executorQueue :
           executorQueue[j] = h
           \/ \E i \in DOMAIN executorQueue' : executorQueue'[i] = executorQueue[j]
  <2>1. ASSUME NEW i \in DOMAIN executorQueue'
        PROVE  \E j \in DOMAIN executorQueue : executorQueue'[i] = executorQueue[j]
    <3>1. i \in 1 .. n - 1 /\ i + 1 \in 1 .. n
      BY <1>3, <1>4, <2>1
    <3> QED BY <1>4, <3>1
  <2>2. ASSUME NEW j \in DOMAIN executorQueue
        PROVE  \/ executorQueue[j] = h
               \/ \E i \in DOMAIN executorQueue' : executorQueue'[i] = executorQueue[j]
    <3>1. CASE j = 1
      BY <1>5, <3>1
    <3>2. CASE j # 1
      <4>1. j - 1 \in 1 .. n - 1 /\ (j - 1) + 1 = j
        BY <1>3, <1>4, <3>2
      <4> QED BY <1>4, <4>1
    <3> QED BY <3>1, <3>2
  <2> QED BY <2>1, <2>2
<1>9. Shape' /\ Copy' /\ InOrder' /\ Told'
  BY <1>1, <1>2, <1>4
     DEF Shape, Copy, InOrder, Told, Revision, ContentsAt, NoMessage, Empty
<1>10. Messages'
  <2>1. futureReply' = futureReply \/ \E j \in DOMAIN executorQueue : futureReply' = executorQueue[j]
    BY <1>5, <1>6, <1>7
  <2> QED BY <1>1, <1>8, <2>1, MessagesMove
<1>11. Ids'
  <2>1. \A i \in DOMAIN executorQueue' :
          executorQueue'[i].of \in Int /\ executorQueue'[i].of <= asked
    BY <1>2, <1>8 DEF Ids
  <2>2. futureReply'.of = 0 \/ futureReply'.of = asked
    BY <1>2, <1>6 DEF Ids
  <2> QED BY <1>1, <1>2, <2>1, <2>2 DEF Ids
<1>12. ASSUME establishing = {}, ~aheadOfSubscribe, ~regressed PROVE Whereabouts'
  <2>1. Whereabouts
    BY <1>12 DEF PersistentInv, CurrentInv
  <2>2. \A k \in Nat : Coming(k) => Coming(k)'
    BY <1>1 DEF Coming, Revision, NoMessage, Empty
  <2>3. UNCHANGED <<subscribed, currentVersion>>
    BY <1>1
  <2>4. /\ \A k : (k.revision \in Nat /\ Current(k)) => Current(k)'
        /\ Coming(currentVersion) => Coming(currentVersion)'
    BY <2>2, <2>3, CurrentStays
  <2>5. futureReply'.of = 0 => subscribed' /\ Coming(currentVersion)'
    <3>1. futureReply'.of = futureReply.of
      BY <1>6
    <3>2. futureReply.of = 0 => subscribed /\ Coming(currentVersion)
      BY <2>1 DEF Whereabouts
    <3> QED BY <2>3, <2>4, <3>1, <3>2
  <2>6. (futureReply'.of = asked /\ futureReply'.type = "pending") =>
          \/ \E i \in DOMAIN commands' : commands'[i] = asked
          \/ \E i \in DOMAIN stream' : stream'[i].type = "reply" /\ stream'[i].of = asked
          \/ \E i \in DOMAIN executorQueue' : executorQueue'[i].of = asked
    <3> SUFFICES ASSUME futureReply'.of = asked, futureReply'.type = "pending"
                 PROVE  \/ \E i \in DOMAIN commands' : commands'[i] = asked
                        \/ \E i \in DOMAIN stream' : /\ stream'[i].type = "reply"
                                                     /\ stream'[i].of = asked
                        \/ \E i \in DOMAIN executorQueue' : executorQueue'[i].of = asked
      OBVIOUS
    <3>1. futureReply' = futureReply /\ h.of # asked
      BY <1>6, <1>7
    <3>2. \/ \E i \in DOMAIN commands : commands[i] = asked
          \/ \E i \in DOMAIN stream : stream[i].type = "reply" /\ stream[i].of = asked
          \/ \E i \in DOMAIN executorQueue : executorQueue[i].of = asked
      BY <2>1, <3>1 DEF Whereabouts
    <3>3. ASSUME NEW j \in DOMAIN executorQueue, executorQueue[j].of = asked
          PROVE  \E i \in DOMAIN executorQueue' : executorQueue'[i].of = asked
      BY <1>8, <3>1, <3>3
    <3> QED BY <1>1, <3>2, <3>3
  <2>7. \A i \in DOMAIN commands' : commands'[i] = asked =>
          subscribed' \/ \E j \in 1 .. i - 1 : commands'[j] = SubscribeCommand
    BY <1>1, <2>1 DEF Whereabouts
  <2>8. \/ futureReply' = futureReply
        \/ \E j \in DOMAIN executorQueue : futureReply' = executorQueue[j]
    BY <1>5, <1>6, <1>7
  <2> QED BY <1>1, <1>8, <2>1, <2>4, <2>5, <2>6, <2>7, <2>8, WhereaboutsMove
<1> QED BY <1>1, <1>9, <1>10, <1>11, <1>12 DEF PersistentInv, ContentsInv, CurrentInv

LEMMA NotifySubscriberKeeps ==
  ASSUME PersistentInv, NotifySubscriber PROVE PersistentInv'
<1>1. /\ "subscriber" \in establishing /\ establishing' = establishing \ {"subscriber"}
      /\ commands' = Append(commands, SubscribeCommand)
      /\ UNCHANGED <<history, subscribed, stream, aheadOfSubscribe, arrived, executorQueue,
                     asked, futureReply, contents, currentVersion, subscriberFed, regressed>>
  BY DEF NotifySubscriber, hashVars
<1>2. /\ Shape /\ Copy /\ Messages /\ InOrder /\ Ids /\ Told
  BY DEF PersistentInv, ContentsInv, CurrentInv
<1>3. PICK n \in Nat : n = Len(commands)
  BY <1>2, SequenceDomain DEF Shape
<1>4. /\ IsSequence(commands') /\ DOMAIN commands = 1 .. n /\ DOMAIN commands' = 1 .. n + 1
      /\ commands'[n + 1] = SubscribeCommand /\ \A i \in 1 .. n : commands'[i] = commands[i]
  BY <1>1, <1>2, <1>3, Appended DEF Shape
<1>5. Shape' /\ Copy' /\ InOrder'
  BY <1>1, <1>2, <1>4 DEF Shape, Copy, InOrder, Revision, ContentsAt, NoMessage, Empty
<1>6. Messages'
  <2>1. \A i \in DOMAIN stream' : \E j \in DOMAIN stream : stream'[i] = stream[j]
    BY <1>1
  <2>2. \A i \in DOMAIN executorQueue' : \E j \in DOMAIN executorQueue :
          executorQueue'[i] = executorQueue[j]
    BY <1>1
  <2> QED BY <1>1, <2>1, <2>2, MessagesMove
<1>7. Ids'
  <2>1. \A i \in DOMAIN commands' : commands'[i] \in 0 .. asked
    <3>1. SubscribeCommand \in 0 .. asked
      BY RevisionFacts DEF SubscribeCommand
    <3>2. ASSUME NEW i \in DOMAIN commands' PROVE i = n + 1 \/ i \in 1 .. n
      BY <1>4, <3>2
    <3> QED BY <1>2, <1>4, <3>1, <3>2 DEF Ids
  <2> QED BY <1>1, <1>2, <2>1 DEF Ids
<1>8. Told'
  <2>1. n + 1 \in DOMAIN commands'
    BY <1>4
  <2> QED BY <1>1, <1>4, <2>1 DEF Told
<1>9. establishing' = {} => aheadOfSubscribe'
  <2>1. establishing' = {} => "hash" \notin establishing
    BY <1>1
  <2> QED BY <1>1, <1>2, <2>1 DEF Told
<1> QED BY <1>5, <1>6, <1>7, <1>8, <1>9 DEF PersistentInv, ContentsInv, CurrentInv

\* triggerResilvering(): the new VHGETALL follows the SUBSCRIBE, and only its
\* reply counts from now on.
LEMMA TriggerKeeps ==
  ASSUME PersistentInv, TriggerResilvering, UNCHANGED <<subscribed, stream, executorQueue>>
  PROVE  /\ Ids' /\ IsSequence(commands') /\ asked' \in Nat \ {0}
         /\ futureReply'.type = "pending"
         /\ (\E i \in DOMAIN commands : commands[i] = SubscribeCommand) =>
              \E i \in DOMAIN commands' : commands'[i] = SubscribeCommand
         /\ (subscribed \/ \E i \in DOMAIN commands : commands[i] = SubscribeCommand) =>
              Whereabouts'
<1>1. Ids /\ IsSequence(commands)
  BY DEF PersistentInv, ContentsInv, CurrentInv, Shape
<1>2. PICK a \in Nat : a = asked /\ a # 0
  BY RevisionFacts
<1>3. /\ asked' = a + 1 /\ commands' = Append(commands, a + 1)
      /\ futureReply'.of = a + 1 /\ futureReply'.type = "pending"
  BY <1>2 DEF TriggerResilvering, NotReady
<1>4. PICK n \in Nat : n = Len(commands)
  BY <1>1, SequenceDomain
<1>5. /\ IsSequence(commands') /\ DOMAIN commands = 1 .. n /\ DOMAIN commands' = 1 .. n + 1
      /\ commands'[n + 1] = a + 1 /\ \A i \in 1 .. n : commands'[i] = commands[i]
  BY <1>1, <1>3, <1>4, Appended
<1>6. ASSUME NEW i \in DOMAIN commands'
      PROVE  \/ i = n + 1 /\ commands'[i] = a + 1
             \/ i \in 1 .. n /\ commands'[i] \in 0 .. a
  <2>1. i = n + 1 \/ i \in 1 .. n
    BY <1>5
  <2> QED BY <1>1, <1>2, <1>5, <2>1 DEF Ids
<1>7. /\ \A i \in DOMAIN stream : stream[i].type = "reply" => stream[i].of \in 0 .. a
      /\ \A i \in DOMAIN executorQueue :
           executorQueue[i].of \in Int /\ executorQueue[i].of <= a
  BY <1>1, <1>2 DEF Ids
<1>8. Ids'
  <2>1. \A i \in DOMAIN commands' : commands'[i] \in 0 .. a + 1
    BY <1>6
  <2>2. /\ \A i \in DOMAIN stream : stream[i].type = "reply" => stream[i].of \in 0 .. a + 1
        /\ \A i \in DOMAIN executorQueue :
             executorQueue[i].of \in Int /\ executorQueue[i].of <= a + 1
    BY <1>7
  <2> QED BY <1>3, <2>1, <2>2 DEF Ids
<1>9. ASSUME subscribed \/ \E i \in DOMAIN commands : commands[i] = SubscribeCommand
      PROVE  Whereabouts'
  <2>1. \E i \in DOMAIN commands' : commands'[i] = asked'
    <3>1. n + 1 \in DOMAIN commands'
      BY <1>5
    <3> QED BY <1>3, <1>5, <3>1
  <2>2. \A i \in DOMAIN commands' : commands'[i] = asked' =>
          subscribed' \/ \E j \in 1 .. i - 1 : commands'[j] = SubscribeCommand
    <3> SUFFICES ASSUME NEW i \in DOMAIN commands', commands'[i] = asked', ~subscribed'
                 PROVE  \E j \in 1 .. i - 1 : commands'[j] = SubscribeCommand
      OBVIOUS
    <3>1. i = n + 1
      BY <1>3, <1>6
    <3>2. PICK j \in 1 .. n : commands[j] = SubscribeCommand
      BY <1>5, <1>9
    <3>3. j \in 1 .. i - 1
      BY <3>1
    <3> QED BY <1>5, <3>2, <3>3
  <2>3. \A i \in DOMAIN stream' : stream'[i].type = "reply" => stream'[i].of # asked'
    BY <1>3, <1>7
  <2>4. \A i \in DOMAIN executorQueue' : executorQueue'[i].of # asked'
    BY <1>3, <1>7
  <2>5. futureReply'.of # 0 /\ futureReply'.type = "pending"
    BY <1>3
  <2> QED BY <2>1, <2>2, <2>3, <2>4, <2>5 DEF Whereabouts
<1>10. asked' \in Nat \ {0}
  BY <1>3
<1>11. (\E i \in DOMAIN commands : commands[i] = SubscribeCommand) =>
          \E i \in DOMAIN commands' : commands'[i] = SubscribeCommand
  <2>1. \A i \in 1 .. n : i \in DOMAIN commands'
    BY <1>5
  <2> QED BY <1>5, <2>1
<1> QED BY <1>3, <1>5, <1>8, <1>9, <1>10, <1>11


LEMMA NotifyHashKeeps ==
  ASSUME PersistentInv, NotifyHash PROVE PersistentInv'
<1>1. /\ "hash" \in establishing /\ establishing' = establishing \ {"hash"}
      /\ aheadOfSubscribe' = ("subscriber" \in establishing)
      /\ TriggerResilvering
      /\ UNCHANGED <<history, subscribed, stream, arrived, executorQueue, contents,
                     currentVersion, subscriberFed, regressed>>
  BY DEF NotifyHash, hashVars
<1>2. /\ Shape /\ Copy /\ Messages /\ InOrder /\ Told
  BY DEF PersistentInv, ContentsInv, CurrentInv
<1>3. UNCHANGED <<subscribed, stream, executorQueue>>
  BY <1>1
<1>4. /\ Ids' /\ IsSequence(commands') /\ asked' \in Nat \ {0}
      /\ futureReply'.type = "pending"
      /\ (\E i \in DOMAIN commands : commands[i] = SubscribeCommand) =>
           \E i \in DOMAIN commands' : commands'[i] = SubscribeCommand
      /\ (subscribed \/ \E i \in DOMAIN commands : commands[i] = SubscribeCommand) =>
           Whereabouts'
  BY <1>1, <1>3, TriggerKeeps
<1>5. Shape' /\ Copy' /\ InOrder'
  BY <1>1, <1>2, <1>4 DEF Shape, Copy, InOrder, Revision, ContentsAt, NoMessage, Empty
<1>6. Messages'
  <2>1. \A i \in DOMAIN stream' : \E j \in DOMAIN stream : stream'[i] = stream[j]
    BY <1>1
  <2>2. \A i \in DOMAIN executorQueue' : \E j \in DOMAIN executorQueue :
          executorQueue'[i] = executorQueue[j]
    BY <1>1
  <2> QED BY <1>1, <1>4, <2>1, <2>2, MessagesMove
<1>7. "subscriber" \notin establishing =>
        subscribed \/ \E i \in DOMAIN commands : commands[i] = SubscribeCommand
  BY <1>2 DEF Told
<1>8. Told'
  BY <1>1, <1>4, <1>7 DEF Told
<1>9. establishing' = {} => "subscriber" \notin establishing
  BY <1>1
<1> QED BY <1>4, <1>5, <1>6, <1>7, <1>8, <1>9 DEF PersistentInv, ContentsInv, CurrentInv

\* feedRevision(): a gap, an old publication, or the next one.
LEMMA FeedCases ==
  ASSUME PersistentInv, Processed
  PROVE  /\ arrived # NoMessage /\ arrived' = NoMessage
         /\ UNCHANGED <<history, subscribed, stream, establishing, aheadOfSubscribe,
                        executorQueue, regressed>>
         /\ \/ TriggerResilvering /\ UNCHANGED <<contents, currentVersion, subscriberFed>>
            \/ /\ arrived.revision <= currentVersion
               /\ UNCHANGED <<contents, currentVersion, subscriberFed, asked, futureReply,
                              commands>>
            \/ /\ arrived.revision = currentVersion + 1
               /\ contents' = Apply(contents, arrived.contents)
               /\ currentVersion' = arrived.revision
               /\ subscriberFed' = Append(subscriberFed, arrived.revision)
               /\ UNCHANGED <<asked, futureReply, commands>>
<1>1. PICK r \in Nat, v \in Nat : r = arrived.revision /\ v = currentVersion
  BY RevisionFacts DEF Processed
<1>2. FeedRevision(arrived)
  BY DEF Processed
<1>3. CASE r <= v
  BY <1>1, <1>2, <1>3 DEF Processed, FeedRevision, hashVars
<1>4. CASE r >= v + 2
  <2>1. ~(r <= v)
    BY <1>4
  <2> QED BY <1>1, <1>2, <1>4, <2>1 DEF Processed, FeedRevision, hashVars
<1>5. CASE r = v + 1
  <2>1. ~(r <= v) /\ ~(r >= v + 2)
    BY <1>5
  <2>2. /\ contents' = Apply(contents, arrived.contents)
        /\ currentVersion' = arrived.revision
        /\ subscriberFed' = Append(subscriberFed, arrived.revision)
        /\ UNCHANGED <<regressed, asked, futureReply, commands>>
    BY <1>1, <1>2, <2>1 DEF FeedRevision
  <2> QED BY <1>1, <1>5, <2>2 DEF Processed
<1> QED BY <1>1, <1>3, <1>4, <1>5

LEMMA ProcessedKeepsContents ==
  ASSUME PersistentInv, Processed PROVE ContentsInv'
<1>1. /\ arrived # NoMessage /\ arrived' = NoMessage
      /\ UNCHANGED <<history, stream, executorQueue>>
  BY FeedCases
<1>2. /\ Shape /\ Copy /\ Messages /\ InOrder
  BY DEF PersistentInv, ContentsInv
<1>3. /\ IsSequence(commands') /\ asked' \in Nat \ {0}
      /\ futureReply' = futureReply \/ futureReply'.type = "pending"
  <2>1. CASE TriggerResilvering
    <3>1. UNCHANGED <<subscribed, stream, executorQueue>>
      BY FeedCases
    <3> QED BY <2>1, <3>1, TriggerKeeps
  <2>2. CASE UNCHANGED <<asked, futureReply, commands>>
    BY <1>2, <2>2 DEF Shape
  <2> QED BY <2>1, <2>2, FeedCases
<1>4. Messages'
  <2>1. \A i \in DOMAIN stream' : \E j \in DOMAIN stream : stream'[i] = stream[j]
    BY <1>1
  <2>2. \A i \in DOMAIN executorQueue' : \E j \in DOMAIN executorQueue :
          executorQueue'[i] = executorQueue[j]
    BY <1>1
  <2> QED BY <1>1, <1>3, <2>1, <2>2, MessagesMove
<1>5. NoMessage' = NoMessage /\ Revision' = Revision
  BY <1>1 DEF NoMessage, Empty, Revision
<1>6. CASE UNCHANGED <<contents, currentVersion, subscriberFed>>
  <2>1. Shape'
    BY <1>1, <1>2, <1>3, <1>6 DEF Shape
  <2>2. Copy'
    BY <1>1, <1>2, <1>6 DEF Copy, Revision, ContentsAt
  <2>3. InOrder'
    BY <1>1, <1>2, <1>5, <1>6 DEF InOrder
  <2> QED BY <1>4, <2>1, <2>2, <2>3 DEF ContentsInv
<1>7. CASE /\ arrived.revision = currentVersion + 1
           /\ contents' = Apply(contents, arrived.contents)
           /\ currentVersion' = arrived.revision
           /\ subscriberFed' = Append(subscriberFed, arrived.revision)
  <2>1. PICK r : r = arrived.revision
    OBVIOUS
  <2>2. TrueChange(arrived) /\ r \in 1 .. Revision
    BY <1>1, <2>1, RevisionFacts
  <2>3. PICK n \in Nat : n = Len(subscriberFed)
    BY <1>2, SequenceDomain DEF Shape
  <2>4. /\ IsSequence(subscriberFed') /\ DOMAIN subscriberFed = 1 .. n
        /\ DOMAIN subscriberFed' = 1 .. n + 1 /\ subscriberFed'[n + 1] = r
        /\ \A k \in 1 .. n : subscriberFed'[k] = subscriberFed[k]
    BY <1>2, <1>7, <2>1, <2>3, Appended DEF Shape
  <2>5. Shape'
    BY <1>1, <1>2, <1>3, <2>4 DEF Shape
  <2>6. Copy'
    <3>1. PICK v \in Nat : v = currentVersion /\ r = v + 1 /\ r - 1 = v
      BY <1>7, <2>1, RevisionFacts
    <3>2. ContentsAt(r) = Apply(ContentsAt(r - 1), arrived.contents)
      BY <2>1, <2>2 DEF TrueChange
    <3>3. contents = ContentsAt(v)
      BY <1>2, <3>1 DEF Copy
    <3>4. contents' = ContentsAt(r)
      BY <1>7, <3>1, <3>2, <3>3
    <3>5. currentVersion' = r /\ currentVersion' \in 0 .. Revision'
      BY <1>5, <1>7, <2>1, <2>2, RevisionFacts
    <3>6. contents' = ContentsAt(currentVersion)'
      BY <1>1, <3>4, <3>5 DEF ContentsAt
    <3> QED BY <1>1, <1>2, <3>5, <3>6 DEF Copy
  <2>7. /\ \A k \in DOMAIN subscriberFed : subscriberFed[k] < r
        /\ \A i \in DOMAIN stream : stream[i].type = "publish" => r < stream[i].revision
    BY <1>1, <1>2, <2>1 DEF InOrder
  <2>8. \A k \in DOMAIN subscriberFed' :
          \/ k \in 1 .. n /\ subscriberFed'[k] = subscriberFed[k]
          \/ k = n + 1 /\ subscriberFed'[k] = r
    BY <2>3, <2>4
  <2>9. InOrder'
    <3>1. ASSUME NEW k \in DOMAIN subscriberFed', NEW l \in DOMAIN subscriberFed', k < l
          PROVE  subscriberFed'[k] < subscriberFed'[l]
      <4>1. k \in 1 .. n /\ subscriberFed'[k] = subscriberFed[k]
        BY <2>3, <2>4, <3>1
      <4>2. CASE l = n + 1
        BY <2>4, <2>7, <4>1, <4>2
      <4>3. CASE l \in 1 .. n
        BY <1>2, <2>4, <3>1, <4>1, <4>3 DEF InOrder
      <4> QED BY <2>8, <4>2, <4>3
    <3>2. \A k \in DOMAIN subscriberFed' : subscriberFed'[k] \in 1 .. Revision
      BY <1>2, <2>2, <2>4, <2>8 DEF InOrder
    <3>3. ASSUME NEW i \in DOMAIN stream, stream[i].type = "publish",
                 NEW k \in DOMAIN subscriberFed'
          PROVE  subscriberFed'[k] < stream[i].revision
      BY <1>2, <2>4, <2>7, <2>8, <3>3 DEF InOrder
    <3> QED BY <1>1, <1>2, <1>5, <3>1, <3>2, <3>3 DEF InOrder
  <2> QED BY <1>4, <2>5, <2>6, <2>9 DEF ContentsInv
<1> QED BY <1>6, <1>7, FeedCases

LEMMA ProcessedKeepsCurrent ==
  ASSUME PersistentInv, Processed PROVE CurrentInv'
<1>1. /\ arrived # NoMessage /\ arrived' = NoMessage
      /\ UNCHANGED <<history, subscribed, stream, establishing, aheadOfSubscribe,
                     executorQueue, regressed>>
  BY FeedCases
<1>2. Ids /\ Told
  BY DEF PersistentInv, CurrentInv
<1>3. CASE TriggerResilvering
  <2>1. UNCHANGED <<subscribed, stream, executorQueue>>
    BY <1>1
  <2>2. /\ Ids'
        /\ (\E i \in DOMAIN commands : commands[i] = SubscribeCommand) =>
             \E i \in DOMAIN commands' : commands'[i] = SubscribeCommand
        /\ (subscribed \/ \E i \in DOMAIN commands : commands[i] = SubscribeCommand) =>
             Whereabouts'
    BY <1>3, <2>1, TriggerKeeps
  <2>3. Told'
    BY <1>1, <1>2, <2>2 DEF Told
  <2>4. establishing = {} =>
          subscribed \/ \E i \in DOMAIN commands : commands[i] = SubscribeCommand
    BY <1>2 DEF Told
  <2> QED BY <1>1, <2>2, <2>3, <2>4 DEF CurrentInv
<1>4. ASSUME UNCHANGED <<asked, futureReply, commands>>,
             NEW v \in Nat, v = currentVersion, NEW w \in Nat, w = currentVersion',
             v <= w, arrived.revision <= w
      PROVE  CurrentInv'
  <2>1. Ids' /\ Told'
    BY <1>1, <1>2, <1>4 DEF Ids, Told
  <2>2. PICK n \in Nat : n = Revision /\ Revision' = n
    BY <1>1, RevisionFacts DEF Revision
  <2>3. PICK a \in Nat : a = arrived.revision /\ a <= w
    BY <1>1, <1>4, RevisionFacts
  <2>4. ASSUME NEW k \in Nat, w <= k, Coming(k) PROVE Coming(k)'
    <3> SUFFICES ASSUME NEW r \in k + 1 .. n
                 PROVE  \E i \in DOMAIN stream : /\ stream[i].type = "publish"
                                                 /\ stream[i].revision = r
      BY <1>1, <2>2 DEF Coming
    <3>1. a # r
      BY <2>3, <2>4
    <3> QED BY <2>2, <2>3, <2>4, <3>1 DEF Coming
  <2>5. ASSUME NEW k, k.revision \in Nat, Current(k) PROVE Current(k)'
    <3>1. PICK q \in Nat : q = k.revision
      BY <2>5
    <3>2. subscribed /\ (v <= q => Coming(q))
      BY <1>4, <2>5, <3>1 DEF Current
    <3>3. w <= q => Coming(q)'
      BY <1>4, <2>4, <3>1, <3>2
    <3>4. (w <= q => Coming(k.revision)') /\ subscribed'
      BY <1>1, <3>1, <3>2, <3>3
    <3> QED BY <1>4, <3>1, <3>4 DEF Current
  <2>6. ASSUME establishing = {}, ~aheadOfSubscribe, ~regressed PROVE Whereabouts'
    <3>1. Whereabouts
      BY <2>6 DEF PersistentInv, CurrentInv
    <3>2. futureReply'.of = 0 => subscribed' /\ Coming(currentVersion)'
      <4>1. futureReply.of = 0 => subscribed /\ Coming(v)
        BY <1>4, <3>1 DEF Whereabouts
      <4>2. Coming(v) => Coming(w)
        BY <1>4, <2>2, ComingMonotonic
      <4>3. Coming(w) => Coming(w)'
        BY <1>4, <2>4
      <4>4. Coming(w)' => Coming(currentVersion)'
        BY <1>4 DEF Coming
      <4> QED BY <1>1, <1>4, <4>1, <4>2, <4>3, <4>4
    <3>3. (futureReply'.of = asked /\ futureReply'.type = "pending") =>
            \/ \E i \in DOMAIN commands' : commands'[i] = asked
            \/ \E i \in DOMAIN stream' : stream'[i].type = "reply" /\ stream'[i].of = asked
            \/ \E i \in DOMAIN executorQueue' : executorQueue'[i].of = asked
      BY <1>1, <1>4, <3>1 DEF Whereabouts
    <3>4. \A i \in DOMAIN commands' : commands'[i] = asked =>
            subscribed' \/ \E j \in 1 .. i - 1 : commands'[j] = SubscribeCommand
      BY <1>1, <1>4, <3>1 DEF Whereabouts
    <3>5. \A i \in DOMAIN stream' : \E j \in DOMAIN stream : stream'[i] = stream[j]
      BY <1>1
    <3>6. \A i \in DOMAIN executorQueue' : \E j \in DOMAIN executorQueue :
            executorQueue'[i] = executorQueue[j]
      BY <1>1
    <3> QED BY <1>4, <2>5, <3>1, <3>2, <3>3, <3>4, <3>5, <3>6, WhereaboutsMove
  <2> QED BY <1>1, <2>1, <2>6 DEF CurrentInv
<1>5. PICK v \in Nat, a \in Nat : v = currentVersion /\ a = arrived.revision
  BY <1>1, RevisionFacts
<1>6. CASE arrived.revision <= currentVersion /\ UNCHANGED <<currentVersion, asked, futureReply, commands>>
  BY <1>4, <1>5, <1>6
<1>7. CASE /\ arrived.revision = currentVersion + 1 /\ currentVersion' = arrived.revision
           /\ UNCHANGED <<asked, futureReply, commands>>
  <2>1. v <= a /\ a <= a
    BY <1>5, <1>7
  <2> QED BY <1>4, <1>5, <1>7, <2>1
<1> QED BY <1>3, <1>6, <1>7, FeedCases


-----------------------------------------------------------------------------
(* A new connection                                                          *)

LEMMA CountedParts ==
  ASSUME NEW s, IsSequence(s), NEW T, T \subseteq DOMAIN s PROVE Cardinality(T) \in Nat
<1>1. PICK n \in Nat : DOMAIN s = 1 .. n
  BY SequenceDomain
<1>2. IsFiniteSet(1 .. n)
  BY <1>1, FS_Interval
<1>3. IsFiniteSet(T)
  BY <1>1, <1>2, FS_Subset
<1> QED BY <1>3, FS_CardinalityType

LEMMA ReconnectKeeps ==
  ASSUME PersistentInv, Reconnect PROVE PersistentInv'
<1>1. /\ arrived = NoMessage /\ establishing' = Listeners
      /\ stream' = <<>> /\ commands' = <<>>
      /\ UNCHANGED <<history, arrived, asked, futureReply, contents, currentVersion,
                     subscriberFed, regressed>>
  BY DEF Reconnect, hashVars
<1>2. /\ Shape /\ Copy /\ Messages /\ InOrder /\ Ids
  BY DEF PersistentInv, ContentsInv, CurrentInv
<1>3. PICK q :
        /\ q = Cardinality({i \in DOMAIN stream : stream[i].type = "reply"})
               + Cardinality({i \in DOMAIN commands : commands[i] # SubscribeCommand})
        /\ executorQueue' = executorQueue \o [i \in 1 .. q |-> Null(asked - q + i)]
  BY DEF Reconnect
<1>4. q \in Nat
  <2> DEFINE answers == {i \in DOMAIN stream : stream[i].type = "reply"}
             requests == {i \in DOMAIN commands : commands[i] # SubscribeCommand}
  <2>1. answers \subseteq DOMAIN stream /\ requests \subseteq DOMAIN commands
    OBVIOUS
  <2>2. q = Cardinality(answers) + Cardinality(requests)
    BY <1>3
  <2> HIDE DEF answers, requests
  <2>3. Cardinality(answers) \in Nat /\ Cardinality(requests) \in Nat
    BY <1>2, <2>1, CountedParts DEF Shape
  <2> QED BY <2>2, <2>3
<1>5. PICK a \in Nat : a = asked
  BY RevisionFacts
<1>6. PICK t : t = [i \in 1 .. q |-> Null(a - q + i)]
  OBVIOUS
<1>7. ASSUME NEW i \in 1 .. q
      PROVE  t[i].type = "null" /\ t[i].of \in Int /\ t[i].of <= a
  <2>1. t[i] = Null(a - q + i)
    BY <1>6
  <2>2. PICK d \in Int : d = a - q + i /\ d <= a
    BY <1>4, <1>5
  <2> QED BY <2>1, <2>2 DEF Null
<1>8. PICK l \in Nat : l = Len(executorQueue)
  BY <1>2, SequenceDomain DEF Shape
<1>9. /\ IsSequence(executorQueue') /\ DOMAIN executorQueue = 1 .. l
      /\ DOMAIN executorQueue' = 1 .. l + q
      /\ \A i \in 1 .. l : executorQueue'[i] = executorQueue[i]
      /\ \A i \in l + 1 .. l + q : executorQueue'[i] = t[i - l]
  <2>1. executorQueue' = executorQueue \o t
    BY <1>3, <1>5, <1>6
  <2>2. IsSequence(t) /\ Len(t) = q
    <3> DEFINE S == {Null(a - q + i) : i \in 1 .. q}
    <3>1. t \in [1 .. q -> S]
      BY <1>6
    <3> HIDE DEF S
    <3>2. t \in Seq(S)
      BY <1>4, <3>1, IsASeq
    <3> QED BY <1>4, <3>1, <3>2 DEF IsSequence
  <2>3. IsSequence(executorQueue)
    BY <1>2 DEF Shape
  <2> QED BY <1>8, <2>1, <2>2, <2>3, Joined
<1>10. ASSUME NEW i \in DOMAIN executorQueue'
       PROVE  \/ i \in DOMAIN executorQueue /\ executorQueue'[i] = executorQueue[i]
              \/ /\ executorQueue'[i].type = "null"
                 /\ executorQueue'[i].of \in Int /\ executorQueue'[i].of <= a
  <2>1. CASE i \in 1 .. l
    BY <1>9, <2>1
  <2>2. CASE i \in l + 1 .. l + q
    <3>1. i - l \in 1 .. q
      BY <1>4, <2>2
    <3> QED BY <1>7, <1>9, <2>2, <3>1
  <2> QED BY <1>4, <1>9, <2>1, <2>2
<1>11. DOMAIN stream' = {} /\ DOMAIN commands' = {}
  BY <1>1
<1>12. Shape' /\ Copy'
  BY <1>1, <1>2, <1>9, EmptyIsSequence DEF Shape, Copy, Revision, ContentsAt
<1>13. Messages'
  BY <1>1, <1>10, <1>11, MessagesMove
<1>14. InOrder'
  BY <1>1, <1>2, <1>11 DEF InOrder, Revision, NoMessage, Empty
<1>15. Ids'
  BY <1>1, <1>2, <1>5, <1>10, <1>11 DEF Ids
<1>16. Told' /\ establishing' # {}
  BY <1>1 DEF Told, Listeners
<1> QED BY <1>12, <1>13, <1>14, <1>15, <1>16 DEF PersistentInv, ContentsInv, CurrentInv

-----------------------------------------------------------------------------
(* The theorems                                                              *)

LEMMA StutterKeeps ==
  ASSUME PersistentInv, UNCHANGED phVars PROVE PersistentInv'
<1>1. UNCHANGED <<history, subscribed, commands, stream, epoch, establishing,
                  aheadOfSubscribe, arrived, executorQueue, asked, futureReply, contents,
                  currentVersion, subscriberFed, regressed>>
  BY DEF phVars, serverVars, loopVars, hashVars
<1>2. NoMessage' = NoMessage
  BY DEF NoMessage, Empty
<1>3. ContentsInv'
  BY <1>1, <1>2
     DEF PersistentInv, ContentsInv, Shape, Copy, Messages, InOrder, TrueReply, TrueChange,
         Revision, ContentsAt
<1>4. Ids' /\ Told'
  BY <1>1 DEF PersistentInv, CurrentInv, Ids, Told
<1>5. Whereabouts => Whereabouts'
  BY <1>1, <1>2 DEF Whereabouts, Current, Coming, Revision
<1>6. (establishing = {} /\ ~aheadOfSubscribe /\ ~regressed) => Whereabouts'
  BY <1>5 DEF PersistentInv, CurrentInv
<1> QED BY <1>1, <1>3, <1>4, <1>6 DEF PersistentInv, CurrentInv

LEMMA StepsKeep == PersistentInv /\ [PersistentNext]_phVars => PersistentInv'
<1> SUFFICES ASSUME PersistentInv, [PersistentNext]_phVars PROVE PersistentInv'
  OBVIOUS
<1>1. ASSUME NEW change, Change(change) PROVE PersistentInv'
  BY <1>1, ChangeKeepsContents, ChangeKeepsCurrent DEF PersistentInv
<1>2. CASE ExecuteCommand
  BY <1>2, ExecuteKeeps
<1>3. CASE Get
  BY <1>3, GetKeeps
<1>4. CASE Arrives
  BY <1>4, ArrivesKeeps
<1>5. CASE Processed
  BY <1>5, ProcessedKeepsContents, ProcessedKeepsCurrent DEF PersistentInv
<1>6. CASE NotifySubscriber
  BY <1>6, NotifySubscriberKeeps
<1>7. CASE NotifyHash
  BY <1>7, NotifyHashKeeps
<1>8. CASE ExecutorDelivers
  BY <1>8, ExecutorKeeps
<1>9. CASE Reconnect
  BY <1>9, ReconnectKeeps
<1>10. CASE UNCHANGED phVars
  BY <1>10, StutterKeeps
<1> QED BY <1>1, <1>2, <1>3, <1>4, <1>5, <1>6, <1>7, <1>8, <1>9, <1>10
        DEF PersistentNext, EventLoop

\* The copy, what is on its way to it and what its versions say of the history
\* stay consistent (feedRevision(), checkFuture(), triggerResilvering()).
THEOREM PersistentInvariant == PersistentSpec => []PersistentInv
  BY InitPersistent, StepsKeep, PTL DEF PersistentSpec

LEMMA ContentsFollow == PersistentInv => ContentsMatchVersion
<1> SUFFICES ASSUME PersistentInv PROVE ContentsMatchVersion
  OBVIOUS
<1>1. /\ Copy /\ InOrder
  BY DEF PersistentInv, ContentsInv
<1>2. PICK n \in Nat : n = Len(subscriberFed) /\ DOMAIN subscriberFed = 1 .. n
  BY RevisionFacts
<1>3. ASSUME NEW i \in 2 .. Len(subscriberFed) PROVE subscriberFed[i - 1] < subscriberFed[i]
  <2>1. i \in 1 .. n /\ i - 1 \in 1 .. n /\ i - 1 < i
    BY <1>2, <1>3
  <2> QED BY <1>1, <1>2, <2>1 DEF InOrder
<1>4. currentVersion <= Revision /\ contents = ContentsAt(currentVersion)
  BY <1>1, RevisionFacts DEF Copy
<1> QED BY <1>3, <1>4 DEF ContentsMatchVersion

LEMMA RestFollows == PersistentInv => UpToDateAtRest
<1> SUFFICES ASSUME PersistentInv, AtRest, ~aheadOfSubscribe, ~regressed
             PROVE  currentVersion = Revision
  BY DEF UpToDateAtRest
<1>1. Whereabouts /\ futureReply.of = 0 /\ stream = <<>> /\ arrived = NoMessage
  BY DEF AtRest, PersistentInv, CurrentInv
<1>2. Coming(currentVersion) /\ DOMAIN stream = {}
  BY <1>1 DEF Whereabouts
<1>3. PICK v \in Nat, n \in Nat : v = currentVersion /\ n = Revision /\ v <= n
  BY RevisionFacts
<1>4. ~(v < n)
  <2> SUFFICES ASSUME v < n PROVE FALSE
    OBVIOUS
  <2>1. n \in v + 1 .. n
    BY <1>3
  <2> QED BY <1>1, <1>2, <1>3, <2>1 DEF Coming
<1> QED BY <1>3, <1>4

\* What get() returns is what the server had at the version it returns, however
\* publications, resilverings and reconnections interleave; and revisions reach
\* the subscriber in order (feedRevision(), checkFuture(), resilver()).
THEOREM ContentsAlwaysMatchVersion == PersistentSpec => []ContentsMatchVersion
  BY PersistentInvariant, ContentsFollow, PTL

\* With nothing on its way the copy is the newest, unless a late reply overwrote
\* a newer version or VHGETALL went ahead of SUBSCRIBE: no other gap is left
\* (triggerResilvering(), notifyConnectionEstablished()).
THEOREM UpToDateWhenAtRest == PersistentSpec => []UpToDateAtRest
  BY PersistentInvariant, RestFollows, PTL


-----------------------------------------------------------------------------
(* SharedDeque: the inductive invariant                                      *)

DequeShape == IsSequence(pipeline) /\ IsSequence(toClient)

\* A thread waits for one reply; it is on its way, or will be.
Outstanding(commandsOf, reply) ==
  /\ \A i \in DOMAIN pipeline : pipeline[i] \in commandsOf =>
       /\ \A j \in DOMAIN pipeline : pipeline[j] \in commandsOf => j = i
       /\ \A j \in DOMAIN toClient : toClient[j].type # reply
  /\ \A i, j \in DOMAIN toClient :
       (toClient[i].type = reply /\ toClient[j].type = reply) => i = j

Expected(commandsOf, reply) ==
  \/ \E i \in DOMAIN pipeline : pipeline[i] \in commandsOf
  \/ \E i \in DOMAIN toClient : toClient[i].type = reply

Waiting ==
  /\ Outstanding({"deque-len"}, "size") /\ Outstanding(Commands, "result")
  /\ Expected({"deque-len"}, "size") => asker.pc = "asked"
  /\ Expected(Commands, "result") => modifier.pc = "waiting"
  /\ asker.pc # "idle" => ~mCachedSizeValid

DequeTold ==
  /\ "subscriber" \notin toNotify =>
       listening \/ \E i \in DOMAIN pipeline : pipeline[i] = "SUBSCRIBE"
  /\ ("subscriber" \in toNotify /\ "deque" \notin toNotify) => unannounced

\* A size is the deque's, or something that invalidates it is to come.
Pending ==
  \/ \E i \in DOMAIN pipeline : pipeline[i] = "PUBLISH"
  \/ modifier.pc # "idle" \/ other # "none"
Known(value, from) ==
  /\ listening
  /\ \/ value = length \/ Pending
     \/ \E i \in DOMAIN toClient : i > from /\ toClient[i].type = "message"

Fresh ==
  /\ mCachedSizeValid => Known(mCachedSize, 0)
  /\ \A i \in DOMAIN toClient : toClient[i].type = "size" => Known(toClient[i].value, i)
  /\ (asker.pc = "answered" /\ asker.value # Failed) => Known(asker.value, 0)
  /\ \A i \in DOMAIN pipeline : pipeline[i] = "deque-len" =>
       listening \/ \E j \in 1 .. i - 1 : pipeline[j] = "SUBSCRIBE"

Calm == toNotify = {} /\ ~overtaken /\ ~unannounced

DequeInv == DequeShape /\ Waiting /\ DequeTold /\ (Calm => Fresh)


-----------------------------------------------------------------------------
(* What is on its way moves ahead                                            *)

\* A sequence of which d elements went and to which others than those in C came.
LEMMA OutstandingKept ==
  ASSUME NEW C, NEW t, NEW d \in Nat, NEW e \in Nat, DequeShape, DequeShape',
         Outstanding(C, t),
         \A i \in DOMAIN pipeline' : pipeline'[i] \in C =>
           i + d \in DOMAIN pipeline /\ pipeline[i + d] = pipeline'[i],
         \A i \in DOMAIN toClient' : toClient'[i].type = t =>
           i + e \in DOMAIN toClient /\ toClient[i + e] = toClient'[i]
  PROVE  Outstanding(C, t)' /\ (Expected(C, t)' => Expected(C, t))
<1>1. /\ \A i \in DOMAIN pipeline' : i \in Nat
      /\ \A i \in DOMAIN toClient' : i \in Nat
  <2>1. IsSequence(pipeline)' /\ IsSequence(toClient)'
    BY DEF DequeShape
  <2>2. PICK p, q : p = pipeline' /\ q = toClient'
    OBVIOUS
  <2>3. IsSequence(p) /\ IsSequence(q)
    BY <2>1, <2>2 DEF IsSequence
  <2>4. DOMAIN p = 1 .. Len(p) /\ DOMAIN q = 1 .. Len(q) /\ Len(p) \in Nat /\ Len(q) \in Nat
    BY <2>3, SequenceDomain
  <2> QED BY <2>2, <2>4
<1>2. ASSUME NEW i \in DOMAIN pipeline', pipeline'[i] \in C
      PROVE  /\ \A j \in DOMAIN pipeline' : pipeline'[j] \in C => j = i
             /\ \A j \in DOMAIN toClient' : toClient'[j].type # t
  <2>1. i + d \in DOMAIN pipeline /\ pipeline[i + d] \in C
    BY <1>2
  <2>2. /\ \A j \in DOMAIN pipeline : pipeline[j] \in C => j = i + d
        /\ \A j \in DOMAIN toClient : toClient[j].type # t
    BY <2>1 DEF Outstanding
  <2>3. ASSUME NEW j \in DOMAIN pipeline', pipeline'[j] \in C PROVE j = i
    <3>1. j + d = i + d
      BY <2>2, <2>3
    <3> QED BY <1>1, <3>1
  <2> QED BY <2>2, <2>3
<1>3. ASSUME NEW i \in DOMAIN toClient', NEW j \in DOMAIN toClient',
             toClient'[i].type = t, toClient'[j].type = t
      PROVE  i = j
  <2>1. i + e = j + e
    BY <1>3 DEF Outstanding
  <2> QED BY <1>1, <2>1
<1>4. Expected(C, t)' => Expected(C, t)
  BY DEF Expected
<1> QED BY <1>2, <1>3, <1>4 DEF Outstanding

LEMMA Asks ==
  ASSUME NEW C, NEW t, NEW n,
         \A i \in DOMAIN pipeline' : pipeline'[i] \in C => i = n,
         \A i \in DOMAIN toClient' : toClient'[i].type # t
  PROVE  Outstanding(C, t)'
  BY DEF Outstanding

LEMMA Answers ==
  ASSUME NEW C, NEW t, NEW n,
         \A i \in DOMAIN pipeline' : pipeline'[i] \notin C,
         \A i \in DOMAIN toClient' : toClient'[i].type = t => i = n
  PROVE  Outstanding(C, t)'
  BY DEF Outstanding

LEMMA KnownKept ==
  ASSUME NEW v, NEW from, NEW to, Known(v, from), listening',
         v = length => v = length' \/ Pending',
         Pending =>
           Pending' \/ \E j \in DOMAIN toClient' : j > to /\ toClient'[j].type = "message",
         \A i \in DOMAIN toClient : (i > from /\ toClient[i].type = "message") =>
           \E j \in DOMAIN toClient' : j > to /\ toClient'[j].type = "message"
  PROVE  Known(v, to)'
  BY DEF Known

\* Once invalidated, and with nobody waiting for a size, there is none.
LEMMA Invalidated ==
  ASSUME Waiting', asker' = asker, InvalidateCachedSize PROVE Calm' => Fresh'
<1> SUFFICES ASSUME Calm' PROVE Fresh'
  OBVIOUS
<1>1. ~mCachedSizeValid' /\ asker'.pc = "idle"
  BY DEF InvalidateCachedSize, Calm
<1>2. ~Expected({"deque-len"}, "size")'
  BY <1>1 DEF Waiting
<1>3. /\ \A i \in DOMAIN pipeline' : pipeline'[i] # "deque-len"
      /\ \A i \in DOMAIN toClient' : toClient'[i].type # "size"
  BY <1>2 DEF Expected
<1> QED BY <1>1, <1>3 DEF Fresh

LEMMA DequeFacts ==
  ASSUME DequeInv
  PROVE  /\ Len(pipeline) \in Nat /\ DOMAIN pipeline = 1 .. Len(pipeline)
         /\ Len(toClient) \in Nat /\ DOMAIN toClient = 1 .. Len(toClient)
         /\ asker.pc # "asked" =>
              /\ \A i \in DOMAIN pipeline : pipeline[i] # "deque-len"
              /\ \A i \in DOMAIN toClient : toClient[i].type # "size"
         /\ modifier.pc # "waiting" =>
              /\ \A i \in DOMAIN pipeline : pipeline[i] \notin Commands
              /\ \A i \in DOMAIN toClient : toClient[i].type # "result"
<1>1. Waiting /\ IsSequence(pipeline) /\ IsSequence(toClient)
  BY DEF DequeInv, DequeShape
<1>2. asker.pc # "asked" =>
        /\ \A i \in DOMAIN pipeline : pipeline[i] # "deque-len"
        /\ \A i \in DOMAIN toClient : toClient[i].type # "size"
  BY <1>1 DEF Waiting, Expected
<1>3. modifier.pc # "waiting" =>
        /\ \A i \in DOMAIN pipeline : pipeline[i] \notin Commands
        /\ \A i \in DOMAIN toClient : toClient[i].type # "result"
  BY <1>1 DEF Waiting, Expected
<1> QED BY <1>1, <1>2, <1>3, SequenceDomain

-----------------------------------------------------------------------------
(* The deque's threads                                                       *)

LEMMA InitDeque == DequeInit => DequeInv
<1> SUFFICES ASSUME DequeInit PROVE DequeInv
  OBVIOUS
<1>1. /\ pipeline = <<"SUBSCRIBE">> /\ toClient = <<>> /\ asker = Idle /\ modifier = Idle
      /\ toNotify = {} /\ mCachedSizeValid = FALSE
  BY DEF DequeInit
<1>2. /\ pipeline \in Seq({"SUBSCRIBE"}) /\ DOMAIN pipeline = {1} /\ pipeline[1] = "SUBSCRIBE"
      /\ DOMAIN toClient = {}
  BY <1>1
<1>3. DequeShape
  BY <1>1, <1>2, EmptyIsSequence DEF DequeShape, IsSequence
<1>4. Waiting
  BY <1>1, <1>2 DEF Waiting, Outstanding, Expected, Commands, Idle
<1>5. DequeTold /\ Fresh
  BY <1>1, <1>2 DEF DequeTold, Fresh, Idle
<1> QED BY <1>3, <1>4, <1>5 DEF DequeInv

LEMMA ModifierStartsKeeps ==
  ASSUME DequeInv, NEW command \in Commands, ModifierStarts(command) PROVE DequeInv'
<1>1. /\ modifier.pc = "idle" /\ modifier'.pc = "waiting" /\ InvalidateCachedSize
      /\ pipeline' = pipeline \o <<"PUBLISH", command>>
      /\ UNCHANGED <<listening, toClient, asker, toNotify, unannounced>>
  BY DEF ModifierStarts, Idle, dequeLoop
<1>2. /\ DequeShape /\ Waiting /\ DequeTold
  BY DEF DequeInv
<1>3. PICK n \in Nat : n = Len(pipeline)
  BY DequeFacts
<1>4. /\ IsSequence(pipeline') /\ DOMAIN pipeline = 1 .. n /\ DOMAIN pipeline' = 1 .. n + 2
      /\ pipeline'[n + 1] = "PUBLISH" /\ pipeline'[n + 2] = command
      /\ \A i \in 1 .. n : pipeline'[i] = pipeline[i]
  <2>1. PICK t : t = <<"PUBLISH", command>>
    OBVIOUS
  <2>2. t \in Seq({"PUBLISH", command}) /\ Len(t) = 2 /\ t[1] = "PUBLISH" /\ t[2] = command
    BY <2>1
  <2>3. IsSequence(t) /\ IsSequence(pipeline) /\ pipeline' = pipeline \o t
    BY <1>1, <1>2, <2>1, <2>2 DEF DequeShape, IsSequence
  <2>4. /\ IsSequence(pipeline') /\ DOMAIN pipeline = 1 .. n
        /\ DOMAIN pipeline' = 1 .. n + 2
        /\ \A i \in 1 .. n : pipeline'[i] = pipeline[i]
        /\ \A i \in n + 1 .. n + 2 : pipeline'[i] = t[i - n]
    <3>1. PICK q \in Nat : q = Len(t) /\ q = 2
      BY <2>2
    <3>2. /\ IsSequence(pipeline') /\ DOMAIN pipeline = 1 .. n
          /\ DOMAIN pipeline' = 1 .. n + q
          /\ \A i \in 1 .. n : pipeline'[i] = pipeline[i]
          /\ \A i \in n + 1 .. n + q : pipeline'[i] = t[i - n]
      <4>1. q = Len(t)
        BY <3>1
      <4> QED BY <1>3, <2>3, <4>1, Joined
    <3> QED BY <3>1, <3>2
  <2>5. /\ n + 1 \in n + 1 .. n + 2 /\ (n + 1) - n = 1
        /\ n + 2 \in n + 1 .. n + 2 /\ (n + 2) - n = 2
    OBVIOUS
  <2>6. pipeline'[n + 1] = "PUBLISH" /\ pipeline'[n + 2] = command
    BY <2>2, <2>4, <2>5
  <2> QED BY <2>4, <2>6
<1>5. ASSUME NEW i \in DOMAIN pipeline'
      PROVE  \/ i \in DOMAIN pipeline /\ pipeline'[i] = pipeline[i]
             \/ i = n + 1 /\ pipeline'[i] = "PUBLISH"
             \/ i = n + 2 /\ pipeline'[i] = command
  <2>1. i \in 1 .. n \/ i = n + 1 \/ i = n + 2
    BY <1>4
  <2> QED BY <1>4, <2>1
<1>6. DequeShape'
  BY <1>1, <1>2, <1>4 DEF DequeShape
<1>7. command \in {"deque-push-back", "deque-pop-front", "deque-clear"}
  BY DEF Commands
<1>8. Outstanding({"deque-len"}, "size")' /\ (Expected({"deque-len"}, "size")' => asker'.pc = "asked")
  <2>1. \A i \in DOMAIN pipeline' : pipeline'[i] \in {"deque-len"} =>
          i + 0 \in DOMAIN pipeline /\ pipeline[i + 0] = pipeline'[i]
    BY <1>4, <1>5, <1>7
  <2>2. \A i \in DOMAIN toClient' : toClient'[i].type = "size" =>
          i + 0 \in DOMAIN toClient /\ toClient[i + 0] = toClient'[i]
    BY <1>1, DequeFacts
  <2>3. Outstanding({"deque-len"}, "size")' /\ (Expected({"deque-len"}, "size")' => Expected({"deque-len"}, "size"))
    BY <1>2, <1>6, <2>1, <2>2, OutstandingKept DEF Waiting
  <2> QED BY <1>1, <1>2, <2>3 DEF Waiting
<1>9. Outstanding(Commands, "result")'
  <2>1. \A i \in DOMAIN pipeline' : pipeline'[i] \in Commands => i = n + 2
    BY <1>1, <1>5, DequeFacts DEF Commands
  <2>2. \A i \in DOMAIN toClient' : toClient'[i].type # "result"
    BY <1>1, DequeFacts
  <2> QED BY <2>1, <2>2, Asks
<1>10. Waiting'
  BY <1>1, <1>2, <1>8, <1>9 DEF Waiting, InvalidateCachedSize
<1>11. DequeTold'
  <2>1. \A i \in DOMAIN pipeline : i \in DOMAIN pipeline' /\ pipeline'[i] = pipeline[i]
    BY <1>4
  <2> QED BY <1>1, <1>2, <2>1 DEF DequeTold
<1> QED BY <1>1, <1>6, <1>10, <1>11, Invalidated DEF DequeInv


\* Steps that only send announcements, ask to be told of them, or pass them on.
LEMMA QuietWaiting ==
  ASSUME DequeInv, DequeShape', UNCHANGED <<asker, mCachedSizeValid>>,
         modifier.pc = "waiting" => modifier'.pc = "waiting",
         \A i \in DOMAIN pipeline' :
           \/ i \in DOMAIN pipeline /\ pipeline'[i] = pipeline[i]
           \/ pipeline'[i] \in {"PUBLISH", "SUBSCRIBE"},
         \A i \in DOMAIN toClient' :
           \/ i \in DOMAIN toClient /\ toClient'[i] = toClient[i]
           \/ toClient'[i].type = "message"
  PROVE  Waiting'
<1>1. Waiting /\ DequeShape
  BY DEF DequeInv
<1>2. /\ \A i \in DOMAIN pipeline : i + 0 = i
      /\ \A i \in DOMAIN toClient : i + 0 = i
  BY DequeFacts
<1>3. /\ \A i \in DOMAIN pipeline' : pipeline'[i] \in {"deque-len"} =>
           i + 0 \in DOMAIN pipeline /\ pipeline[i + 0] = pipeline'[i]
      /\ \A i \in DOMAIN pipeline' : pipeline'[i] \in Commands =>
           i + 0 \in DOMAIN pipeline /\ pipeline[i + 0] = pipeline'[i]
  BY <1>2 DEF Commands
<1>4. /\ \A i \in DOMAIN toClient' : toClient'[i].type = "size" =>
           i + 0 \in DOMAIN toClient /\ toClient[i + 0] = toClient'[i]
      /\ \A i \in DOMAIN toClient' : toClient'[i].type = "result" =>
           i + 0 \in DOMAIN toClient /\ toClient[i + 0] = toClient'[i]
  BY <1>2
<1>5. /\ Outstanding({"deque-len"}, "size")'
      /\ Expected({"deque-len"}, "size")' => Expected({"deque-len"}, "size")
  BY <1>1, <1>3, <1>4, OutstandingKept DEF Waiting
<1>6. /\ Outstanding(Commands, "result")'
      /\ Expected(Commands, "result")' => Expected(Commands, "result")
  BY <1>1, <1>3, <1>4, OutstandingKept DEF Waiting
<1> QED BY <1>1, <1>5, <1>6 DEF Waiting

LEMMA QuietFresh ==
  ASSUME DequeInv, Calm => Fresh,
         UNCHANGED <<asker, mCachedSize, mCachedSizeValid, listening, toNotify, overtaken,
                     unannounced>>,
         length' = length \/ Pending',
         Pending => Pending' \/ ~listening
                    \/ \E j \in DOMAIN toClient' :
                         j \notin DOMAIN toClient /\ toClient'[j].type = "message",
         DequeShape',
         \A i \in DOMAIN pipeline' :
           \/ i \in DOMAIN pipeline /\ pipeline'[i] = pipeline[i]
           \/ pipeline'[i] \in {"PUBLISH", "SUBSCRIBE"},
         \A i \in DOMAIN pipeline : i \in DOMAIN pipeline' /\ pipeline'[i] = pipeline[i],
         \A i \in DOMAIN toClient' :
           \/ i \in DOMAIN toClient /\ toClient'[i] = toClient[i]
           \/ toClient'[i].type = "message",
         \A i \in DOMAIN toClient : i \in DOMAIN toClient' /\ toClient'[i] = toClient[i]
  PROVE  Calm' => Fresh'
<1> SUFFICES ASSUME Calm' PROVE Fresh'
  OBVIOUS
<1>1. Fresh
  BY DEF Calm
<1>2. ASSUME NEW v, NEW from \in DOMAIN toClient \cup {0}, Known(v, from)
      PROVE  Known(v, from)'
  <2>1. listening' /\ (v = length => v = length' \/ Pending')
    BY <1>2 DEF Known
  <2>2. ASSUME NEW j \in DOMAIN toClient', j \notin DOMAIN toClient PROVE j > from
    <3>1. PICK n \in Nat : DOMAIN toClient = 1 .. n
      BY DequeFacts
    <3>2. PICK k \in Nat : DOMAIN toClient' = 1 .. k
      <4>1. PICK q : q = toClient'
        OBVIOUS
      <4>2. IsSequence(q)
        BY <4>1 DEF DequeShape, IsSequence
      <4> QED BY <4>1, <4>2, SequenceDomain
    <3> QED BY <2>2, <3>1, <3>2
  <2>3. Pending =>
          Pending' \/ \E j \in DOMAIN toClient' : j > from /\ toClient'[j].type = "message"
    BY <1>2, <2>2 DEF Known
  <2> QED BY <1>2, <2>1, <2>3, KnownKept
<1>3. mCachedSizeValid' => Known(mCachedSize, 0)'
  <2>1. PICK v : v = mCachedSize
    OBVIOUS
  <2>2. mCachedSizeValid => Known(v, 0)'
    BY <1>1, <1>2, <2>1 DEF Fresh
  <2> QED BY <2>1, <2>2 DEF Known
<1>4. ASSUME NEW i \in DOMAIN toClient', toClient'[i].type = "size"
      PROVE  Known(toClient[i].value, i)'
  <2>1. i \in DOMAIN toClient /\ toClient'[i] = toClient[i]
    BY <1>4
  <2>2. PICK v : v = toClient[i].value
    OBVIOUS
  <2>3. Known(v, i)'
    BY <1>1, <1>2, <1>4, <2>1, <2>2 DEF Fresh
  <2> QED BY <2>1, <2>2, <2>3 DEF Known
<1>5. (asker'.pc = "answered" /\ asker'.value # Failed) => Known(asker.value, 0)'
  <2>1. PICK v : v = asker.value
    OBVIOUS
  <2>2. (asker.pc = "answered" /\ asker.value # Failed) => Known(v, 0)'
    BY <1>1, <1>2, <2>1 DEF Fresh
  <2> QED BY <2>1, <2>2 DEF Known
<1>6. ASSUME NEW i \in DOMAIN pipeline', pipeline'[i] = "deque-len"
      PROVE  listening' \/ \E j \in 1 .. i - 1 : pipeline'[j] = "SUBSCRIBE"
  <2>1. i \in DOMAIN pipeline /\ pipeline[i] = "deque-len"
    BY <1>6
  <2>2. \A j \in 1 .. i - 1 : j \in DOMAIN pipeline
    BY <2>1, DequeFacts
  <2> QED BY <1>1, <2>1, <2>2 DEF Fresh
<1> QED BY <1>3, <1>4, <1>5, <1>6 DEF Fresh, Failed

LEMMA ModifierFinishesKeeps ==
  ASSUME DequeInv, ModifierFinishes PROVE DequeInv'
<1>1. /\ modifier.pc = "answered" /\ modifier' = Idle
      /\ pipeline' = Append(pipeline, "PUBLISH")
      /\ UNCHANGED <<length, listening, toClient, asker, other, toNotify, mCachedSize,
                     mCachedSizeValid, overtaken, unannounced>>
  BY DEF ModifierFinishes, dequeLoop, dequeCache
<1>2. DequeShape /\ DequeTold
  BY DEF DequeInv
<1>3. PICK n \in Nat : n = Len(pipeline)
  BY DequeFacts
<1>4. /\ IsSequence(pipeline') /\ DOMAIN pipeline = 1 .. n /\ DOMAIN pipeline' = 1 .. n + 1
      /\ pipeline'[n + 1] = "PUBLISH" /\ \A i \in 1 .. n : pipeline'[i] = pipeline[i]
  BY <1>1, <1>2, <1>3, Appended DEF DequeShape
<1>5. /\ \A i \in DOMAIN pipeline' :
           \/ i \in DOMAIN pipeline /\ pipeline'[i] = pipeline[i]
           \/ pipeline'[i] \in {"PUBLISH", "SUBSCRIBE"}
      /\ \A i \in DOMAIN pipeline : i \in DOMAIN pipeline' /\ pipeline'[i] = pipeline[i]
      /\ n + 1 \in DOMAIN pipeline'
  <2>1. \A i \in DOMAIN pipeline' : i \in 1 .. n \/ i = n + 1
    BY <1>4
  <2> QED BY <1>4, <2>1
<1>6. /\ \A i \in DOMAIN toClient' :
           \/ i \in DOMAIN toClient /\ toClient'[i] = toClient[i]
           \/ toClient'[i].type = "message"
      /\ \A i \in DOMAIN toClient : i \in DOMAIN toClient' /\ toClient'[i] = toClient[i]
  BY <1>1
<1>7. DequeShape'
  BY <1>1, <1>2, <1>4 DEF DequeShape
<1>8. Waiting'
  BY <1>1, <1>5, <1>6, <1>7, QuietWaiting
<1>9. DequeTold'
  BY <1>1, <1>2, <1>5 DEF DequeTold
<1>10. Calm' => Fresh'
  <2>1. Pending'
    BY <1>4, <1>5 DEF Pending
  <2>2. Calm => Fresh
    BY DEF DequeInv
  <2> QED BY <1>1, <1>5, <1>6, <1>7, <2>1, <2>2, QuietFresh
<1> QED BY <1>7, <1>8, <1>9, <1>10 DEF DequeInv

LEMMA OtherKeeps ==
  ASSUME DequeInv,
         OtherPrepares \/ OtherAnnounces \/ \E command \in Commands : OtherExecutes(command)
  PROVE  DequeInv'
<1>1. PICK m : m = [type |-> "message", value |-> 0]
  OBVIOUS
<1>2. /\ UNCHANGED <<pipeline, listening, asker, modifier, toNotify, mCachedSize,
                     mCachedSizeValid, overtaken, unannounced>>
      /\ \/ length' = length
         \/ other' = "executed"
      /\ \/ /\ UNCHANGED toClient /\ other' # "none"
         \/ toClient' = IF listening THEN Append(toClient, m) ELSE toClient
  BY <1>1 DEF OtherPrepares, OtherAnnounces, OtherExecutes, Announce, dequeLoop, dequeCache
<1>3. DequeShape /\ DequeTold
  BY DEF DequeInv
<1>4. PICK n \in Nat : n = Len(toClient)
  BY DequeFacts
<1>5. /\ IsSequence(toClient')
      /\ \/ UNCHANGED toClient /\ (other' # "none" \/ ~listening)
         \/ /\ DOMAIN toClient = 1 .. n /\ DOMAIN toClient' = 1 .. n + 1
            /\ toClient'[n + 1] = m /\ \A i \in 1 .. n : toClient'[i] = toClient[i]
  <2>1. IsSequence(toClient)
    BY <1>3 DEF DequeShape
  <2>2. CASE toClient' = Append(toClient, m)
    <3>1. /\ IsSequence(toClient') /\ DOMAIN toClient = 1 .. n
          /\ DOMAIN toClient' = 1 .. n + 1 /\ toClient'[n + 1] = m
          /\ \A i \in 1 .. n : toClient'[i] = toClient[i]
      BY <1>4, <2>1, <2>2, Appended
    <3> QED BY <3>1
  <2>3. CASE UNCHANGED toClient /\ (other' # "none" \/ ~listening)
    BY <2>1, <2>3
  <2> QED BY <1>2, <2>2, <2>3
<1>6. /\ \A i \in DOMAIN toClient' :
           \/ i \in DOMAIN toClient /\ toClient'[i] = toClient[i]
           \/ toClient'[i].type = "message"
      /\ \A i \in DOMAIN toClient : i \in DOMAIN toClient' /\ toClient'[i] = toClient[i]
      /\ \/ other' # "none" \/ ~listening
         \/ \E j \in DOMAIN toClient' :
              j \notin DOMAIN toClient /\ toClient'[j].type = "message"
  <2>1. CASE UNCHANGED toClient /\ (other' # "none" \/ ~listening)
    BY <2>1
  <2>2. CASE /\ DOMAIN toClient = 1 .. n /\ DOMAIN toClient' = 1 .. n + 1
             /\ toClient'[n + 1] = m /\ \A i \in 1 .. n : toClient'[i] = toClient[i]
    <3>1. \A i \in DOMAIN toClient' : i \in 1 .. n \/ i = n + 1
      BY <2>2
    <3>2. n + 1 \in DOMAIN toClient' /\ n + 1 \notin DOMAIN toClient
      BY <2>2
    <3> QED BY <1>1, <2>2, <3>1, <3>2
  <2> QED BY <1>5, <2>1, <2>2
<1>7. DequeShape' /\ DequeTold'
  BY <1>2, <1>3, <1>5 DEF DequeShape, DequeTold
<1>8. /\ \A i \in DOMAIN pipeline' : i \in DOMAIN pipeline /\ pipeline'[i] = pipeline[i]
      /\ \A i \in DOMAIN pipeline : i \in DOMAIN pipeline' /\ pipeline'[i] = pipeline[i]
  BY <1>2
<1>9. Waiting'
  BY <1>2, <1>6, <1>7, <1>8, QuietWaiting
<1>10. Calm' => Fresh'
  <2>1. Calm => Fresh
    BY DEF DequeInv
  <2>2. length' = length \/ Pending'
    BY <1>2 DEF Pending
  <2>3. Pending => Pending' \/ ~listening
                   \/ \E j \in DOMAIN toClient' :
                        j \notin DOMAIN toClient /\ toClient'[j].type = "message"
    BY <1>6 DEF Pending
  <2> QED BY <1>2, <1>6, <1>7, <1>8, <2>1, <2>2, <2>3, QuietFresh
<1> QED BY <1>7, <1>9, <1>10 DEF DequeInv


LEMMA SizeAsksKeeps ==
  ASSUME DequeInv, SizeAsks PROVE DequeInv'
<1>1. /\ asker.pc = "idle" /\ ~mCachedSizeValid /\ asker'.pc = "asked"
      /\ pipeline' = Append(pipeline, "deque-len")
      /\ UNCHANGED <<length, listening, toClient, mCachedSize, mCachedSizeValid, modifier,
                     other, toNotify, unannounced>>
  BY DEF SizeAsks, Idle, dequeLoop
<1>2. DequeShape /\ Waiting /\ DequeTold
  BY DEF DequeInv
<1>3. PICK n \in Nat : n = Len(pipeline)
  BY DequeFacts
<1>4. /\ IsSequence(pipeline') /\ DOMAIN pipeline = 1 .. n /\ DOMAIN pipeline' = 1 .. n + 1
      /\ pipeline'[n + 1] = "deque-len" /\ \A i \in 1 .. n : pipeline'[i] = pipeline[i]
  BY <1>1, <1>2, <1>3, Appended DEF DequeShape
<1>5. /\ \A i \in DOMAIN pipeline' :
           \/ i \in DOMAIN pipeline /\ pipeline'[i] = pipeline[i]
           \/ i = n + 1 /\ pipeline'[i] = "deque-len"
      /\ \A i \in DOMAIN pipeline : i \in DOMAIN pipeline' /\ pipeline'[i] = pipeline[i]
  <2>1. \A i \in DOMAIN pipeline' : i \in 1 .. n \/ i = n + 1
    BY <1>4
  <2> QED BY <1>4, <2>1
<1>6. DequeShape' /\ DequeTold'
  BY <1>1, <1>2, <1>4, <1>5 DEF DequeShape, DequeTold
<1>7. /\ \A i \in DOMAIN pipeline : pipeline[i] # "deque-len"
      /\ \A i \in DOMAIN toClient : toClient[i].type # "size"
  BY <1>1, DequeFacts
<1>8. Outstanding({"deque-len"}, "size")'
  <2>1. \A i \in DOMAIN pipeline' : pipeline'[i] \in {"deque-len"} => i = n + 1
    BY <1>5, <1>7
  <2>2. \A i \in DOMAIN toClient' : toClient'[i].type # "size"
    BY <1>1, <1>7
  <2> QED BY <2>1, <2>2, Asks
<1>9. Outstanding(Commands, "result")' /\ (Expected(Commands, "result")' => Expected(Commands, "result"))
  <2>1. \A i \in DOMAIN pipeline' : pipeline'[i] \in Commands =>
          i + 0 \in DOMAIN pipeline /\ pipeline[i + 0] = pipeline'[i]
    BY <1>4, <1>5 DEF Commands
  <2>2. \A i \in DOMAIN toClient' : toClient'[i].type = "result" =>
          i + 0 \in DOMAIN toClient /\ toClient[i + 0] = toClient'[i]
    BY <1>1, DequeFacts
  <2> QED BY <1>2, <1>6, <2>1, <2>2, OutstandingKept DEF Waiting
<1>10. Waiting'
  BY <1>1, <1>2, <1>8, <1>9 DEF Waiting
<1>11. ASSUME Calm' PROVE Fresh'
  <2>1. \/ listening
        \/ \E j \in DOMAIN pipeline : pipeline[j] = "SUBSCRIBE"
    BY <1>1, <1>2, <1>11 DEF Calm, DequeTold
  <2>2. ASSUME NEW i \in DOMAIN pipeline', pipeline'[i] = "deque-len"
        PROVE  listening' \/ \E j \in 1 .. i - 1 : pipeline'[j] = "SUBSCRIBE"
    <3>1. i = n + 1
      BY <1>5, <1>7, <2>2
    <3>2. \A j \in DOMAIN pipeline : j \in 1 .. i - 1
      BY <1>4, <3>1
    <3> QED BY <1>1, <1>5, <2>1, <3>2
  <2> QED BY <1>1, <1>7, <2>2 DEF Fresh
<1> QED BY <1>6, <1>10, <1>11 DEF DequeInv

LEMMA SizeReturnsKeeps ==
  ASSUME DequeInv, SizeReturns PROVE DequeInv'
<1>1. /\ asker.pc = "answered" /\ asker'.pc = "idle"
      /\ \/ UNCHANGED mCachedSizeValid
         \/ asker.value # Failed /\ mCachedSize' = asker.value /\ mCachedSizeValid'
      /\ UNCHANGED <<length, listening, pipeline, toClient, modifier, other, toNotify,
                     overtaken, unannounced>>
  BY DEF SizeReturns, Idle, dequeLoop, dequeServer
<1>2. DequeShape /\ Waiting /\ DequeTold /\ (Calm => Fresh)
  BY DEF DequeInv
<1>3. /\ \A i \in DOMAIN pipeline : pipeline[i] # "deque-len"
      /\ \A i \in DOMAIN toClient : toClient[i].type # "size"
      /\ ~mCachedSizeValid
  BY <1>1, <1>2, DequeFacts DEF Waiting
<1>4. DequeShape' /\ DequeTold'
  BY <1>1, <1>2 DEF DequeShape, DequeTold
<1>5. Waiting'
  BY <1>1, <1>2, <1>3 DEF Waiting, Outstanding, Expected
<1>6. ASSUME Calm' PROVE Fresh'
  <2>1. Fresh
    BY <1>1, <1>2, <1>6 DEF Calm
  <2>2. mCachedSizeValid' => Known(mCachedSize, 0)'
    <3>1. PICK v : v = asker.value
      OBVIOUS
    <3>2. mCachedSizeValid' => mCachedSize' = v /\ Known(v, 0)
      BY <1>1, <1>3, <2>1, <3>1 DEF Fresh
    <3>3. Known(v, 0) => Known(v, 0)'
      BY <1>1 DEF Known, Pending
    <3> QED BY <3>2, <3>3 DEF Known
  <2> QED BY <1>1, <1>3, <2>2 DEF Fresh
<1> QED BY <1>4, <1>5, <1>6 DEF DequeInv

-----------------------------------------------------------------------------
(* The deque's connections                                                   *)

LEMMA DequeNotifiedKeeps ==
  ASSUME DequeInv, DequeNotified PROVE DequeInv'
<1>1. /\ "deque" \in toNotify /\ toNotify' = toNotify \ {"deque"}
      /\ unannounced' = ("subscriber" \in toNotify) /\ InvalidateCachedSize
      /\ UNCHANGED <<length, listening, pipeline, toClient, asker, modifier, other>>
  BY DEF DequeNotified, dequeServer, dequeThreads
<1>2. DequeShape /\ Waiting /\ DequeTold
  BY DEF DequeInv
<1>3. DequeShape' /\ DequeTold'
  BY <1>1, <1>2 DEF DequeShape, DequeTold
<1>4. Waiting'
  BY <1>1, <1>2 DEF Waiting, Outstanding, Expected, InvalidateCachedSize
<1> QED BY <1>1, <1>3, <1>4, Invalidated DEF DequeInv

LEMMA DequeSubscribesKeeps ==
  ASSUME DequeInv, DequeSubscribes PROVE DequeInv'
<1>1. /\ "subscriber" \in toNotify /\ toNotify' = toNotify \ {"subscriber"}
      /\ pipeline' = Append(pipeline, "SUBSCRIBE")
      /\ UNCHANGED <<length, listening, toClient, asker, modifier, other, mCachedSize,
                     mCachedSizeValid, overtaken, unannounced>>
  BY DEF DequeSubscribes, dequeCache, dequeThreads
<1>2. DequeShape /\ DequeTold
  BY DEF DequeInv
<1>3. PICK n \in Nat : n = Len(pipeline)
  BY DequeFacts
<1>4. /\ IsSequence(pipeline') /\ DOMAIN pipeline = 1 .. n /\ DOMAIN pipeline' = 1 .. n + 1
      /\ pipeline'[n + 1] = "SUBSCRIBE" /\ \A i \in 1 .. n : pipeline'[i] = pipeline[i]
  BY <1>1, <1>2, <1>3, Appended DEF DequeShape
<1>5. /\ \A i \in DOMAIN pipeline' :
           \/ i \in DOMAIN pipeline /\ pipeline'[i] = pipeline[i]
           \/ pipeline'[i] \in {"PUBLISH", "SUBSCRIBE"}
      /\ n + 1 \in DOMAIN pipeline'
  <2>1. \A i \in DOMAIN pipeline' : i \in 1 .. n \/ i = n + 1
    BY <1>4
  <2> QED BY <1>4, <2>1
<1>6. DequeShape' /\ DequeTold'
  BY <1>1, <1>2, <1>4, <1>5 DEF DequeShape, DequeTold
<1>7. Waiting'
  <2>1. \A i \in DOMAIN toClient' : i \in DOMAIN toClient /\ toClient'[i] = toClient[i]
    BY <1>1
  <2> QED BY <1>1, <1>5, <1>6, <2>1, QuietWaiting
<1>8. ~Calm'
  <2>1. toNotify' = {} => "deque" \notin toNotify
    BY <1>1
  <2> QED BY <1>1, <1>2, <2>1 DEF Calm, DequeTold
<1> QED BY <1>6, <1>7, <1>8 DEF DequeInv

LEMMA DequeConnectionLostKeeps ==
  ASSUME DequeInv, DequeConnectionLost PROVE DequeInv'
<1>1. /\ toNotify' = {"deque", "subscriber"} /\ mCachedSizeValid' = FALSE
      /\ pipeline' = <<>> /\ toClient' = <<>>
  BY DEF DequeConnectionLost, InvalidateCachedSize
<1>2. DOMAIN pipeline' = {} /\ DOMAIN toClient' = {}
  BY <1>1
<1>3. DequeShape'
  BY <1>1, EmptyIsSequence DEF DequeShape
<1>4. Waiting'
  BY <1>1, <1>2 DEF Waiting, Outstanding, Expected
<1>5. DequeTold' /\ ~Calm'
  BY <1>1 DEF DequeTold, Calm
<1> QED BY <1>3, <1>4, <1>5 DEF DequeInv


LEMMA DequeReceivesKeeps ==
  ASSUME DequeInv, DequeReceives PROVE DequeInv'
<1>1. /\ toClient # <<>> /\ toClient' = Tail(toClient)
      /\ UNCHANGED <<length, listening, pipeline, other, toNotify, unannounced>>
  BY DEF DequeReceives, dequeLoop
<1>2. DequeShape /\ Waiting /\ DequeTold /\ (Calm => Fresh)
  BY DEF DequeInv
<1>3. PICK n \in Nat : n = Len(toClient) /\ n # 0
  BY <1>1, <1>2, Rest DEF DequeShape
<1>4. /\ IsSequence(toClient') /\ DOMAIN toClient = 1 .. n /\ DOMAIN toClient' = 1 .. n - 1
      /\ Head(toClient) = toClient[1]
      /\ \A i \in 1 .. n - 1 : toClient'[i] = toClient[i + 1]
  BY <1>1, <1>2, <1>3, Rest DEF DequeShape
<1>5. PICK m : m = toClient[1]
  OBVIOUS
<1>6. \/ m.type = "message" /\ InvalidateCachedSize /\ UNCHANGED <<asker, modifier>>
      \/ /\ m.type = "size" /\ asker' = [pc |-> "answered", value |-> m.value]
         /\ UNCHANGED <<mCachedSize, mCachedSizeValid, overtaken, modifier>>
      \/ /\ m.type = "result" /\ modifier'.pc = "answered"
         /\ UNCHANGED <<mCachedSize, mCachedSizeValid, overtaken, asker>>
  BY <1>4, <1>5 DEF DequeReceives, dequeCache
<1>7. 1 \in DOMAIN toClient
  BY <1>3, <1>4
<1>8. \A i \in DOMAIN toClient' :
        i + 1 \in DOMAIN toClient /\ toClient[i + 1] = toClient'[i] /\ i + 1 # 1
  BY <1>3, <1>4
<1>9. DequeShape' /\ DequeTold'
  BY <1>1, <1>2, <1>4 DEF DequeShape, DequeTold
<1>10. \A i \in DOMAIN pipeline' : i + 0 \in DOMAIN pipeline /\ pipeline[i + 0] = pipeline'[i]
  BY <1>1, DequeFacts
<1>11. /\ Outstanding({"deque-len"}, "size")'
       /\ Expected({"deque-len"}, "size")' => Expected({"deque-len"}, "size")
  BY <1>2, <1>8, <1>9, <1>10, OutstandingKept DEF Waiting
<1>12. /\ Outstanding(Commands, "result")'
       /\ Expected(Commands, "result")' => Expected(Commands, "result")
  BY <1>2, <1>8, <1>9, <1>10, OutstandingKept DEF Waiting
<1>13. CASE m.type = "message" /\ InvalidateCachedSize /\ UNCHANGED <<asker, modifier>>
  <2>1. Waiting'
    BY <1>2, <1>11, <1>12, <1>13 DEF Waiting, InvalidateCachedSize
  <2> QED BY <1>9, <1>13, <2>1, Invalidated DEF DequeInv
<1>14. CASE /\ m.type = "size" /\ asker' = [pc |-> "answered", value |-> m.value]
            /\ UNCHANGED <<mCachedSize, mCachedSizeValid, overtaken, modifier>>
  <2>1. asker.pc = "asked" /\ ~mCachedSizeValid
    BY <1>2, <1>5, <1>7, <1>14 DEF Waiting, Expected
  <2>2. /\ \A i \in DOMAIN pipeline' : pipeline'[i] # "deque-len"
        /\ \A i \in DOMAIN toClient' : toClient'[i].type # "size"
    <3>1. Outstanding({"deque-len"}, "size")
      BY <1>2 DEF Waiting
    <3>2. \A i \in DOMAIN pipeline : pipeline[i] # "deque-len"
      BY <1>5, <1>7, <1>14, <3>1 DEF Outstanding
    <3>3. \A i \in DOMAIN toClient : toClient[i].type = "size" => i = 1
      BY <1>5, <1>7, <1>14, <3>1 DEF Outstanding
    <3> QED BY <1>1, <1>8, <3>2, <3>3
  <2>3. Waiting'
    BY <1>2, <1>11, <1>12, <1>14, <2>1, <2>2 DEF Waiting, Expected
  <2>4. ASSUME Calm' PROVE Fresh'
    <3>1. Fresh
      BY <1>1, <1>2, <1>14, <2>4 DEF Calm
    <3>2. PICK v : v = m.value
      OBVIOUS
    <3>3. Known(v, 1)
      BY <1>5, <1>7, <1>14, <3>1, <3>2 DEF Fresh
    <3>4. \A i \in DOMAIN toClient : (i > 1 /\ toClient[i].type = "message") =>
            \E j \in DOMAIN toClient' : j > 0 /\ toClient'[j].type = "message"
      <4> SUFFICES ASSUME NEW i \in DOMAIN toClient, i > 1, toClient[i].type = "message"
                   PROVE  \E j \in DOMAIN toClient' : j > 0 /\ toClient'[j].type = "message"
        OBVIOUS
      <4>1. i - 1 \in 1 .. n - 1 /\ (i - 1) + 1 = i /\ i - 1 > 0
        BY <1>3, <1>4
      <4> QED BY <1>4, <4>1
    <3>5. Pending => Pending'
      BY <1>1, <1>14 DEF Pending
    <3>6. listening' /\ length' = length
      BY <1>1, <3>3 DEF Known
    <3>7. Known(v, 0)'
      BY <3>3, <3>4, <3>5, <3>6, KnownKept
    <3>8. asker'.value = v
      BY <1>14, <3>2
    <3>9. Known(asker.value, 0)'
      BY <3>7, <3>8 DEF Known
    <3> QED BY <1>14, <2>1, <2>2, <3>9 DEF Fresh
  <2> QED BY <1>9, <2>3, <2>4 DEF DequeInv
<1>15. CASE /\ m.type = "result" /\ modifier'.pc = "answered"
            /\ UNCHANGED <<mCachedSize, mCachedSizeValid, overtaken, asker>>
  <2>1. modifier.pc = "waiting"
    BY <1>2, <1>5, <1>7, <1>15 DEF Waiting, Expected
  <2>2. ~Expected(Commands, "result")'
    <3>1. Outstanding(Commands, "result")
      BY <1>2 DEF Waiting
    <3>2. \A i \in DOMAIN pipeline : pipeline[i] \notin Commands
      BY <1>5, <1>7, <1>15, <3>1 DEF Outstanding
    <3>3. \A i \in DOMAIN toClient : toClient[i].type = "result" => i = 1
      BY <1>5, <1>7, <1>15, <3>1 DEF Outstanding
    <3> QED BY <1>1, <1>8, <3>2, <3>3 DEF Expected
  <2>3. Waiting'
    BY <1>2, <1>11, <1>12, <1>15, <2>2 DEF Waiting
  <2>4. ASSUME Calm' PROVE Fresh'
    <3>1. Fresh
      BY <1>1, <1>2, <1>15, <2>4 DEF Calm
    <3>2. Pending'
      BY <1>15 DEF Pending
    <3>3. ASSUME NEW v, NEW from, NEW to, Known(v, from) PROVE Known(v, to)'
      BY <1>1, <3>2, <3>3 DEF Known
    <3>4. mCachedSizeValid' => Known(mCachedSize, 0)'
      <4>1. PICK v : v = mCachedSize
        OBVIOUS
      <4>2. mCachedSizeValid => Known(v, 0)'
        BY <3>1, <3>3, <4>1 DEF Fresh
      <4> QED BY <1>15, <4>1, <4>2 DEF Known
    <3>5. ASSUME NEW i \in DOMAIN toClient', toClient'[i].type = "size"
          PROVE  Known(toClient[i].value, i)'
      <4>1. PICK v : v = toClient'[i].value
        OBVIOUS
      <4>2. Known(v, i + 1)
        BY <1>8, <3>1, <3>5, <4>1 DEF Fresh
      <4>3. Known(v, i)'
        BY <3>3, <4>2
      <4> QED BY <4>1, <4>3 DEF Known
    <3>6. (asker'.pc = "answered" /\ asker'.value # Failed) => Known(asker.value, 0)'
      <4>1. PICK v : v = asker.value
        OBVIOUS
      <4>2. (asker.pc = "answered" /\ asker.value # Failed) => Known(v, 0)'
        BY <3>1, <3>3, <4>1 DEF Fresh
      <4> QED BY <1>15, <4>1, <4>2 DEF Known
    <3>7. \A i \in DOMAIN pipeline' : pipeline'[i] = "deque-len" =>
            listening' \/ \E j \in 1 .. i - 1 : pipeline'[j] = "SUBSCRIBE"
      BY <1>1, <3>1 DEF Fresh
    <3> QED BY <3>4, <3>5, <3>6, <3>7 DEF Fresh, Failed
  <2> QED BY <1>9, <2>3, <2>4 DEF DequeInv
<1> QED BY <1>6, <1>13, <1>14, <1>15

-----------------------------------------------------------------------------
(* The deque's server                                                        *)

LEMMA DequeServerKeeps ==
  ASSUME DequeInv, DequeServerExecutes PROVE DequeInv'
<1>1. /\ pipeline # <<>> /\ pipeline' = Tail(pipeline)
      /\ UNCHANGED <<asker, modifier, other, toNotify, mCachedSize, mCachedSizeValid,
                     overtaken, unannounced>>
  BY DEF DequeServerExecutes, dequeCache, dequeThreads, dequeLoop
<1>2. DequeShape /\ Waiting /\ DequeTold /\ (Calm => Fresh)
  BY DEF DequeInv
<1>3. PICK n \in Nat : n = Len(pipeline) /\ n # 0
  BY <1>1, <1>2, Rest DEF DequeShape
<1>4. /\ IsSequence(pipeline') /\ DOMAIN pipeline = 1 .. n /\ DOMAIN pipeline' = 1 .. n - 1
      /\ Head(pipeline) = pipeline[1]
      /\ \A i \in 1 .. n - 1 : pipeline'[i] = pipeline[i + 1]
  BY <1>1, <1>2, <1>3, Rest DEF DequeShape
<1>5. PICK h, m : /\ h = pipeline[1]
                  /\ m = IF h = "PUBLISH" THEN [type |-> "message", value |-> 0]
                         ELSE IF h = "deque-len" THEN [type |-> "size", value |-> length]
                         ELSE [type |-> "result", value |-> 0]
  OBVIOUS
<1>6. /\ h \in {"SUBSCRIBE", "PUBLISH", "deque-len"} \cup Commands
      /\ h = "SUBSCRIBE" => listening' = TRUE
      /\ h # "SUBSCRIBE" => listening' = listening
      /\ h \notin Commands => length' = length
      /\ \/ (h = "SUBSCRIBE" \/ (h = "PUBLISH" /\ ~listening)) /\ toClient' = toClient
         \/ h # "SUBSCRIBE" /\ toClient' = Append(toClient, m)
  <2>1. CASE h = "SUBSCRIBE"
    BY <1>4, <1>5, <2>1 DEF DequeServerExecutes, Commands
  <2>2. CASE h = "PUBLISH"
    BY <1>4, <1>5, <2>2 DEF DequeServerExecutes, Commands, Announce
  <2>3. CASE h = "deque-len"
    BY <1>4, <1>5, <2>3 DEF DequeServerExecutes, Commands
  <2>4. CASE h \in Commands
    BY <1>4, <1>5, <2>4 DEF DequeServerExecutes, Commands
  <2> QED BY <1>4, <1>5, <2>1, <2>2, <2>3, <2>4 DEF DequeServerExecutes
<1>7. PICK l \in Nat : l = Len(toClient) /\ DOMAIN toClient = 1 .. l
  BY DequeFacts
<1>8. /\ IsSequence(toClient')
      /\ \/ (h = "SUBSCRIBE" \/ (h = "PUBLISH" /\ ~listening)) /\ toClient' = toClient
         \/ /\ h # "SUBSCRIBE"
            /\ DOMAIN toClient' = 1 .. l + 1 /\ toClient'[l + 1] = m
            /\ \A i \in 1 .. l : toClient'[i] = toClient[i]
  <2>1. IsSequence(toClient)
    BY <1>2 DEF DequeShape
  <2>2. CASE toClient' = toClient
    BY <1>6, <2>1, <2>2, Appended
  <2>3. CASE h # "SUBSCRIBE" /\ toClient' = Append(toClient, m)
    <3>1. /\ IsSequence(toClient') /\ DOMAIN toClient' = 1 .. l + 1
          /\ toClient'[l + 1] = m /\ \A i \in 1 .. l : toClient'[i] = toClient[i]
      BY <1>7, <2>1, <2>3, Appended
    <3> QED BY <2>3, <3>1
  <2> QED BY <1>6, <2>2, <2>3
<1>9. /\ \A i \in DOMAIN toClient' :
           \/ i \in DOMAIN toClient /\ toClient'[i] = toClient[i]
           \/ i = l + 1 /\ toClient'[i] = m /\ h # "SUBSCRIBE"
      /\ \A i \in DOMAIN toClient : i \in DOMAIN toClient' /\ toClient'[i] = toClient[i]
      /\ \/ h = "SUBSCRIBE" \/ (h = "PUBLISH" /\ ~listening)
         \/ l + 1 \in DOMAIN toClient' /\ toClient'[l + 1] = m
  <2>1. CASE (h = "SUBSCRIBE" \/ (h = "PUBLISH" /\ ~listening)) /\ toClient' = toClient
    BY <2>1
  <2>2. CASE /\ h # "SUBSCRIBE"
             /\ DOMAIN toClient' = 1 .. l + 1 /\ toClient'[l + 1] = m
             /\ \A i \in 1 .. l : toClient'[i] = toClient[i]
    <3>1. \A i \in DOMAIN toClient' : i \in 1 .. l \/ i = l + 1
      BY <2>2
    <3>2. l + 1 \in DOMAIN toClient'
      BY <2>2
    <3> QED BY <1>7, <2>2, <3>1, <3>2
  <2> QED BY <1>8, <2>1, <2>2
<1>10. \A i \in DOMAIN pipeline' :
         i + 1 \in DOMAIN pipeline /\ pipeline[i + 1] = pipeline'[i] /\ i + 1 # 1
  BY <1>3, <1>4
<1>11. 1 \in DOMAIN pipeline
  BY <1>3, <1>4
<1>12. DequeShape'
  BY <1>4, <1>8 DEF DequeShape
<1>13. DequeTold'
  <2>1. ASSUME ~listening', NEW i \in DOMAIN pipeline, pipeline[i] = "SUBSCRIBE"
        PROVE  \E j \in DOMAIN pipeline' : pipeline'[j] = "SUBSCRIBE"
    <3>1. i # 1
      BY <1>5, <1>6, <2>1
    <3>2. i - 1 \in 1 .. n - 1 /\ (i - 1) + 1 = i
      BY <1>3, <1>4, <3>1
    <3> QED BY <1>4, <2>1, <3>2
  <2>2. listening => listening'
    BY <1>6
  <2> QED BY <1>1, <1>2, <2>1, <2>2 DEF DequeTold
<1>14. Waiting'
  <2>1. CASE h = "deque-len"
    <3>1. /\ \A i \in DOMAIN pipeline : pipeline[i] = "deque-len" => i = 1
          /\ \A i \in DOMAIN toClient : toClient[i].type # "size"
          /\ asker.pc = "asked"
      BY <1>2, <1>5, <1>11, <2>1 DEF Waiting, Outstanding, Expected
    <3>2. \A i \in DOMAIN pipeline' : pipeline'[i] # "deque-len"
      BY <1>10, <3>1
    <3>3. m.type = "size"
      BY <1>5, <2>1
    <3>4. Outstanding({"deque-len"}, "size")'
      <4>1. \A i \in DOMAIN toClient' : toClient'[i].type = "size" => i = l + 1
        BY <1>9, <3>1
      <4>2. \A i \in DOMAIN pipeline' : pipeline'[i] \notin {"deque-len"}
        BY <3>2
      <4> QED BY <4>1, <4>2, Answers
    <3>5. \A i \in DOMAIN toClient' : toClient'[i].type = "result" =>
            i + 0 \in DOMAIN toClient /\ toClient[i + 0] = toClient'[i]
      BY <1>7, <1>9, <3>3
    <3>6. /\ Outstanding(Commands, "result")'
          /\ Expected(Commands, "result")' => Expected(Commands, "result")
      BY <1>2, <1>10, <1>12, <3>5, OutstandingKept DEF Waiting
    <3> QED BY <1>1, <1>2, <3>1, <3>4, <3>6 DEF Waiting
  <2>2. CASE h \in Commands
    <3>1. /\ \A i \in DOMAIN pipeline : pipeline[i] \in Commands => i = 1
          /\ \A i \in DOMAIN toClient : toClient[i].type # "result"
          /\ modifier.pc = "waiting"
      BY <1>2, <1>5, <1>11, <2>2 DEF Waiting, Outstanding, Expected
    <3>2. \A i \in DOMAIN pipeline' : pipeline'[i] \notin Commands
      BY <1>10, <3>1
    <3>3. m.type = "result"
      BY <1>5, <2>2 DEF Commands
    <3>4. Outstanding(Commands, "result")'
      <4>1. \A i \in DOMAIN toClient' : toClient'[i].type = "result" => i = l + 1
        BY <1>9, <3>1
      <4> QED BY <3>2, <4>1, Answers
    <3>5. \A i \in DOMAIN toClient' : toClient'[i].type = "size" =>
            i + 0 \in DOMAIN toClient /\ toClient[i + 0] = toClient'[i]
      BY <1>7, <1>9, <3>3
    <3>6. /\ Outstanding({"deque-len"}, "size")'
          /\ Expected({"deque-len"}, "size")' => Expected({"deque-len"}, "size")
      BY <1>2, <1>10, <1>12, <3>5, OutstandingKept DEF Waiting
    <3> QED BY <1>1, <1>2, <3>1, <3>4, <3>6 DEF Waiting
  <2>3. CASE h \in {"SUBSCRIBE", "PUBLISH"}
    <3>1. \A i \in DOMAIN toClient' :
            \/ i \in DOMAIN toClient /\ toClient'[i] = toClient[i]
            \/ toClient'[i].type = "message"
      BY <1>5, <1>9, <2>3
    <3>2. /\ \A i \in DOMAIN toClient' : toClient'[i].type = "size" =>
               i + 0 \in DOMAIN toClient /\ toClient[i + 0] = toClient'[i]
          /\ \A i \in DOMAIN toClient' : toClient'[i].type = "result" =>
               i + 0 \in DOMAIN toClient /\ toClient[i + 0] = toClient'[i]
      BY <1>7, <3>1
    <3>3. /\ Outstanding({"deque-len"}, "size")'
          /\ Expected({"deque-len"}, "size")' => Expected({"deque-len"}, "size")
      BY <1>2, <1>10, <1>12, <3>2, OutstandingKept DEF Waiting
    <3>4. /\ Outstanding(Commands, "result")'
          /\ Expected(Commands, "result")' => Expected(Commands, "result")
      BY <1>2, <1>10, <1>12, <3>2, OutstandingKept DEF Waiting
    <3> QED BY <1>1, <1>2, <3>3, <3>4 DEF Waiting
  <2> QED BY <1>6, <2>1, <2>2, <2>3
<1>15. ASSUME NEW v, NEW from \in DOMAIN toClient \cup {0}, Known(v, from)
       PROVE  Known(v, from)'
  <2>1. listening /\ listening'
    BY <1>6, <1>15 DEF Known
  <2>2. l + 1 > from
    BY <1>7
  <2>3. v = length => v = length' \/ Pending'
    <3>1. h \in Commands => modifier.pc = "waiting"
      BY <1>2, <1>5, <1>11 DEF Waiting, Expected
    <3> QED BY <1>1, <1>6, <3>1 DEF Pending
  <2>4. Pending =>
          Pending' \/ \E j \in DOMAIN toClient' : j > from /\ toClient'[j].type = "message"
    <3>1. CASE h = "PUBLISH"
      BY <1>5, <1>9, <2>1, <2>2, <3>1
    <3>2. CASE h # "PUBLISH"
      <4>1. ASSUME NEW i \in DOMAIN pipeline, pipeline[i] = "PUBLISH"
            PROVE  \E j \in DOMAIN pipeline' : pipeline'[j] = "PUBLISH"
        <5>1. i # 1
          BY <1>5, <3>2, <4>1
        <5>2. i - 1 \in 1 .. n - 1 /\ (i - 1) + 1 = i
          BY <1>3, <1>4, <5>1
        <5> QED BY <1>4, <4>1, <5>2
      <4> QED BY <1>1, <4>1 DEF Pending
    <3> QED BY <3>1, <3>2
  <2>5. \A i \in DOMAIN toClient : (i > from /\ toClient[i].type = "message") =>
          \E j \in DOMAIN toClient' : j > from /\ toClient'[j].type = "message"
    BY <1>9
  <2> QED BY <1>15, <2>1, <2>3, <2>4, <2>5, KnownKept
<1>16. ASSUME Calm' PROVE Fresh'
  <2>1. Fresh
    BY <1>1, <1>2, <1>16 DEF Calm
  <2>2. mCachedSizeValid' => Known(mCachedSize, 0)'
    <3>1. PICK v : v = mCachedSize
      OBVIOUS
    <3>2. mCachedSizeValid => Known(v, 0)'
      BY <1>15, <2>1, <3>1 DEF Fresh
    <3> QED BY <1>1, <3>1, <3>2 DEF Known
  <2>3. ASSUME NEW i \in DOMAIN toClient', toClient'[i].type = "size"
        PROVE  Known(toClient[i].value, i)'
    <3>1. CASE i \in DOMAIN toClient /\ toClient'[i] = toClient[i]
      <4>1. PICK v : v = toClient[i].value
        OBVIOUS
      <4>2. Known(v, i)'
        BY <1>15, <2>1, <2>3, <3>1, <4>1 DEF Fresh
      <4> QED BY <3>1, <4>1, <4>2 DEF Known
    <3>2. CASE i = l + 1 /\ toClient'[i] = m
      <4>1. h = "deque-len" /\ m.value = length
        BY <1>5, <2>3, <3>2
      <4>2. listening' /\ length' = length
        <5>1. pipeline[1] = "deque-len"
          BY <1>5, <4>1
        <5>2. listening \/ \E j \in 1 .. 1 - 1 : pipeline[j] = "SUBSCRIBE"
          BY <1>11, <2>1, <5>1 DEF Fresh
        <5>3. listening
          BY <5>2
        <5> QED BY <1>6, <4>1, <5>3 DEF Commands
      <4> QED BY <3>2, <4>1, <4>2 DEF Known
    <3> QED BY <1>9, <3>1, <3>2
  <2>4. (asker'.pc = "answered" /\ asker'.value # Failed) => Known(asker.value, 0)'
    <3>1. PICK v : v = asker.value
      OBVIOUS
    <3>2. (asker.pc = "answered" /\ asker.value # Failed) => Known(v, 0)'
      BY <1>15, <2>1, <3>1 DEF Fresh
    <3> QED BY <1>1, <3>1, <3>2 DEF Known
  <2>5. ASSUME NEW i \in DOMAIN pipeline', pipeline'[i] = "deque-len", ~listening'
        PROVE  \E j \in 1 .. i - 1 : pipeline'[j] = "SUBSCRIBE"
    <3>1. i + 1 \in DOMAIN pipeline /\ pipeline[i + 1] = "deque-len" /\ i \in 1 .. n - 1
      BY <1>4, <1>10, <2>5
    <3>2. ~listening
      BY <1>6, <2>5
    <3>3. PICK j \in 1 .. (i + 1) - 1 : pipeline[j] = "SUBSCRIBE"
      BY <2>1, <3>1, <3>2 DEF Fresh
    <3>4. j # 1
      BY <1>5, <1>6, <2>5, <3>3
    <3>5. j - 1 \in 1 .. i - 1 /\ j - 1 \in 1 .. n - 1 /\ (j - 1) + 1 = j
      BY <1>3, <3>1, <3>4
    <3> QED BY <1>4, <3>3, <3>5
  <2> QED BY <2>2, <2>3, <2>4, <2>5 DEF Fresh, Failed
<1> QED BY <1>12, <1>13, <1>14, <1>16 DEF DequeInv

LEMMA DequeStepsKeep == DequeInv /\ [DequeNext]_dequeVars => DequeInv'
<1> SUFFICES ASSUME DequeInv, [DequeNext]_dequeVars PROVE DequeInv'
  OBVIOUS
<1>1. CASE UNCHANGED dequeVars
  <2>1. UNCHANGED <<length, listening, pipeline, toClient, mCachedSize, mCachedSizeValid,
                    overtaken, asker, modifier, other, toNotify, unannounced>>
    BY <1>1 DEF dequeVars, dequeServer, dequeCache, dequeThreads, dequeLoop
  <2>2. DequeShape' /\ Waiting' /\ DequeTold'
    BY <2>1 DEF DequeInv, DequeShape, Waiting, Outstanding, Expected, DequeTold
  <2>3. Calm' => Fresh'
    BY <2>1 DEF DequeInv, Calm, Fresh, Known, Pending, Failed
  <2> QED BY <2>2, <2>3 DEF DequeInv
<1>2. ASSUME NEW command \in Commands, ModifierStarts(command) PROVE DequeInv'
  BY <1>2, ModifierStartsKeeps
<1>3. ASSUME NEW command \in Commands, OtherExecutes(command) PROVE DequeInv'
  BY <1>3, OtherKeeps
<1>4. CASE ModifierFinishes
  BY <1>4, ModifierFinishesKeeps
<1>5. CASE SizeCached
  BY <1>1, <1>5 DEF SizeCached
<1>6. CASE SizeAsks
  BY <1>6, SizeAsksKeeps
<1>7. CASE SizeReturns
  BY <1>7, SizeReturnsKeeps
<1>8. CASE DequeServerExecutes
  BY <1>8, DequeServerKeeps
<1>9. CASE OtherPrepares \/ OtherAnnounces
  BY <1>9, OtherKeeps
<1>10. CASE DequeReceives
  BY <1>10, DequeReceivesKeeps
<1>11. CASE DequeConnectionLost
  BY <1>11, DequeConnectionLostKeeps
<1>12. CASE DequeNotified
  BY <1>12, DequeNotifiedKeeps
<1>13. CASE DequeSubscribes
  BY <1>13, DequeSubscribesKeeps
<1> QED BY <1>1, <1>2, <1>3, <1>4, <1>5, <1>6, <1>7, <1>8, <1>9, <1>10, <1>11, <1>12, <1>13
        DEF DequeNext

LEMMA CacheFollows == DequeInv => CachedSizeFreshAtRest
<1> SUFFICES ASSUME DequeInv, pipeline = <<>>, toClient = <<>>, toNotify = {},
                    modifier.pc = "idle", other = "none", mCachedSizeValid, ~overtaken,
                    ~unannounced
             PROVE  mCachedSize = length
  BY DEF CachedSizeFreshAtRest
<1>1. Known(mCachedSize, 0)
  BY DEF DequeInv, Calm, Fresh
<1>2. DOMAIN pipeline = {} /\ DOMAIN toClient = {}
  OBVIOUS
<1> QED BY <1>1, <1>2 DEF Known, Pending

\* The size() a deque remembers is its size once everybody's operations are over
\* and announced, unless it was invalidated during size(), or the deque was told
\* of a connection before its subscriber (invalidateCachedSize(), size()).
THEOREM CachedSizeFollows == DequeSpec => []CachedSizeFreshAtRest
<1>1. DequeSpec => []DequeInv
  BY InitDeque, DequeStepsKeep, PTL DEF DequeSpec
<1> QED BY <1>1, CacheFollows, PTL

-----------------------------------------------------------------------------
(* BackgroundFlusher: the inductive invariant                                *)

ReplyKinds == {"ok", "error", "null"}

FlusherTypes ==
  /\ dbStart \in Nat /\ dbEnd \in Nat /\ startIndex \in Nat /\ endIndex \in Nat
  /\ replayed \in Nat /\ sent \in Nat
  /\ process \in {"up", "shutdown", "down"}
  /\ inFlight \in Seq(Nat) /\ replies \in Seq(ReplyKinds) /\ executed \in Seq(Nat)
  /\ confirmed \subseteq Int

\* One more than the last index the server executed: it is the highest the server
\* may meet next.
Reached == IF executed = <<>> THEN 0 ELSE executed[Len(executed)] + 1

\* The server executed without a gap, and at least what is gone from the queue.
ExecutedPrefix ==
  /\ \A k \in DOMAIN executed :
       executed[k] <= (IF k = 1 THEN 0 ELSE executed[k - 1] + 1)
  /\ \A index \in 0 .. Reached - 1 : \E k \in DOMAIN executed : executed[k] = index
  /\ dbStart <= Reached /\ Reached <= dbEnd

\* The batch is ahead of the counter while an item is being popped.
CounterFollows ==
  /\ process # "down" => dbStart = startIndex + (IF popping THEN 1 ELSE 0)
  /\ popping => replies # <<>> /\ replies[1] = "ok"
  /\ process = "down" =>
       inFlight = <<>> /\ replies = <<>> /\ sent = 0 /\ ~pushing /\ ~popping

\* Replies, then commands in flight, then those not handed over yet, are without
\* a gap from startIndex on.
NoGap ==
  process = "up" =>
    /\ endIndex = dbEnd /\ replayed <= endIndex
    /\ replayed = startIndex + Len(replies) + Len(inFlight) + (IF pushing THEN 1 ELSE 0)
    /\ pushing => replayed = endIndex
    /\ \A i \in 1 .. Len(inFlight) : inFlight[i] = startIndex + Len(replies) + i - 1
    /\ sent <= Len(inFlight)
    /\ startIndex + Len(replies) + sent <= Reached

\* A reply that is not null is about something the server has executed; null
\* replies are the last ones.
RepliesToExecuted ==
  /\ \A i \in 1 .. Len(replies) : replies[i] # "null" => startIndex + i <= Reached
  /\ \A i, j \in 1 .. Len(replies) : i < j /\ replies[i] = "null" => replies[j] = "null"
  /\ process = "up" => \A i \in 1 .. Len(replies) : replies[i] # "null"
  /\ process = "shutdown" => inFlight = <<>> /\ sent = 0 /\ ~pushing

ConfirmedGone ==
  \A index \in confirmed :
    /\ index < dbStart
    /\ process # "down" => index < startIndex

FlusherInv ==
  /\ FlusherTypes /\ ExecutedPrefix /\ CounterFollows /\ NoGap
  /\ RepliesToExecuted /\ ConfirmedGone

-----------------------------------------------------------------------------
LEMMA InitFlusherInv == FlusherInit => FlusherInv
<1> SUFFICES ASSUME FlusherInit PROVE FlusherInv
  OBVIOUS
<1>1. /\ inFlight = <<>> /\ replies = <<>> /\ executed = <<>>
      /\ Len(inFlight) = 0 /\ Len(replies) = 0 /\ DOMAIN executed = {}
      /\ inFlight \in Seq(Nat) /\ replies \in Seq(ReplyKinds) /\ executed \in Seq(Nat)
  BY DEF FlusherInit
<1>2. Reached = 0
  BY <1>1 DEF Reached
<1>3. FlusherTypes /\ CounterFollows /\ NoGap /\ ConfirmedGone
  BY <1>1, <1>2 DEF FlusherInit, FlusherTypes, CounterFollows, NoGap, ConfirmedGone
<1>4. ExecutedPrefix /\ RepliesToExecuted
  BY <1>1, <1>2 DEF FlusherInit, ExecutedPrefix, RepliesToExecuted
<1> QED BY <1>3, <1>4 DEF FlusherInv

\* What was executed concerns only the step of the server.
LEMMA SameReached == UNCHANGED executed => UNCHANGED Reached
BY DEF Reached

LEMMA ReachedType == FlusherTypes => Reached \in Nat
BY DEF FlusherTypes, Reached

\* pushRequest() and the constructor's loop add commands at the end.
LEMMA HandOverKeeps ==
  ASSUME FlusherInv, Record \/ PushExecutes \/ Replay PROVE FlusherInv'
<1> USE DEF FlusherInv
<1>1. /\ UNCHANGED <<dbStart, startIndex, popping, process, sent, replies, executed, confirmed>>
      /\ process = "up" /\ Reached' = Reached
      /\ dbEnd' = dbEnd \/ dbEnd' = dbEnd + 1
  BY SameReached DEF Record, PushExecutes, Replay, Running, clientVars, dbVars
<1>2. /\ dbStart \in Nat /\ dbEnd \in Nat /\ startIndex \in Nat /\ endIndex \in Nat
      /\ replayed \in Nat /\ sent \in Nat /\ Reached \in Nat
      /\ inFlight \in Seq(Nat) /\ Len(inFlight) \in Nat /\ Len(replies) \in Nat
  BY ReachedType DEF FlusherTypes
<1>3. ExecutedPrefix' /\ RepliesToExecuted' /\ ConfirmedGone' /\ CounterFollows'
  BY <1>1, <1>2 DEF ExecutedPrefix, RepliesToExecuted, ConfirmedGone, CounterFollows
<1>4. CASE Record
  <2>1. /\ dbEnd' = dbEnd + 1 /\ endIndex' = dbEnd + 1 /\ replayed' = dbEnd + 1
        /\ ~pushing /\ pushing' = TRUE /\ replayed >= endIndex /\ inFlight' = inFlight
    BY <1>4 DEF Record, clientVars
  <2>2. FlusherTypes'
    BY <1>1, <1>2, <2>1 DEF FlusherTypes
  <2>3. /\ endIndex = dbEnd /\ replayed = dbEnd
        /\ replayed = startIndex + Len(replies) + Len(inFlight)
    BY <1>1, <1>2, <2>1 DEF NoGap
  <2>4. replayed' = startIndex' + Len(replies') + Len(inFlight')
                      + (IF pushing' THEN 1 ELSE 0)
    BY <1>1, <1>2, <2>1, <2>3
  <2>5. NoGap'
    BY <1>1, <1>2, <2>1, <2>4 DEF NoGap
  <2> QED BY <1>3, <2>2, <2>5
<1>5. ASSUME NEW index \in Nat, inFlight' = Append(inFlight, index),
             index = startIndex + Len(replies) + Len(inFlight),
             UNCHANGED <<dbEnd, endIndex>>, ~pushing',
             replayed' = index + 1, replayed' <= endIndex
      PROVE  FlusherInv'
  <2>1. /\ inFlight' \in Seq(Nat) /\ Len(inFlight') = Len(inFlight) + 1
        /\ inFlight'[Len(inFlight) + 1] = index
        /\ \A i \in 1 .. Len(inFlight) : inFlight'[i] = inFlight[i]
    BY <1>2, <1>5
  <2>2. FlusherTypes'
    <3>1. replayed' \in Nat /\ endIndex' \in Nat /\ dbEnd' \in Nat
      BY <1>2, <1>5
    <3> QED BY <1>1, <2>1, <3>1 DEF FlusherTypes
  <2>3. \A i \in 1 .. Len(inFlight') : inFlight'[i] = startIndex' + Len(replies') + i - 1
    <3> SUFFICES ASSUME NEW i \in 1 .. Len(inFlight')
                 PROVE  inFlight'[i] = startIndex' + Len(replies') + i - 1
      OBVIOUS
    <3>1. CASE i = Len(inFlight) + 1
      BY <1>1, <1>2, <1>5, <2>1, <3>1
    <3>2. CASE i \in 1 .. Len(inFlight)
      BY <1>1, <2>1, <3>2 DEF NoGap
    <3> QED BY <1>2, <2>1, <3>1, <3>2
  <2>4. replayed' = startIndex' + Len(replies') + Len(inFlight')
    BY <1>1, <1>2, <1>5, <2>1
  <2>5. /\ sent' <= Len(inFlight') /\ endIndex' = dbEnd'
        /\ startIndex' + Len(replies') + sent' <= Reached'
    BY <1>1, <1>2, <1>5, <2>1 DEF NoGap
  <2>6. NoGap'
    BY <1>1, <1>2, <1>5, <2>1, <2>3, <2>4, <2>5 DEF NoGap
  <2> QED BY <1>3, <2>2, <2>6
<1>6. CASE PushExecutes
  <2>1. /\ inFlight' = Append(inFlight, endIndex - 1) /\ pushing /\ ~pushing'
        /\ UNCHANGED <<dbEnd, endIndex, replayed>>
    BY <1>6 DEF PushExecutes, dbVars
  <2>2. endIndex - 1 = startIndex + Len(replies) + Len(inFlight) /\ replayed = endIndex
    BY <1>1, <1>2, <2>1 DEF NoGap
  <2>3. endIndex - 1 \in Nat
    BY <1>2, <2>2
  <2>4. replayed' = (endIndex - 1) + 1 /\ replayed' <= endIndex
    BY <1>2, <2>1, <2>2
  <2> QED BY <1>5, <2>1, <2>2, <2>3, <2>4
<1>7. CASE Replay
  <2>1. /\ inFlight' = Append(inFlight, replayed) /\ replayed' = replayed + 1
        /\ replayed < endIndex /\ UNCHANGED <<dbEnd, endIndex, pushing>>
    BY <1>7 DEF Replay, dbVars
  <2>2. /\ ~pushing /\ replayed = startIndex + Len(replies) + Len(inFlight)
    BY <1>1, <1>2, <2>1 DEF NoGap, FlusherTypes
  <2>3. replayed' <= endIndex /\ ~pushing'
    BY <1>2, <2>1, <2>2
  <2> QED BY <1>2, <1>5, <2>1, <2>2, <2>3
<1> QED BY <1>4, <1>6, <1>7

\* The server executes the command after the last one, or an earlier one again.
LEMMA ServerKeeps == ASSUME FlusherInv, ServerExecutes PROVE FlusherInv'
<1> USE DEF FlusherInv
<1> DEFINE index == inFlight[sent + 1]
<1>1. /\ sent < Len(inFlight) /\ sent' = sent + 1 /\ executed' = Append(executed, index)
      /\ UNCHANGED <<dbStart, dbEnd, startIndex, endIndex, pushing, popping, replayed,
                     process, inFlight, replies, confirmed>>
  BY DEF ServerExecutes, dbVars, memoryVars
<1>2. /\ dbStart \in Nat /\ startIndex \in Nat /\ sent \in Nat /\ Reached \in Nat
      /\ Len(inFlight) \in Nat /\ Len(replies) \in Nat /\ Len(executed) \in Nat
      /\ inFlight \in Seq(Nat) /\ replies \in Seq(ReplyKinds) /\ executed \in Seq(Nat)
  BY ReachedType DEF FlusherTypes
<1>3. process = "up"
  <2>1. inFlight # <<>>
    BY <1>1, <1>2
  <2> QED BY <2>1 DEF FlusherTypes, CounterFollows, RepliesToExecuted
<1>4. index = startIndex + Len(replies) + sent /\ index \in Nat /\ index <= Reached
  <2>1. sent + 1 \in 1 .. Len(inFlight)
    BY <1>1, <1>2
  <2> QED BY <1>2, <1>3, <2>1 DEF NoGap
<1> HIDE DEF index
<1>5. /\ executed' \in Seq(Nat) /\ Len(executed') = Len(executed) + 1
      /\ executed'[Len(executed) + 1] = index
      /\ \A k \in 1 .. Len(executed) : executed'[k] = executed[k]
      /\ DOMAIN executed = 1 .. Len(executed)
      /\ DOMAIN executed' = 1 .. Len(executed) + 1
  BY <1>1, <1>2, <1>4
<1>6. Reached' = index + 1
  <2>1. executed' # <<>>
    BY <1>2, <1>5
  <2> QED BY <1>5, <2>1 DEF Reached
<1>7. ExecutedPrefix'
  <2>1. ASSUME NEW k \in DOMAIN executed'
        PROVE  executed'[k] <= (IF k = 1 THEN 0 ELSE executed'[k - 1] + 1)
    <3>1. CASE k \in 1 .. Len(executed)
      <4>1. k # 1 => k - 1 \in 1 .. Len(executed)
        BY <1>2, <3>1
      <4> QED BY <1>5, <3>1, <4>1 DEF ExecutedPrefix
    <3>2. CASE k = Len(executed) + 1
      <4>1. CASE Len(executed) = 0
        <5>1. executed = <<>> /\ k = 1
          BY <1>2, <3>2, <4>1
        <5>2. Reached = 0
          BY <5>1 DEF Reached
        <5> QED BY <1>2, <1>4, <1>5, <3>2, <5>1, <5>2
      <4>2. CASE Len(executed) # 0
        <5>1. Len(executed) \in 1 .. Len(executed) /\ executed # <<>> /\ k # 1
              /\ k - 1 = Len(executed)
          BY <1>2, <3>2, <4>2
        <5>2. Reached = executed[Len(executed)] + 1
          BY <5>1 DEF Reached
        <5>3. executed'[k - 1] = executed[Len(executed)]
          BY <1>5, <5>1
        <5> QED BY <1>4, <1>5, <3>2, <5>1, <5>2, <5>3
      <4> QED BY <4>1, <4>2
    <3> QED BY <1>2, <1>5, <2>1, <3>1, <3>2
  <2>2. ASSUME NEW i \in 0 .. Reached' - 1
        PROVE  \E k \in DOMAIN executed' : executed'[k] = i
    <3>1. CASE i = index
      <4>1. Len(executed) + 1 \in DOMAIN executed'
        BY <1>2, <1>5
      <4> QED BY <1>5, <3>1, <4>1
    <3>2. CASE i # index
      <4>1. i \in 0 .. Reached - 1
        BY <1>2, <1>4, <1>6, <3>2
      <4>2. PICK k \in DOMAIN executed : executed[k] = i
        BY <4>1 DEF ExecutedPrefix
      <4>3. k \in DOMAIN executed' /\ executed'[k] = i
        BY <1>2, <1>5, <4>2
      <4> QED BY <4>3
    <3> QED BY <3>1, <3>2
  <2>3. dbStart' <= Reached'
    <3>1. dbStart <= startIndex + Len(replies)
      <4>1. popping => Len(replies) >= 1
        BY <1>2 DEF CounterFollows
      <4> QED BY <1>2, <1>3, <4>1 DEF CounterFollows
    <3> QED BY <1>1, <1>2, <1>4, <1>6, <3>1
  <2>4. Reached' <= dbEnd'
    <3>1. dbEnd \in Nat /\ replayed \in Nat /\ index < replayed /\ replayed <= dbEnd
      BY <1>1, <1>2, <1>3, <1>4 DEF FlusherTypes, NoGap
    <3> QED BY <1>1, <1>4, <1>6, <3>1
  <2> QED BY <2>1, <2>2, <2>3, <2>4 DEF ExecutedPrefix
<1>8. FlusherTypes' /\ CounterFollows' /\ ConfirmedGone'
  BY <1>1, <1>2, <1>3, <1>5 DEF FlusherTypes, CounterFollows, ConfirmedGone
<1>9. NoGap'
  BY <1>1, <1>2, <1>3, <1>4, <1>6 DEF NoGap
<1>10. RepliesToExecuted'
  <2>1. ASSUME NEW i \in 1 .. Len(replies) PROVE startIndex + i <= Reached'
    BY <1>2, <1>4, <1>6
  <2> QED BY <1>1, <1>3, <2>1 DEF RepliesToExecuted
<1> QED BY <1>7, <1>8, <1>9, <1>10

-----------------------------------------------------------------------------
(* Replies                                                                   *)

LEMMA ReplyKeeps == ASSUME FlusherInv, ReplyArrives PROVE FlusherInv'
<1> USE DEF FlusherInv
<1>1. PICK reply \in {"ok", "error"} : replies' = Append(replies, reply)
  BY DEF ReplyArrives
<1>2. /\ sent > 0 /\ sent' = sent - 1 /\ inFlight' = Tail(inFlight)
      /\ UNCHANGED <<dbStart, dbEnd, startIndex, endIndex, pushing, popping, replayed,
                     process, executed, confirmed>>
  BY DEF ReplyArrives, dbVars, memoryVars
<1>3. /\ dbStart \in Nat /\ startIndex \in Nat /\ sent \in Nat /\ Reached \in Nat
      /\ Len(inFlight) \in Nat /\ Len(replies) \in Nat
      /\ inFlight \in Seq(Nat) /\ replies \in Seq(ReplyKinds) /\ Reached' = Reached
  BY <1>2, ReachedType, SameReached DEF FlusherTypes
<1>4. process = "up"
  BY <1>2 DEF FlusherTypes, CounterFollows, RepliesToExecuted
<1>5. /\ sent <= Len(inFlight) /\ Len(inFlight) >= 1 /\ inFlight # <<>>
  BY <1>2, <1>3, <1>4 DEF NoGap
<1>6. /\ inFlight' \in Seq(Nat) /\ Len(inFlight') = Len(inFlight) - 1
      /\ \A i \in 1 .. Len(inFlight') : inFlight'[i] = inFlight[i + 1]
  BY <1>2, <1>3, <1>5
<1>7. /\ replies' \in Seq(ReplyKinds) /\ Len(replies') = Len(replies) + 1
      /\ replies'[Len(replies) + 1] = reply /\ reply # "null"
      /\ \A i \in 1 .. Len(replies) : replies'[i] = replies[i]
  BY <1>1, <1>3 DEF ReplyKinds
<1>8. sent - 1 \in Nat
  BY <1>2, <1>3
<1>9. FlusherTypes' /\ ExecutedPrefix' /\ ConfirmedGone'
  BY <1>2, <1>3, <1>6, <1>7, <1>8 DEF FlusherTypes, ExecutedPrefix, ConfirmedGone
<1>10. CounterFollows'
  <2>1. popping => replies'[1] = "ok"
    BY <1>3, <1>7 DEF CounterFollows
  <2>2. replies' # <<>>
    BY <1>3, <1>7
  <2> QED BY <1>2, <1>4, <2>1, <2>2 DEF CounterFollows
<1>11. NoGap'
  <2>1. \A i \in 1 .. Len(inFlight') : inFlight'[i] = startIndex + Len(replies') + i - 1
    <3> SUFFICES ASSUME NEW i \in 1 .. Len(inFlight')
                 PROVE  inFlight'[i] = startIndex + Len(replies') + i - 1
      OBVIOUS
    <3>1. i + 1 \in 1 .. Len(inFlight)
      BY <1>3, <1>6
    <3>2. inFlight[i + 1] = startIndex + Len(replies) + (i + 1) - 1
      BY <1>4, <3>1 DEF NoGap
    <3> QED BY <1>3, <1>6, <1>7, <3>2
  <2>2. /\ startIndex + Len(replies') + sent' = startIndex + Len(replies) + sent
        /\ Len(replies') + Len(inFlight') = Len(replies) + Len(inFlight)
    BY <1>2, <1>3, <1>6, <1>7
  <2>3. replayed' = startIndex' + Len(replies') + Len(inFlight')
                      + (IF pushing' THEN 1 ELSE 0)
    BY <1>2, <1>3, <1>4, <1>6, <1>7 DEF NoGap
  <2> QED BY <1>2, <1>3, <1>4, <1>6, <2>1, <2>2, <2>3 DEF NoGap
<1>12. RepliesToExecuted'
  <2>1. ASSUME NEW i \in 1 .. Len(replies')
        PROVE  startIndex + i <= Reached /\ replies'[i] # "null"
    <3>1. CASE i = Len(replies) + 1
      BY <1>2, <1>3, <1>4, <1>7, <3>1 DEF NoGap
    <3>2. CASE i \in 1 .. Len(replies)
      BY <1>4, <1>7, <3>2 DEF RepliesToExecuted
    <3> QED BY <1>3, <1>7, <3>1, <3>2
  <2> QED BY <1>2, <1>3, <1>4, <2>1 DEF RepliesToExecuted
<1> QED BY <1>9, <1>10, <1>11, <1>12

\* Replies of the tail are those of the sequence, one further.
LEMMA TailReplies ==
  ASSUME replies \in Seq(ReplyKinds), replies # <<>>, replies' = Tail(replies)
  PROVE  /\ replies' \in Seq(ReplyKinds) /\ Len(replies) \in Nat
         /\ Len(replies') = Len(replies) - 1 /\ Len(replies') \in Nat
         /\ 1 \in 1 .. Len(replies) /\ Head(replies) = replies[1]
         /\ \A i \in 1 .. Len(replies') :
              replies'[i] = replies[i + 1] /\ i + 1 \in 1 .. Len(replies)
OBVIOUS

\* pop(): the batch takes what the server has executed, then the counter follows.
LEMMA AcknowledgedKeeps == ASSUME FlusherInv, Acknowledged PROVE FlusherInv'
<1> USE DEF FlusherInv
<1>1. /\ process # "down" /\ replies # <<>> /\ Head(replies) = "ok"
      /\ UNCHANGED <<dbEnd, endIndex, pushing, replayed, process, inFlight, sent,
                     executed, confirmed>>
  BY DEF Acknowledged
<1>2. /\ dbStart \in Nat /\ startIndex \in Nat /\ sent \in Nat /\ Reached \in Nat
      /\ Len(inFlight) \in Nat /\ Len(replies) \in Nat /\ replies \in Seq(ReplyKinds)
      /\ Reached' = Reached
  BY <1>1, ReachedType, SameReached DEF FlusherTypes
<1>3. 1 \in 1 .. Len(replies) /\ replies[1] = "ok" /\ Len(replies) >= 1
  BY <1>1, <1>2
<1>4. startIndex + 1 <= Reached
  BY <1>3 DEF RepliesToExecuted
<1>5. CASE ~popping
  <2>1. popping' = TRUE /\ dbStart' = dbStart + 1 /\ UNCHANGED <<startIndex, replies>>
    BY <1>5 DEF Acknowledged, Pop
  <2>2. dbStart = startIndex
    BY <1>1, <1>2, <1>5 DEF CounterFollows
  <2>3. FlusherTypes' /\ ExecutedPrefix'
    BY <1>1, <1>2, <1>4, <2>1, <2>2 DEF FlusherTypes, ExecutedPrefix
  <2>4. CounterFollows'
    BY <1>1, <1>2, <1>3, <2>1, <2>2 DEF CounterFollows
  <2>5. ConfirmedGone'
    <3>1. confirmed \subseteq Int
      BY DEF FlusherTypes
    <3> QED BY <1>1, <1>2, <2>1, <3>1 DEF ConfirmedGone
  <2>6. NoGap' /\ RepliesToExecuted'
    BY <1>1, <1>2, <2>1 DEF NoGap, RepliesToExecuted
  <2> QED BY <2>3, <2>4, <2>5, <2>6
<1>6. CASE popping
  <2>1. popping' = FALSE /\ startIndex' = startIndex + 1 /\ replies' = Tail(replies)
        /\ UNCHANGED dbStart
    BY <1>6 DEF Acknowledged, Pop
  <2>2. dbStart = startIndex + 1
    BY <1>1, <1>2, <1>6 DEF CounterFollows
  <2>3. /\ replies' \in Seq(ReplyKinds) /\ Len(replies') = Len(replies) - 1
        /\ \A i \in 1 .. Len(replies') :
             replies'[i] = replies[i + 1] /\ i + 1 \in 1 .. Len(replies)
    BY <1>1, <1>2, <2>1, TailReplies
  <2>4. FlusherTypes' /\ ExecutedPrefix'
    <3>1. startIndex' \in Nat
      BY <1>2, <2>1
    <3> QED BY <1>1, <1>2, <2>1, <2>3, <3>1 DEF FlusherTypes, ExecutedPrefix
  <2>5. CounterFollows' /\ ConfirmedGone'
    <3>1. confirmed \subseteq Int
      BY DEF FlusherTypes
    <3> QED BY <1>1, <1>2, <2>1, <2>2, <3>1 DEF CounterFollows, ConfirmedGone
  <2>6. startIndex' + Len(replies') = startIndex + Len(replies)
    BY <1>2, <2>1, <2>3
  <2>7. NoGap'
    BY <1>1, <1>2, <2>6 DEF NoGap
  <2>8. \A i \in 1 .. Len(replies') : replies'[i] # "null" => startIndex' + i <= Reached
    BY <1>2, <2>1, <2>3 DEF RepliesToExecuted
  <2>9. \A i, j \in 1 .. Len(replies') :
          i < j /\ replies'[i] = "null" => replies'[j] = "null"
    BY <1>2, <2>3 DEF RepliesToExecuted
  <2>10. RepliesToExecuted'
    BY <1>1, <1>2, <2>3, <2>8, <2>9 DEF RepliesToExecuted
  <2> QED BY <2>4, <2>5, <2>7, <2>10
<1> QED BY <1>2, <1>5, <1>6

LEMMA NullKeeps == ASSUME FlusherInv, NullReply PROVE FlusherInv'
<1> USE DEF FlusherInv
<1>1. /\ process = "shutdown" /\ replies # <<>> /\ Head(replies) = "null"
      /\ replies' = Tail(replies)
      /\ UNCHANGED <<dbStart, dbEnd, startIndex, endIndex, pushing, popping, replayed,
                     process, inFlight, sent, executed, confirmed>>
  BY DEF NullReply, dbVars, memoryVars
<1>2. /\ replies \in Seq(ReplyKinds) /\ Reached' = Reached
  BY <1>1, SameReached DEF FlusherTypes
<1>3. /\ replies' \in Seq(ReplyKinds) /\ Len(replies') = Len(replies) - 1
      /\ 1 \in 1 .. Len(replies) /\ Head(replies) = replies[1] /\ Len(replies) \in Nat
      /\ \A i \in 1 .. Len(replies') :
           replies'[i] = replies[i + 1] /\ i + 1 \in 1 .. Len(replies)
  BY <1>1, <1>2, TailReplies
<1>4. \A i \in 1 .. Len(replies') : replies'[i] = "null"
  <2> SUFFICES ASSUME NEW i \in 1 .. Len(replies') PROVE replies[i + 1] = "null"
    BY <1>3
  <2>1. i + 1 \in 1 .. Len(replies) /\ 1 < i + 1
    BY <1>3
  <2> QED BY <1>1, <1>3, <2>1 DEF RepliesToExecuted
<1>5. ~popping
  BY <1>1, <1>3 DEF CounterFollows
<1> QED BY <1>1, <1>2, <1>3, <1>4, <1>5
        DEF FlusherTypes, ExecutedPrefix, CounterFollows, NoGap, RepliesToExecuted,
            ConfirmedGone

-----------------------------------------------------------------------------
(* Reconnections, ends of the process, and waiting                           *)

LEMMA FlusherReconnectKeeps == ASSUME FlusherInv, FlusherReconnects PROVE FlusherInv'
<1> USE DEF FlusherInv
<1>1. /\ sent' = 0
      /\ UNCHANGED <<dbStart, dbEnd, startIndex, endIndex, pushing, popping, replayed,
                     process, inFlight, replies, executed, confirmed>>
      /\ Reached' = Reached
  BY SameReached DEF FlusherReconnects, dbVars, memoryVars
<1>2. /\ startIndex \in Nat /\ sent \in Nat /\ Reached \in Nat
      /\ Len(inFlight) \in Nat /\ Len(replies) \in Nat /\ sent' \in Nat
  BY <1>1, ReachedType DEF FlusherTypes
<1>3. FlusherTypes' /\ ExecutedPrefix' /\ CounterFollows' /\ ConfirmedGone'
  BY <1>1, <1>2 DEF FlusherTypes, ExecutedPrefix, CounterFollows, ConfirmedGone
<1>4. NoGap'
  BY <1>1, <1>2 DEF NoGap
<1>5. RepliesToExecuted'
  BY <1>1 DEF RepliesToExecuted
<1> QED BY <1>3, <1>4, <1>5

LEMMA GoneKeeps ==
  ASSUME FlusherInv, Crash \/ ErrorReply \/ ShutdownDone PROVE FlusherInv'
<1> USE DEF FlusherInv
<1>1. /\ process' = "down" /\ inFlight' = <<>> /\ sent' = 0 /\ replies' = <<>>
      /\ ~pushing' /\ ~popping'
      /\ UNCHANGED <<startIndex, endIndex, replayed, dbStart, dbEnd, executed, confirmed>>
      /\ Reached' = Reached
  BY SameReached DEF Crash, ErrorReply, ShutdownDone, Gone, dbVars
<1>2. /\ inFlight' \in Seq(Nat) /\ replies' \in Seq(ReplyKinds) /\ Len(replies') = 0
      /\ sent' \in Nat
  BY <1>1
<1>3. FlusherTypes'
  BY <1>1, <1>2 DEF FlusherTypes
<1>4. ExecutedPrefix' /\ CounterFollows' /\ ConfirmedGone'
  BY <1>1 DEF ExecutedPrefix, CounterFollows, ConfirmedGone
<1>5. NoGap' /\ RepliesToExecuted'
  BY <1>1, <1>2 DEF NoGap, RepliesToExecuted
<1> QED BY <1>3, <1>4, <1>5

LEMMA ShutdownKeeps == ASSUME FlusherInv, Shutdown PROVE FlusherInv'
<1> USE DEF FlusherInv
<1> DEFINE nulls == [i \in DOMAIN inFlight |-> "null"]
<1>1. /\ process = "up" /\ ~pushing /\ process' = "shutdown"
      /\ replies' = replies \o nulls /\ inFlight' = <<>> /\ sent' = 0
      /\ UNCHANGED <<dbStart, dbEnd, startIndex, endIndex, pushing, popping, replayed,
                     executed, confirmed>>
      /\ Reached' = Reached
  BY SameReached DEF Shutdown, Recovered, Running, dbVars, memoryVars
<1>2. /\ replies \in Seq(ReplyKinds) /\ Len(replies) \in Nat /\ Len(inFlight) \in Nat
      /\ DOMAIN inFlight = 1 .. Len(inFlight)
  BY DEF FlusherTypes
<1>3. nulls \in Seq(ReplyKinds) /\ Len(nulls) = Len(inFlight)
      /\ \A i \in 1 .. Len(inFlight) : nulls[i] = "null"
  BY <1>2 DEF ReplyKinds
<1> HIDE DEF nulls
<1>4. /\ replies' \in Seq(ReplyKinds) /\ Len(replies') = Len(replies) + Len(inFlight)
      /\ \A i \in 1 .. Len(replies) : replies'[i] = replies[i]
      /\ \A i \in Len(replies) + 1 .. Len(replies') :
           replies'[i] = nulls[i - Len(replies)]
  BY <1>1, <1>2, <1>3
<1>5. \A i \in Len(replies) + 1 .. Len(replies') : replies'[i] = "null"
  <2> SUFFICES ASSUME NEW i \in Len(replies) + 1 .. Len(replies')
               PROVE  nulls[i - Len(replies)] = "null"
    BY <1>4
  <2>1. i - Len(replies) \in 1 .. Len(inFlight)
    BY <1>2, <1>4
  <2> QED BY <1>3, <2>1
<1>6. /\ inFlight' \in Seq(Nat)
  BY <1>1
<1>7. FlusherTypes' /\ ExecutedPrefix' /\ ConfirmedGone' /\ NoGap'
  BY <1>1, <1>4, <1>6 DEF FlusherTypes, ExecutedPrefix, ConfirmedGone, NoGap
<1>8. CounterFollows'
  <2>1. popping => 1 \in 1 .. Len(replies) /\ replies' # <<>>
    BY <1>2, <1>4 DEF CounterFollows
  <2> QED BY <1>1, <1>4, <2>1 DEF CounterFollows
<1>9. RepliesToExecuted'
  <2>1. ASSUME NEW i \in 1 .. Len(replies'), replies'[i] # "null"
        PROVE  i \in 1 .. Len(replies)
    BY <1>2, <1>4, <1>5, <2>1
  <2>2. ASSUME NEW i \in 1 .. Len(replies'), NEW j \in 1 .. Len(replies'),
               i < j, replies'[i] = "null"
        PROVE  replies'[j] = "null"
    <3>1. i \notin 1 .. Len(replies)
      BY <1>1, <1>4, <2>2 DEF RepliesToExecuted
    <3>2. j \in Len(replies) + 1 .. Len(replies')
      BY <1>2, <1>4, <2>2, <3>1
    <3> QED BY <1>5, <3>2
  <2>3. \A i \in 1 .. Len(replies') : replies'[i] # "null" => startIndex' + i <= Reached'
    BY <1>1, <1>4, <2>1 DEF RepliesToExecuted
  <2> QED BY <1>1, <2>2, <2>3 DEF RepliesToExecuted
<1> QED BY <1>7, <1>8, <1>9

\* A new process starts from what is recorded.
LEMMA RestartKeeps == ASSUME FlusherInv, Restart PROVE FlusherInv'
<1> USE DEF FlusherInv
<1>1. /\ process = "down" /\ process' = "up"
      /\ startIndex' = dbStart /\ endIndex' = dbEnd /\ replayed' = dbStart
      /\ inFlight = <<>> /\ replies = <<>> /\ sent = 0 /\ ~pushing /\ ~popping
      /\ UNCHANGED <<dbStart, dbEnd, pushing, popping, inFlight, sent, replies, executed,
                     confirmed>>
      /\ Reached' = Reached
  BY SameReached DEF Restart, CounterFollows, dbVars, clientVars
<1>2. /\ Len(inFlight') = 0 /\ Len(replies') = 0 /\ dbStart \in Nat /\ dbEnd \in Nat
      /\ dbStart <= Reached
  BY <1>1 DEF FlusherTypes, ExecutedPrefix
<1>3. FlusherTypes' /\ ExecutedPrefix'
  BY <1>1, <1>2 DEF FlusherTypes, ExecutedPrefix
<1>4. CounterFollows' /\ ConfirmedGone'
  BY <1>1, <1>2 DEF CounterFollows, ConfirmedGone
<1>5. dbStart <= dbEnd
  BY <1>2, ReachedType DEF FlusherTypes, ExecutedPrefix
<1>6. NoGap' /\ RepliesToExecuted'
  BY <1>1, <1>2, <1>5 DEF NoGap, RepliesToExecuted
<1> QED BY <1>3, <1>4, <1>6

LEMMA WaitKeeps ==
  ASSUME FlusherInv, NEW index \in Int, WaitReturns(index) PROVE FlusherInv'
<1> USE DEF FlusherInv
<1>1. /\ process # "down" /\ index < startIndex /\ confirmed' = confirmed \cup {index}
      /\ UNCHANGED <<dbStart, dbEnd, startIndex, endIndex, pushing, popping, replayed,
                     process, inFlight, sent, replies, executed>>
      /\ Reached' = Reached
  BY SameReached DEF WaitReturns, dbVars, memoryVars, clientVars
<1>2. index < dbStart
  BY <1>1 DEF CounterFollows, FlusherTypes
<1>3. FlusherTypes' /\ ConfirmedGone'
  BY <1>1, <1>2 DEF FlusherTypes, ConfirmedGone
<1> QED BY <1>1, <1>3 DEF ExecutedPrefix, CounterFollows, NoGap, RepliesToExecuted

-----------------------------------------------------------------------------
LEMMA NextFlusherInv == FlusherInv /\ [FlusherNext]_flusherVars => FlusherInv'
<1> SUFFICES ASSUME FlusherInv, [FlusherNext]_flusherVars PROVE FlusherInv'
  OBVIOUS
<1>1. CASE UNCHANGED flusherVars
  <2>1. /\ UNCHANGED <<dbStart, dbEnd, startIndex, endIndex, pushing, popping, replayed,
                       process, inFlight, sent, replies, executed, confirmed>>
        /\ Reached' = Reached
    BY <1>1, SameReached DEF flusherVars, dbVars, memoryVars, clientVars
  <2> QED BY <2>1
          DEF FlusherInv, FlusherTypes, ExecutedPrefix, CounterFollows, NoGap,
              RepliesToExecuted, ConfirmedGone
<1>2. ASSUME NEW index \in 0 .. MaxItems - 1, WaitReturns(index) PROVE FlusherInv'
  BY <1>2, WaitKeeps
<1> QED BY <1>1, <1>2, HandOverKeeps, ServerKeeps, ReplyKeeps, AcknowledgedKeeps,
           NullKeeps, FlusherReconnectKeeps, GoneKeeps, ShutdownKeeps, RestartKeeps
        DEF FlusherNext

LEMMA FlusherInvHolds == FlusherSpec => []FlusherInv
BY InitFlusherInv, NextFlusherInv, PTL DEF FlusherSpec

\* BackgroundFlusher and RocksDBPersistency, over any number of crashes and
\* reconnections: the server meets commands first in the order they were recorded,
\* pop() removes only what was executed, the constructor finds each item it
\* retrieves, and at rest nothing is left.
THEOREM FlushesInOrder == FlusherSpec => []FlushedInOrder
<1>1. FlusherInv => FlushedInOrder
  <2> SUFFICES ASSUME FlusherInv PROVE FlushedInOrder
    OBVIOUS
  <2> USE DEF FlusherInv
  <2>1. /\ dbStart \in Nat /\ startIndex \in Nat /\ replayed \in Nat /\ Reached \in Nat
        /\ Len(replies) \in Nat /\ Len(inFlight) \in Nat
        /\ replies \in Seq(ReplyKinds) /\ inFlight \in Seq(Nat)
    BY ReachedType DEF FlusherTypes
  <2>2. ASSUME process = "up" PROVE replayed >= dbStart
    <3>1. popping => Len(replies) >= 1
      BY <2>1 DEF CounterFollows
    <3> QED BY <2>1, <2>2, <3>1 DEF NoGap, CounterFollows
  <2>3. \A index \in 0 .. dbStart - 1 : \E k \in DOMAIN executed : executed[k] = index
    BY <2>1 DEF ExecutedPrefix
  <2>4. AtFlusherRest => startIndex = endIndex
    <3> SUFFICES ASSUME AtFlusherRest PROVE startIndex = endIndex
      OBVIOUS
    <3>1. Len(replies) = 0 /\ Len(inFlight) = 0 /\ ~pushing /\ process = "up"
          /\ replayed = dbEnd
      BY DEF AtFlusherRest, Recovered, Running
    <3> QED BY <2>1, <3>1 DEF NoGap
  <2> QED BY <2>2, <2>3, <2>4 DEF FlushedInOrder, ExecutedPrefix, Running
<1> QED BY <1>1, FlusherInvHolds, PTL

\* What waitForIndex() said is done is not executed again, by no later process.
THEOREM ConfirmedIsFinal == FlusherSpec => NeverRepeatedOnceConfirmed
<1> DEFINE Never == \A index \in confirmed :
              Len(executed') > Len(executed) => executed'[Len(executed')] # index
<1>1. FlusherInv /\ [FlusherNext]_flusherVars => [Never]_flusherVars
  <2> SUFFICES ASSUME FlusherInv, FlusherNext, NEW index \in confirmed,
                      Len(executed') > Len(executed)
               PROVE  executed'[Len(executed')] # index
    BY DEF flusherVars
  <2> USE DEF FlusherInv
  <2>1. executed \in Seq(Nat) /\ Len(executed) \in Nat /\ index \in Int
        /\ startIndex \in Nat /\ sent \in Nat /\ Len(replies) \in Nat /\ Len(inFlight) \in Nat
        /\ inFlight \in Seq(Nat)
    BY DEF FlusherTypes
  <2>2. executed' # executed
    BY <2>1
  <2>3. ServerExecutes
    BY <2>2, Zenon
    DEF FlusherNext, Record, PushExecutes, ReplyArrives, FlusherReconnects, Acknowledged,
        NullReply, ErrorReply, WaitReturns, Crash, Shutdown, ShutdownDone, Restart, Replay
  <2>4. sent < Len(inFlight) /\ executed' = Append(executed, inFlight[sent + 1])
    BY <2>3 DEF ServerExecutes
  <2>5. process = "up"
    <3>1. inFlight # <<>>
      BY <2>1, <2>4
    <3> QED BY <3>1 DEF FlusherTypes, CounterFollows, RepliesToExecuted
  <2>6. sent + 1 \in 1 .. Len(inFlight)
    BY <2>1, <2>4
  <2>7. inFlight[sent + 1] = startIndex + Len(replies) + sent /\ inFlight[sent + 1] \in Nat
    BY <2>1, <2>5, <2>6 DEF NoGap
  <2>8. executed'[Len(executed')] = inFlight[sent + 1]
    BY <2>1, <2>4, <2>7
  <2>9. index < startIndex
    BY <2>5 DEF ConfirmedGone
  <2> QED BY <2>1, <2>7, <2>8, <2>9
<1> QED BY <1>1, FlusherInvHolds, PTL DEF FlusherSpec, NeverRepeatedOnceConfirmed
=============================================================================
