------------------------- MODULE Communicator_proofs -------------------------
(***************************************************************************)
(* For any size of the cache, any number of requests, and whatever the        *)
(* network, the issuers and the destructor do: a CommunicatorListener hands    *)
(* each request over once, unless as many others as its cache holds came in    *)
(* between; and a future gets the answer that was given to its own request,    *)
(* or a broken promise.                                                        *)
(***************************************************************************)
EXTENDS Communicator, SequenceTheorems, WellFoundedInduction, TLAPS

-----------------------------------------------------------------------------
(* The inductive invariant                                                   *)

\* mAlreadyReceived holds what was handed over last.
Window ==
  /\ \E ids : processed \in Seq(ids) /\ mAlreadyReceived \in Seq(ids)
  /\ Len(mAlreadyReceived) <= CacheSize
  /\ Len(mAlreadyReceived) <= Len(processed)
  /\ Len(mAlreadyReceived) < CacheSize => Len(mAlreadyReceived) = Len(processed)
  /\ \A i \in 1 .. Len(mAlreadyReceived) :
       mAlreadyReceived[i] = processed[Len(processed) - Len(mAlreadyReceived) + i]

ListenerInv == Window /\ HandledOnce

LEMMA InitListenerInv == CommunicatorInit => ListenerInv
<1> SUFFICES ASSUME CommunicatorInit PROVE ListenerInv
  OBVIOUS
<1>1. /\ processed = <<>> /\ mAlreadyReceived = <<>>
      /\ Len(processed) = 0 /\ Len(mAlreadyReceived) = 0 /\ DOMAIN processed = {}
      /\ processed \in Seq({}) /\ mAlreadyReceived \in Seq({})
  BY DEF CommunicatorInit
<1> QED BY <1>1, CommunicatorAssumption DEF ListenerInv, Window, HandledOnce

\* How many elements are remembered after one more.
OneMore(s) == IF Len(s) = CacheSize THEN Len(s) ELSE Len(s) + 1

\* Keeping the last elements of a sequence that was short enough before.
LEMMA LastNOfAppended ==
  ASSUME NEW ids, NEW s \in Seq(ids), NEW id \in ids, Len(s) <= CacheSize
  PROVE  /\ LastN(Append(s, id)) \in Seq(ids)
         /\ Len(LastN(Append(s, id))) = OneMore(s)
         /\ \A i \in 1 .. OneMore(s) :
              LastN(Append(s, id))[i] = Append(s, id)[Len(s) + 1 - OneMore(s) + i]
<1> DEFINE q == Append(s, id)
<1>1. q \in Seq(ids) /\ Len(q) = Len(s) + 1 /\ Len(s) \in Nat /\ CacheSize \in Nat
  BY CommunicatorAssumption
<1> HIDE DEF q
<1>2. CASE Len(s) = CacheSize
  <2>1. LastN(q) = SubSeq(q, 2, Len(s) + 1)
    BY <1>1, <1>2 DEF LastN
  <2>2. /\ SubSeq(q, 2, Len(s) + 1) \in Seq(ids)
        /\ Len(SubSeq(q, 2, Len(s) + 1)) = Len(s)
        /\ \A i \in 1 .. Len(s) : SubSeq(q, 2, Len(s) + 1)[i] = q[1 + i]
    BY <1>1
  <2>3. \A i \in 1 .. Len(s) : Len(s) + 1 - Len(s) + i = 1 + i
    BY <1>1
  <2> QED BY <1>2, <2>1, <2>2, <2>3 DEF q, OneMore
<1>3. CASE Len(s) # CacheSize
  <2>1. LastN(q) = SubSeq(q, 1, Len(s) + 1)
    <3>1. ~(Len(q) > CacheSize)
      BY <1>1, <1>3
    <3> QED BY <1>1, <3>1 DEF LastN
  <2>2. /\ SubSeq(q, 1, Len(s) + 1) \in Seq(ids)
        /\ Len(SubSeq(q, 1, Len(s) + 1)) = Len(s) + 1
        /\ \A i \in 1 .. Len(s) + 1 : SubSeq(q, 1, Len(s) + 1)[i] = q[i]
    BY <1>1
  <2>3. \A i \in 1 .. Len(s) + 1 : Len(s) + 1 - (Len(s) + 1) + i = i
    BY <1>1
  <2> QED BY <1>3, <2>1, <2>2, <2>3 DEF q, OneMore
<1> QED BY <1>2, <1>3

\* A request that is handed over is none of the last ones.
LEMMA AcceptKeeps ==
  ASSUME ListenerInv, NEW message, ListenerAccepts(message) PROVE ListenerInv'
<1> DEFINE id == message.id
           n == Len(processed)
           m == Len(mAlreadyReceived)
<1>1. /\ processed' = Append(processed, id)
      /\ mAlreadyReceived' = LastN(Append(mAlreadyReceived, id))
      /\ ~AlreadyReceived(id)
  BY DEF ListenerAccepts, Remember
<1>2. PICK known : processed \in Seq(known) /\ mAlreadyReceived \in Seq(known)
  BY DEF ListenerInv, Window
<1> DEFINE ids == known \cup {id}
<1>3. /\ processed \in Seq(ids) /\ mAlreadyReceived \in Seq(ids) /\ id \in ids
      /\ n \in Nat /\ m \in Nat /\ CacheSize \in Nat
      /\ DOMAIN processed = 1 .. n /\ DOMAIN mAlreadyReceived = 1 .. m
  BY <1>2, CommunicatorAssumption
<1>4. /\ m <= CacheSize /\ m <= n /\ (m < CacheSize => m = n)
      /\ \A i \in 1 .. m : mAlreadyReceived[i] = processed[n - m + i]
  BY DEF ListenerInv, Window
<1> HIDE DEF id, ids
<1>5. /\ processed' \in Seq(ids) /\ Len(processed') = n + 1
      /\ processed'[n + 1] = id /\ \A i \in 1 .. n : processed'[i] = processed[i]
      /\ DOMAIN processed' = 1 .. n + 1
  BY <1>1, <1>3
<1> DEFINE after == OneMore(mAlreadyReceived)
<1>6. /\ mAlreadyReceived' \in Seq(ids) /\ Len(mAlreadyReceived') = after
      /\ \A i \in 1 .. after :
           mAlreadyReceived'[i] = Append(mAlreadyReceived, id)[m + 1 - after + i]
  BY <1>1, <1>3, <1>4, LastNOfAppended
<1>7. /\ Append(mAlreadyReceived, id)[m + 1] = id
      /\ \A j \in 1 .. m : Append(mAlreadyReceived, id)[j] = mAlreadyReceived[j]
  BY <1>3
<1>8. after = IF m = CacheSize THEN m ELSE m + 1
  BY DEF OneMore
<1> HIDE DEF after, n, m
<1>9. after \in Nat /\ after <= m + 1 /\ after <= CacheSize /\ m + 1 - after \in Nat
      /\ after <= n + 1 /\ (after < CacheSize => after = n + 1)
  BY <1>3, <1>4, <1>8
<1>10. ASSUME NEW i \in 1 .. after
      PROVE  mAlreadyReceived'[i] = processed'[(n + 1) - after + i]
  <2> DEFINE j == m + 1 - after + i
  <2>1. j \in 1 .. m + 1 /\ (n + 1) - after + i = n - m + j
    BY <1>3, <1>9
  <2>2. mAlreadyReceived'[i] = Append(mAlreadyReceived, id)[j]
    BY <1>6
  <2> HIDE DEF j
  <2>3. CASE j = m + 1
    <3>1. n - m + j = n + 1
      BY <1>3, <2>3
    <3> QED BY <1>5, <1>7, <2>1, <2>2, <2>3, <3>1
  <2>4. CASE j \in 1 .. m
    <3>1. n - m + j \in 1 .. n
      BY <1>3, <1>4, <2>4
    <3> QED BY <1>4, <1>5, <1>7, <2>1, <2>2, <2>4, <3>1
  <2> QED BY <1>3, <2>1, <2>3, <2>4
<1>11. Window'
  BY <1>5, <1>6, <1>9, <1>10 DEF Window
<1>12. ASSUME NEW i \in 1 .. n, processed[i] = id PROVE (n + 1) - i > CacheSize
  <2> SUFFICES ASSUME (n + 1) - i <= CacheSize PROVE FALSE
    BY <1>3
  <2>1. i - (n - m) \in 1 .. m
    BY <1>3, <1>4
  <2>2. n - m + (i - (n - m)) = i
    BY <1>3
  <2>3. mAlreadyReceived[i - (n - m)] = id
    BY <1>4, <1>12, <2>1, <2>2
  <2> QED BY <1>1, <1>3, <2>1, <2>3 DEF AlreadyReceived
<1>13. HandledOnce'
  <2> SUFFICES ASSUME NEW i \in 1 .. n + 1, NEW j \in 1 .. n + 1,
                      i < j, processed'[i] = processed'[j]
               PROVE  j - i > CacheSize
    BY <1>5 DEF HandledOnce
  <2>1. i \in 1 .. n
    BY <1>3
  <2>2. CASE j = n + 1
    BY <1>5, <1>12, <2>1, <2>2
  <2>3. CASE j \in 1 .. n
    BY <1>3, <1>5, <2>1, <2>3 DEF ListenerInv, HandledOnce
  <2> QED BY <1>3, <2>2, <2>3
<1> QED BY <1>11, <1>13 DEF ListenerInv

\* Nothing else touches what the listener remembers.
LEMMA OthersLeaveListener ==
  ASSUME [CommunicatorNext]_comVars
  PROVE  \/ UNCHANGED <<processed, mAlreadyReceived>>
         \/ \E message : ListenerAccepts(message)
<1>1. CASE UNCHANGED comVars
  BY <1>1 DEF comVars, listenerVars
<1>2. ASSUME NEW t \in Issuers, IssueInserts(t) \/ IssuePublishes(t)
      PROVE  UNCHANGED <<processed, mAlreadyReceived>>
  BY <1>2 DEF IssueInserts, IssuePublishes, listenerVars
<1>3. CASE BackgroundThread
  BY <1>3 DEF BackgroundThread, BackgroundLooks, BackgroundSleeps, BackgroundWakes,
              BackgroundExpires, BackgroundWaits, BackgroundChecks, BackgroundRetries,
              BackgroundPublishes, Go, listenerVars
<1>4. CASE CloseUnblocks \/ CloseJoins \/ Tick
  BY <1>4 DEF CloseUnblocks, CloseJoins, Tick, listenerVars
<1>5. ASSUME NEW message \in network, Deliver(message)
      PROVE  \/ UNCHANGED <<processed, mAlreadyReceived>>
             \/ ListenerAccepts(message)
  BY <1>5 DEF Deliver, ListenerReceives, ListenerReplays, ListenerIgnores,
              ClientReceives, listenerVars
<1>6. ASSUME NEW k \in DOMAIN handling, SendReply(k) \/ SendReplyCaches(k)
      PROVE  UNCHANGED <<processed, mAlreadyReceived>>
  BY <1>6 DEF SendReply, SendReplyCaches
<1> QED BY <1>1, <1>2, <1>3, <1>4, <1>5, <1>6 DEF CommunicatorNext

\* CommunicatorListener::processIncoming(): a request that is retried, duplicated
\* or delayed is not handed over again before CacheSize others.
THEOREM RequestsHandledOnce == CommunicatorSpec => []HandledOnce
<1>1. ListenerInv /\ [CommunicatorNext]_comVars => ListenerInv'
  <2> SUFFICES ASSUME ListenerInv, [CommunicatorNext]_comVars PROVE ListenerInv'
    OBVIOUS
  <2>1. CASE UNCHANGED <<processed, mAlreadyReceived>>
    BY <2>1 DEF ListenerInv, Window, HandledOnce
  <2> QED BY <2>1, AcceptKeeps, OthersLeaveListener
<1>2. ListenerInv => HandledOnce
  BY DEF ListenerInv
<1> QED BY <1>1, <1>2, InitListenerInv, PTL DEF CommunicatorSpec

-----------------------------------------------------------------------------
(* The vault: every request is pending or resolved, with its own answer.      *)

\* A set of naturals has a smallest element.
LEMMA Smallest ==
  ASSUME NEW T, T \subseteq Nat, T # {}
  PROVE  \E x \in T : \A y \in T : x <= y
<1> DEFINE R == {ss \in Nat \X Nat : ss[1] < ss[2]}
<1>1. IsWellFoundedOn(R, Nat)
  BY NatLessThanWellFounded DEF OpToRel
<1>2. PICK x \in T : \A y \in T : ~ (<<y, x>> \in R)
  <2> HIDE DEF R
  <2> QED BY <1>1, WFMin
<1>3. ASSUME NEW y \in T PROVE x <= y
  <2>1. x \in Nat /\ y \in Nat
    OBVIOUS
  <2>2. ~(y < x)
    BY <1>2, <2>1
  <2> QED BY <2>1, <2>2
<1> QED BY <1>3

\* RemoveAt of SequencesExt
LEMMA RemoveAtElements ==
  ASSUME NEW S, NEW s \in Seq(S), NEW k \in 1 .. Len(s)
  PROVE  /\ RemoveAt(s, k) \in Seq(S) /\ Len(RemoveAt(s, k)) = Len(s) - 1
         /\ \A i \in 1 .. Len(s) - 1 :
              RemoveAt(s, k)[i] = s[IF i < k THEN i ELSE i + 1]
<1> DEFINE front == SubSeq(s, 1, k - 1)
           back == SubSeq(s, k + 1, Len(s))
<1>1. /\ front \in Seq(S) /\ Len(front) = k - 1
      /\ \A i \in 1 .. k - 1 : front[i] = s[i]
  OBVIOUS
<1>2. /\ back \in Seq(S) /\ Len(back) = Len(s) - k
      /\ \A i \in 1 .. Len(s) - k : back[i] = s[k + i]
  OBVIOUS
<1>3. RemoveAt(s, k) = front \o back
  BY DEF RemoveAt
<1> HIDE DEF front, back
<1>4. /\ front \o back \in Seq(S) /\ Len(front \o back) = Len(s) - 1
      /\ \A i \in 1 .. Len(s) - 1 :
           (front \o back)[i] = IF i <= k - 1 THEN front[i] ELSE back[i - (k - 1)]
  <2> DEFINE a == Len(front)
             b == Len(back)
  <2>1. /\ front \o back \in Seq(S) /\ Len(front \o back) = a + b
        /\ \A i \in 1 .. a + b :
             (front \o back)[i] = IF i <= a THEN front[i] ELSE back[i - a]
    BY <1>1, <1>2, ConcatProperties
  <2>2. a = k - 1 /\ a + b = Len(s) - 1
    BY <1>1, <1>2
  <2> HIDE DEF a, b
  <2> QED BY <2>1, <2>2
<1>5. ASSUME NEW i \in 1 .. Len(s) - 1
      PROVE  (front \o back)[i] = s[IF i < k THEN i ELSE i + 1]
  <2>1. CASE i < k
    BY <1>1, <1>4, <2>1
  <2>2. CASE ~(i < k)
    <3>1. i - (k - 1) \in 1 .. Len(s) - k /\ k + (i - (k - 1)) = i + 1
      BY <2>2
    <3> QED BY <1>2, <1>4, <2>2, <3>1
  <2> QED BY <2>1, <2>2
<1> QED BY <1>3, <1>4, <1>5

\* expire() stops somewhere.
ExpiredItems(deadline) ==
  CHOOSE k \in 0 .. Len(mNextToRetry) :
    /\ \A i \in 1 .. k : Expired(mNextToRetry[i], deadline)
    /\ k < Len(mNextToRetry) => ~Expired(mNextToRetry[k + 1], deadline)

LEMMA ExpireStops ==
  ASSUME NEW deadline, Len(mNextToRetry) \in Nat
  PROVE  ExpiredItems(deadline) \in 0 .. Len(mNextToRetry)
<1> DEFINE n == Len(mNextToRetry)
           P(j) == Expired(mNextToRetry[j], deadline)
           T == {k \in 0 .. n : k < n => ~P(k + 1)}
<1> HIDE DEF P
<1>1. T \subseteq Nat /\ n \in T
  OBVIOUS
<1>2. PICK k \in T : \A y \in T : k <= y
  <2> HIDE DEF T
  <2> QED BY <1>1, Smallest
<1>3. ASSUME NEW i \in 1 .. k PROVE P(i)
  <2>1. k \in 0 .. n /\ n \in Nat
    OBVIOUS
  <2>2. i - 1 \in 0 .. n /\ i - 1 < n /\ (i - 1) + 1 = i /\ ~(k <= i - 1)
    BY <2>1
  <2>3. i - 1 \notin T
    BY <1>2, <2>2
  <2> QED BY <2>2, <2>3
<1>4. \E j \in 0 .. n : (\A i \in 1 .. j : P(i)) /\ (j < n => ~P(j + 1))
  BY <1>2, <1>3
<1> QED BY <1>4 DEF ExpiredItems, P

\* What the handler has answered: request and answer.
IsAnswer(id, k) == k \in DOMAIN processed /\ processed[k] = id
Answers == {[id |-> processed[k], reply |-> k] : k \in DOMAIN processed}

VaultItems == [id : 1 .. issued, start : 0 .. now, lastRetry : 0 .. now]

VaultTypes ==
  /\ now \in Nat /\ issued \in 0 .. MaxIssued
  /\ outcome \in [Ids -> Int]
  /\ mNextToRetry \in Seq(VaultItems)
  /\ handling \in Seq({"has", "published", "done"})
  /\ \E ids : processed \in Seq(ids)
  /\ mCachedReplies \in Seq(Answers)

\* An id that was not given yet has nothing in its future; an answer, in a
\* future, in the cache or on its way, was given by the handler to that request.
Answered ==
  /\ Len(handling) = Len(processed)
  /\ \A id \in Ids : id > issued => outcome[id] = Waiting
  /\ \A id \in Ids : outcome[id] > 0 => IsAnswer(id, outcome[id])
  /\ \A m \in network : m.type = "RESP" => IsAnswer(m.id, m.reply)

\* mPendingRequests and mNextToRetry agree: one item for each pending request.
Vault ==
  /\ \A i, j \in DOMAIN mNextToRetry :
       mNextToRetry[i].id = mNextToRetry[j].id => i = j
  /\ \A i \in DOMAIN mNextToRetry :
       /\ outcome[mNextToRetry[i].id] = Waiting
       /\ mNextToRetry[i].lastRetry >= mNextToRetry[i].start
  /\ \A id \in 1 .. issued : outcome[id] = Waiting =>
       \E i \in DOMAIN mNextToRetry : mNextToRetry[i].id = id

VaultInv == VaultTypes /\ Answered /\ Vault

LEMMA VaultResolves == VaultInv => ResolvedProperly
<1> SUFFICES ASSUME VaultInv PROVE ResolvedProperly
  OBVIOUS
<1>1. \A id \in Ids : id <= issued => id \in 1 .. issued
  BY CommunicatorAssumption DEF VaultInv, VaultTypes, Ids
<1> QED BY <1>1 DEF VaultInv, Answered, Vault, ResolvedProperly, IsAnswer

LEMMA InitVault == CommunicatorInit => VaultInv
<1> SUFFICES ASSUME CommunicatorInit PROVE VaultInv
  OBVIOUS
<1>1. VaultTypes
  <2>1. processed \in Seq({})
    BY DEF CommunicatorInit
  <2> QED BY <2>1, CommunicatorAssumption
          DEF CommunicatorInit, VaultTypes, Waiting, Ids
<1>2. Answered
  BY DEF CommunicatorInit, Answered, Waiting
<1>3. Vault
  BY DEF CommunicatorInit, Vault, Waiting
<1> QED BY <1>1, <1>2, <1>3 DEF VaultInv

\* Steps that leave the vault and the answers alone.
LEMMA VaultRests ==
  ASSUME VaultInv, UNCHANGED <<now, issued, outcome, mNextToRetry>>,
         UNCHANGED <<handling, processed, mCachedReplies>>,
         \A m \in network' : m \in network \/ m.type = "REQ"
  PROVE  VaultInv'
<1>1. VaultTypes'
  <2>1. Answers' = Answers /\ VaultItems' = VaultItems
    BY DEF Answers, VaultItems
  <2> QED BY <2>1 DEF VaultInv, VaultTypes
<1>2. Answered'
  <2>1. ASSUME NEW m \in network', m.type = "RESP" PROVE IsAnswer(m.id, m.reply)'
    BY <2>1 DEF VaultInv, Answered, IsAnswer
  <2> QED BY <2>1 DEF VaultInv, Answered, IsAnswer
<1>3. Vault'
  BY DEF VaultInv, Vault
<1> QED BY <1>1, <1>2, <1>3 DEF VaultInv

\* Steps of the vault: nothing else is concerned.
LEMMA VaultMoves ==
  ASSUME VaultInv, UNCHANGED <<handling, processed, mCachedReplies>>,
         network' \subseteq network \/ \E id : network' = network \cup {Request(id)},
         now' \in Nat, issued' \in 0 .. MaxIssued, outcome' \in [Ids -> Int],
         mNextToRetry' \in Seq(VaultItems'), Vault',
         \A id \in Ids : id > issued' => outcome'[id] = Waiting,
         \A id \in Ids : outcome'[id] > 0 =>
           outcome'[id] = outcome[id] \/ IsAnswer(id, outcome'[id])
  PROVE  VaultInv'
<1>1. VaultTypes'
  <2>1. Answers' = Answers
    BY DEF Answers
  <2> QED BY <2>1 DEF VaultInv, VaultTypes
<1>2. ASSUME NEW id \in Ids, outcome'[id] > 0 PROVE IsAnswer(id, outcome[id])'
  <2>1. PICK k : k = outcome'[id]
    OBVIOUS
  <2>2. IsAnswer(id, k)
    BY <1>2, <2>1 DEF VaultInv, Answered
  <2> QED BY <2>1, <2>2 DEF IsAnswer
<1>3. ASSUME NEW m \in network', m.type = "RESP" PROVE IsAnswer(m.id, m.reply)'
  <2>1. m \in network
    BY <1>3 DEF Request
  <2> QED BY <1>3, <2>1 DEF VaultInv, Answered, IsAnswer
<1>4. Answered'
  BY <1>2, <1>3 DEF VaultInv, Answered
<1> QED BY <1>1, <1>4 DEF VaultInv

\* What is known of the vault's items.
LEMMA VaultFacts ==
  ASSUME VaultInv
  PROVE  /\ now \in Nat /\ issued \in 0 .. MaxIssued /\ MaxIssued \in Nat
         /\ outcome \in [Ids -> Int] /\ 1 .. issued \subseteq Ids
         /\ Len(mNextToRetry) \in Nat /\ DOMAIN mNextToRetry = 1 .. Len(mNextToRetry)
         /\ \A i \in 1 .. Len(mNextToRetry) :
              /\ mNextToRetry[i] \in VaultItems
              /\ mNextToRetry[i].id \in 1 .. issued
              /\ mNextToRetry[i].start \in 0 .. now
              /\ mNextToRetry[i].lastRetry \in 0 .. now
              /\ mNextToRetry[i].lastRetry >= mNextToRetry[i].start
              /\ outcome[mNextToRetry[i].id] = Waiting
         /\ \A i, j \in 1 .. Len(mNextToRetry) :
              mNextToRetry[i].id = mNextToRetry[j].id => i = j
<1>1. /\ now \in Nat /\ issued \in 0 .. MaxIssued /\ MaxIssued \in Nat
      /\ outcome \in [Ids -> Int] /\ mNextToRetry \in Seq(VaultItems)
  BY CommunicatorAssumption DEF VaultInv, VaultTypes
<1>2. 1 .. issued \subseteq Ids
  BY <1>1 DEF Ids
<1>3. /\ Len(mNextToRetry) \in Nat /\ DOMAIN mNextToRetry = 1 .. Len(mNextToRetry)
      /\ \A i \in 1 .. Len(mNextToRetry) : mNextToRetry[i] \in VaultItems
  BY <1>1
<1>4. \A i \in 1 .. Len(mNextToRetry) :
        /\ mNextToRetry[i].id \in 1 .. issued
        /\ mNextToRetry[i].start \in 0 .. now
        /\ mNextToRetry[i].lastRetry \in 0 .. now
  BY <1>3 DEF VaultItems
<1> QED BY <1>1, <1>2, <1>3, <1>4 DEF VaultInv, Vault

\* A request enters the vault before it is published.
LEMMA IssueKeepsVault ==
  ASSUME VaultInv, NEW t \in Issuers, IssueInserts(t) PROVE VaultInv'
<1> DEFINE n == Len(mNextToRetry)
           item == Item(issued + 1, now)
<1>1. /\ mNextToRetry' = Append(mNextToRetry, item) /\ issued' = issued + 1
      /\ issued < MaxIssued
      /\ UNCHANGED <<now, network, outcome, handling, processed, mCachedReplies>>
  BY DEF IssueInserts, Insert, listenerVars
<1>2. /\ now \in Nat /\ issued \in 0 .. MaxIssued /\ outcome \in [Ids -> Int]
      /\ MaxIssued \in Nat
      /\ \A id \in Ids : id > issued => outcome[id] = Waiting
  BY CommunicatorAssumption DEF VaultInv, VaultTypes, Answered
<1>3. issued' \in 0 .. MaxIssued /\ issued' \in Ids
  BY <1>1, <1>2 DEF Ids
<1>4. mNextToRetry \in Seq(VaultItems') /\ item \in VaultItems'
  <2>1. VaultItems \subseteq VaultItems'
    BY <1>1, <1>2 DEF VaultItems
  <2>2. item \in VaultItems'
    BY <1>1, <1>2 DEF VaultItems, Item
  <2> QED BY <2>1, <2>2, SeqMonotonic DEF VaultInv, VaultTypes
<1>5. item.id = issued + 1 /\ item.start = item.lastRetry /\ item.start \in Nat
  BY <1>2 DEF Item
<1> HIDE DEF item
<1>6. /\ mNextToRetry' \in Seq(VaultItems') /\ n \in Nat
      /\ DOMAIN mNextToRetry = 1 .. n /\ DOMAIN mNextToRetry' = 1 .. n + 1
      /\ mNextToRetry'[n + 1] = item
      /\ \A i \in 1 .. n : mNextToRetry'[i] = mNextToRetry[i]
  BY <1>1, <1>4
<1>7. \A i \in 1 .. n : mNextToRetry[i].id \in 1 .. issued
  BY VaultFacts
<1> HIDE DEF n
<1>8. ASSUME NEW i \in 1 .. n + 1, NEW j \in 1 .. n + 1,
             mNextToRetry'[i].id = mNextToRetry'[j].id
      PROVE  i = j
  <2>1. \A k \in 1 .. n : mNextToRetry'[k].id <= issued
    BY <1>2, <1>6, <1>7
  <2>2. mNextToRetry'[n + 1].id = issued + 1
    BY <1>5, <1>6
  <2>3. CASE i \in 1 .. n /\ j \in 1 .. n
    BY <1>6, <1>8, <2>3 DEF VaultInv, Vault
  <2>4. CASE i = n + 1 \/ j = n + 1
    BY <1>2, <1>6, <1>8, <2>1, <2>2, <2>4
  <2> QED BY <1>6, <2>3, <2>4
<1>9. ASSUME NEW i \in 1 .. n + 1
      PROVE  /\ outcome'[mNextToRetry'[i].id] = Waiting
             /\ mNextToRetry'[i].lastRetry >= mNextToRetry'[i].start
  <2>1. CASE i \in 1 .. n
    BY <1>1, <1>6, <2>1 DEF VaultInv, Vault
  <2>2. CASE i = n + 1
    <3>1. outcome[issued + 1] = Waiting
      BY <1>1, <1>2, <1>3
    <3> QED BY <1>1, <1>5, <1>6, <2>2, <3>1
  <2> QED BY <1>6, <2>1, <2>2
<1>10. ASSUME NEW id \in 1 .. issued', outcome'[id] = Waiting
       PROVE  \E i \in 1 .. n + 1 : mNextToRetry'[i].id = id
  <2>1. CASE id = issued + 1
    BY <1>5, <1>6, <2>1
  <2>2. CASE id \in 1 .. issued
    <3>1. PICK i \in 1 .. n : mNextToRetry[i].id = id
      BY <1>1, <1>6, <1>10, <2>2 DEF VaultInv, Vault
    <3> QED BY <1>6, <3>1
  <2>3. id = issued + 1 \/ id \in 1 .. issued
    BY <1>1, <1>2
  <2> QED BY <2>1, <2>2, <2>3
<1>11. Vault'
  BY <1>6, <1>8, <1>9, <1>10 DEF Vault
<1>12. \A id \in Ids : id > issued' => outcome'[id] = Waiting
  BY <1>1, <1>2 DEF Ids
<1> QED BY <1>1, <1>2, <1>3, <1>6, <1>11, <1>12, VaultMoves

\* Items that keep their ids and change places: from[i] is where the item at i
\* was.
Rearranges(n, m, from) ==
  /\ DOMAIN mNextToRetry = 1 .. n /\ DOMAIN mNextToRetry' = 1 .. m
  /\ from \in [1 .. m -> 1 .. n]
  /\ \A i, j \in 1 .. m : from[i] = from[j] => i = j
  /\ \A i \in 1 .. m : mNextToRetry'[i].id = mNextToRetry[from[i]].id
  /\ \A i \in 1 .. m : outcome'[mNextToRetry[from[i]].id] = Waiting
  /\ \A i \in 1 .. m : mNextToRetry'[i].lastRetry >= mNextToRetry'[i].start
  /\ \A id \in 1 .. issued : outcome'[id] = Waiting =>
       /\ outcome[id] = Waiting
       /\ \A k \in 1 .. n : mNextToRetry[k].id = id => \E i \in 1 .. m : from[i] = k

LEMMA Rearranged ==
  ASSUME VaultInv, issued' = issued, NEW n, NEW m, NEW from, Rearranges(n, m, from)
  PROVE  Vault'
<1> USE DEF Rearranges
<1>1. ASSUME NEW i \in 1 .. m, NEW j \in 1 .. m,
             mNextToRetry'[i].id = mNextToRetry'[j].id
      PROVE  i = j
  <2>1. from[i] \in 1 .. n /\ from[j] \in 1 .. n
    OBVIOUS
  <2>2. mNextToRetry[from[i]].id = mNextToRetry[from[j]].id
    BY <1>1
  <2>3. from[i] = from[j]
    BY <2>1, <2>2 DEF VaultInv, Vault
  <2> QED BY <2>3
<1>2. ASSUME NEW id \in 1 .. issued, outcome'[id] = Waiting
      PROVE  \E i \in 1 .. m : mNextToRetry'[i].id = id
  <2>1. PICK k \in 1 .. n : mNextToRetry[k].id = id
    BY <1>2 DEF VaultInv, Vault
  <2>2. PICK i \in 1 .. m : from[i] = k
    BY <1>2, <2>1
  <2> QED BY <2>1, <2>2
<1>3. \A i \in 1 .. m : outcome'[mNextToRetry'[i].id] = Waiting
  OBVIOUS
<1>4. \A id \in 1 .. issued' : outcome'[id] = Waiting =>
        \E i \in 1 .. m : mNextToRetry'[i].id = id
  BY <1>2
<1> QED BY <1>1, <1>3, <1>4 DEF Vault

\* A retried request goes to the back.
LEMMA RetryKeepsVault ==
  ASSUME VaultInv, BackgroundRetries PROVE VaultInv'
<1>1. UNCHANGED <<now, network, outcome, issued, handling, processed, mCachedReplies>>
  BY DEF BackgroundRetries, listenerVars
<1>2. CASE UNCHANGED mNextToRetry
  BY <1>1, <1>2, VaultRests
<1>3. CASE mNextToRetry # <<>> /\ RetryFrontItem
  <2> DEFINE item == [Head(mNextToRetry) EXCEPT !.lastRetry = now]
             rest == Tail(mNextToRetry)
  <2>1. PICK n \in Nat : n = Len(mNextToRetry)
    BY VaultFacts
  <2>2. mNextToRetry \in Seq(VaultItems) /\ mNextToRetry # <<>>
    BY <1>3 DEF VaultInv, VaultTypes
  <2>3. n # 0 /\ Head(mNextToRetry) = mNextToRetry[1] /\ mNextToRetry[1] \in VaultItems
    BY <2>1, <2>2
  <2>4. /\ item \in VaultItems /\ item.id = mNextToRetry[1].id
        /\ item.lastRetry >= item.start
    BY <2>3, VaultFacts DEF VaultItems
  <2>5. /\ rest \in Seq(VaultItems) /\ Len(rest) = n - 1
        /\ \A i \in 1 .. n - 1 : rest[i] = mNextToRetry[i + 1]
    BY <2>1, <2>2
  <2>6. mNextToRetry' = Append(rest, item)
    BY <1>3 DEF RetryFrontItem
  <2> HIDE DEF item, rest
  <2>7. /\ mNextToRetry' \in Seq(VaultItems) /\ DOMAIN mNextToRetry' = 1 .. n
        /\ mNextToRetry'[n] = item
        /\ \A i \in 1 .. n - 1 : mNextToRetry'[i] = mNextToRetry[i + 1]
    BY <2>3, <2>4, <2>5, <2>6
  <2> DEFINE from == [i \in 1 .. n |-> IF i = n THEN 1 ELSE i + 1]
  <2>8. /\ from \in [1 .. n -> 1 .. n]
        /\ \A i, j \in 1 .. n : from[i] = from[j] => i = j
    BY <2>3
  <2>9. ASSUME NEW k \in 1 .. n PROVE \E i \in 1 .. n : from[i] = k
    <3>1. CASE k = 1
      <4>1. from[n] = k /\ n \in 1 .. n
        BY <2>3, <3>1
      <4> QED BY <4>1
    <3>2. CASE k # 1
      <4>1. k - 1 \in 1 .. n /\ k - 1 # n /\ (k - 1) + 1 = k
        BY <3>2
      <4>2. from[k - 1] = k
        BY <4>1
      <4> QED BY <4>1, <4>2
    <3> QED BY <3>1, <3>2
  <2>10. ASSUME NEW i \in 1 .. n
         PROVE  /\ mNextToRetry'[i].id = mNextToRetry[from[i]].id
                /\ mNextToRetry'[i].lastRetry >= mNextToRetry'[i].start
    <3>1. CASE i = n
      BY <2>4, <2>7, <3>1
    <3>2. CASE i # n
      <4>1. i \in 1 .. n - 1 /\ i + 1 \in 1 .. n /\ from[i] = i + 1
        BY <3>2
      <4>2. mNextToRetry'[i] = mNextToRetry[i + 1]
        BY <2>7, <4>1
      <4>3. mNextToRetry[i + 1].lastRetry >= mNextToRetry[i + 1].start
        BY <2>1, <4>1, VaultFacts
      <4> QED BY <4>1, <4>2, <4>3
    <3> QED BY <3>1, <3>2
  <2> HIDE DEF from
  <2>11. Vault'
    <3>1. DOMAIN mNextToRetry = 1 .. n
      BY <2>1, VaultFacts
    <3>2. \A i \in 1 .. n : outcome'[mNextToRetry[from[i]].id] = Waiting
      BY <1>1, <2>1, <2>8, VaultFacts
    <3>3. issued' = issued /\ outcome' = outcome
      BY <1>1
    <3>4. \A id \in 1 .. issued : outcome'[id] = Waiting =>
            outcome[id] = Waiting /\
            (\A k \in 1 .. n : mNextToRetry[k].id = id => \E i \in 1 .. n : from[i] = k)
      BY <2>9, <3>3
    <3>5. DOMAIN mNextToRetry' = 1 .. n
      BY <2>7
    <3>6. \A i \in 1 .. n : mNextToRetry'[i].id = mNextToRetry[from[i]].id
      BY <2>10
    <3>7. \A i \in 1 .. n : mNextToRetry'[i].lastRetry >= mNextToRetry'[i].start
      BY <2>10
    <3> HIDE DEF Waiting
    <3>8. Rearranges(n, n, from)
      BY <2>8, <3>1, <3>2, <3>4, <3>5, <3>6, <3>7 DEF Rearranges
    <3> QED BY <3>3, <3>8, Rearranged
  <2>12. VaultItems' = VaultItems
    BY <1>1 DEF VaultItems
  <2> QED BY <1>1, <2>7, <2>11, <2>12, VaultFacts, VaultMoves DEF VaultInv, Answered
<1> QED BY <1>2, <1>3 DEF BackgroundRetries

\* satisfy() takes one item out of the vault, with its answer.
LEMMA SatisfyKeepsVault ==
  ASSUME VaultInv, NEW message \in network, ClientReceives(message),
         network' = network \ {message}
  PROVE  VaultInv'
<1> DEFINE id == message.id
           reply == message.reply
<1>1. /\ Satisfy(id, reply) /\ message.type = "RESP"
      /\ UNCHANGED <<now, issued, handling, processed, mCachedReplies>>
  BY DEF ClientReceives, listenerVars
<1>2. IsAnswer(id, reply)
  BY <1>1 DEF VaultInv, Answered
<1> HIDE DEF id, reply
<1>3. reply \in Nat \ {0}
  <2>1. PICK ids : processed \in Seq(ids)
    BY DEF VaultInv, VaultTypes
  <2> QED BY <1>2, <2>1 DEF IsAnswer
<1>4. CASE UNCHANGED <<mNextToRetry, outcome>>
  BY <1>1, <1>4, VaultRests
<1>5. ASSUME NEW k \in DOMAIN mNextToRetry, mNextToRetry[k].id = id,
             mNextToRetry' = RemoveAt(mNextToRetry, k),
             outcome' = [outcome EXCEPT ![id] = reply]
      PROVE  VaultInv'
  <2>1. PICK n \in Nat : n = Len(mNextToRetry)
    BY VaultFacts
  <2>2. /\ mNextToRetry \in Seq(VaultItems) /\ DOMAIN mNextToRetry = 1 .. n
        /\ k \in 1 .. n
    BY <1>5, <2>1, VaultFacts DEF VaultInv, VaultTypes
  <2>3. /\ mNextToRetry' \in Seq(VaultItems) /\ DOMAIN mNextToRetry' = 1 .. n - 1
        /\ \A i \in 1 .. n - 1 :
             mNextToRetry'[i] = mNextToRetry[IF i < k THEN i ELSE i + 1]
    <3>1. PICK s \in Seq(VaultItems) : s = mNextToRetry
      BY <2>2
    <3>2. k \in 1 .. Len(s) /\ Len(s) = n
      BY <2>1, <2>2, <3>1
    <3>3. /\ RemoveAt(s, k) \in Seq(VaultItems) /\ Len(RemoveAt(s, k)) = Len(s) - 1
          /\ \A i \in 1 .. Len(s) - 1 : RemoveAt(s, k)[i] = s[IF i < k THEN i ELSE i + 1]
      BY <3>2, RemoveAtElements
    <3>4. DOMAIN RemoveAt(s, k) = 1 .. Len(RemoveAt(s, k))
      BY <3>3
    <3>5. mNextToRetry' = RemoveAt(s, k)
      BY <1>5, <3>1
    <3> QED BY <3>1, <3>2, <3>3, <3>4, <3>5
  <2> DEFINE from == [i \in 1 .. n - 1 |-> IF i < k THEN i ELSE i + 1]
  <2>4. /\ from \in [1 .. n - 1 -> 1 .. n]
        /\ \A i, j \in 1 .. n - 1 : from[i] = from[j] => i = j
        /\ \A i \in 1 .. n - 1 : from[i] # k
    BY <2>2
  <2>5. ASSUME NEW j \in 1 .. n, j # k PROVE \E i \in 1 .. n - 1 : from[i] = j
    <3>1. CASE j < k
      <4>1. j \in 1 .. n - 1 /\ from[j] = j
        BY <2>2, <3>1
      <4> QED BY <4>1
    <3>2. CASE ~(j < k)
      <4>1. j - 1 \in 1 .. n - 1 /\ ~(j - 1 < k) /\ (j - 1) + 1 = j
        BY <2>2, <2>5, <3>2
      <4>2. from[j - 1] = j
        BY <4>1
      <4> QED BY <4>1, <4>2
    <3> QED BY <3>1, <3>2
  <2>6. \A i \in 1 .. n - 1 : mNextToRetry'[i] = mNextToRetry[from[i]]
    BY <2>3
  <2> HIDE DEF from
  <2>7. \A i \in 1 .. n - 1 : from[i] \in 1 .. n
    BY <2>4
  <2>8. id \in 1 .. issued /\ id \in Ids /\ outcome[id] = Waiting
    BY <1>5, <2>1, <2>2, VaultFacts
  <2>9. outcome'[id] = reply /\ \A other \in Ids \ {id} : outcome'[other] = outcome[other]
    BY <1>5, <2>8, VaultFacts
  <2>10. reply # Waiting
    BY <1>3 DEF Waiting
  <2>11. ASSUME NEW i \in 1 .. n - 1
         PROVE  /\ outcome'[mNextToRetry[from[i]].id] = Waiting
                /\ mNextToRetry'[i].lastRetry >= mNextToRetry'[i].start
    <3>1. PICK j \in 1 .. n : j = from[i] /\ j # k
      BY <2>4, <2>7
    <3>2. mNextToRetry[j].id # id /\ mNextToRetry[j].id \in Ids
      BY <1>5, <2>1, <2>2, <3>1, VaultFacts
    <3>3. outcome[mNextToRetry[j].id] = Waiting
      BY <2>1, VaultFacts
    <3>4. outcome'[mNextToRetry[j].id] = Waiting
      BY <2>9, <3>2, <3>3
    <3>5. mNextToRetry[j].lastRetry >= mNextToRetry[j].start
      BY <2>1, VaultFacts
    <3> QED BY <2>6, <3>1, <3>4, <3>5
  <2>12. ASSUME NEW other \in 1 .. issued, outcome'[other] = Waiting
         PROVE  /\ outcome[other] = Waiting
                /\ \A j \in 1 .. n : mNextToRetry[j].id = other =>
                     \E i \in 1 .. n - 1 : from[i] = j
    <3>1. other # id /\ other \in Ids
      BY <2>9, <2>10, <2>12, VaultFacts
    <3>2. outcome[other] = Waiting
      BY <2>9, <2>12, <3>1
    <3>3. ASSUME NEW j \in 1 .. n, mNextToRetry[j].id = other
          PROVE  \E i \in 1 .. n - 1 : from[i] = j
      BY <1>5, <2>5, <3>1, <3>3
    <3> QED BY <3>2, <3>3
  <2>13. Rearranges(n, n - 1, from)
    <3> HIDE DEF Waiting
    <3> QED BY <2>2, <2>3, <2>4, <2>6, <2>11, <2>12 DEF Rearranges
  <2>14. Vault'
    BY <1>1, <2>13, Rearranged
  <2>15. VaultItems' = VaultItems
    BY <1>1 DEF VaultItems
  <2>16. outcome' \in [Ids -> Int]
    BY <1>3, <1>5, <2>8, VaultFacts
  <2>17. ASSUME NEW other \in Ids
         PROVE  /\ other > issued => outcome'[other] = Waiting
                /\ outcome'[other] = outcome[other] \/ IsAnswer(other, outcome'[other])
    <3>1. CASE other = id
      BY <1>2, <2>8, <2>9, <3>1, VaultFacts
    <3>2. CASE other # id
      BY <2>9, <3>2 DEF VaultInv, Answered
    <3> QED BY <3>1, <3>2
  <2> QED BY <1>1, <2>3, <2>14, <2>15, <2>16, <2>17, VaultFacts, VaultMoves
<1> QED BY <1>1, <1>4, <1>5 DEF Satisfy

\* expire() breaks the promises of the items it drops from the front.
LEMMA ExpireKeepsVault ==
  ASSUME VaultInv, BackgroundExpires PROVE VaultInv'
<1> DEFINE d == now - HardDeadline
           k == ExpiredItems(d)
           gone == {mNextToRetry[i].id : i \in 1 .. k}
<1>1. /\ mNextToRetry' = SubSeq(mNextToRetry, k + 1, Len(mNextToRetry))
      /\ outcome' = [id \in Ids |-> IF id \in gone THEN Broken ELSE outcome[id]]
      /\ UNCHANGED <<now, network, issued, handling, processed, mCachedReplies>>
  BY DEF BackgroundExpires, Expire, ExpiredItems, Go, listenerVars
<1>2. PICK n \in Nat : n = Len(mNextToRetry)
  BY VaultFacts
<1>3. k \in 0 .. n
  BY <1>2, ExpireStops
<1> HIDE DEF d, k
<1>4. mNextToRetry \in Seq(VaultItems) /\ DOMAIN mNextToRetry = 1 .. n
  BY <1>2, VaultFacts DEF VaultInv, VaultTypes
<1>5. /\ mNextToRetry' \in Seq(VaultItems) /\ DOMAIN mNextToRetry' = 1 .. n - k
      /\ \A i \in 1 .. n - k : mNextToRetry'[i] = mNextToRetry[k + i]
  BY <1>1, <1>2, <1>3, <1>4
<1> DEFINE from == [i \in 1 .. n - k |-> k + i]
<1>6. /\ from \in [1 .. n - k -> 1 .. n]
      /\ \A i, j \in 1 .. n - k : from[i] = from[j] => i = j
      /\ \A i \in 1 .. n - k : from[i] \notin 1 .. k
  BY <1>3
<1>7. ASSUME NEW j \in 1 .. n, j \notin 1 .. k PROVE \E i \in 1 .. n - k : from[i] = j
  <2>1. j - k \in 1 .. n - k /\ k + (j - k) = j
    BY <1>3, <1>7
  <2>2. from[j - k] = j
    BY <2>1
  <2> QED BY <2>1, <2>2
<1>8. \A i \in 1 .. n - k : mNextToRetry'[i] = mNextToRetry[from[i]]
  BY <1>5
<1> HIDE DEF from
<1>9. \A i \in 1 .. n - k : from[i] \in 1 .. n
  BY <1>6
<1>10. \A id \in Ids : outcome'[id] = IF id \in gone THEN Broken ELSE outcome[id]
  BY <1>1
<1>11. ASSUME NEW i \in 1 .. n - k
       PROVE  /\ outcome'[mNextToRetry[from[i]].id] = Waiting
              /\ mNextToRetry'[i].lastRetry >= mNextToRetry'[i].start
  <2>1. PICK j \in 1 .. n : j = from[i] /\ j \notin 1 .. k
    BY <1>6, <1>9
  <2>2. mNextToRetry[j].id \in Ids /\ outcome[mNextToRetry[j].id] = Waiting
    BY <1>2, VaultFacts
  <2>3. mNextToRetry[j].id \notin gone
    <3>1. \A i2 \in 1 .. k : i2 \in 1 .. n /\ i2 # j
      BY <1>3, <2>1
    <3> QED BY <1>2, <3>1, VaultFacts
  <2>4. outcome'[mNextToRetry[j].id] = Waiting
    BY <1>10, <2>2, <2>3
  <2>5. mNextToRetry[j].lastRetry >= mNextToRetry[j].start
    BY <1>2, VaultFacts
  <2> QED BY <1>8, <2>1, <2>4, <2>5
<1>12. ASSUME NEW id \in 1 .. issued, outcome'[id] = Waiting
       PROVE  /\ outcome[id] = Waiting
              /\ \A j \in 1 .. n : mNextToRetry[j].id = id =>
                   \E i \in 1 .. n - k : from[i] = j
  <2>1. id \in Ids /\ Broken # Waiting
    BY VaultFacts DEF Broken, Waiting
  <2>2. id \notin gone /\ outcome[id] = Waiting
    BY <1>10, <1>12, <2>1
  <2>3. ASSUME NEW j \in 1 .. n, mNextToRetry[j].id = id
        PROVE  \E i \in 1 .. n - k : from[i] = j
    BY <1>7, <2>2, <2>3
  <2> QED BY <2>2, <2>3
<1>13. Rearranges(n, n - k, from)
  <2> HIDE DEF Waiting, gone
  <2> QED BY <1>4, <1>5, <1>6, <1>8, <1>11, <1>12 DEF Rearranges
<1>14. Vault'
  BY <1>1, <1>13, Rearranged
<1>15. VaultItems' = VaultItems
  BY <1>1 DEF VaultItems
<1>16. outcome' \in [Ids -> Int]
  BY <1>1, VaultFacts DEF Broken
<1>17. ASSUME NEW id \in Ids
       PROVE  /\ id > issued => outcome'[id] = Waiting
              /\ outcome'[id] > 0 => outcome'[id] = outcome[id]
  <2>1. CASE id \in gone
    <3>1. PICK i \in 1 .. k : id = mNextToRetry[i].id
      BY <2>1
    <3>2. id \in 1 .. issued /\ issued \in Nat
      BY <1>2, <1>3, <3>1, VaultFacts
    <3>3. outcome'[id] = Broken
      BY <1>10, <2>1
    <3> QED BY <3>2, <3>3 DEF Broken
  <2>2. CASE id \notin gone
    BY <1>10, <2>2 DEF VaultInv, Answered
  <2> QED BY <2>1, <2>2
<1> QED BY <1>1, <1>5, <1>14, <1>15, <1>16, <1>17, VaultFacts, VaultMoves

\* ~Communicator() drops the vault: who waited sees a broken promise.
LEMMA DestructorKeepsVault ==
  ASSUME VaultInv, CloseJoins PROVE VaultInv'
<1>1. /\ mNextToRetry' = <<>>
      /\ outcome' = [id \in Ids |-> IF id <= issued /\ outcome[id] = Waiting
                                    THEN Broken ELSE outcome[id]]
      /\ UNCHANGED <<now, network, issued, handling, processed, mCachedReplies>>
  BY DEF CloseJoins, listenerVars
<1>2. mNextToRetry' \in Seq(VaultItems') /\ DOMAIN mNextToRetry' = {}
  BY <1>1
<1>3. ASSUME NEW id \in 1 .. issued PROVE outcome'[id] # Waiting
  <2>1. id \in Ids /\ id <= issued
    BY <1>3, VaultFacts
  <2> QED BY <1>1, <2>1 DEF Broken, Waiting
<1>4. Vault'
  BY <1>1, <1>2, <1>3 DEF Vault
<1>5. ASSUME NEW id \in Ids
      PROVE  /\ id > issued => outcome'[id] = Waiting
             /\ outcome'[id] > 0 => outcome'[id] = outcome[id]
  <2>1. id \in Nat /\ issued \in Nat
    BY VaultFacts DEF Ids
  <2>2. CASE id <= issued /\ outcome[id] = Waiting
    BY <1>1, <2>1, <2>2 DEF Broken
  <2>3. CASE ~(id <= issued /\ outcome[id] = Waiting)
    BY <1>1, <2>1, <2>3 DEF VaultInv, Answered
  <2> QED BY <2>2, <2>3
<1>6. outcome' \in [Ids -> Int]
  BY <1>1, VaultFacts DEF Broken
<1> QED BY <1>1, <1>2, <1>4, <1>5, <1>6, VaultFacts, VaultMoves

LEMMA TickKeepsVault ==
  ASSUME VaultInv, Tick PROVE VaultInv'
<1>1. /\ now' = now + 1
      /\ UNCHANGED <<network, issued, outcome, mNextToRetry, handling, processed,
                     mCachedReplies>>
  BY DEF Tick, clientVars, vaultVars, listenerVars
<1>2. VaultItems \subseteq VaultItems'
  BY <1>1, VaultFacts DEF VaultItems
<1>3. mNextToRetry' \in Seq(VaultItems')
  BY <1>1, <1>2, SeqMonotonic DEF VaultInv, VaultTypes
<1>4. Vault'
  BY <1>1 DEF VaultInv, Vault
<1> QED BY <1>1, <1>3, <1>4, VaultFacts, VaultMoves DEF VaultInv, Answered

\* Steps of the listener and its handler: what was answered stays answered.
LEMMA AnswersGrow ==
  ASSUME VaultInv, UNCHANGED <<now, issued, outcome, mNextToRetry>>,
         NEW ids, processed' \in Seq(ids),
         handling' \in Seq({"has", "published", "done"}),
         Len(handling') = Len(processed'),
         \A k \in DOMAIN processed : k \in DOMAIN processed' /\ processed'[k] = processed[k],
         mCachedReplies' \in Seq(Answers'),
         \A m \in network' : m \in network \/ m.type = "REQ" \/ IsAnswer(m.id, m.reply)'
  PROVE  VaultInv'
<1>1. VaultTypes'
  <2>1. VaultItems' = VaultItems
    BY DEF VaultItems
  <2> QED BY <2>1 DEF VaultInv, VaultTypes
<1>2. ASSUME NEW id, NEW k, IsAnswer(id, k) PROVE IsAnswer(id, k)'
  BY <1>2 DEF IsAnswer
<1>3. ASSUME NEW m \in network', m.type = "RESP" PROVE IsAnswer(m.id, m.reply)'
  BY <1>2, <1>3 DEF VaultInv, Answered
<1>4. Answered'
  <2>1. ASSUME NEW id \in Ids, outcome'[id] > 0 PROVE IsAnswer(id, outcome[id])'
    <3>1. IsAnswer(id, outcome[id])
      BY <2>1 DEF VaultInv, Answered
    <3> QED BY <3>1 DEF IsAnswer
  <2> QED BY <1>3, <2>1 DEF VaultInv, Answered
<1>5. Vault'
  BY DEF VaultInv, Vault
<1> QED BY <1>1, <1>4, <1>5 DEF VaultInv

\* A new request: its handler has it.
LEMMA AcceptKeepsVault ==
  ASSUME VaultInv, NEW message, ListenerAccepts(message),
         UNCHANGED <<now, clientVars>>
  PROVE  VaultInv'
<1>1. /\ processed' = Append(processed, message.id) /\ handling' = Append(handling, "has")
      /\ UNCHANGED <<now, issued, outcome, mNextToRetry, network, mCachedReplies>>
  BY DEF ListenerAccepts, clientVars, vaultVars
<1>2. PICK known : processed \in Seq(known)
  BY DEF VaultInv, VaultTypes
<1> DEFINE ids == known \cup {message.id}
<1>3. processed \in Seq(ids) /\ message.id \in ids
  BY <1>2, SeqMonotonic
<1> HIDE DEF ids
<1>4. /\ processed' \in Seq(ids) /\ Len(processed') = Len(processed) + 1
      /\ \A k \in DOMAIN processed : k \in DOMAIN processed' /\ processed'[k] = processed[k]
  BY <1>1, <1>3
<1>5. /\ handling' \in Seq({"has", "published", "done"})
      /\ Len(handling') = Len(handling) + 1
  BY <1>1 DEF VaultInv, VaultTypes
<1>6. Answers \subseteq Answers'
  BY <1>4 DEF Answers
<1>7. mCachedReplies' \in Seq(Answers')
  BY <1>1, <1>6, SeqMonotonic DEF VaultInv, VaultTypes
<1>8. Len(handling') = Len(processed')
  BY <1>4, <1>5 DEF VaultInv, Answered
<1> QED BY <1>1, <1>4, <1>5, <1>7, <1>8, AnswersGrow

\* A replayed answer is one the handler has given.
LEMMA ReplayKeepsVault ==
  ASSUME VaultInv, NEW message, ListenerReplays(message), UNCHANGED <<now, clientVars>>
  PROVE  VaultInv'
<1>1. UNCHANGED <<now, issued, outcome, mNextToRetry, handling, processed, mCachedReplies>>
  BY DEF ListenerReplays, clientVars, vaultVars, listenerVars
<1>2. PICK reply \in CachedReplies(message.id) :
        network' = network \cup {Reply(message.id, reply)}
  BY DEF ListenerReplays, Publish
<1>3. PICK k \in DOMAIN mCachedReplies :
        mCachedReplies[k].id = message.id /\ mCachedReplies[k].reply = reply
  BY DEF CachedReplies
<1>4. mCachedReplies \in Seq(Answers)
  BY DEF VaultInv, VaultTypes
<1>5. mCachedReplies[k] \in Answers
  BY <1>4
<1>6. IsAnswer(message.id, reply)
  BY <1>3, <1>5 DEF Answers, IsAnswer
<1>7. ASSUME NEW m \in network'
      PROVE  m \in network \/ IsAnswer(m.id, m.reply)'
  <2>1. CASE m = Reply(message.id, reply)
    <3>1. m.id = message.id /\ m.reply = reply
      BY <2>1 DEF Reply
    <3> QED BY <1>1, <1>6, <3>1 DEF IsAnswer
  <2> QED BY <1>2, <2>1
<1>8. Answers' = Answers
  BY <1>1 DEF Answers
<1>9. PICK ids : processed \in Seq(ids)
  BY DEF VaultInv, VaultTypes
<1>10. /\ handling' \in Seq({"has", "published", "done"})
       /\ Len(handling') = Len(processed')
  BY <1>1 DEF VaultInv, VaultTypes, Answered
<1> QED BY <1>1, <1>4, <1>7, <1>8, <1>9, <1>10, AnswersGrow

\* sendReply(): publish, then cache.
LEMMA SendKeepsVault ==
  ASSUME VaultInv, NEW k \in DOMAIN handling, SendReply(k) \/ SendReplyCaches(k)
  PROVE  VaultInv'
<1>1. UNCHANGED <<now, issued, outcome, mNextToRetry, processed>>
  BY DEF SendReply, SendReplyCaches, clientVars, vaultVars
<1>2. PICK ids : processed \in Seq(ids)
  BY DEF VaultInv, VaultTypes
<1>3. k \in DOMAIN processed
  <2>1. /\ handling \in Seq({"has", "published", "done"})
        /\ Len(handling) = Len(processed)
    BY DEF VaultInv, VaultTypes, Answered
  <2> QED BY <1>2, <2>1
<1>4. /\ handling' \in Seq({"has", "published", "done"})
      /\ Len(handling') = Len(processed')
  <2>1. /\ handling \in Seq({"has", "published", "done"})
        /\ Len(handling) = Len(processed)
    BY DEF VaultInv, VaultTypes, Answered
  <2>2. PICK state \in {"has", "published", "done"} :
          handling' = [handling EXCEPT ![k] = state]
    BY DEF SendReply, SendReplyCaches
  <2>3. handling' \in Seq({"has", "published", "done"}) /\ Len(handling') = Len(handling)
    BY <2>1, <2>2, ExceptSeq
  <2> QED BY <1>1, <2>1, <2>3
<1>5. Answers' = Answers /\ [id |-> processed[k], reply |-> k] \in Answers
  BY <1>1, <1>3 DEF Answers
<1>6. mCachedReplies' \in Seq(Answers')
  <2>1. mCachedReplies \in Seq(Answers)
    BY DEF VaultInv, VaultTypes
  <2>2. CASE UNCHANGED mCachedReplies
    BY <1>5, <2>1, <2>2
  <2>3. CASE SendReplyCaches(k)
    <3> DEFINE q == Append(mCachedReplies, [id |-> processed[k], reply |-> k])
    <3>1. q \in Seq(Answers) /\ Len(q) \in Nat
      BY <1>5, <2>1
    <3>2. mCachedReplies' = LastN(q)
      BY <2>3 DEF SendReplyCaches
    <3> HIDE DEF q
    <3>3. LastN(q) \in Seq(Answers)
      BY <3>1, CommunicatorAssumption DEF LastN
    <3> QED BY <1>5, <3>2, <3>3
  <2> QED BY <2>2, <2>3 DEF SendReply
<1>7. ASSUME NEW m \in network'
      PROVE  m \in network \/ IsAnswer(m.id, m.reply)'
  <2>1. CASE m = Reply(processed[k], k)
    <3>1. m.id = processed[k] /\ m.reply = k
      BY <2>1 DEF Reply
    <3> QED BY <1>1, <1>3, <3>1 DEF IsAnswer
  <2> QED BY <2>1 DEF SendReply, SendReplyCaches, Publish
<1> QED BY <1>1, <1>2, <1>4, <1>6, <1>7, AnswersGrow

\* Steps that only concern threads, or publish a request.
LEMMA ThreadsKeepVault ==
  ASSUME VaultInv,
         \/ \E t \in Issuers : IssuePublishes(t)
         \/ BackgroundLooks \/ BackgroundSleeps \/ BackgroundWakes \/ BackgroundWaits
         \/ BackgroundChecks \/ BackgroundPublishes
         \/ CloseUnblocks
  PROVE  VaultInv'
<1>1. UNCHANGED <<now, issued, outcome, mNextToRetry, handling, processed, mCachedReplies>>
  BY DEF IssuePublishes, BackgroundLooks, BackgroundSleeps, BackgroundWakes,
         BackgroundWaits, BackgroundChecks, BackgroundPublishes, CloseUnblocks, Go,
         vaultVars, listenerVars
<1>2. network' = network \/ \E id : network' = network \cup {Request(id)}
  BY DEF IssuePublishes, BackgroundLooks, BackgroundSleeps, BackgroundWakes,
         BackgroundWaits, BackgroundChecks, BackgroundPublishes, CloseUnblocks, Go,
         Publish
<1>3. \A m \in network' : m \in network \/ m.type = "REQ"
  BY <1>2 DEF Request
<1> QED BY <1>1, <1>3, VaultRests

LEMMA DeliveryKeepsVault ==
  ASSUME VaultInv, NEW message \in network, Deliver(message) PROVE VaultInv'
<1>1. CASE ClientReceives(message) /\ network' = network \ {message}
  BY <1>1, SatisfyKeepsVault
<1>2. CASE ListenerReceives(message)
  <2>1. UNCHANGED <<now, clientVars>>
    BY <1>2 DEF ListenerReceives
  <2>2. CASE ListenerIgnores(message)
    <3>1. /\ UNCHANGED <<now, issued, outcome, mNextToRetry>>
          /\ UNCHANGED <<handling, processed, mCachedReplies>>
          /\ network' \subseteq network
      BY <2>1, <2>2 DEF ListenerIgnores, clientVars, vaultVars, listenerVars
    <3> QED BY <3>1, VaultRests
  <2> QED BY <1>2, <2>1, <2>2, AcceptKeepsVault, ReplayKeepsVault DEF ListenerReceives
<1> QED BY <1>1, <1>2 DEF Deliver

\* PendingRequestVault and ~Communicator(): a future gets the answer given to its
\* own request or a broken promise, and never both; the map and the list agree.
THEOREM RequestsResolvedProperly == CommunicatorSpec => []ResolvedProperly
<1>1. VaultInv /\ [CommunicatorNext]_comVars => VaultInv'
  <2> SUFFICES ASSUME VaultInv, [CommunicatorNext]_comVars PROVE VaultInv'
    OBVIOUS
  <2>1. CASE UNCHANGED comVars
    BY <2>1, VaultRests DEF comVars, clientVars, vaultVars, listenerVars
  <2>2. ASSUME NEW t \in Issuers, IssueInserts(t) PROVE VaultInv'
    BY <2>2, IssueKeepsVault
  <2>3. CASE BackgroundThread
    BY <2>3, ThreadsKeepVault, ExpireKeepsVault, RetryKeepsVault DEF BackgroundThread
  <2>4. ASSUME NEW message \in network, Deliver(message) PROVE VaultInv'
    BY <2>4, DeliveryKeepsVault
  <2>5. ASSUME NEW k \in DOMAIN handling, SendReply(k) \/ SendReplyCaches(k)
        PROVE  VaultInv'
    BY <2>5, SendKeepsVault
  <2> QED BY <2>1, <2>2, <2>3, <2>4, <2>5, ThreadsKeepVault, DestructorKeepsVault,
             TickKeepsVault DEF CommunicatorNext
<1> QED BY <1>1, InitVault, VaultResolves, PTL DEF CommunicatorSpec
=============================================================================
