---------------------------- MODULE Communicator ----------------------------
(***************************************************************************)
(* Requests and replies over pub/sub (src/src/shared/Communicator.cc,       *)
(* PendingRequestVault.cc, CommunicatorListener.cc).  A Communicator        *)
(* publishes a request, keeps it in its vault and publishes it again until   *)
(* a reply comes or its deadline has passed; a background thread does that.  *)
(* The listener, another process, hands each request to its handler once     *)
(* and answers retries from a cache.  Messages may be lost, delayed,          *)
(* reordered and, as the QClient underneath retries, duplicated.              *)
(***************************************************************************)
EXTENDS Integers, Sequences, FiniteSets, SequencesExt

CONSTANTS
  Issuers,       \* threads that call issue()
  MaxIssued,     \* bound: requests issued; their ids are 1 .. MaxIssued
  RetryInterval, \* mRetryInterval
  HardDeadline,  \* mHardDeadline
  CacheSize,     \* of mAlreadyReceived and mCachedReplies (1000 in the code)
  LastIssue,     \* bound: the time after which nothing is issued
  MaxTime,       \* bound: the clock stops here
  MaxProcessed   \* bound: requests handed to the handler
ASSUME CommunicatorAssumption == CacheSize \in Nat /\ MaxIssued \in Nat

VARIABLES
  now,             \* the steady clock
  mNextToRetry,    \* the vault: its items, in the order of mNextToRetry
  mBlockingMode,
  outcome,         \* per id, what its future holds: Waiting, Broken or a reply
  issued,          \* requests inserted so far
  issuing,         \* per issuer: the id it has still to publish, or 0
  background,      \* where the background thread is, and the id it retries or
                   \* the time it waits for
  closing,      \* where ~Communicator() is
  network,         \* messages published and neither lost nor all delivered
  handling,        \* per request handed over: "has", "published" or "done"
  mAlreadyReceived,\* ids, oldest first
  mCachedReplies,  \* [id, reply], oldest first
  processed        \* history: the ids handed to the queue, in order

vaultVars == <<mNextToRetry, mBlockingMode, outcome>>
clientVars == <<vaultVars, issued, issuing, background, closing>>
listenerVars == <<handling, mAlreadyReceived, mCachedReplies, processed>>
comVars == <<now, network, clientVars, listenerVars>>
Ids == 1 .. MaxIssued
Waiting == 0
Broken == -1
Request(id) == [type |-> "REQ", id |-> id, reply |-> 0]
Reply(id, reply) == [type |-> "RESP", id |-> id, reply |-> reply]

CommunicatorInit ==
  /\ now = 0
  /\ mNextToRetry = <<>> /\ mBlockingMode = TRUE
  /\ outcome = [id \in Ids |-> Waiting]
  /\ issued = 0 /\ issuing = [t \in Issuers |-> 0]
  /\ background = [at |-> "top", arg |-> 0]
  /\ closing = "alive"
  /\ network = {}
  /\ handling = <<>>
  /\ mAlreadyReceived = <<>> /\ mCachedReplies = <<>>
  /\ processed = <<>>

-----------------------------------------------------------------------------
(* The vault: each operation runs under its mutex.                           *)

Item(id, time) == [id |-> id, start |-> time, lastRetry |-> time]

Insert(id, time) == mNextToRetry' = Append(mNextToRetry, Item(id, time))

\* Mutant: a satisfied request stays in the vault.
SatisfyKeepsItem(id, reply) ==
  /\ outcome' = IF \E k \in DOMAIN mNextToRetry : mNextToRetry[k].id = id
                THEN [outcome EXCEPT ![id] = reply] ELSE outcome
  /\ UNCHANGED <<mNextToRetry, mBlockingMode>>

\* satisfy(): the item goes, wherever it is in the order; a reply for a request
\* that is not pending any more is dropped.
Satisfy(id, reply) ==
  /\ \/ /\ \A k \in DOMAIN mNextToRetry : mNextToRetry[k].id # id
        /\ UNCHANGED <<mNextToRetry, outcome>>
     \/ \E k \in DOMAIN mNextToRetry :
          /\ mNextToRetry[k].id = id
          /\ mNextToRetry' = RemoveAt(mNextToRetry, k)
          /\ outcome' = [outcome EXCEPT ![id] = reply]
  /\ UNCHANGED mBlockingMode

\* Mutants: the last retry counts instead of the submission; the deadline is
\* taken at the next retry.
ExpiredSinceRetry(item, deadline) == item.lastRetry <= deadline
Expired(item, deadline) == item.start <= deadline

\* expire(): drops items from the front, up to the first that is not expired;
\* their promises are destroyed, which their futures see.
Expire(deadline) ==
  LET n == CHOOSE k \in 0 .. Len(mNextToRetry) :
             /\ \A i \in 1 .. k : Expired(mNextToRetry[i], deadline)
             /\ k < Len(mNextToRetry) => ~Expired(mNextToRetry[k + 1], deadline)
      gone == {mNextToRetry[i].id : i \in 1 .. n}
  IN
  /\ mNextToRetry' = SubSeq(mNextToRetry, n + 1, Len(mNextToRetry))
  /\ outcome' = [id \in Ids |-> IF id \in gone THEN Broken ELSE outcome[id]]
  /\ UNCHANGED mBlockingMode

\* getEarliestRetry() on a vault that is not empty
EarliestRetry == Head(mNextToRetry).lastRetry

RetryFrontItem ==
  mNextToRetry' = Append(Tail(mNextToRetry),
                         [Head(mNextToRetry) EXCEPT !.lastRetry = now])

-----------------------------------------------------------------------------
(* issue(): insert with the time of the call, then publish.                  *)

Publish(message) == network' = network \cup {message}

IssueInserts(t) ==
  /\ issuing[t] = 0
  /\ closing = "alive" /\ now <= LastIssue /\ issued < MaxIssued
  /\ Insert(issued + 1, now)
  /\ issued' = issued + 1
  /\ issuing' = [issuing EXCEPT ![t] = issued + 1]
  /\ UNCHANGED <<now, network, listenerVars, mBlockingMode, outcome,
                 background, closing>>

IssuePublishes(t) ==
  /\ issuing[t] # 0
  /\ Publish(Request(issuing[t]))
  /\ issuing' = [issuing EXCEPT ![t] = 0]
  /\ UNCHANGED <<now, listenerVars, vaultVars, issued, background,
                 closing>>

-----------------------------------------------------------------------------
(* backgroundThread(); the vault is free between any two of its calls.       *)

Go(from, to) ==
  /\ background.at = from
  /\ background' = [at |-> to, arg |-> 0]
  /\ UNCHANGED <<now, listenerVars, issued, issuing, closing>>

Due == EarliestRetry + RetryInterval <= now

\* blockUntilNonEmpty()
BackgroundSleeps ==
  /\ Go("asleep", "top")
  /\ mBlockingMode => mNextToRetry # <<>>
  /\ UNCHANGED <<network, vaultVars>>

BackgroundLooks ==
  \/ /\ closing = "join"
     /\ Go("top", "exited")
     /\ UNCHANGED <<network, vaultVars>>
  \/ /\ closing # "join" /\ mNextToRetry = <<>>
     /\ Go("top", "asleep")
     /\ UNCHANGED <<network, vaultVars>>
  \/ /\ closing # "join" /\ mNextToRetry # <<>> /\ Due
     /\ Go("top", "expire")
     /\ UNCHANGED <<network, vaultVars>>

\* Not there yet: wait_for() the time computed, then look again.
BackgroundWaits ==
  /\ background.at = "top"
  /\ closing # "join" /\ mNextToRetry # <<>> /\ ~Due
  /\ LET nextRetryIn == now - (EarliestRetry + RetryInterval) IN
     background' = [at |-> "waiting", arg |-> now + nextRetryIn]
  /\ UNCHANGED <<now, network, listenerVars, vaultVars, issued, issuing,
                 closing>>

BackgroundWakes ==
  /\ background.arg <= now \/ closing = "join"
  /\ background.at = "waiting" /\ background' = [at |-> "top", arg |-> 0]
  /\ UNCHANGED <<now, network, listenerVars, vaultVars, issued, issuing,
                 closing>>

\* runNextToRetry(): expire ...
BackgroundExpires ==
  /\ Go("expire", "check")
  /\ Expire(now - HardDeadline)
  /\ UNCHANGED network

\* ... look at the front again ...
BackgroundChecks ==
  /\ Go("check", IF mNextToRetry # <<>> /\ Due THEN "retry" ELSE "top")
  /\ UNCHANGED <<network, vaultVars>>

\* ... and retry whatever is at the front by then.
BackgroundRetries ==
  /\ background.at = "retry"
  /\ IF mNextToRetry = <<>>
     THEN background' = [at |-> "top", arg |-> 0] /\ UNCHANGED mNextToRetry
     ELSE RetryFrontItem /\ background' = [at |-> "publish",
                                           arg |-> Head(mNextToRetry).id]
  /\ UNCHANGED <<now, network, listenerVars, mBlockingMode, outcome,
                 issued, issuing, closing>>

BackgroundPublishes ==
  /\ Go("publish", "top")
  /\ Publish(Request(background.arg))
  /\ UNCHANGED vaultVars

BackgroundThread ==
  \/ BackgroundLooks \/ BackgroundSleeps \/ BackgroundWakes \/ BackgroundExpires
  \/ BackgroundWaits
  \/ BackgroundChecks \/ BackgroundRetries \/ BackgroundPublishes

\* processIncoming()
ClientReceives(message) ==
  /\ closing # "gone"
  /\ message.type = "RESP"
  /\ Satisfy(message.id, message.reply)
  /\ UNCHANGED <<now, listenerVars, issued, issuing, background,
                 closing>>

-----------------------------------------------------------------------------
(* ~Communicator(), once nobody issues: wake the thread up, stop and join it, *)
(* end the subscription, drop the vault with its promises.                    *)

CloseUnblocks ==
  /\ closing = "alive"
  /\ \A t \in Issuers : issuing[t] = 0
  /\ closing' = "join"
  /\ mBlockingMode' = FALSE
  /\ UNCHANGED <<now, network, listenerVars, mNextToRetry, outcome,
                 issued, issuing, background>>

CloseJoins ==
  /\ closing = "join" /\ background.at = "exited"
  /\ closing' = "gone"
  /\ mNextToRetry' = <<>>
  /\ outcome' = [id \in Ids |-> IF id <= issued /\ outcome[id] = Waiting
                                THEN Broken ELSE outcome[id]]
  /\ UNCHANGED <<now, network, listenerVars, mBlockingMode, issued,
                 issuing, background>>

-----------------------------------------------------------------------------
(* The listener                                                              *)

\* Keeping the last CacheSize elements (LastNSet, LastNMap, RingBuffer).
LastN(sequence) ==
  SubSeq(sequence, IF Len(sequence) > CacheSize
                   THEN Len(sequence) - CacheSize + 1 ELSE 1, Len(sequence))

Remember(id) == mAlreadyReceived' = LastN(Append(mAlreadyReceived, id))

\* Mutant: only the cache of replies tells retries from new requests.
AlreadyAnswered(id) == \E k \in DOMAIN mCachedReplies : mCachedReplies[k].id = id

AlreadyReceived(id) == \E k \in DOMAIN mAlreadyReceived : mAlreadyReceived[k] = id
CachedReplies(id) ==  \* none or one
  {mCachedReplies[k].reply : k \in {j \in DOMAIN mCachedReplies :
     /\ mCachedReplies[j].id = id
     /\ \A later \in j + 1 .. Len(mCachedReplies) :
          mCachedReplies[later].id # id}}

\* A retry of a request that was answered: replay the answer.
ListenerReplays(message) ==
  /\ \E reply \in CachedReplies(message.id) : Publish(Reply(message.id, reply))
  /\ UNCHANGED listenerVars

\* A retry of a request that is being handled.
ListenerIgnores(message) ==
  /\ CachedReplies(message.id) = {} /\ AlreadyReceived(message.id)
  /\ network' = network \ {message}
  /\ UNCHANGED listenerVars

\* A new request: to the queue, where the handler finds it or is called, then
\* into the set.
ListenerAccepts(message) ==
  /\ CachedReplies(message.id) = {} /\ ~AlreadyReceived(message.id)
  /\ Len(processed) < MaxProcessed
  /\ handling' = Append(handling, "has")
  /\ processed' = Append(processed, message.id)
  /\ Remember(message.id)
  /\ UNCHANGED <<network, mCachedReplies>>

ListenerReceives(message) ==
  /\ message.type = "REQ"
  /\ \/ ListenerReplays(message)
     \/ ListenerIgnores(message)
     \/ ListenerAccepts(message)
  /\ UNCHANGED <<now, clientVars>>

\* sendReply(): publish ...
SendReply(k) ==
  /\ handling[k] = "has"
  /\ Publish(Reply(processed[k], k))
  /\ handling' = [handling EXCEPT ![k] = "published"]
  /\ UNCHANGED <<now, clientVars, mAlreadyReceived, mCachedReplies, processed>>

\* ... then cache.
SendReplyCaches(k) ==
  /\ handling[k] = "published"
  /\ mCachedReplies' = LastN(Append(mCachedReplies,
                                    [id |-> processed[k], reply |-> k]))
  /\ handling' = [handling EXCEPT ![k] = "done"]
  /\ UNCHANGED <<now, network, clientVars, mAlreadyReceived,
                 processed>>

-----------------------------------------------------------------------------
(* The server and the network.  A message that is never delivered is lost; a *)
(* request may be delivered again and again.                                 *)

Deliver(message) ==
  \/ ListenerReceives(message)
  \/ ClientReceives(message) /\ network' = network \ {message}

\* A pass of the background thread takes less than a unit of time.
Tick ==
  /\ now < MaxTime
  /\ background.at \notin {"expire", "check", "retry"}
  /\ now' = now + 1
  /\ UNCHANGED <<network, clientVars, listenerVars>>

CommunicatorNext ==
  \/ \E t \in Issuers : IssueInserts(t) \/ IssuePublishes(t)
  \/ BackgroundThread
  \/ CloseUnblocks \/ CloseJoins
  \/ \E message \in network : Deliver(message)
  \/ \E k \in DOMAIN handling : SendReply(k) \/ SendReplyCaches(k)
  \/ Tick

\* Time passes, the client's threads run; nothing is asked of the network, the
\* listener or its handler.
CommunicatorFairness ==
  /\ WF_comVars(Tick)
  /\ WF_comVars(BackgroundThread)
  /\ WF_comVars(CloseJoins)

CommunicatorSpec ==
  CommunicatorInit /\ [][CommunicatorNext]_comVars /\ CommunicatorFairness

-----------------------------------------------------------------------------
(* Properties *)

\* However often a request is retried, duplicated or delayed, it is handed to
\* the handler once, unless CacheSize other requests came in between.
HandledOnce ==
  \A i, j \in DOMAIN processed :
    (i < j /\ processed[i] = processed[j]) => j - i > CacheSize

\* A request is pending or resolved, never both nor twice in the vault; a reply
\* its future holds was given by the handler to that request.
ResolvedProperly ==
  /\ \A i, j \in DOMAIN mNextToRetry :
       mNextToRetry[i].id = mNextToRetry[j].id => i = j
  /\ \A i \in DOMAIN mNextToRetry :
       /\ outcome[mNextToRetry[i].id] = Waiting
       /\ mNextToRetry[i].lastRetry >= mNextToRetry[i].start
  /\ \A id \in Ids :
       /\ outcome[id] > 0 =>
            processed[outcome[id]] = id
       /\ (id <= issued /\ outcome[id] = Waiting) =>
            \E i \in DOMAIN mNextToRetry : mNextToRetry[i].id = id

\* Every future becomes ready, whatever happens to messages.
EveryRequestResolved ==
  \A id \in Ids : issued >= id ~> outcome[id] # Waiting

=============================================================================
