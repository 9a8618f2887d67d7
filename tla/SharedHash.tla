------------------------------ MODULE SharedHash ------------------------------
(***************************************************************************)
(* The transient and local parts of a shared hash                            *)
(* (src/src/shared/TransientSharedHash.cc, SharedHash.cc) in several clients,  *)
(* and the subscriptions to its updates in one of them                        *)
(* (src/src/shared/SharedHashSubscription.cc).  A change of the transient part  *)
(* is published and takes effect, in the client that made it too, when the     *)
(* publication comes back; the persistent part is PersistentSharedHash.tla.    *)
(***************************************************************************)
EXTENDS Integers, Sequences, FiniteSets, SequencesExt, AttachableQueue

CONSTANTS
  Clients, Observed,     \* the client with subscriptions
  HashKeys, HashValues, Watchers,   \* keys, values, SharedHashSubscriptions
  MaxBatches             \* bound: batches published

ASSUME WatchersAssumption == IsFiniteSet(Watchers)

VARIABLES
  local, transient,      \* in each client
  outgoing,              \* in each client: batches it publishes
  incoming,              \* in each client: batches on their way to it
  missed,                \* history: a reconnection has lost a batch for it
  batches,
  watcher,               \* the subscriptions: state and queue
  mSubscriptions,        \* registered with the SharedHashSubscriber
  feeding,               \* updates still to be fed, and for the first of them
                         \* the subscriptions left; mMutex is held meanwhile
  hashCrashed            \* a null mSubscriber has been used

hashData == <<local, transient, outgoing, incoming, missed, batches>>
watchVars == <<watcher, mSubscriptions, feeding, hashCrashed>>
sharedHashVars == <<hashData, watchVars>>

NoValue == "none"
NotFed == [updates |-> <<>>, targets |-> <<>>]
FeedFree == feeding.targets = <<>>
Batches == UNION {[keys -> HashValues] : keys \in SUBSET HashKeys}

SharedHashInit ==
  /\ local = [c \in Clients |-> [k \in HashKeys |-> NoValue]]
  /\ transient = local
  /\ outgoing = [c \in Clients |-> <<>>] /\ incoming = outgoing
  /\ missed = [c \in Clients |-> FALSE] /\ batches = 0
  /\ watcher = [w \in Watchers |->
       [state |-> "unused", attached |-> FALSE, items |-> <<>>, seen |-> <<>>]]
  /\ mSubscriptions = {} /\ feeding = NotFed /\ hashCrashed = FALSE

-----------------------------------------------------------------------------
(* set() with the parts of an UpdateBatch *)

SetLocal(c) ==
  /\ \E k \in HashKeys, v \in HashValues : local' = [local EXCEPT ![c][k] = v]
  /\ UNCHANGED <<transient, outgoing, incoming, missed, batches, watchVars>>

\* serializeBatch(), publish(): an empty batch is published too.
SetTransient(c) ==
  /\ batches < MaxBatches /\ batches' = batches + 1
  /\ \E batch \in Batches : outgoing' = [outgoing EXCEPT ![c] = Append(@, batch)]
  /\ UNCHANGED <<local, transient, incoming, missed, watchVars>>

\* The server sends the publication to every client.
Broadcast(c) ==
  /\ outgoing[c] # <<>>
  /\ outgoing' = [outgoing EXCEPT ![c] = Tail(@)]
  /\ incoming' = [d \in Clients |-> Append(incoming[d], Head(outgoing[c]))]
  /\ UNCHANGED <<local, transient, missed, batches, watchVars>>

\* A client reconnects: its publications and those for it are lost.
ClientReconnects(c) ==
  /\ outgoing[c] # <<>> \/ incoming[c] # <<>>
  /\ outgoing' = [outgoing EXCEPT ![c] = <<>>]
  /\ incoming' = [incoming EXCEPT ![c] = <<>>]
  /\ missed' = [missed EXCEPT ![c] = @ \/ incoming[c] # <<>>]
  /\ UNCHANGED <<local, transient, batches, watchVars>>

-----------------------------------------------------------------------------
(* processIncoming(): std::map::insert() keeps the value a key already has.   *)

Insert(contents, batch) ==
  [k \in HashKeys |-> IF contents[k] = NoValue /\ k \in DOMAIN batch THEN batch[k]
                      ELSE contents[k]]

\* feedUpdate() for each key of the batch; the set of subscriptions is read when
\* its turn comes.
TransientReceives(c) ==
  /\ incoming[c] # <<>>
  /\ c = Observed => feeding.updates = <<>>
  /\ incoming' = [incoming EXCEPT ![c] = Tail(@)]
  /\ LET batch == Head(incoming[c])
         ks == SetToSeq(DOMAIN batch)
     IN /\ transient' = [transient EXCEPT ![c] = Insert(@, batch)]
        /\ feeding' = IF c # Observed THEN feeding
             ELSE [NotFed EXCEPT !.updates = [i \in DOMAIN ks |-> <<ks[i], batch[ks[i]]>>]]
  /\ UNCHANGED <<local, outgoing, missed, batches, watcher, mSubscriptions, hashCrashed>>

FeedLocks ==
  /\ feeding.updates # <<>> /\ FeedFree
  /\ feeding' = IF mSubscriptions = {} THEN [feeding EXCEPT !.updates = Tail(@)]
                ELSE [feeding EXCEPT !.targets = SetToSeq(mSubscriptions)]
  /\ UNCHANGED <<hashData, watcher, mSubscriptions, hashCrashed>>

FeedNext ==
  /\ ~FeedFree
  /\ watcher' = [watcher EXCEPT ![Head(feeding.targets)] =
                   Emplace(@, Head(feeding.updates))]
  /\ feeding' = [updates |-> IF Len(feeding.targets) = 1 THEN Tail(feeding.updates)
                             ELSE feeding.updates,
                 targets |-> Tail(feeding.targets)]
  /\ UNCHANGED <<hashData, mSubscriptions, hashCrashed>>

-----------------------------------------------------------------------------
(* SharedHashSubscription *)

Watching(w) == watcher[w].state \in {"registered", "detached"}

WatcherRegisters(w) ==
  /\ watcher[w].state = "unused" /\ FeedFree
  /\ watcher' = [watcher EXCEPT ![w].state = "registered"]
  /\ mSubscriptions' = mSubscriptions \cup {w}
  /\ UNCHANGED <<hashData, feeding, hashCrashed>>

\* detach() only drops the pointer.
WatcherDetaches(w) ==
  /\ Watching(w)
  /\ watcher' = [watcher EXCEPT ![w].state = "detached"]
  /\ UNCHANGED <<hashData, mSubscriptions, feeding, hashCrashed>>

\* Mutant: a detached subscription is destroyed without unregistering.
WatcherDestroyedIfNull(w) ==
  /\ Watching(w) /\ FeedFree
  /\ watcher' = [watcher EXCEPT ![w].state = "destroyed"]
  /\ mSubscriptions' = IF watcher[w].state = "detached" THEN mSubscriptions
                       ELSE mSubscriptions \ {w}
  /\ UNCHANGED <<hashData, feeding, hashCrashed>>

\* The destructor calls through the pointer, null after detach().
WatcherDestroyed(w) ==
  /\ Watching(w) /\ FeedFree
  /\ IF watcher[w].state = "detached"
     THEN hashCrashed' = TRUE /\ UNCHANGED <<watcher, mSubscriptions>>
     ELSE /\ watcher' = [watcher EXCEPT ![w].state = "destroyed"]
          /\ mSubscriptions' = mSubscriptions \ {w}
          /\ UNCHANGED hashCrashed
  /\ UNCHANGED <<hashData, feeding>>

WatcherAttaches(w) ==
  /\ Watching(w)
  /\ watcher' = [watcher EXCEPT ![w] = IF @.attached THEN Detach(@) ELSE Attach(@)]
  /\ UNCHANGED <<hashData, mSubscriptions, feeding, hashCrashed>>

WatcherPops(w) ==
  /\ Watching(w) /\ CanPop(watcher[w])
  /\ watcher' = [watcher EXCEPT ![w] = PopFront(@)]
  /\ UNCHANGED <<hashData, mSubscriptions, feeding, hashCrashed>>

SharedHashNext ==
  /\ ~hashCrashed
  /\ \/ \E c \in Clients :
          \/ SetLocal(c) \/ SetTransient(c) \/ Broadcast(c) \/ ClientReconnects(c)
          \/ TransientReceives(c)
     \/ FeedLocks \/ FeedNext
     \/ \E w \in Watchers :
          \/ WatcherRegisters(w) \/ WatcherDetaches(w) \/ WatcherDestroyed(w)
          \/ WatcherAttaches(w) \/ WatcherPops(w)

SharedHashSpec == SharedHashInit /\ [][SharedHashNext]_sharedHashVars

-----------------------------------------------------------------------------
(* Properties *)

\* An update is never fed to a subscription that has been destroyed.
FedToLiveOnly ==
  /\ \A w \in mSubscriptions : Watching(w)
  /\ \A i \in DOMAIN feeding.targets : Watching(feeding.targets[i])
=============================================================================
