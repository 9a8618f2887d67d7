------------------------- MODULE PersistentSharedHash -------------------------
(***************************************************************************)
(* One client's copy of a versioned hash kept by QuarkDB                    *)
(* (src/src/shared/PersistentSharedHash.cc).  The server numbers the changes *)
(* and publishes each; the client applies the one that follows its version   *)
(* and asks for the whole hash (VHGETALL, "resilvering") when it has missed  *)
(* some, and after every reconnection.  Publications are processed by the    *)
(* event loop as they arrive; the reply to VHGETALL goes through the         *)
(* callback executor into a future, which is only looked at by get() and by  *)
(* the next publication.                                                     *)
(***************************************************************************)
EXTENDS Integers, Sequences, FiniteSets, TLC

CONSTANTS
  Fields, Values,
  MaxRevision,    \* bound: changes of the hash
  MaxEpochs,      \* bound: connections
  MaxResilvers    \* bound: VHGETALL commands

VARIABLES
  history,         \* server: its contents after each revision, from 0
  subscribed,      \* server: this connection has subscribed
  commands,        \* sent on this connection and not executed yet
  stream,          \* publications and replies on their way to the client
  epoch,           \* connections so far
  establishing,    \* listeners still to be told of the new connection
  aheadOfSubscribe, \* history: the hash was told first, this time
  arrived,         \* the publication the event loop is processing
  executorQueue,   \* replies the callback executor has not delivered yet
  asked,           \* VHGETALL commands so far; identifies each
  futureReply,     \* the one futureReply belongs to, with its value if ready
  contents, currentVersion,
  subscriberFed,   \* history: revisions passed on to mHashSubscriber
  regressed        \* history: a resilvering has lowered the version

serverVars == <<history, subscribed, commands, stream>>
hashVars == <<contents, currentVersion, subscriberFed, regressed>>
loopVars == <<epoch, establishing, aheadOfSubscribe, arrived, executorQueue>>
phVars == <<serverVars, loopVars, asked, futureReply, hashVars>>

Absent == "absent"
SubscribeCommand == 0        \* the SUBSCRIBE command; the others are VHGETALLs
Empty == [f \in Fields |-> Absent]
Revision == Len(history) - 1
ContentsAt(revision) == history[revision + 1]
NoMessage == [type |-> "none", revision |-> 0, contents |-> Empty, of |-> 0]
NotReady == [type |-> "pending", revision |-> 0, contents |-> Empty, of |-> 0]
Null(n) == [type |-> "null", revision |-> 0, contents |-> Empty, of |-> n]
Listeners == {"subscriber", "hash"}

\* The constructor has subscribed and sent the first VHGETALL; other clients
\* may have changed the hash before.
PersistentInit ==
  /\ \E first \in [Fields -> Values \cup {Absent}] : history \in {<<Empty>>, <<Empty, first>>}
  /\ subscribed = FALSE
  /\ commands = <<SubscribeCommand, 1>> /\ stream = <<>>
  /\ epoch = 1 /\ establishing = {} /\ aheadOfSubscribe = FALSE
  /\ arrived = NoMessage /\ executorQueue = <<>>
  /\ asked = 1 /\ futureReply = [NotReady EXCEPT !.of = 1]
  /\ contents = Empty /\ currentVersion = 0
  /\ subscriberFed = <<>> /\ regressed = FALSE

-----------------------------------------------------------------------------
(* The server.  A change is a VHSET or VHDEL, or a batch of them, from this   *)
(* client's set() and del() or from another's.                               *)

\* Applying a change: feedSingleKeyValue() for each of its fields.
Apply(old, change) ==
  [f \in Fields |-> IF f \in DOMAIN change THEN change[f] ELSE old[f]]

Change(change) ==
  /\ Revision < MaxRevision
  /\ history' = Append(history, Apply(ContentsAt(Revision), change))
  /\ stream' = IF subscribed
               THEN Append(stream, [type |-> "publish", revision |-> Revision + 1,
                                    contents |-> change, of |-> 0])
               ELSE stream
  /\ UNCHANGED <<subscribed, commands, loopVars, asked, futureReply, hashVars>>

ExecuteCommand ==
  /\ commands # <<>>
  /\ commands' = Tail(commands)
  /\ IF Head(commands) = SubscribeCommand THEN subscribed' = TRUE /\ UNCHANGED stream
     ELSE /\ stream' = Append(stream, [type |-> "reply", revision |-> Revision,
                              contents |-> ContentsAt(Revision), of |-> Head(commands)])
          /\ UNCHANGED subscribed
  /\ UNCHANGED <<history, loopVars, asked, futureReply, hashVars>>

-----------------------------------------------------------------------------
(* Resilvering *)

\* triggerResilvering(): the future of an earlier command is given up.
TriggerResilvering ==
  /\ asked' = asked + 1
  /\ futureReply' = [NotReady EXCEPT !.of = asked + 1]
  /\ commands' = Append(commands, asked + 1)

\* handleResponse(), resilver(): whatever the version was.
Resilver(reply) ==
  /\ currentVersion' = reply.revision
  /\ contents' = reply.contents
  /\ regressed' = (regressed \/ reply.revision < currentVersion)
  /\ UNCHANGED subscriberFed

\* checkFuture(); a null reply cannot be parsed.
CheckFuture ==
  IF futureReply.type = "pending" \/ futureReply.of = 0
  THEN UNCHANGED <<futureReply, hashVars>>
  ELSE /\ futureReply' = NotReady
       /\ IF futureReply.type = "null" THEN UNCHANGED hashVars
          ELSE Resilver(futureReply)

\* get(), getCurrentVersion(), from any thread
Get ==
  /\ CheckFuture
  /\ UNCHANGED <<serverVars, loopVars, asked>>

-----------------------------------------------------------------------------
(* The event loop *)

\* A reply goes to the executor, a publication to processIncoming(), which
\* looks at the future first.
Arrives ==
  /\ stream # <<>> /\ arrived = NoMessage /\ establishing = {}
  /\ stream' = Tail(stream)
  /\ LET m == Head(stream) IN
     IF m.type = "reply"
     THEN /\ executorQueue' = Append(executorQueue, m)
          /\ UNCHANGED <<arrived, futureReply, hashVars>>
     ELSE arrived' = m /\ CheckFuture /\ UNCHANGED executorQueue
  /\ UNCHANGED <<history, subscribed, commands, epoch, establishing,
                 aheadOfSubscribe, asked>>

\* The executor fulfils the promise; the future may have been given up.
ExecutorDelivers ==
  /\ executorQueue # <<>>
  /\ executorQueue' = Tail(executorQueue)
  /\ futureReply' = IF Head(executorQueue).of = futureReply.of
                    THEN Head(executorQueue) ELSE futureReply
  /\ UNCHANGED <<serverVars, epoch, establishing, aheadOfSubscribe, arrived, asked,
                 hashVars>>

\* Mutant: any newer revision is applied.
FeedRevisionGap(m) ==
  IF m.revision > currentVersion
  THEN /\ contents' = Apply(contents, m.contents)
       /\ currentVersion' = m.revision
       /\ subscriberFed' = Append(subscriberFed, m.revision)
       /\ UNCHANGED <<regressed, asked, futureReply, commands>>
  ELSE UNCHANGED <<hashVars, asked, futureReply, commands>>

\* Mutant: a gap does not ask for the whole hash.
FeedRevisionNoResilver(m) ==
  IF m.revision = currentVersion + 1
  THEN /\ contents' = Apply(contents, m.contents)
       /\ currentVersion' = m.revision
       /\ subscriberFed' = Append(subscriberFed, m.revision)
       /\ UNCHANGED <<regressed, asked, futureReply, commands>>
  ELSE UNCHANGED <<hashVars, asked, futureReply, commands>>

\* feedRevision(): nothing to do, applied and passed on, or a gap.
FeedRevision(m) ==
  CASE m.revision <= currentVersion ->
         UNCHANGED <<hashVars, asked, futureReply, commands>>
    [] m.revision >= currentVersion + 2 ->
         TriggerResilvering /\ UNCHANGED hashVars
    [] OTHER ->
         /\ contents' = Apply(contents, m.contents)
         /\ currentVersion' = m.revision
         /\ subscriberFed' = Append(subscriberFed, m.revision)
         /\ UNCHANGED <<regressed, asked, futureReply, commands>>

Processed ==
  /\ arrived # NoMessage
  /\ asked < MaxResilvers
  /\ FeedRevision(arrived)
  /\ arrived' = NoMessage
  /\ UNCHANGED <<history, subscribed, stream, epoch, establishing,
                 aheadOfSubscribe, executorQueue>>

\* The connection breaks between two messages: what was on its way is lost,
\* replies that will not come are null ones (NoRetries).  Replies come in the
\* order of the commands: the last ones are those without.
Reconnect ==
  /\ epoch < MaxEpochs /\ arrived = NoMessage /\ establishing = {}
  /\ epoch' = epoch + 1
  /\ establishing' = Listeners /\ aheadOfSubscribe' = FALSE
  /\ LET outstanding ==
           Cardinality({i \in DOMAIN stream : stream[i].type = "reply"})
           + Cardinality({i \in DOMAIN commands : commands[i] # SubscribeCommand})
     IN executorQueue' = executorQueue
          \o [i \in 1 .. outstanding |-> Null(asked - outstanding + i)]
  /\ stream' = <<>> /\ commands' = <<>> /\ subscribed' = FALSE
  /\ UNCHANGED <<history, arrived, asked, futureReply, hashVars>>

\* BaseSubscriber's listener subscribes again.  The listeners are called in the
\* order of their addresses: any.
NotifySubscriber ==
  /\ "subscriber" \in establishing
  /\ establishing' = establishing \ {"subscriber"}
  /\ commands' = Append(commands, SubscribeCommand)
  /\ UNCHANGED <<history, subscribed, stream, epoch, aheadOfSubscribe, arrived,
                 executorQueue, asked, futureReply, hashVars>>

\* notifyConnectionEstablished(): checkFuture() finds the new future, which is
\* not ready.
NotifyHash ==
  /\ "hash" \in establishing
  /\ asked < MaxResilvers
  /\ establishing' = establishing \ {"hash"}
  /\ aheadOfSubscribe' = ("subscriber" \in establishing)
  /\ TriggerResilvering
  /\ UNCHANGED <<history, subscribed, stream, epoch, arrived, executorQueue,
                 hashVars>>

EventLoop == Arrives \/ Processed \/ NotifySubscriber \/ NotifyHash

PersistentNext ==
  \/ \E f \in Fields, v \in Values \cup {Absent} : Change(f :> v)
  \/ \E change \in [Fields -> Values] : Change(change)
  \/ ExecuteCommand
  \/ Get
  \/ EventLoop \/ ExecutorDelivers \/ Reconnect

\* The server executes, both threads of the client run, the user reads.
PersistentFairness ==
  /\ WF_phVars(ExecuteCommand) /\ WF_phVars(Get)
  /\ WF_phVars(EventLoop) /\ WF_phVars(ExecutorDelivers)

PersistentSpec ==
  PersistentInit /\ [][PersistentNext]_phVars /\ PersistentFairness

-----------------------------------------------------------------------------
(* Properties *)

\* What get() reads is the hash as the server had it at one revision, the one
\* getCurrentVersion() returns; and revisions reach the subscriber in order.
ContentsMatchVersion ==
  /\ currentVersion <= Revision
  /\ contents = ContentsAt(currentVersion)
  /\ \A i \in 2 .. Len(subscriberFed) : subscriberFed[i - 1] < subscriberFed[i]

\* At rest, with everything delivered, the copy is out of date only if a late
\* reply overwrote a newer version, or if VHGETALL went ahead of SUBSCRIBE.
AtRest ==
  /\ commands = <<>> /\ stream = <<>> /\ arrived = NoMessage
  /\ executorQueue = <<>> /\ establishing = {}
  /\ futureReply.of = 0

UpToDateAtRest ==
  (AtRest /\ ~aheadOfSubscribe /\ ~regressed) => currentVersion = Revision

\* "eventually, it _will_ be consistent" (PersistentSharedHash.hh)
EventuallyConsistent == <>[](currentVersion = Revision)
=============================================================================
