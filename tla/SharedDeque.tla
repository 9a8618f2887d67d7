----------------------------- MODULE SharedDeque -----------------------------
(***************************************************************************)
(* The cached size of a deque kept by QuarkDB (src/src/shared/SharedDeque.cc): *)
(* operations announce themselves before and after on the deque's channel, an *)
(* announcement invalidates the cached size, and size() fills it again       *)
(* without holding the lock while it waits.  One client is modelled with a    *)
(* thread that modifies the deque, one that asks for its size, and its event  *)
(* loop; other clients are the steps of their operations at the server.       *)
(***************************************************************************)
EXTENDS Integers, Sequences, FiniteSets

CONSTANTS
  MaxLength,       \* bound: items in the deque
  MaxOperations,   \* bound: operations, of this client and of others
  MaxDequeEpochs   \* bound: connections

VARIABLES
  length,           \* server: items in the deque
  listening,        \* server: this connection has subscribed to mKey
  pipeline,         \* commands sent and not executed
  toClient,         \* announcements and replies on their way
  mCachedSize, mCachedSizeValid,
  asker,            \* the thread in size(): idle, asked, answered
  modifier,         \* the thread in an operation: idle, waiting, answered
  other,            \* another client's operation: none, prepared, executed
  operations,       \* operations so far
  dequeEpoch, toNotify,
  overtaken,        \* history: invalidated while size() was waiting
  unannounced       \* history: listeners called, the deque's before the subscriber's

dequeServer == <<length, listening, pipeline, toClient>>
dequeCache == <<mCachedSize, mCachedSizeValid, overtaken>>
dequeThreads == <<asker, modifier, other, operations>>
dequeLoop == <<dequeEpoch, toNotify, unannounced>>
dequeVars == <<dequeServer, dequeCache, dequeThreads, dequeLoop>>

Failed == -1       \* a null reply: the parser is not ok
Idle == [pc |-> "idle", value |-> 0]

\* The constructor has subscribed and attached both callbacks.
DequeInit ==
  /\ length = 0 /\ listening = FALSE
  /\ pipeline = <<"SUBSCRIBE">> /\ toClient = <<>>
  /\ mCachedSize = 0 /\ mCachedSizeValid = FALSE
  /\ asker = Idle /\ modifier = Idle
  /\ other = "none" /\ operations = 0
  /\ dequeEpoch = 1 /\ toNotify = {}
  /\ overtaken = FALSE /\ unannounced = FALSE

-----------------------------------------------------------------------------
(* The cache *)

InvalidateCachedSize ==
  /\ mCachedSize' = 0 /\ mCachedSizeValid' = FALSE
  /\ overtaken' = (overtaken \/ asker.pc # "idle")

-----------------------------------------------------------------------------
(* push_back(), pop_front(), clear(): invalidate, publish, execute and wait,  *)
(* publish.  publish() does not wait.                                         *)

ModifierStarts(command) ==
  /\ modifier.pc = "idle" /\ operations < MaxOperations
  /\ operations' = operations + 1
  /\ InvalidateCachedSize
  /\ pipeline' = pipeline \o <<"PUBLISH", command>>
  /\ modifier' = [Idle EXCEPT !.pc = "waiting"]
  /\ UNCHANGED <<length, listening, toClient, asker, other, dequeLoop>>

ModifierFinishes ==
  /\ modifier.pc = "answered"
  /\ modifier' = Idle
  /\ pipeline' = Append(pipeline, "PUBLISH")
  /\ UNCHANGED <<length, listening, toClient, dequeCache, asker, other,
                 operations, dequeLoop>>

-----------------------------------------------------------------------------
(* size() *)

SizeCached ==
  /\ asker.pc = "idle" /\ mCachedSizeValid
  /\ UNCHANGED dequeVars

SizeAsks ==
  /\ asker.pc = "idle" /\ ~mCachedSizeValid
  /\ asker' = [Idle EXCEPT !.pc = "asked"]
  /\ pipeline' = Append(pipeline, "deque-len")
  /\ overtaken' = FALSE
  /\ UNCHANGED <<length, listening, toClient, mCachedSize, mCachedSizeValid,
                 modifier, other, operations, dequeLoop>>

SizeReturns ==
  /\ asker.pc = "answered"
  /\ asker' = Idle
  /\ IF asker.value = Failed THEN UNCHANGED <<mCachedSize, mCachedSizeValid>>
     ELSE mCachedSize' = asker.value /\ mCachedSizeValid' = TRUE
  /\ UNCHANGED <<dequeServer, overtaken, modifier, other, operations, dequeLoop>>

-----------------------------------------------------------------------------
(* The server *)

Announce == IF listening THEN Append(toClient, [type |-> "message", value |-> 0])
            ELSE toClient

\* The deque after a command, as QDeque.cc uses it.
After(command) ==
  CASE command = "deque-push-back" -> length + 1
    [] command = "deque-pop-front" -> IF length = 0 THEN 0 ELSE length - 1
    [] command = "deque-clear" -> 0

Commands == {"deque-push-back", "deque-pop-front", "deque-clear"}

DequeServerExecutes ==
  /\ pipeline # <<>>
  /\ pipeline' = Tail(pipeline)
  /\ LET command == Head(pipeline) IN
     \/ /\ command = "SUBSCRIBE"
        /\ listening' = TRUE /\ UNCHANGED <<length, toClient>>
     \/ /\ command = "PUBLISH"
        /\ toClient' = Announce /\ UNCHANGED <<length, listening>>
     \/ /\ command = "deque-len"
        /\ toClient' = Append(toClient, [type |-> "size", value |-> length])
        /\ UNCHANGED <<length, listening>>
     \/ /\ command \in Commands
        /\ length' = After(command)
        /\ toClient' = Append(toClient, [type |-> "result", value |-> 0])
        /\ UNCHANGED listening
  /\ UNCHANGED <<dequeCache, dequeThreads, dequeLoop>>

\* Another client goes through the three steps of one operation.
OtherPrepares ==
  /\ other = "none" /\ operations < MaxOperations
  /\ other' = "prepared" /\ operations' = operations + 1
  /\ toClient' = Announce
  /\ UNCHANGED <<length, listening, pipeline, dequeCache, asker, modifier, dequeLoop>>

OtherExecutes(command) ==
  /\ other = "prepared"
  /\ other' = "executed"
  /\ length' = After(command)
  /\ UNCHANGED <<listening, pipeline, toClient, dequeCache, asker, modifier,
                 operations, dequeLoop>>

\* Mutant: an operation is announced before it is executed, not after.
OtherFinishesSilently ==
  /\ other = "executed"
  /\ other' = "none"
  /\ UNCHANGED <<dequeServer, dequeCache, asker, modifier, operations, dequeLoop>>

OtherAnnounces ==
  /\ other = "executed"
  /\ other' = "none"
  /\ toClient' = Announce
  /\ UNCHANGED <<length, listening, pipeline, dequeCache, asker, modifier,
                 operations, dequeLoop>>

-----------------------------------------------------------------------------
(* The event loop *)

\* processIncoming() for an announcement; a reply makes a future ready.
DequeReceives ==
  /\ toClient # <<>> /\ toNotify = {}
  /\ toClient' = Tail(toClient)
  /\ LET m == Head(toClient) IN
     \/ m.type = "message" /\ InvalidateCachedSize /\ UNCHANGED <<asker, modifier>>
     \/ /\ m.type = "size"
        /\ asker' = [pc |-> "answered", value |-> m.value]
        /\ UNCHANGED <<dequeCache, modifier>>
     \/ /\ m.type = "result"
        /\ modifier' = [pc |-> "answered", value |-> m.value]
        /\ UNCHANGED <<dequeCache, asker>>
  /\ UNCHANGED <<length, listening, pipeline, other, operations, dequeLoop>>

\* notifyConnectionLost(), and null replies for what was pending (NoRetries).
\* What the server has not executed by then is lost.
DequeConnectionLost ==
  /\ dequeEpoch < MaxDequeEpochs /\ toNotify = {}
  /\ dequeEpoch' = dequeEpoch + 1
  /\ toNotify' = {"deque", "subscriber"}
  /\ InvalidateCachedSize
  /\ asker' = IF asker.pc = "asked" THEN [pc |-> "answered", value |-> Failed] ELSE asker
  /\ modifier' = IF modifier.pc = "waiting" THEN [pc |-> "answered", value |-> Failed]
                 ELSE modifier
  /\ listening' = FALSE /\ pipeline' = <<>> /\ toClient' = <<>>
  /\ unannounced' = FALSE
  /\ UNCHANGED <<length, other, operations>>

\* notifyConnectionEstablished() of the deque and of BaseSubscriber, in the
\* order of their addresses.
DequeNotified ==
  /\ "deque" \in toNotify
  /\ toNotify' = toNotify \ {"deque"}
  /\ unannounced' = ("subscriber" \in toNotify)
  /\ InvalidateCachedSize
  /\ UNCHANGED <<dequeServer, dequeThreads, dequeEpoch>>

DequeSubscribes ==
  /\ "subscriber" \in toNotify
  /\ toNotify' = toNotify \ {"subscriber"}
  /\ pipeline' = Append(pipeline, "SUBSCRIBE")
  /\ UNCHANGED <<length, listening, toClient, dequeCache, dequeThreads,
                 dequeEpoch, unannounced>>

DequeNext ==
  \/ \E command \in Commands :
       /\ command = "deque-push-back" => length < MaxLength
       /\ ModifierStarts(command) \/ OtherExecutes(command)
  \/ ModifierFinishes
  \/ SizeCached \/ SizeAsks \/ SizeReturns
  \/ DequeServerExecutes \/ OtherPrepares \/ OtherAnnounces
  \/ DequeReceives \/ DequeConnectionLost \/ DequeNotified \/ DequeSubscribes

DequeSpec == DequeInit /\ [][DequeNext]_dequeVars

-----------------------------------------------------------------------------
(* Properties *)

\* When every operation has finished and every announcement has arrived, a
\* valid cached size is the size of the deque: unless an announcement arrived
\* while size() was waiting for its reply, or the deque was told of a new
\* connection before the subscriber was.
CachedSizeFreshAtRest ==
  (/\ pipeline = <<>> /\ toClient = <<>> /\ toNotify = {}
   /\ modifier.pc = "idle" /\ other = "none"
   /\ mCachedSizeValid /\ ~overtaken /\ ~unannounced)
  => mCachedSize = length
=============================================================================
