--------------------------- MODULE BaseSubscriber ---------------------------
(***************************************************************************)
(* The channels and patterns a client listens to                             *)
(* (src/src/pubsub/BaseSubscriber.cc), the connection they are subscribed on, *)
(* and the messages it brings (src/src/pubsub/MessageParser.cc).  The client   *)
(* keeps the sets, sends what changes them, and sends them all again when a    *)
(* new connection is established.  Its QClient has NoRetries: what is unanswered *)
(* when a connection breaks is dropped, what is staged afterwards goes out on  *)
(* the next one.                                                               *)
(***************************************************************************)
EXTENDS Integers, Sequences, FiniteSets, SequencesExt

CONSTANTS
  Channels, Patterns,    \* every pattern matches every channel
  MaxMessages,           \* bound: publications
  MaxPubEpochs,          \* bound: connections
  MaxCalls               \* bound: calls of subscribe() and the like

ASSUME ChannelsAssumption == IsFiniteSet(Channels) /\ IsFiniteSet(Patterns)

VARIABLES
  channels, patterns,    \* what the client is to be subscribed to
  requests,              \* commands staged and not executed
  wire,                  \* replies on their way to the client
  serverChannels, serverPatterns,   \* server: subscriptions of this connection
  published,             \* server: every publication, its channel and the
                         \* connection it was sent on, 0 if on none
  link,                  \* "up", "down"
  pubEpoch, calls,
  pushTypes,             \* SubscriptionOptions::usePushTypes
  received               \* MessageQueue: the listener of a bare BaseSubscriber

baseVars == <<channels, patterns, calls>>
linkVars == <<requests, wire, serverChannels, serverPatterns, published, link,
              pubEpoch, pushTypes>>
subscriberVars == <<baseVars, linkVars, received>>

BaseInit ==
  /\ channels = {} /\ patterns = {}
  /\ requests = <<>> /\ wire = <<>>
  /\ serverChannels = {} /\ serverPatterns = {}
  /\ published = <<>>
  /\ link = "up" /\ pubEpoch = 1 /\ calls = 0
  /\ pushTypes \in BOOLEAN
  /\ received = <<>>

-----------------------------------------------------------------------------
(* Messages *)

\* What the server sends: an array, or a push type marked "pubsub".
Reply(elements) ==
  [type |-> IF pushTypes THEN "push" ELSE "array",
   elements |-> IF pushTypes THEN <<"pubsub">> \o elements ELSE elements]

Arity == [message |-> 3, pmessage |-> 4, subscribe |-> 3, psubscribe |-> 3,
          unsubscribe |-> 3, punsubscribe |-> 3]

NotAMessage == [messageType |-> "none", channel |-> "", pattern |-> "", payload |-> ""]

\* MessageParser::parse().  What it compares with "pubsub" is the text of the push
\* reply itself, which has none, and not its first element: it accepts any.
Parse(reply) ==
  LET baseIdx == IF reply.type = "array" THEN 0 ELSE 1
      at(i) == reply.elements[baseIdx + i]
      kind == at(1)
      hasPattern == kind \in {"pmessage", "psubscribe", "punsubscribe"}
  IN IF \/ kind \notin DOMAIN Arity
        \/ Len(reply.elements) # baseIdx + Arity[kind]
     THEN NotAMessage
     ELSE [messageType |-> kind,
           pattern |-> IF hasPattern THEN at(2) ELSE "",
           channel |-> IF kind = "pmessage" THEN at(3)
                       ELSE IF hasPattern THEN "" ELSE at(2),
           payload |-> at(Arity[kind])]

\* The count of subscriptions in an acknowledgement is left out.
Acknowledgements(kind, names) ==
  LET listed == SetToSeq(names)
  IN [i \in DOMAIN listed |-> Reply(<<kind, listed[i], "count">>)]

-----------------------------------------------------------------------------
(* Calls, each under the lock *)

Send(kind, names) == requests' = Append(requests, [kind |-> kind, names |-> names])

\* subscribe(): only what is new is asked for.
Subscribe(newChannels) ==
  /\ channels' = channels \cup newChannels
  /\ IF newChannels \subseteq channels THEN UNCHANGED requests
     ELSE Send("subscribe", newChannels \ channels)
  /\ UNCHANGED patterns

PSubscribe(newPatterns) ==
  /\ patterns' = patterns \cup newPatterns
  /\ IF newPatterns \subseteq patterns THEN UNCHANGED requests
     ELSE Send("psubscribe", newPatterns \ patterns)
  /\ UNCHANGED channels

\* Without an argument everything is unsubscribed from.
Unsubscribe(remChannels) ==
  /\ channels' = IF remChannels = {} THEN {} ELSE channels \ remChannels
  /\ Send("unsubscribe", remChannels)
  /\ UNCHANGED patterns

PUnsubscribe(remPatterns) ==
  /\ patterns' = IF remPatterns = {} THEN {} ELSE patterns \ remPatterns
  /\ Send("punsubscribe", remPatterns)
  /\ UNCHANGED channels

BaseCall ==
  /\ calls < MaxCalls /\ calls' = calls + 1
  /\ \/ \E names \in SUBSET Channels : Subscribe(names) \/ Unsubscribe(names)
     \/ \E names \in SUBSET Patterns : PSubscribe(names) \/ PUnsubscribe(names)
  /\ UNCHANGED <<wire, serverChannels, serverPatterns, published, link, pubEpoch,
                 pushTypes, received>>

-----------------------------------------------------------------------------
(* The server *)

ServerSubscribes ==
  /\ link = "up" /\ requests # <<>>
  /\ requests' = Tail(requests)
  /\ LET kind == Head(requests).kind
         names == Head(requests).names
         dropped(all) == IF names = {} THEN all ELSE names
     IN \/ /\ kind = "subscribe"
           /\ serverChannels' = serverChannels \cup names
           /\ wire' = wire \o Acknowledgements(kind, names)
           /\ UNCHANGED serverPatterns
        \/ /\ kind = "psubscribe"
           /\ serverPatterns' = serverPatterns \cup names
           /\ wire' = wire \o Acknowledgements(kind, names)
           /\ UNCHANGED serverChannels
        \/ /\ kind = "unsubscribe"
           /\ serverChannels' = serverChannels \ dropped(serverChannels)
           /\ wire' = wire \o Acknowledgements(kind, dropped(serverChannels))
           /\ UNCHANGED serverPatterns
        \/ /\ kind = "punsubscribe"
           /\ serverPatterns' = serverPatterns \ dropped(serverPatterns)
           /\ wire' = wire \o Acknowledgements(kind, dropped(serverPatterns))
           /\ UNCHANGED serverChannels
  /\ UNCHANGED <<baseVars, published, link, pubEpoch, pushTypes, received>>

\* A payload is the number of its publication.
PublishOn(channel) ==
  /\ Len(published) < MaxMessages
  /\ LET n == Len(published) + 1
         direct == IF link = "up" /\ channel \in serverChannels
                   THEN <<Reply(<<"message", channel, n>>)>> ELSE <<>>
         matched == SetToSeq(IF link = "up" THEN serverPatterns ELSE {})
     IN /\ wire' = wire \o direct
                   \o [i \in DOMAIN matched |->
                         Reply(<<"pmessage", matched[i], channel, n>>)]
        /\ published' = Append(published, [channel |-> channel,
             epoch |-> IF direct = <<>> THEN 0 ELSE pubEpoch])
  /\ UNCHANGED <<baseVars, requests, serverChannels, serverPatterns, link,
                 pubEpoch, pushTypes, received>>

-----------------------------------------------------------------------------
(* Connections *)

LinkLost ==
  /\ link = "up" /\ pubEpoch < MaxPubEpochs
  /\ link' = "down"
  /\ requests' = <<>> /\ wire' = <<>>
  /\ serverChannels' = {} /\ serverPatterns' = {}
  /\ UNCHANGED <<baseVars, published, pubEpoch, pushTypes, received>>

\* Mutant: patterns are not subscribed to again.
ResubscribeChannels ==
  IF channels = {} THEN <<>> ELSE <<[kind |-> "subscribe", names |-> channels]>>

\* notifyConnectionEstablished()
Resubscribe ==
  (IF channels = {} THEN <<>> ELSE <<[kind |-> "subscribe", names |-> channels]>>)
  \o (IF patterns = {} THEN <<>> ELSE <<[kind |-> "psubscribe", names |-> patterns]>>)

LinkEstablished ==
  /\ link = "down"
  /\ link' = "up" /\ pubEpoch' = pubEpoch + 1
  /\ requests' = requests \o Resubscribe
  /\ UNCHANGED <<baseVars, wire, serverChannels, serverPatterns, published,
                 pushTypes, received>>

-----------------------------------------------------------------------------
(* A bare BaseSubscriber with a MessageQueue: handleIncomingMessage(), pop_front(), *)
(* clear(). *)

QueueReceives ==
  /\ wire # <<>>
  /\ wire' = Tail(wire)
  /\ received' = IF Parse(Head(wire)).messageType = "none" THEN received
                 ELSE Append(received, Parse(Head(wire)))
  /\ UNCHANGED <<baseVars, requests, serverChannels, serverPatterns, published,
                 link, pubEpoch, pushTypes>>

QueuePops ==
  /\ received # <<>>
  /\ received' \in {Tail(received), <<>>}
  /\ UNCHANGED <<baseVars, linkVars>>

PubSubServer == ServerSubscribes \/ \E channel \in Channels : PublishOn(channel)

BaseNext == PubSubServer \/ LinkLost \/ LinkEstablished \/ BaseCall \/ QueueReceives \/ QueuePops

BaseSpec == BaseInit /\ [][BaseNext]_subscriberVars

-----------------------------------------------------------------------------
(* Properties *)

\* When everything staged has been executed the server's subscriptions are the
\* client's, whatever was called while the connection was down or coming up.
SubscribedAtRest ==
  (link = "up" /\ requests = <<>>)
  => serverChannels = channels /\ serverPatterns = patterns
=============================================================================
