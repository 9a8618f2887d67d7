------------------------------ MODULE Subscriber ------------------------------
(***************************************************************************)
(* Subscription objects on one BaseSubscriber (src/src/pubsub/Subscriber.cc). *)
(* The event loop delivers a message to each of them in turn, holding the     *)
(* subscriber's mutex; users create and destroy them, read their queues and   *)
(* attach callbacks from other threads.                                       *)
(***************************************************************************)
EXTENDS BaseSubscriber, AttachableQueue

CONSTANT Subscriptions

VARIABLES
  subscription,           \* the objects: state, channel, acknowledged, queue
  channelSubscriptions,   \* for each channel, in the multimap's order
  delivering              \* the message and the objects it still has to reach;
                          \* the mutex is held

objectVars == <<subscription, channelSubscriptions, delivering>>
subscribersVars == <<subscriberVars, objectVars>>

Unused == [state |-> "unused", channel |-> "", acknowledged |-> FALSE,
           attached |-> FALSE, items |-> <<>>, seen |-> <<>>]
NoDelivery == [payload |-> 0, targets |-> <<>>]
Live(s) == subscription[s].state = "live"
MutexFree == delivering = NoDelivery

SubscriberInit ==
  /\ BaseInit
  /\ subscription = [s \in Subscriptions |-> Unused]
  /\ channelSubscriptions = [channel \in Channels |-> <<>>]
  /\ delivering = NoDelivery

-----------------------------------------------------------------------------
(* The users *)

UserAttaches(s) ==
  /\ Live(s)
  /\ subscription' = [subscription EXCEPT ![s] = Attach(@)]
  /\ UNCHANGED <<subscriberVars, channelSubscriptions, delivering>>

UserDetaches(s) ==
  /\ Live(s)
  /\ subscription' = [subscription EXCEPT ![s] = Detach(@)]
  /\ UNCHANGED <<subscriberVars, channelSubscriptions, delivering>>

\* front() and pop_front(), in unattached mode
UserPops(s) ==
  /\ Live(s) /\ CanPop(subscription[s])
  /\ subscription' = [subscription EXCEPT ![s] = PopFront(@)]
  /\ UNCHANGED <<subscriberVars, channelSubscriptions, delivering>>

\* subscribe(): the object is registered, then the channel subscribed to.
UserSubscribes(s, channel) ==
  /\ subscription[s] = Unused /\ MutexFree
  /\ subscription' = [subscription EXCEPT ![s] =
       [Unused EXCEPT !.state = "live", !.channel = channel]]
  /\ channelSubscriptions' = [channelSubscriptions EXCEPT ![channel] = Append(@, s)]
  /\ Subscribe({channel})
  /\ UNCHANGED <<calls, wire, serverChannels, serverPatterns, published, link,
                 pubEpoch, pushTypes, received, delivering>>

\* unsubscribe(): reverseChannelSubscriptions knows the place.
Unregister(s) ==
  LET channel == subscription[s].channel
  IN \E i \in DOMAIN channelSubscriptions[channel] :
       /\ channelSubscriptions[channel][i] = s
       /\ channelSubscriptions' =
            [channelSubscriptions EXCEPT ![channel] = RemoveAt(@, i)]

\* Mutant: the object is taken out without the mutex.
DestroyUnlocked(s) ==
  /\ Live(s)
  /\ subscription' = [subscription EXCEPT ![s].state = "destroyed"]
  /\ Unregister(s)
  /\ UNCHANGED <<subscriberVars, delivering>>

\* ~Subscription(): the server is not told.
Destroy(s) ==
  /\ Live(s) /\ MutexFree
  /\ subscription' = [subscription EXCEPT ![s].state = "destroyed"]
  /\ Unregister(s)
  /\ UNCHANGED <<subscriberVars, delivering>>

-----------------------------------------------------------------------------
(* The event loop: processIncomingMessage() *)

Receives ==
  /\ MutexFree /\ wire # <<>>
  /\ wire' = Tail(wire)
  /\ LET m == Parse(Head(wire))
         targets == channelSubscriptions[m.channel]
     IN \/ /\ m.messageType = "subscribe"
           /\ subscription' = IF targets = <<>> THEN subscription
                ELSE [subscription EXCEPT ![Head(targets)].acknowledged = TRUE]
           /\ UNCHANGED delivering
        \/ /\ m.messageType \in {"message", "pmessage"}
           /\ delivering' = IF targets = <<>> THEN NoDelivery
                ELSE [payload |-> m.payload, targets |-> targets]
           /\ UNCHANGED subscription
  /\ UNCHANGED <<baseVars, requests, serverChannels, serverPatterns, published,
                 link, pubEpoch, pushTypes, received, channelSubscriptions>>

DeliversToNext ==
  /\ ~MutexFree
  /\ subscription' = [subscription EXCEPT
       ![Head(delivering.targets)] = Emplace(@, delivering.payload)]
  /\ delivering' = IF Len(delivering.targets) = 1 THEN NoDelivery
                   ELSE [delivering EXCEPT !.targets = Tail(@)]
  /\ UNCHANGED <<subscriberVars, channelSubscriptions>>

SubscriberNext ==
  \/ PubSubServer /\ UNCHANGED objectVars
  \/ MutexFree /\ (LinkLost \/ LinkEstablished) /\ UNCHANGED objectVars
  \/ \E s \in Subscriptions :
       \/ UserAttaches(s) \/ UserDetaches(s) \/ UserPops(s) \/ Destroy(s)
       \/ \E channel \in Channels : UserSubscribes(s, channel)
  \/ Receives \/ DeliversToNext

SubscriberSpec == SubscriberInit /\ [][SubscriberNext]_subscribersVars

-----------------------------------------------------------------------------
(* Properties *)

\* The event loop never reaches an object that has been destroyed.
DeliversToLiveOnly ==
  /\ \A channel \in Channels : \A i \in DOMAIN channelSubscriptions[channel] :
       Live(channelSubscriptions[channel][i])
  /\ \A i \in DOMAIN delivering.targets : Live(delivering.targets[i])

\* A publication the event loop still has to hand to the object
ToArrive(s, n) ==
  \/ \E i \in DOMAIN wire :
       Parse(wire[i]).messageType = "message" /\ Parse(wire[i]).payload = n
  \/ /\ ~MutexFree /\ delivering.payload = n
     /\ \E i \in DOMAIN delivering.targets : delivering.targets[i] = s

\* Through its queue and its callbacks together a Subscription gets the messages
\* of its channel in the order of publication, once each, and within a
\* connection without one missing: neither between two nor after the last, where
\* what it has not got is still to arrive.
NoMessageSkipped ==
  \A s \in Subscriptions :
    LET got == subscription[s].seen \o subscription[s].items
    IN /\ \A i \in 2 .. Len(got) :
            /\ got[i - 1] < got[i]
            /\ \A n \in got[i - 1] + 1 .. got[i] - 1 :
                 ~ /\ published[n].channel = subscription[s].channel
                   /\ published[n].epoch = published[got[i]].epoch
                   /\ published[n].epoch = published[got[i - 1]].epoch
       /\ (link = "up" /\ Live(s)) =>
            \A i \in DOMAIN got : \A n \in got[i] + 1 .. Len(published) :
              (/\ published[got[i]].epoch = pubEpoch
               /\ published[n].epoch = pubEpoch
               /\ published[n].channel = subscription[s].channel)
              => ToArrive(s, n) \/ \E j \in DOMAIN got : got[j] = n
=============================================================================
