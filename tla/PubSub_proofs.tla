---------------------------- MODULE PubSub_proofs ----------------------------
(***************************************************************************)
(* The channels a client listens to, the Subscription objects of a Subscriber  *)
(* and the subscriptions to a SharedHash, for any channels, objects, messages  *)
(* and connections: at rest the server's subscriptions are the client's, a     *)
(* Subscription gets its messages in order and without one missing within a    *)
(* connection, and nothing reaches an object whose destructor has run.         *)
(***************************************************************************)
EXTENDS Subscriber, SharedHash, SequenceTheorems, FiniteSetTheorems, TLAPS

-----------------------------------------------------------------------------
(* Sequences                                                                 *)

\* A sequence, of whatever elements.
IsSequence(s) == \E S : s \in Seq(S)

LEMMA EmptyIsSequence == IsSequence(<<>>)
<1>1. <<>> \in Seq({})
  OBVIOUS
<1> QED BY <1>1 DEF IsSequence

LEMMA SequenceDomain ==
  ASSUME NEW s, IsSequence(s) PROVE Len(s) \in Nat /\ DOMAIN s = 1 .. Len(s)
<1> QED BY DEF IsSequence

LEMMA Appended ==
  ASSUME NEW s, IsSequence(s), NEW x
  PROVE  /\ IsSequence(Append(s, x)) /\ Len(Append(s, x)) = Len(s) + 1
         /\ DOMAIN s = 1 .. Len(s) /\ DOMAIN Append(s, x) = 1 .. Len(s) + 1
         /\ Len(s) \in Nat
         /\ Append(s, x)[Len(s) + 1] = x
         /\ \A i \in 1 .. Len(s) : Append(s, x)[i] = s[i]
<1>1. PICK S : s \in Seq(S)
  BY DEF IsSequence
<1> DEFINE T == S \cup {x}
<1>2. s \in Seq(T) /\ x \in T
  BY <1>1, SeqMonotonic
<1> HIDE DEF T
<1>3. Append(s, x) \in Seq(T) /\ Len(Append(s, x)) = Len(s) + 1
  BY <1>2
<1>4. IsSequence(Append(s, x))
  BY <1>3 DEF IsSequence
<1> QED BY <1>2, <1>3, <1>4, AppendProperties

LEMMA Rest ==
  ASSUME NEW s, IsSequence(s), s # <<>>
  PROVE  /\ IsSequence(Tail(s)) /\ Len(s) \in Nat \ {0} /\ DOMAIN s = 1 .. Len(s)
         /\ Len(Tail(s)) = Len(s) - 1 /\ DOMAIN Tail(s) = 1 .. Len(s) - 1
         /\ Head(s) = s[1]
         /\ \A i \in 1 .. Len(s) - 1 : Tail(s)[i] = s[i + 1]
<1>1. PICK S : s \in Seq(S)
  BY DEF IsSequence
<1>2. Tail(s) \in Seq(S)
  BY <1>1
<1>3. IsSequence(Tail(s))
  BY <1>2 DEF IsSequence
<1> QED BY <1>1, <1>2, <1>3

LEMMA Joined ==
  ASSUME NEW s, IsSequence(s), NEW t, IsSequence(t)
  PROVE  /\ IsSequence(s \o t) /\ DOMAIN s = 1 .. Len(s)
         /\ Len(s) \in Nat /\ Len(t) \in Nat
         /\ DOMAIN (s \o t) = 1 .. Len(s) + Len(t)
         /\ \A i \in 1 .. Len(s) : (s \o t)[i] = s[i]
         /\ \A i \in Len(s) + 1 .. Len(s) + Len(t) : (s \o t)[i] = t[i - Len(s)]
<1>1. PICK R, S : s \in Seq(R) /\ t \in Seq(S)
  BY DEF IsSequence
<1> DEFINE T == R \cup S
           m == Len(s)
           n == Len(t)
<1>2. s \in Seq(T) /\ t \in Seq(T)
  BY <1>1, SeqMonotonic
<1> HIDE DEF T
<1>3. /\ s \o t \in Seq(T) /\ Len(s \o t) = m + n
      /\ \A i \in 1 .. m + n : (s \o t)[i] = IF i <= m THEN s[i] ELSE t[i - m]
  BY <1>2, ConcatProperties
<1>4. m \in Nat /\ n \in Nat /\ DOMAIN s = 1 .. m /\ DOMAIN (s \o t) = 1 .. m + n
  BY <1>2, <1>3
<1>5. IsSequence(s \o t)
  BY <1>3 DEF IsSequence
<1> HIDE DEF m, n
<1>6. /\ \A i \in 1 .. m : (s \o t)[i] = s[i]
      /\ \A i \in m + 1 .. m + n : (s \o t)[i] = t[i - m]
  BY <1>3, <1>4
<1> QED BY <1>4, <1>5, <1>6 DEF m, n

-----------------------------------------------------------------------------
(* Subscriptions: the inductive invariant                                    *)

\* The commands that subscribe to a name, and those that drop it.
Asks(request, kind, name) == request.kind = kind /\ name \in request.names
Drops(request, unkind, name) ==
  request.kind = unkind /\ (request.names = {} \/ name \in request.names)

\* After the commands staged the server has the name.
Stays(staged, i, unkind, name) ==
  \A j \in DOMAIN staged : j > i => ~Drops(staged[j], unkind, name)
Effective(staged, kind, unkind, has, name) ==
  \/ name \in has /\ Stays(staged, 0, unkind, name)
  \/ \E i \in DOMAIN staged :
       Asks(staged[i], kind, name) /\ Stays(staged, i, unkind, name)

\* It has what is wanted, unless the connection is down; it never has more.
Agrees(up, staged, kind, unkind, has, wanted) ==
  /\ \A name : Effective(staged, kind, unkind, has, name) => name \in wanted
  /\ up => \A name \in wanted : Effective(staged, kind, unkind, has, name)

ChannelsAgree ==
  Agrees(link = "up", requests, "subscribe", "unsubscribe", serverChannels, channels)
PatternsAgree ==
  Agrees(link = "up", requests, "psubscribe", "punsubscribe", serverPatterns, patterns)

SubscribedInv ==
  /\ IsSequence(requests)
  /\ link \in {"up", "down"}
  /\ ChannelsAgree /\ PatternsAgree

LEMMA EffectiveEmpty ==
  ASSUME NEW kind, NEW unkind, NEW has, NEW name
  PROVE  Effective(<<>>, kind, unkind, has, name) <=> name \in has
<1>1. DOMAIN <<>> = {}
  OBVIOUS
<1> QED BY <1>1 DEF Effective, Stays

\* One more command decides, or what was decided before.
LEMMA EffectiveAppended ==
  ASSUME NEW staged, IsSequence(staged), NEW request,
         NEW kind, NEW unkind, kind # unkind, NEW has, NEW name
  PROVE  Effective(Append(staged, request), kind, unkind, has, name) <=>
           \/ Asks(request, kind, name)
           \/ Effective(staged, kind, unkind, has, name) /\ ~Drops(request, unkind, name)
<1> DEFINE more == Append(staged, request)
<1>1. PICK n \in Nat : n = Len(staged)
  BY SequenceDomain
<1>2. /\ DOMAIN staged = 1 .. n /\ DOMAIN more = 1 .. n + 1 /\ more[n + 1] = request
      /\ \A i \in 1 .. n : more[i] = staged[i]
  BY <1>1, Appended
<1> HIDE DEF more
<1>3. \A i \in 0 .. n :
        Stays(more, i, unkind, name) <=>
          Stays(staged, i, unkind, name) /\ ~Drops(request, unkind, name)
  <2>1. SUFFICES ASSUME NEW i \in 0 .. n
                 PROVE  Stays(more, i, unkind, name) <=>
                          Stays(staged, i, unkind, name) /\ ~Drops(request, unkind, name)
    OBVIOUS
  <2>2. \A j \in 1 .. n + 1 : j \in 1 .. n \/ j = n + 1
    OBVIOUS
  <2>3. \A j \in 1 .. n : j \in 1 .. n + 1
    OBVIOUS
  <2>4. n + 1 \in 1 .. n + 1 /\ n + 1 > i
    OBVIOUS
  <2> QED BY <1>2, <2>2, <2>3, <2>4 DEF Stays
<1>4. Stays(more, n + 1, unkind, name)
  <2>1. \A j \in 1 .. n + 1 : ~(j > n + 1)
    OBVIOUS
  <2> QED BY <1>2, <2>1 DEF Stays
<1>5. \A j \in 1 .. n + 1 : j \in 0 .. n \/ j = n + 1
  OBVIOUS
<1>6. (0 \in 0 .. n) /\ \A j \in 1 .. n : j \in 0 .. n /\ j \in 1 .. n + 1
  OBVIOUS
<1>7. n + 1 \in 1 .. n + 1
  OBVIOUS
<1>8. Asks(request, kind, name) => ~Drops(request, unkind, name)
  BY DEF Asks, Drops
<1>9. (\E i \in DOMAIN more : Asks(more[i], kind, name) /\ Stays(more, i, unkind, name)) <=>
        \/ Asks(request, kind, name)
        \/ /\ \E i \in DOMAIN staged :
                Asks(staged[i], kind, name) /\ Stays(staged, i, unkind, name)
           /\ ~Drops(request, unkind, name)
  <2>1. ASSUME NEW i \in DOMAIN more, Asks(more[i], kind, name), Stays(more, i, unkind, name)
        PROVE  \/ Asks(request, kind, name)
               \/ /\ \E k \in DOMAIN staged :
                       Asks(staged[k], kind, name) /\ Stays(staged, k, unkind, name)
                  /\ ~Drops(request, unkind, name)
    <3>1. CASE i = n + 1
      BY <1>2, <2>1, <3>1
    <3>2. CASE i \in 1 .. n
      BY <1>2, <1>3, <1>6, <2>1, <3>2
    <3> QED BY <1>2, <2>1, <3>1, <3>2
  <2>2. ASSUME Asks(request, kind, name)
        PROVE  \E i \in DOMAIN more : Asks(more[i], kind, name) /\ Stays(more, i, unkind, name)
    BY <1>2, <1>4, <1>7, <2>2
  <2>3. ASSUME ~Drops(request, unkind, name), NEW k \in DOMAIN staged,
               Asks(staged[k], kind, name), Stays(staged, k, unkind, name)
        PROVE  \E i \in DOMAIN more : Asks(more[i], kind, name) /\ Stays(more, i, unkind, name)
    BY <1>2, <1>3, <1>6, <2>3
  <2> QED BY <2>1, <2>2, <2>3
<1>10. Stays(more, 0, unkind, name) <=>
         Stays(staged, 0, unkind, name) /\ ~Drops(request, unkind, name)
  BY <1>3, <1>6
<1>11. Effective(more, kind, unkind, has, name) <=>
           \/ Asks(request, kind, name)
           \/ Effective(staged, kind, unkind, has, name) /\ ~Drops(request, unkind, name)
  BY <1>8, <1>9, <1>10 DEF Effective
<1> QED BY <1>11 DEF more

\* The server executes the first command.
LEMMA EffectiveTail ==
  ASSUME NEW staged, IsSequence(staged), staged # <<>>,
         NEW kind, NEW unkind, kind # unkind, NEW has, NEW hasNow, NEW name,
         name \in hasNow <=>
           \/ Asks(Head(staged), kind, name)
           \/ name \in has /\ ~Drops(Head(staged), unkind, name)
  PROVE  Effective(Tail(staged), kind, unkind, hasNow, name) <=>
           Effective(staged, kind, unkind, has, name)
<1> DEFINE rest == Tail(staged)
<1>1. PICK n \in Nat : n = Len(staged) - 1
  BY Rest
<1>2. /\ DOMAIN staged = 1 .. n + 1 /\ DOMAIN rest = 1 .. n /\ Head(staged) = staged[1]
      /\ \A i \in 1 .. n : rest[i] = staged[i + 1]
  BY <1>1, Rest
<1> HIDE DEF rest
<1>3. \A i \in 0 .. n : Stays(rest, i, unkind, name) <=> Stays(staged, i + 1, unkind, name)
  <2>1. SUFFICES ASSUME NEW i \in 0 .. n
                 PROVE  Stays(rest, i, unkind, name) <=> Stays(staged, i + 1, unkind, name)
    OBVIOUS
  <2>2. ASSUME Stays(rest, i, unkind, name), NEW j \in 1 .. n + 1, j > i + 1
        PROVE  ~Drops(staged[j], unkind, name)
    <3>1. PICK k \in 1 .. n : j = k + 1 /\ k > i
      <4>1. j - 1 \in 1 .. n /\ j = (j - 1) + 1 /\ j - 1 > i
        BY <2>2
      <4> QED BY <4>1
    <3> QED BY <1>2, <2>2, <3>1 DEF Stays
  <2>3. ASSUME Stays(staged, i + 1, unkind, name), NEW j \in 1 .. n, j > i
        PROVE  ~Drops(rest[j], unkind, name)
    <3>1. j + 1 \in 1 .. n + 1 /\ j + 1 > i + 1
      BY <2>3
    <3> QED BY <1>2, <2>3, <3>1 DEF Stays
  <2> QED BY <1>2, <2>2, <2>3 DEF Stays
<1>4. Stays(staged, 0, unkind, name) <=>
        Stays(staged, 1, unkind, name) /\ ~Drops(staged[1], unkind, name)
  <2>1. \A j \in 1 .. n + 1 : j > 0 <=> (j > 1 \/ j = 1)
    OBVIOUS
  <2>2. 1 \in 1 .. n + 1 /\ 1 > 0
    OBVIOUS
  <2>3. \A j \in 1 .. n + 1 : j > 1 => j > 0
    OBVIOUS
  <2> QED BY <1>2, <2>1, <2>2, <2>3 DEF Stays
<1>5. (\E i \in DOMAIN staged : Asks(staged[i], kind, name) /\ Stays(staged, i, unkind, name)) <=>
        \/ Asks(staged[1], kind, name) /\ Stays(staged, 1, unkind, name)
        \/ \E i \in DOMAIN rest : Asks(rest[i], kind, name) /\ Stays(rest, i, unkind, name)
  <2>1. ASSUME NEW i \in 1 .. n + 1, Asks(staged[i], kind, name), Stays(staged, i, unkind, name),
               i # 1
        PROVE  \E k \in 1 .. n : Asks(rest[k], kind, name) /\ Stays(rest, k, unkind, name)
    <3>1. PICK k \in 1 .. n : i = k + 1
      <4>1. i - 1 \in 1 .. n /\ i = (i - 1) + 1
        BY <2>1
      <4> QED BY <4>1
    <3>2. k \in 0 .. n
      OBVIOUS
    <3> QED BY <1>2, <1>3, <2>1, <3>1, <3>2
  <2>2. ASSUME NEW k \in 1 .. n, Asks(rest[k], kind, name), Stays(rest, k, unkind, name)
        PROVE  \E i \in 1 .. n + 1 : Asks(staged[i], kind, name) /\ Stays(staged, i, unkind, name)
    <3>1. k \in 0 .. n /\ k + 1 \in 1 .. n + 1
      OBVIOUS
    <3> QED BY <1>2, <1>3, <2>2, <3>1
  <2>3. 1 \in 1 .. n + 1
    OBVIOUS
  <2> QED BY <1>2, <2>1, <2>2, <2>3
<1>6. Stays(rest, 0, unkind, name) <=> Stays(staged, 1, unkind, name)
  <2>1. (0 \in 0 .. n) /\ 0 + 1 = 1
    OBVIOUS
  <2> QED BY <1>3, <2>1
<1>7. Asks(staged[1], kind, name) => ~Drops(staged[1], unkind, name)
  BY DEF Asks, Drops
<1>8. Effective(rest, kind, unkind, hasNow, name) <=> Effective(staged, kind, unkind, has, name)
  BY <1>2, <1>4, <1>5, <1>6, <1>7 DEF Effective
<1> QED BY <1>8 DEF rest

\* subscribe(), unsubscribe(), and a command that is about something else.
LEMMA AgreesAsked ==
  ASSUME NEW up, NEW staged, IsSequence(staged), NEW kind, NEW unkind, kind # unkind,
         NEW has, NEW wanted, Agrees(up, staged, kind, unkind, has, wanted), NEW new,
         NEW request, request = [kind |-> kind, names |-> new \ wanted]
  PROVE  Agrees(up, Append(staged, request), kind, unkind, has, wanted \cup new)
<1>1. \A name :
        /\ Asks(request, kind, name) <=> name \in new /\ name \notin wanted
        /\ ~Drops(request, unkind, name)
  BY DEF Asks, Drops
<1>2. \A name : Effective(Append(staged, request), kind, unkind, has, name) <=>
                  \/ name \in new /\ name \notin wanted
                  \/ Effective(staged, kind, unkind, has, name)
  BY <1>1, EffectiveAppended
<1> QED BY <1>2 DEF Agrees

LEMMA AgreesDropped ==
  ASSUME NEW up, NEW staged, IsSequence(staged), NEW kind, NEW unkind, kind # unkind,
         NEW has, NEW wanted, Agrees(up, staged, kind, unkind, has, wanted), NEW old,
         NEW request, request = [kind |-> unkind, names |-> old]
  PROVE  Agrees(up, Append(staged, request), kind, unkind, has,
                IF old = {} THEN {} ELSE wanted \ old)
<1>1. \A name :
        /\ ~Asks(request, kind, name)
        /\ Drops(request, unkind, name) <=> old = {} \/ name \in old
  BY DEF Asks, Drops
<1>2. \A name : Effective(Append(staged, request), kind, unkind, has, name) <=>
                  /\ Effective(staged, kind, unkind, has, name)
                  /\ ~(old = {} \/ name \in old)
  BY <1>1, EffectiveAppended
<1> QED BY <1>2 DEF Agrees

LEMMA AgreesBeside ==
  ASSUME NEW up, NEW staged, IsSequence(staged), NEW kind, NEW unkind, kind # unkind,
         NEW has, NEW wanted, Agrees(up, staged, kind, unkind, has, wanted),
         NEW request, request.kind \notin {kind, unkind}
  PROVE  Agrees(up, Append(staged, request), kind, unkind, has, wanted)
<1>1. \A name : ~Asks(request, kind, name) /\ ~Drops(request, unkind, name)
  BY DEF Asks, Drops
<1>2. \A name : Effective(Append(staged, request), kind, unkind, has, name) <=>
                  Effective(staged, kind, unkind, has, name)
  BY <1>1, EffectiveAppended
<1> QED BY <1>2 DEF Agrees

\* notifyConnectionEstablished()
LEMMA AgreesAgain ==
  ASSUME NEW up, NEW staged, IsSequence(staged), NEW kind, NEW unkind, kind # unkind,
         NEW has, NEW wanted, Agrees(up, staged, kind, unkind, has, wanted),
         NEW request, request = [kind |-> kind, names |-> wanted]
  PROVE  Agrees(TRUE, Append(staged, request), kind, unkind, has, wanted)
<1>1. \A name :
        /\ Asks(request, kind, name) <=> name \in wanted
        /\ ~Drops(request, unkind, name)
  BY DEF Asks, Drops
<1>2. \A name : Effective(Append(staged, request), kind, unkind, has, name) <=>
                  name \in wanted \/ Effective(staged, kind, unkind, has, name)
  BY <1>1, EffectiveAppended
<1> QED BY <1>2 DEF Agrees

LEMMA AgreesExecuted ==
  ASSUME NEW up, NEW staged, IsSequence(staged), staged # <<>>,
         NEW kind, NEW unkind, kind # unkind, NEW has, NEW hasNow, NEW wanted,
         Agrees(up, staged, kind, unkind, has, wanted),
         \A name : name \in hasNow <=>
                     \/ Asks(Head(staged), kind, name)
                     \/ name \in has /\ ~Drops(Head(staged), unkind, name)
  PROVE  Agrees(up, Tail(staged), kind, unkind, hasNow, wanted)
<1>1. \A name : Effective(Tail(staged), kind, unkind, hasNow, name) <=>
                  Effective(staged, kind, unkind, has, name)
  BY EffectiveTail
<1> QED BY <1>1 DEF Agrees

LEMMA InitSubscribed == BaseInit => SubscribedInv
<1> SUFFICES ASSUME BaseInit PROVE SubscribedInv
  OBVIOUS
<1>1. /\ requests = <<>> /\ IsSequence(requests) /\ link = "up"
      /\ serverChannels = {} /\ serverPatterns = {} /\ channels = {} /\ patterns = {}
  BY EmptyIsSequence DEF BaseInit
<1> QED BY <1>1, EffectiveEmpty DEF SubscribedInv, ChannelsAgree, PatternsAgree, Agrees

LEMMA CallsKeep ==
  ASSUME SubscribedInv, NEW names, UNCHANGED <<link, serverChannels, serverPatterns>>,
         \/ Subscribe(names) \/ Unsubscribe(names)
         \/ PSubscribe(names) \/ PUnsubscribe(names)
  PROVE  SubscribedInv'
<1>1. /\ IsSequence(requests) /\ link \in {"up", "down"}
      /\ Agrees(link = "up", requests, "subscribe", "unsubscribe", serverChannels, channels)
      /\ Agrees(link = "up", requests, "psubscribe", "punsubscribe", serverPatterns, patterns)
  BY DEF SubscribedInv, ChannelsAgree, PatternsAgree
<1>2. SUFFICES
        /\ IsSequence(requests')
        /\ Agrees(link = "up", requests', "subscribe", "unsubscribe", serverChannels, channels')
        /\ Agrees(link = "up", requests', "psubscribe", "punsubscribe", serverPatterns, patterns')
  BY <1>1 DEF SubscribedInv, ChannelsAgree, PatternsAgree
<1>3. CASE Subscribe(names)
  <2>1. /\ channels' = channels \cup names /\ patterns' = patterns
        /\ IF names \subseteq channels THEN requests' = requests
           ELSE Send("subscribe", names \ channels)
    BY <1>3 DEF Subscribe
  <2>2. CASE names \subseteq channels
    <3>1. channels' = channels /\ requests' = requests
      BY <2>1, <2>2
    <3> QED BY <1>1, <2>1, <3>1
  <2>3. CASE ~(names \subseteq channels)
    <3>1. PICK request : request = [kind |-> "subscribe", names |-> names \ channels]
      OBVIOUS
    <3>2. requests' = Append(requests, request) /\ request.kind = "subscribe"
      BY <2>1, <2>3, <3>1 DEF Send
    <3>3. IsSequence(requests')
      BY <1>1, <3>2, Appended
    <3>4. Agrees(link = "up", requests', "subscribe", "unsubscribe", serverChannels, channels')
      BY <1>1, <2>1, <3>1, <3>2, AgreesAsked
    <3>5. Agrees(link = "up", requests', "psubscribe", "punsubscribe", serverPatterns, patterns')
      BY <1>1, <2>1, <3>2, AgreesBeside
    <3> QED BY <3>3, <3>4, <3>5
  <2> QED BY <2>2, <2>3
<1>4. CASE PSubscribe(names)
  <2>1. /\ patterns' = patterns \cup names /\ channels' = channels
        /\ IF names \subseteq patterns THEN requests' = requests
           ELSE Send("psubscribe", names \ patterns)
    BY <1>4 DEF PSubscribe
  <2>2. CASE names \subseteq patterns
    <3>1. patterns' = patterns /\ requests' = requests
      BY <2>1, <2>2
    <3> QED BY <1>1, <2>1, <3>1
  <2>3. CASE ~(names \subseteq patterns)
    <3>1. PICK request : request = [kind |-> "psubscribe", names |-> names \ patterns]
      OBVIOUS
    <3>2. requests' = Append(requests, request) /\ request.kind = "psubscribe"
      BY <2>1, <2>3, <3>1 DEF Send
    <3>3. IsSequence(requests')
      BY <1>1, <3>2, Appended
    <3>4. Agrees(link = "up", requests', "psubscribe", "punsubscribe", serverPatterns, patterns')
      BY <1>1, <2>1, <3>1, <3>2, AgreesAsked
    <3>5. Agrees(link = "up", requests', "subscribe", "unsubscribe", serverChannels, channels')
      BY <1>1, <2>1, <3>2, AgreesBeside
    <3> QED BY <3>3, <3>4, <3>5
  <2> QED BY <2>2, <2>3
<1>5. CASE Unsubscribe(names)
  <2>1. PICK request : request = [kind |-> "unsubscribe", names |-> names]
    OBVIOUS
  <2>2. /\ requests' = Append(requests, request) /\ request.kind = "unsubscribe"
        /\ channels' = IF names = {} THEN {} ELSE channels \ names
        /\ patterns' = patterns
    BY <1>5, <2>1 DEF Unsubscribe, Send
  <2>3. IsSequence(requests')
    BY <1>1, <2>2, Appended
  <2>4. Agrees(link = "up", requests', "subscribe", "unsubscribe", serverChannels, channels')
    BY <1>1, <2>1, <2>2, AgreesDropped
  <2>5. Agrees(link = "up", requests', "psubscribe", "punsubscribe", serverPatterns, patterns')
    BY <1>1, <2>2, AgreesBeside
  <2> QED BY <2>3, <2>4, <2>5
<1>6. CASE PUnsubscribe(names)
  <2>1. PICK request : request = [kind |-> "punsubscribe", names |-> names]
    OBVIOUS
  <2>2. /\ requests' = Append(requests, request) /\ request.kind = "punsubscribe"
        /\ patterns' = IF names = {} THEN {} ELSE patterns \ names
        /\ channels' = channels
    BY <1>6, <2>1 DEF PUnsubscribe, Send
  <2>3. IsSequence(requests')
    BY <1>1, <2>2, Appended
  <2>4. Agrees(link = "up", requests', "psubscribe", "punsubscribe", serverPatterns, patterns')
    BY <1>1, <2>1, <2>2, AgreesDropped
  <2>5. Agrees(link = "up", requests', "subscribe", "unsubscribe", serverChannels, channels')
    BY <1>1, <2>2, AgreesBeside
  <2> QED BY <2>3, <2>4, <2>5
<1> QED BY <1>3, <1>4, <1>5, <1>6

LEMMA ServerKeeps ==
  ASSUME SubscribedInv, ServerSubscribes PROVE SubscribedInv'
<1>1. /\ IsSequence(requests) /\ link \in {"up", "down"} /\ requests # <<>>
      /\ Agrees(link = "up", requests, "subscribe", "unsubscribe", serverChannels, channels)
      /\ Agrees(link = "up", requests, "psubscribe", "punsubscribe", serverPatterns, patterns)
      /\ requests' = Tail(requests) /\ UNCHANGED <<link, channels, patterns>>
  BY DEF SubscribedInv, ChannelsAgree, PatternsAgree, ServerSubscribes, baseVars
<1>2. PICK first : first = Head(requests)
  OBVIOUS
<1>3. /\ \A name : name \in serverChannels' <=>
                     \/ Asks(first, "subscribe", name)
                     \/ name \in serverChannels /\ ~Drops(first, "unsubscribe", name)
      /\ \A name : name \in serverPatterns' <=>
                     \/ Asks(first, "psubscribe", name)
                     \/ name \in serverPatterns /\ ~Drops(first, "punsubscribe", name)
  <2>1. \/ /\ first.kind = "subscribe"
           /\ serverChannels' = serverChannels \cup first.names
           /\ serverPatterns' = serverPatterns
        \/ /\ first.kind = "psubscribe"
           /\ serverPatterns' = serverPatterns \cup first.names
           /\ serverChannels' = serverChannels
        \/ /\ first.kind = "unsubscribe"
           /\ serverChannels' = serverChannels \
                (IF first.names = {} THEN serverChannels ELSE first.names)
           /\ serverPatterns' = serverPatterns
        \/ /\ first.kind = "punsubscribe"
           /\ serverPatterns' = serverPatterns \
                (IF first.names = {} THEN serverPatterns ELSE first.names)
           /\ serverChannels' = serverChannels
    BY <1>2 DEF ServerSubscribes
  <2> QED BY <2>1 DEF Asks, Drops
<1>4. IsSequence(requests')
  BY <1>1, Rest
<1>5. Agrees(link = "up", requests', "subscribe", "unsubscribe", serverChannels', channels)
  BY <1>1, <1>2, <1>3, AgreesExecuted
<1>6. Agrees(link = "up", requests', "psubscribe", "punsubscribe", serverPatterns', patterns)
  BY <1>1, <1>2, <1>3, AgreesExecuted
<1> QED BY <1>1, <1>4, <1>5, <1>6 DEF SubscribedInv, ChannelsAgree, PatternsAgree

LEMMA LostKeeps ==
  ASSUME SubscribedInv, LinkLost PROVE SubscribedInv'
<1>1. requests' = <<>> /\ link' = "down" /\ serverChannels' = {} /\ serverPatterns' = {}
  BY DEF LinkLost
<1>2. ~(link' = "up")
  BY <1>1
<1> QED BY <1>1, <1>2, EmptyIsSequence, EffectiveEmpty
        DEF SubscribedInv, ChannelsAgree, PatternsAgree, Agrees

LEMMA JoinedOne ==
  ASSUME NEW s, IsSequence(s), NEW x PROVE s \o <<x>> = Append(s, x)
<1>1. PICK S : s \in Seq(S)
  BY DEF IsSequence
<1> DEFINE T == S \cup {x}
<1>2. s \in Seq(T) /\ x \in T
  BY <1>1, SeqMonotonic
<1> HIDE DEF T
<1> QED BY <1>2, AppendIsConcat

LEMMA JoinedTwo ==
  ASSUME NEW s, IsSequence(s), NEW x, NEW y
  PROVE  s \o (<<x>> \o <<y>>) = Append(Append(s, x), y)
<1>1. PICK S : s \in Seq(S)
  BY DEF IsSequence
<1> DEFINE T == S \cup {x, y}
<1>2. s \in Seq(T) /\ <<x>> \in Seq(T) /\ <<y>> \in Seq(T)
  BY <1>1, SeqMonotonic
<1> HIDE DEF T
<1>3. s \o (<<x>> \o <<y>>) = (s \o <<x>>) \o <<y>>
  BY <1>2, ConcatAssociative
<1>4. IsSequence(Append(s, x))
  BY Appended
<1> QED BY <1>3, <1>4, JoinedOne

LEMMA EstablishedKeeps ==
  ASSUME SubscribedInv, LinkEstablished PROVE SubscribedInv'
<1>1. /\ IsSequence(requests) /\ link' = "up"
      /\ Agrees(link = "up", requests, "subscribe", "unsubscribe", serverChannels, channels)
      /\ Agrees(link = "up", requests, "psubscribe", "punsubscribe", serverPatterns, patterns)
      /\ requests' = requests \o Resubscribe
      /\ UNCHANGED <<serverChannels, serverPatterns, channels, patterns>>
  BY DEF SubscribedInv, ChannelsAgree, PatternsAgree, LinkEstablished, baseVars
<1>2. SUFFICES
        /\ IsSequence(requests')
        /\ Agrees(TRUE, requests', "subscribe", "unsubscribe", serverChannels, channels)
        /\ Agrees(TRUE, requests', "psubscribe", "punsubscribe", serverPatterns, patterns)
  <2>1. (link = "up")' <=> TRUE
    BY <1>1
  <2> QED BY <1>1, <2>1 DEF SubscribedInv, ChannelsAgree, PatternsAgree, Agrees
<1>3. PICK first, second : /\ first = [kind |-> "subscribe", names |-> channels]
                           /\ second = [kind |-> "psubscribe", names |-> patterns]
  OBVIOUS
<1>4. first.kind = "subscribe" /\ second.kind = "psubscribe"
  BY <1>3
<1>5. PICK staged : staged = IF channels = {} THEN requests ELSE Append(requests, first)
  OBVIOUS
<1>6. requests' = IF patterns = {} THEN staged ELSE Append(staged, second)
  <2>1. Resubscribe = (IF channels = {} THEN <<>> ELSE <<first>>)
                      \o (IF patterns = {} THEN <<>> ELSE <<second>>)
    BY <1>3 DEF Resubscribe
  <2>2. /\ <<>> \o <<>> = <<>> /\ <<>> \o <<second>> = <<second>>
        /\ <<first>> \o <<>> = <<first>> /\ requests \o <<>> = requests
    <3>1. PICK S : requests \in Seq(S)
      BY <1>1 DEF IsSequence
    <3>2. requests \o <<>> = requests
      BY <3>1, ConcatEmptySeq
    <3>3. <<first>> \in Seq({first}) /\ <<second>> \in Seq({second}) /\ <<>> \in Seq({})
      OBVIOUS
    <3> QED BY <3>2, <3>3, ConcatEmptySeq
  <2>3. CASE channels = {} /\ patterns = {}
    <3>1. requests' = requests \o <<>>
      BY <1>1, <2>1, <2>2, <2>3
    <3> QED BY <1>5, <2>2, <2>3, <3>1
  <2>4. CASE channels = {} /\ patterns # {}
    <3>1. requests' = requests \o <<second>>
      BY <1>1, <2>1, <2>2, <2>4
    <3>2. requests' = Append(requests, second)
      BY <1>1, <3>1, JoinedOne
    <3> QED BY <1>5, <2>4, <3>2
  <2>5. CASE channels # {} /\ patterns = {}
    <3>1. requests' = requests \o <<first>>
      BY <1>1, <2>1, <2>2, <2>5
    <3>2. requests' = Append(requests, first)
      BY <1>1, <3>1, JoinedOne
    <3> QED BY <1>5, <2>5, <3>2
  <2>6. CASE channels # {} /\ patterns # {}
    <3>1. requests' = requests \o (<<first>> \o <<second>>)
      BY <1>1, <2>1, <2>6
    <3>2. requests' = Append(Append(requests, first), second)
      BY <1>1, <3>1, JoinedTwo
    <3> QED BY <1>5, <2>6, <3>2
  <2> QED BY <2>3, <2>4, <2>5, <2>6
<1>7. /\ IsSequence(staged)
      /\ Agrees(TRUE, staged, "subscribe", "unsubscribe", serverChannels, channels)
      /\ Agrees(link = "up", staged, "psubscribe", "punsubscribe", serverPatterns, patterns)
  <2>1. CASE channels = {}
    BY <1>1, <1>5, <2>1 DEF Agrees
  <2>2. CASE channels # {}
    <3>1. staged = Append(requests, first)
      BY <1>5, <2>2
    <3> QED BY <1>1, <1>3, <1>4, <3>1, Appended, AgreesAgain, AgreesBeside
  <2> QED BY <2>1, <2>2
<1>8. CASE patterns = {}
  BY <1>6, <1>7, <1>8 DEF Agrees
<1>9. CASE patterns # {}
  <2>1. requests' = Append(staged, second)
    BY <1>6, <1>9
  <2> QED BY <1>3, <1>4, <1>7, <2>1, Appended, AgreesAgain, AgreesBeside
<1> QED BY <1>8, <1>9

LEMMA OthersKeep ==
  ASSUME SubscribedInv,
         UNCHANGED <<requests, link, serverChannels, serverPatterns, channels, patterns>>
  PROVE  SubscribedInv'
BY DEF SubscribedInv, ChannelsAgree, PatternsAgree

LEMMA BaseStepsKeep == SubscribedInv /\ [BaseNext]_subscriberVars => SubscribedInv'
<1> SUFFICES ASSUME SubscribedInv, [BaseNext]_subscriberVars PROVE SubscribedInv'
  OBVIOUS
<1>1. CASE UNCHANGED subscriberVars
  BY <1>1, OthersKeep DEF subscriberVars, baseVars, linkVars
<1>2. CASE ServerSubscribes
  BY <1>2, ServerKeeps
<1>3. ASSUME NEW channel \in Channels, PublishOn(channel) PROVE SubscribedInv'
  BY <1>3, OthersKeep DEF PublishOn, baseVars
<1>4. CASE LinkLost
  BY <1>4, LostKeeps
<1>5. CASE LinkEstablished
  BY <1>5, EstablishedKeeps
<1>6. CASE BaseCall
  BY <1>6, CallsKeep DEF BaseCall
<1>7. CASE QueueReceives
  BY <1>7, OthersKeep DEF QueueReceives, baseVars
<1>8. CASE QueuePops
  BY <1>8, OthersKeep DEF QueuePops, baseVars, linkVars
<1> QED BY <1>1, <1>2, <1>3, <1>4, <1>5, <1>6, <1>7, <1>8 DEF BaseNext, PubSubServer

LEMMA RestSubscribed == SubscribedInv => SubscribedAtRest
<1> SUFFICES ASSUME SubscribedInv, link = "up", requests = <<>>
             PROVE  serverChannels = channels /\ serverPatterns = patterns
  BY DEF SubscribedAtRest
<1> QED BY EffectiveEmpty DEF SubscribedInv, ChannelsAgree, PatternsAgree, Agrees

\* Once everything staged is executed the server's subscriptions are the client's,
\* whatever was called while the connection was down or coming up
\* (notifyConnectionEstablished(), subscribe(), unsubscribe()).
THEOREM SubscribedWhenAtRest == BaseSpec => []SubscribedAtRest
<1>1. BaseSpec => []SubscribedInv
  BY InitSubscribed, BaseStepsKeep, PTL DEF BaseSpec
<1> QED BY <1>1, RestSubscribed, PTL

-----------------------------------------------------------------------------
(* Subscription objects: the inductive invariant                             *)

\* What a Subscription has handed out or holds for its user, in order.
Got(s) == subscription[s].seen \o subscription[s].items

Object ==
  [state : {"unused", "live", "destroyed"}, channel : Channels \cup {""},
   acknowledged : BOOLEAN, attached : BOOLEAN, items : Seq(Nat), seen : Seq(Nat)]
Objects ==
  /\ subscription \in [Subscriptions -> Object]
  /\ channelSubscriptions \in [Channels -> Seq(Subscriptions)]
  /\ \A s \in Subscriptions :
       /\ subscription[s].attached => subscription[s].items = <<>>
       /\ Live(s) => subscription[s].channel \in Channels

\* An object is registered once, for its channel, as long as it lives.
Registered ==
  /\ \A channel \in Channels :
       LET targets == channelSubscriptions[channel]
       IN /\ \A i \in DOMAIN targets :
               Live(targets[i]) /\ subscription[targets[i]].channel = channel
          /\ \A i, j \in DOMAIN targets : targets[i] = targets[j] => i = j
  /\ \A s \in Subscriptions : Live(s) =>
       \E i \in DOMAIN channelSubscriptions[subscription[s].channel] :
         channelSubscriptions[subscription[s].channel][i] = s

\* A Subscriber has no patterns, and never unsubscribes.
OnlyChannels ==
  /\ patterns = {} /\ serverPatterns = {} /\ channels \subseteq Channels
  /\ IsSequence(requests)
  /\ \A i \in DOMAIN requests :
       requests[i].kind = "subscribe" /\ requests[i].names \subseteq Channels

Epochs ==
  /\ published \in Seq([channel : Channels, epoch : Nat])
  /\ pubEpoch \in Nat \ {0} /\ link \in {"up", "down"}
  /\ \A n \in DOMAIN published : published[n].epoch <= pubEpoch

IsMessage(reply) == Parse(reply).messageType = "message"
Number(reply) == Parse(reply).payload
OnWire(n) == \E i \in DOMAIN wire : IsMessage(wire[i]) /\ Number(wire[i]) = n

\* What has been published to the client on this connection.
Sent(n) == n \in DOMAIN published /\ published[n].epoch = pubEpoch

WireHolds ==
  /\ IsSequence(wire)
  /\ link = "down" => wire = <<>>
  /\ \A i \in DOMAIN wire :
       IF IsMessage(wire[i])
       THEN /\ Sent(Number(wire[i]))
            /\ Parse(wire[i]).channel = published[Number(wire[i])].channel
       ELSE Parse(wire[i]).messageType = "subscribe" /\ Parse(wire[i]).channel \in Channels

\* In order, and nothing after a message is missing.
WireOrdered ==
  /\ \A i, j \in DOMAIN wire : (i < j /\ IsMessage(wire[i]) /\ IsMessage(wire[j])) =>
       Number(wire[i]) < Number(wire[j])
  /\ \A n, m \in DOMAIN published : (OnWire(n) /\ n < m /\ Sent(m)) => OnWire(m)

Target(s) == \E i \in DOMAIN delivering.targets : delivering.targets[i] = s

Delivery ==
  \/ MutexFree
  \/ /\ delivering = [payload |-> delivering.payload, targets |-> delivering.targets]
     /\ link = "up" /\ Sent(delivering.payload)
     /\ delivering.targets \in Seq(Subscriptions) /\ delivering.targets # <<>>
     /\ \A i \in DOMAIN delivering.targets :
          /\ Live(delivering.targets[i])
          /\ subscription[delivering.targets[i]].channel = published[delivering.payload].channel
     /\ \A i, j \in DOMAIN delivering.targets :
          delivering.targets[i] = delivering.targets[j] => i = j
     /\ \A m \in DOMAIN published : OnWire(m) => delivering.payload < m
     /\ \A m \in DOMAIN published : (delivering.payload < m /\ Sent(m)) => OnWire(m)

\* What an object got is older than what it will get.
Older ==
  \A s \in Subscriptions : \A i \in DOMAIN Got(s) :
    /\ Got(s)[i] \in DOMAIN published
    /\ published[Got(s)[i]].channel = subscription[s].channel
    /\ \A m \in DOMAIN published : OnWire(m) => Got(s)[i] < m
    /\ ~MutexFree => Got(s)[i] <= delivering.payload
    /\ ~MutexFree /\ Target(s) => Got(s)[i] < delivering.payload
    /\ \A j \in DOMAIN Got(s) : i < j => Got(s)[i] < Got(s)[j]

\* As long as the connection is up, what was sent on it since is still coming.
ToCome(s, m) == OnWire(m) \/ (~MutexFree /\ delivering.payload = m /\ Target(s))
NoneLost ==
  link = "up" =>
    \A s \in Subscriptions : Live(s) =>
      \A i \in DOMAIN Got(s) : \A m \in DOMAIN published :
        (/\ Got(s)[i] < m /\ Sent(Got(s)[i]) /\ Sent(m)
         /\ published[m].channel = subscription[s].channel) =>
          ToCome(s, m) \/ \E j \in DOMAIN Got(s) : Got(s)[j] = m

\* The property, of one sequence of messages.
NoneSkipped(s, got) ==
  \A i \in 2 .. Len(got) :
    /\ got[i - 1] < got[i]
    /\ \A n \in got[i - 1] + 1 .. got[i] - 1 :
         ~ /\ published[n].channel = subscription[s].channel
           /\ published[n].epoch = published[got[i]].epoch
           /\ published[n].epoch = published[got[i - 1]].epoch
Unskipped == \A s \in Subscriptions : \A got : got = Got(s) => NoneSkipped(s, got)

DeliveryInv ==
  /\ Objects /\ Registered /\ OnlyChannels /\ Epochs /\ WireHolds /\ WireOrdered
  /\ Delivery /\ Older /\ NoneLost /\ Unskipped

-----------------------------------------------------------------------------
(* What the server sends, and what the parser makes of it                    *)

LEMMA Marked ==
  ASSUME NEW mark, NEW a, NEW b, NEW c
  PROVE  /\ Len(<<mark>> \o <<a, b, c>>) = 4
         /\ (<<mark>> \o <<a, b, c>>)[2] = a
         /\ (<<mark>> \o <<a, b, c>>)[3] = b
         /\ (<<mark>> \o <<a, b, c>>)[4] = c
<1> DEFINE s == <<mark>>
           t == <<a, b, c>>
           T == {mark, a, b, c}
<1>1. s \in Seq(T) /\ t \in Seq(T)
  OBVIOUS
<1>2. Len(s) = 1 /\ Len(t) = 3 /\ t[1] = a /\ t[2] = b /\ t[3] = c
  OBVIOUS
<1> HIDE DEF s, t, T
<1>3. /\ Len(s \o t) = Len(s) + Len(t)
      /\ \A i \in 1 .. Len(s) + Len(t) :
           (s \o t)[i] = IF i <= Len(s) THEN s[i] ELSE t[i - Len(s)]
  BY <1>1, ConcatProperties
<1>4. /\ Len(s \o t) = 4
      /\ (s \o t)[2] = t[1] /\ (s \o t)[3] = t[2] /\ (s \o t)[4] = t[3]
  BY <1>2, <1>3
<1>5. /\ Len(s \o t) = 4
      /\ (s \o t)[2] = a /\ (s \o t)[3] = b /\ (s \o t)[4] = c
  BY <1>2, <1>4
<1> QED BY <1>5 DEF s, t

LEMMA ParsedMessage ==
  ASSUME NEW channel, NEW n
  PROVE  Parse(Reply(<<"message", channel, n>>)) =
           [messageType |-> "message", pattern |-> "", channel |-> channel, payload |-> n]
<1> DEFINE elements == <<"message", channel, n>>
           reply == Reply(elements)
<1>1. /\ Len(elements) = 3 /\ elements[1] = "message"
      /\ elements[2] = channel /\ elements[3] = n
  OBVIOUS
<1>2. PICK base \in {0, 1} :
        /\ base = IF reply.type = "array" THEN 0 ELSE 1
        /\ Len(reply.elements) = base + 3
        /\ reply.elements[base + 1] = "message"
        /\ reply.elements[base + 2] = channel /\ reply.elements[base + 3] = n
  <2>1. CASE ~pushTypes
    <3>1. reply = [type |-> "array", elements |-> elements]
      BY <2>1 DEF Reply
    <3> QED BY <1>1, <3>1
  <2>2. CASE pushTypes
    <3>1. reply.type = "push" /\ reply.elements = <<"pubsub">> \o elements
      BY <2>2 DEF Reply
    <3>2. reply.type # "array"
      BY <3>1
    <3> QED BY <3>1, <3>2, Marked
  <2> QED BY <2>1, <2>2
<1> HIDE DEF reply
<1>3. "message" \in DOMAIN Arity /\ Arity["message"] = 3
  BY DEF Arity
<1> DEFINE at(i) == reply.elements[base + i]
           hasPattern == at(1) \in {"pmessage", "psubscribe", "punsubscribe"}
<1>4. Parse(reply) =
        IF at(1) \notin DOMAIN Arity \/ Len(reply.elements) # base + Arity[at(1)]
        THEN NotAMessage
        ELSE [messageType |-> at(1), pattern |-> IF hasPattern THEN at(2) ELSE "",
              channel |-> IF at(1) = "pmessage" THEN at(3)
                          ELSE IF hasPattern THEN "" ELSE at(2),
              payload |-> at(Arity[at(1)])]
  BY <1>2 DEF Parse
<1>5. Parse(reply) = [messageType |-> "message", pattern |-> "", channel |-> channel, payload |-> n]
  <2>1. at(1) = "message" /\ ~hasPattern /\ at(1) # "pmessage"
    BY <1>2
  <2> QED BY <1>2, <1>3, <1>4, <2>1
<1> QED BY <1>5 DEF reply

LEMMA ParsedAcknowledgement ==
  ASSUME NEW channel
  PROVE  Parse(Reply(<<"subscribe", channel, "count">>)) =
           [messageType |-> "subscribe", pattern |-> "", channel |-> channel, payload |-> "count"]
<1> DEFINE elements == <<"subscribe", channel, "count">>
           reply == Reply(elements)
<1>1. /\ Len(elements) = 3 /\ elements[1] = "subscribe"
      /\ elements[2] = channel /\ elements[3] = "count"
  OBVIOUS
<1>2. PICK base \in {0, 1} :
        /\ base = IF reply.type = "array" THEN 0 ELSE 1
        /\ Len(reply.elements) = base + 3
        /\ reply.elements[base + 1] = "subscribe"
        /\ reply.elements[base + 2] = channel /\ reply.elements[base + 3] = "count"
  <2>1. CASE ~pushTypes
    <3>1. reply = [type |-> "array", elements |-> elements]
      BY <2>1 DEF Reply
    <3> QED BY <1>1, <3>1
  <2>2. CASE pushTypes
    <3>1. reply.type = "push" /\ reply.elements = <<"pubsub">> \o elements
      BY <2>2 DEF Reply
    <3>2. reply.type # "array"
      BY <3>1
    <3> QED BY <3>1, <3>2, Marked
  <2> QED BY <2>1, <2>2
<1> HIDE DEF reply
<1>3. "subscribe" \in DOMAIN Arity /\ Arity["subscribe"] = 3
  BY DEF Arity
<1> DEFINE at(i) == reply.elements[base + i]
           hasPattern == at(1) \in {"pmessage", "psubscribe", "punsubscribe"}
<1>4. Parse(reply) =
        IF at(1) \notin DOMAIN Arity \/ Len(reply.elements) # base + Arity[at(1)]
        THEN NotAMessage
        ELSE [messageType |-> at(1), pattern |-> IF hasPattern THEN at(2) ELSE "",
              channel |-> IF at(1) = "pmessage" THEN at(3)
                          ELSE IF hasPattern THEN "" ELSE at(2),
              payload |-> at(Arity[at(1)])]
  BY <1>2 DEF Parse
<1>5. Parse(reply) =
        [messageType |-> "subscribe", pattern |-> "", channel |-> channel, payload |-> "count"]
  <2>1. at(1) = "subscribe" /\ ~hasPattern /\ at(1) # "pmessage"
    BY <1>2
  <2> QED BY <1>2, <1>3, <1>4, <2>1
<1> QED BY <1>5 DEF reply

\* A finite set as a sequence.
LEMMA Listed ==
  ASSUME NEW S, IsFiniteSet(S)
  PROVE  IsSequence(SetToSeq(S)) /\ \A i \in DOMAIN SetToSeq(S) : SetToSeq(S)[i] \in S
<1>1. PICK n \in Nat : n = Cardinality(S) /\ ExistsBijection(1 .. n, S)
  BY FS_CardinalityType
<1>2. \E f \in [1 .. n -> S] : IsInjective(f)
  BY <1>1 DEF ExistsBijection, Bijection, Injection, IsInjective
<1>3. SetToSeq(S) \in [1 .. n -> S]
  BY <1>1, <1>2 DEF SetToSeq
<1>4. SetToSeq(S) \in Seq(S)
  BY <1>3
<1> QED BY <1>3, <1>4 DEF IsSequence

LEMMA Acknowledged ==
  ASSUME NEW names, IsFiniteSet(names)
  PROVE  /\ IsSequence(Acknowledgements("subscribe", names))
         /\ \A i \in DOMAIN Acknowledgements("subscribe", names) :
              LET parsed == Parse(Acknowledgements("subscribe", names)[i])
              IN parsed.messageType = "subscribe" /\ parsed.channel \in names
<1>1. PICK listed : listed = SetToSeq(names)
  OBVIOUS
<1>2. IsSequence(listed) /\ \A i \in DOMAIN listed : listed[i] \in names
  BY <1>1, Listed
<1>3. PICK n \in Nat : DOMAIN listed = 1 .. n
  BY <1>2, SequenceDomain
<1>4. PICK acks : acks = [i \in 1 .. n |-> Reply(<<"subscribe", listed[i], "count">>)]
  OBVIOUS
<1>5. Acknowledgements("subscribe", names) = acks
  BY <1>1, <1>3, <1>4 DEF Acknowledgements
<1>6. IsSequence(acks)
  <2> DEFINE T == {Reply(<<"subscribe", listed[i], "count">>) : i \in 1 .. n}
  <2>1. acks \in [1 .. n -> T]
    BY <1>4
  <2> HIDE DEF T
  <2>2. acks \in Seq(T)
    BY <2>1
  <2> QED BY <2>2 DEF IsSequence
<1>7. \A i \in 1 .. n : /\ Parse(acks[i]).messageType = "subscribe"
                        /\ Parse(acks[i]).channel = listed[i]
  <2>1. SUFFICES ASSUME NEW i \in 1 .. n
                 PROVE  /\ Parse(acks[i]).messageType = "subscribe"
                        /\ Parse(acks[i]).channel = listed[i]
    OBVIOUS
  <2>2. acks[i] = Reply(<<"subscribe", listed[i], "count">>)
    BY <1>4
  <2>3. PICK parsed : parsed = Parse(acks[i])
    OBVIOUS
  <2>4. parsed = [messageType |-> "subscribe", pattern |-> "", channel |-> listed[i],
                  payload |-> "count"]
    BY <2>2, <2>3, ParsedAcknowledgement
  <2>5. parsed.messageType = "subscribe" /\ parsed.channel = listed[i]
    BY <2>4
  <2> QED BY <2>3, <2>5
<1>8. DOMAIN acks = 1 .. n
  BY <1>4
<1> QED BY <1>2, <1>3, <1>5, <1>6, <1>7, <1>8

-----------------------------------------------------------------------------
(* What an object got: the queue and the callbacks                           *)

LEMMA ThreeInTurn ==
  ASSUME NEW s \in Seq(Nat), NEW t \in Seq(Nat), NEW u \in Seq(Nat)
  PROVE  (s \o t) \o u = s \o (t \o u)
OBVIOUS

LEMMA NothingAfter == ASSUME NEW s \in Seq(Nat) PROVE s \o <<>> = s
OBVIOUS

LEMMA JustOne == ASSUME NEW x \in Nat PROVE \E u \in Seq(Nat) : u = <<x>>
<1>1. <<x>> \in Seq(Nat)
  OBVIOUS
<1> QED BY <1>1

LEMMA LastOfFirst ==
  ASSUME NEW s \in Seq(Nat), NEW t \in Seq(Nat), NEW x \in Nat
  PROVE  Append(s, x) \o t = s \o (<<x>> \o t)
<1>1. PICK u \in Seq(Nat) : u = <<x>>
  BY JustOne
<1>2. (s \o u) \o t = s \o (u \o t)
  BY ThreeInTurn
<1>3. Append(s, x) = s \o <<x>>
  BY AppendIsConcat
<1> QED BY <1>1, <1>2, <1>3

LEMMA LastOfSecond ==
  ASSUME NEW s \in Seq(Nat), NEW t \in Seq(Nat), NEW x \in Nat
  PROVE  s \o Append(t, x) = Append(s \o t, x)
<1>1. PICK u \in Seq(Nat) : u = <<x>>
  BY JustOne
<1>2. (s \o t) \o u = s \o (t \o u)
  BY ThreeInTurn
<1>3. Append(t, x) = t \o <<x>>
  BY AppendIsConcat
<1>4. Append(s \o t, x) = (s \o t) \o <<x>>
  <2>1. s \o t \in Seq(Nat)
    OBVIOUS
  <2> QED BY <2>1, AppendIsConcat
<1> QED BY <1>1, <1>2, <1>3, <1>4

LEMMA FirstAndRest ==
  ASSUME NEW t \in Seq(Nat), t # <<>>
  PROVE  <<Head(t)>> \o Tail(t) = t /\ Head(t) \in Nat /\ Tail(t) \in Seq(Nat)
<1>1. PICK x \in Nat, rest \in Seq(Nat) : x = Head(t) /\ rest = Tail(t)
  <2>1. Head(t) \in Nat /\ Tail(t) \in Seq(Nat)
    OBVIOUS
  <2> QED BY <2>1
<1>2. PICK q \in Seq(Nat) : q = <<x>>
  <2>1. <<x>> \in Seq(Nat)
    OBVIOUS
  <2> QED BY <2>1
<1>3. Len(q) = 1 /\ q[1] = x
  BY <1>2
<1>4. PICK n \in Nat : n = Len(t) - 1
  <2>1. Len(t) - 1 \in Nat
    OBVIOUS
  <2> QED BY <2>1
<1>5. Len(rest) = n /\ Len(t) = n + 1 /\ x = t[1] /\ \A i \in 1 .. n : rest[i] = t[i + 1]
  BY <1>1, <1>4
<1>6. PICK u \in Seq(Nat) : u = q \o rest
  <2>1. q \o rest \in Seq(Nat)
    OBVIOUS
  <2> QED BY <2>1
<1>7. Len(u) = n + 1 /\ \A i \in 1 .. n + 1 : u[i] = IF i <= 1 THEN q[i] ELSE rest[i - 1]
  <2>1. Len(q) + Len(rest) = n + 1
    BY <1>3, <1>5
  <2>2. /\ Len(u) = Len(q) + Len(rest)
        /\ \A i \in 1 .. Len(q) + Len(rest) : u[i] = IF i <= Len(q) THEN q[i] ELSE rest[i - Len(q)]
    BY <1>6, ConcatProperties
  <2> QED BY <1>3, <2>1, <2>2
<1>8. \A i \in 1 .. n + 1 : u[i] = t[i]
  <2>1. SUFFICES ASSUME NEW i \in 1 .. n + 1 PROVE u[i] = t[i]
    OBVIOUS
  <2>2. CASE i = 1
    BY <1>3, <1>5, <1>7, <2>2
  <2>3. CASE i # 1
    <3>1. i - 1 \in 1 .. n /\ (i - 1) + 1 = i /\ ~(i <= 1)
      BY <2>3
    <3> QED BY <1>5, <1>7, <3>1
  <2> QED BY <2>2, <2>3
<1>9. u = t
  BY <1>5, <1>7, <1>8, SeqEqual
<1> QED BY <1>1, <1>2, <1>6, <1>9

LEMMA Emplaced ==
  ASSUME NEW object \in Object, object.attached => object.items = <<>>, NEW item \in Nat,
         NEW now, now = Emplace(object, item)
  PROVE  /\ now \in Object /\ now.state = object.state /\ now.channel = object.channel
         /\ now.attached => now.items = <<>>
         /\ now.seen \o now.items = Append(object.seen \o object.items, item)
<1>1. PICK seen \in Seq(Nat), items \in Seq(Nat) : seen = object.seen /\ items = object.items
  BY DEF Object
<1>2. CASE object.attached
  <2>1. PICK more \in Seq(Nat) : more = Append(seen, item)
    <3>1. Append(seen, item) \in Seq(Nat)
      OBVIOUS
    <3> QED BY <3>1
  <2>2. now = [object EXCEPT !.seen = more]
    BY <1>1, <1>2, <2>1 DEF Emplace
  <2>3. /\ now \in Object /\ now.state = object.state /\ now.channel = object.channel
        /\ now.seen = more /\ now.items = items
    BY <1>1, <2>2 DEF Object
  <2>4. items = <<>>
    BY <1>1, <1>2
  <2>5. more \o <<>> = more /\ seen \o <<>> = seen
    BY NothingAfter
  <2> QED BY <1>1, <2>1, <2>3, <2>4, <2>5
<1>3. CASE ~object.attached
  <2>1. PICK more \in Seq(Nat) : more = Append(items, item)
    <3>1. Append(items, item) \in Seq(Nat)
      OBVIOUS
    <3> QED BY <3>1
  <2>2. now = [object EXCEPT !.items = more]
    BY <1>1, <1>3, <2>1 DEF Emplace
  <2>3. /\ now \in Object /\ now.state = object.state /\ now.channel = object.channel
        /\ now.items = more /\ now.seen = seen /\ now.attached = object.attached
    BY <1>1, <2>2 DEF Object
  <2>4. seen \o more = Append(seen \o items, item)
    <3>1. seen \o Append(items, item) = Append(seen \o items, item)
      BY LastOfSecond
    <3> QED BY <2>1, <3>1
  <2> QED BY <1>1, <1>3, <2>3, <2>4
<1> QED BY <1>2, <1>3

LEMMA AttachedOrPopped ==
  ASSUME NEW object \in Object, object.attached => object.items = <<>>, NEW now,
         \/ now = Attach(object) \/ now = Detach(object)
         \/ CanPop(object) /\ now = PopFront(object)
  PROVE  /\ now \in Object /\ now.state = object.state /\ now.channel = object.channel
         /\ now.attached => now.items = <<>>
         /\ now.seen \o now.items = object.seen \o object.items
<1>1. PICK seen \in Seq(Nat), items \in Seq(Nat) : seen = object.seen /\ items = object.items
  BY DEF Object
<1>2. CASE now = Attach(object)
  <2>1. PICK more \in Seq(Nat) : more = seen \o items
    <3>1. seen \o items \in Seq(Nat)
      OBVIOUS
    <3> QED BY <3>1
  <2>2. now = [object EXCEPT !.attached = TRUE, !.seen = more, !.items = <<>>]
    BY <1>1, <1>2, <2>1 DEF Attach
  <2>3. /\ now \in Object /\ now.state = object.state /\ now.channel = object.channel
        /\ now.seen = more /\ now.items = <<>>
    <3>1. PICK none \in Seq(Nat) : none = <<>>
      <4>1. <<>> \in Seq(Nat)
        OBVIOUS
      <4> QED BY <4>1
    <3>2. now = [object EXCEPT !.attached = TRUE, !.seen = more, !.items = none]
      BY <2>2, <3>1
    <3> QED BY <3>1, <3>2 DEF Object
  <2>4. more \o <<>> = more
    BY NothingAfter
  <2> QED BY <1>1, <2>1, <2>3, <2>4
<1>3. CASE now = Detach(object)
  <2>1. now = [object EXCEPT !.attached = FALSE]
    BY <1>3 DEF Detach
  <2>2. /\ now \in Object /\ now.state = object.state /\ now.channel = object.channel
        /\ now.seen = object.seen /\ now.items = object.items /\ ~now.attached
    BY <2>1 DEF Object
  <2> QED BY <2>2
<1>4. CASE CanPop(object) /\ now = PopFront(object)
  <2>1. ~object.attached /\ items # <<>>
    BY <1>1, <1>4 DEF CanPop
  <2>2. PICK first \in Nat, rest \in Seq(Nat) :
          first = Head(items) /\ rest = Tail(items) /\ <<first>> \o rest = items
    BY <2>1, FirstAndRest
  <2>3. PICK more \in Seq(Nat) : more = Append(seen, first)
    <3>1. Append(seen, first) \in Seq(Nat)
      OBVIOUS
    <3> QED BY <3>1
  <2>4. now = [object EXCEPT !.seen = more, !.items = rest]
    BY <1>1, <1>4, <2>2, <2>3 DEF PopFront
  <2>5. /\ now \in Object /\ now.state = object.state /\ now.channel = object.channel
        /\ now.seen = more /\ now.items = rest /\ now.attached = object.attached
    BY <1>1, <2>4 DEF Object
  <2>6. more \o rest = seen \o items
    <3>1. Append(seen, first) \o rest = seen \o (<<first>> \o rest)
      BY LastOfFirst
    <3> QED BY <2>2, <2>3, <3>1
  <2> QED BY <1>1, <2>1, <2>5, <2>6
<1> QED BY <1>2, <1>3, <1>4

LEMMA GotTyped ==
  ASSUME Objects, NEW s \in Subscriptions
  PROVE  Got(s) \in Seq(Nat) /\ Len(Got(s)) \in Nat /\ DOMAIN Got(s) = 1 .. Len(Got(s))
<1>1. subscription[s].seen \in Seq(Nat) /\ subscription[s].items \in Seq(Nat)
  BY DEF Objects, Object
<1>2. subscription[s].seen \o subscription[s].items \in Seq(Nat)
  BY <1>1
<1>3. PICK got \in Seq(Nat) : got = Got(s)
  BY <1>2 DEF Got
<1> QED BY <1>3

LEMMA WireSame ==
  ASSUME UNCHANGED wire, NEW n
  PROVE  OnWire(n)' <=> OnWire(n)
BY DEF OnWire, IsMessage, Number

-----------------------------------------------------------------------------
(* Steps that leave the deliveries as they are                               *)

\* What an object is to the event loop: whether it lives, and its channel.
SameObjects ==
  \A s \in Subscriptions :
    /\ subscription'[s].state = subscription[s].state
    /\ subscription'[s].channel = subscription[s].channel

LEMMA RegisteredKept ==
  ASSUME Objects, Registered, UNCHANGED channelSubscriptions, SameObjects
  PROVE  Registered'
<1>1. \A channel \in Channels : \A i \in DOMAIN channelSubscriptions[channel] :
        channelSubscriptions[channel][i] \in Subscriptions
  BY DEF Objects
<1>2. \A s \in Subscriptions : Live(s)' <=> Live(s)
  BY DEF SameObjects, Live
<1>3. ASSUME NEW channel \in Channels,
             NEW targets, targets = channelSubscriptions[channel]
      PROVE  /\ \A i \in DOMAIN targets :
                  /\ subscription'[targets[i]].state = "live"
                  /\ subscription'[targets[i]].channel = channel
             /\ \A i, j \in DOMAIN targets : targets[i] = targets[j] => i = j
  <2>1. /\ \A i \in DOMAIN targets :
             /\ subscription[targets[i]].state = "live"
             /\ subscription[targets[i]].channel = channel
        /\ \A i, j \in DOMAIN targets : targets[i] = targets[j] => i = j
    BY <1>3 DEF Registered, Live
  <2>2. \A i \in DOMAIN targets : targets[i] \in Subscriptions
    BY <1>1, <1>3
  <2> QED BY <2>1, <2>2 DEF SameObjects
<1>4. ASSUME NEW s \in Subscriptions, Live(s)
      PROVE  /\ subscription'[s].channel = subscription[s].channel
             /\ \E i \in DOMAIN channelSubscriptions[subscription[s].channel] :
                  channelSubscriptions[subscription[s].channel][i] = s
  BY <1>4 DEF SameObjects, Registered
<1>5. \A channel \in Channels :
        LET targets == channelSubscriptions'[channel]
        IN /\ \A i \in DOMAIN targets :
                subscription'[targets[i]].state = "live"
                /\ subscription'[targets[i]].channel = channel
           /\ \A i, j \in DOMAIN targets : targets[i] = targets[j] => i = j
  BY <1>3
<1>6. \A s \in Subscriptions : Live(s)' =>
        \E i \in DOMAIN channelSubscriptions'[subscription'[s].channel] :
          channelSubscriptions'[subscription'[s].channel][i] = s
  BY <1>2, <1>4
<1>7. (\A channel \in Channels :
        LET targets == channelSubscriptions[channel]
        IN /\ \A i \in DOMAIN targets :
                Live(targets[i]) /\ subscription[targets[i]].channel = channel
           /\ \A i, j \in DOMAIN targets : targets[i] = targets[j] => i = j)'
  BY <1>5 DEF Live
<1> QED BY <1>6, <1>7 DEF Registered

LEMMA DeliveryAgain ==
  ASSUME NEW payload, NEW targets,
         payload = delivering'.payload, targets = delivering'.targets,
         delivering' = [payload |-> payload, targets |-> targets],
         link' = "up", Sent(payload)',
         targets \in Seq(Subscriptions), targets # <<>>,
         \A i \in DOMAIN targets :
           /\ subscription'[targets[i]].state = "live"
           /\ subscription'[targets[i]].channel = published'[payload].channel,
         \A i, j \in DOMAIN targets : targets[i] = targets[j] => i = j,
         \A m \in DOMAIN published' : OnWire(m)' => payload < m,
         \A m \in DOMAIN published' : (payload < m /\ Sent(m)') => OnWire(m)'
  PROVE  Delivery'
<1>1. (/\ delivering = [payload |-> delivering.payload, targets |-> delivering.targets]
       /\ link = "up" /\ Sent(delivering.payload))'
  BY DEF Sent
<1>2. (/\ delivering.targets \in Seq(Subscriptions) /\ delivering.targets # <<>>
       /\ \A i \in DOMAIN delivering.targets :
            /\ Live(delivering.targets[i])
            /\ subscription[delivering.targets[i]].channel = published[delivering.payload].channel
       /\ \A i, j \in DOMAIN delivering.targets :
            delivering.targets[i] = delivering.targets[j] => i = j)'
  BY DEF Live
<1>3. (/\ \A m \in DOMAIN published : OnWire(m) => delivering.payload < m
       /\ \A m \in DOMAIN published : (delivering.payload < m /\ Sent(m)) => OnWire(m))'
  OBVIOUS
<1> QED BY <1>1, <1>2, <1>3 DEF Delivery

\* What DeliveryAgain asks for, as one fact about a payload and its objects
HandsTo(payload, targets) ==
  /\ payload = delivering'.payload /\ targets = delivering'.targets
  /\ delivering' = [payload |-> payload, targets |-> targets]
  /\ link' = "up" /\ Sent(payload)'
  /\ targets \in Seq(Subscriptions) /\ targets # <<>>
  /\ \A i \in DOMAIN targets :
       /\ subscription'[targets[i]].state = "live"
       /\ subscription'[targets[i]].channel = published'[payload].channel
  /\ \A i, j \in DOMAIN targets : targets[i] = targets[j] => i = j
  /\ \A m \in DOMAIN published' : OnWire(m)' => payload < m
  /\ \A m \in DOMAIN published' : (payload < m /\ Sent(m)') => OnWire(m)'

LEMMA HandingIsDelivery ==
  ASSUME NEW payload, NEW targets, HandsTo(payload, targets)
  PROVE  Delivery'
BY DeliveryAgain DEF HandsTo

\* Steps around the deliveries: acknowledgements and publications on the wire, and
\* what users do to their objects.
LEMMA AroundKeeps ==
  ASSUME DeliveryInv, Epochs', SameObjects, \A s \in Subscriptions : Got(s)' = Got(s),
         UNCHANGED <<delivering, pubEpoch, link>>,
         \A n \in DOMAIN published : n \in DOMAIN published' /\ published'[n] = published[n],
         \A n \in DOMAIN published : OnWire(n)' <=> OnWire(n),
         \A n \in DOMAIN published' \ DOMAIN published :
           /\ OnWire(n)' <=> Sent(n)'
           /\ \A m \in DOMAIN published : m < n
  PROVE  /\ Delivery' /\ Older' /\ NoneLost' /\ Unskipped'
         /\ \A n, m \in DOMAIN published' : (OnWire(n)' /\ n < m /\ Sent(m)') => OnWire(m)'
<1>1. /\ \A n \in DOMAIN published : Sent(n)' <=> Sent(n)
      /\ \A n : Sent(n)' => n \in DOMAIN published'
      /\ \A n : Sent(n) => n \in DOMAIN published
  BY DEF Sent
<1>2. MutexFree' <=> MutexFree
  BY DEF MutexFree, NoDelivery
<1>3. \A s : Target(s)' <=> Target(s)
  BY DEF Target
<1>4. \A s \in Subscriptions : Live(s)' <=> Live(s)
  BY DEF SameObjects, Live
<1>5. /\ DOMAIN published \subseteq DOMAIN published'
      /\ \A n \in DOMAIN published : \A m \in DOMAIN published' \ DOMAIN published : ~(m < n)
  <2>1. PICK len \in Nat, more \in Nat :
          DOMAIN published = 1 .. len /\ DOMAIN published' = 1 .. more
    BY DEF DeliveryInv, Epochs
  <2>2. \A n \in 1 .. len : \A m \in 1 .. more : m < n => m \in 1 .. len
    OBVIOUS
  <2> QED BY <2>1, <2>2
<1>6. \A n, m \in DOMAIN published' : (OnWire(n)' /\ n < m /\ Sent(m)') => OnWire(m)'
  BY <1>1, <1>5 DEF DeliveryInv, WireOrdered
<1>7. Delivery'
  <2>1. CASE MutexFree
    BY <1>2, <2>1 DEF Delivery
  <2>2. CASE ~MutexFree
    <3> PICK payload, targets : payload = delivering.payload /\ targets = delivering.targets
      OBVIOUS
    <3>1. /\ delivering = [payload |-> payload, targets |-> targets]
          /\ link = "up" /\ Sent(payload)
          /\ targets \in Seq(Subscriptions) /\ targets # <<>>
          /\ \A i \in DOMAIN targets :
               Live(targets[i]) /\ subscription[targets[i]].channel = published[payload].channel
          /\ \A i, j \in DOMAIN targets : targets[i] = targets[j] => i = j
          /\ \A m \in DOMAIN published : OnWire(m) => payload < m
          /\ \A m \in DOMAIN published : (payload < m /\ Sent(m)) => OnWire(m)
      BY <2>2 DEF DeliveryInv, Delivery
    <3>2. payload \in DOMAIN published /\ Sent(payload)'
      BY <1>1, <3>1
    <3>3. \A i \in DOMAIN targets :
            /\ subscription'[targets[i]].state = "live"
            /\ subscription'[targets[i]].channel = published'[payload].channel
      <4>1. \A i \in DOMAIN targets : targets[i] \in Subscriptions
        BY <3>1
      <4> QED BY <3>1, <3>2, <4>1 DEF SameObjects, Live
    <3>4. \A m \in DOMAIN published' : OnWire(m)' => payload < m
      BY <3>1, <3>2
    <3>5. \A m \in DOMAIN published' : (payload < m /\ Sent(m)') => OnWire(m)'
      BY <1>1, <3>1
    <3>6. /\ payload = delivering'.payload /\ targets = delivering'.targets
          /\ delivering' = [payload |-> payload, targets |-> targets]
      BY <3>1
    <3> QED BY <3>1, <3>2, <3>3, <3>4, <3>5, <3>6, DeliveryAgain
  <2> QED BY <2>1, <2>2
<1>8. Older'
  <2>1. SUFFICES ASSUME NEW s \in Subscriptions, NEW i \in DOMAIN Got(s)
        PROVE  /\ Got(s)[i] \in DOMAIN published'
               /\ published'[Got(s)[i]].channel = subscription'[s].channel
               /\ \A m \in DOMAIN published' : OnWire(m)' => Got(s)[i] < m
               /\ ~MutexFree => Got(s)[i] <= delivering.payload
               /\ ~MutexFree /\ Target(s) => Got(s)[i] < delivering.payload
               /\ \A j \in DOMAIN Got(s) : i < j => Got(s)[i] < Got(s)[j]
    BY <1>2, <1>3 DEF Older
  <2>2. /\ Got(s)[i] \in DOMAIN published
        /\ published[Got(s)[i]].channel = subscription[s].channel
        /\ \A m \in DOMAIN published : OnWire(m) => Got(s)[i] < m
        /\ ~MutexFree => Got(s)[i] <= delivering.payload
        /\ ~MutexFree /\ Target(s) => Got(s)[i] < delivering.payload
        /\ \A j \in DOMAIN Got(s) : i < j => Got(s)[i] < Got(s)[j]
    BY DEF DeliveryInv, Older
  <2>3. \A m \in DOMAIN published' : OnWire(m)' => Got(s)[i] < m
    BY <2>2
  <2> QED BY <2>2, <2>3 DEF SameObjects
<1>9. NoneLost'
  <2>1. SUFFICES ASSUME link = "up", NEW s \in Subscriptions, Live(s), NEW i \in DOMAIN Got(s),
                        NEW m \in DOMAIN published', Got(s)[i] < m, Sent(Got(s)[i])', Sent(m)',
                        published'[m].channel = subscription'[s].channel
        PROVE  ToCome(s, m)' \/ \E j \in DOMAIN Got(s) : Got(s)[j] = m
    BY <1>4 DEF NoneLost
  <2>2. CASE m \in DOMAIN published
    <3>1. Got(s)[i] \in DOMAIN published
      BY DEF DeliveryInv, Older
    <3>2. Sent(Got(s)[i]) /\ Sent(m) /\ published[m].channel = subscription[s].channel
      BY <1>1, <2>1, <2>2, <3>1 DEF SameObjects
    <3>3. ToCome(s, m) \/ \E j \in DOMAIN Got(s) : Got(s)[j] = m
      BY <2>1, <2>2, <3>2 DEF DeliveryInv, NoneLost
    <3> QED BY <1>2, <1>3, <2>2, <3>3 DEF ToCome
  <2>3. CASE m \notin DOMAIN published
    BY <2>1, <2>3 DEF ToCome
  <2> QED BY <2>2, <2>3
<1>10. Unskipped'
  <2>1. SUFFICES ASSUME NEW s \in Subscriptions, NEW got, got = Got(s), NEW i \in 2 .. Len(got)
        PROVE  /\ got[i - 1] < got[i]
               /\ \A n \in got[i - 1] + 1 .. got[i] - 1 :
                    ~ /\ published'[n].channel = subscription'[s].channel
                      /\ published'[n].epoch = published'[got[i]].epoch
                      /\ published'[n].epoch = published'[got[i - 1]].epoch
    BY DEF Unskipped, NoneSkipped
  <2>2. /\ got[i - 1] < got[i]
        /\ \A n \in got[i - 1] + 1 .. got[i] - 1 :
             ~ /\ published[n].channel = subscription[s].channel
               /\ published[n].epoch = published[got[i]].epoch
               /\ published[n].epoch = published[got[i - 1]].epoch
    BY <2>1 DEF DeliveryInv, Unskipped, NoneSkipped
  <2>3. i \in DOMAIN Got(s) /\ i - 1 \in DOMAIN Got(s)
    BY <2>1, GotTyped DEF DeliveryInv
  <2>4. got[i] \in DOMAIN published /\ got[i - 1] \in DOMAIN published
    BY <2>1, <2>3 DEF DeliveryInv, Older
  <2>5. \A n \in got[i - 1] + 1 .. got[i] - 1 : n \in DOMAIN published
    <3>1. PICK len \in Nat : DOMAIN published = 1 .. len
      BY DEF DeliveryInv, Epochs
    <3> QED BY <2>4, <3>1
  <2> QED BY <2>1, <2>2, <2>4, <2>5 DEF SameObjects
<1> QED BY <1>6, <1>7, <1>8, <1>9, <1>10

\* attachCallback(), detachCallback(), pop_front()
LEMMA UserKeeps ==
  ASSUME DeliveryInv, NEW s \in Subscriptions,
         UserAttaches(s) \/ UserDetaches(s) \/ UserPops(s)
  PROVE  DeliveryInv'
<1>1. PICK now :
        /\ \/ now = Attach(subscription[s]) \/ now = Detach(subscription[s])
           \/ CanPop(subscription[s]) /\ now = PopFront(subscription[s])
        /\ subscription' = [subscription EXCEPT ![s] = now]
  BY DEF UserAttaches, UserDetaches, UserPops
<1>2. /\ UNCHANGED <<channels, patterns, calls, requests, wire, serverChannels, serverPatterns,
                     published, link, pubEpoch, pushTypes, received>>
      /\ UNCHANGED <<channelSubscriptions, delivering>>
  BY DEF UserAttaches, UserDetaches, UserPops, subscriberVars, baseVars, linkVars
<1>3. subscription[s] \in Object /\ (subscription[s].attached => subscription[s].items = <<>>)
  BY DEF DeliveryInv, Objects
<1>4. /\ now \in Object /\ now.state = subscription[s].state
      /\ now.channel = subscription[s].channel
      /\ now.attached => now.items = <<>>
      /\ now.seen \o now.items = subscription[s].seen \o subscription[s].items
  BY <1>1, <1>3, AttachedOrPopped
<1>5. /\ subscription' \in [Subscriptions -> Object] /\ subscription'[s] = now
      /\ \A t \in Subscriptions : t # s => subscription'[t] = subscription[t]
  BY <1>1, <1>4 DEF DeliveryInv, Objects
<1>6. SameObjects
  BY <1>4, <1>5 DEF SameObjects
<1>7. \A t \in Subscriptions : Got(t)' = Got(t)
  <2>1. SUFFICES ASSUME NEW t \in Subscriptions
                 PROVE  subscription'[t].seen \o subscription'[t].items
                          = subscription[t].seen \o subscription[t].items
    BY DEF Got
  <2> QED BY <1>4, <1>5
<1>8. Objects'
  <2>1. \A t \in Subscriptions :
          /\ subscription'[t].attached => subscription'[t].items = <<>>
          /\ subscription'[t].state = "live" => subscription'[t].channel \in Channels
    BY <1>4, <1>5 DEF DeliveryInv, Objects, Live
  <2>2. channelSubscriptions' \in [Channels -> Seq(Subscriptions)]
    BY <1>2 DEF DeliveryInv, Objects
  <2> QED BY <1>5, <2>1, <2>2 DEF Objects, Live
<1>9. Registered'
  BY <1>2, <1>6, RegisteredKept DEF DeliveryInv
<1>10. OnlyChannels' /\ Epochs'
  BY <1>2 DEF DeliveryInv, OnlyChannels, Epochs
<1>11. \A n : OnWire(n)' <=> OnWire(n)
  BY <1>2, WireSame
<1>12. Delivery' /\ Older' /\ NoneLost' /\ Unskipped'
  BY <1>2, <1>6, <1>7, <1>10, <1>11, AroundKeeps
<1>13. WireHolds' /\ WireOrdered'
  BY <1>2, <1>11 DEF DeliveryInv, WireHolds, WireOrdered, Sent, IsMessage, Number
<1> QED BY <1>8, <1>9, <1>10, <1>12, <1>13 DEF DeliveryInv

\* Steps of the server leave the objects alone.
LEMMA ObjectsSame ==
  ASSUME DeliveryInv, UNCHANGED objectVars
  PROVE  /\ Objects' /\ Registered' /\ SameObjects
         /\ \A s \in Subscriptions : Got(s)' = Got(s)
         /\ UNCHANGED delivering
<1>1. subscription' = subscription /\ channelSubscriptions' = channelSubscriptions
      /\ delivering' = delivering
  BY DEF objectVars
<1>2. SameObjects
  BY <1>1 DEF SameObjects
<1>3. Registered'
  BY <1>1, <1>2, RegisteredKept DEF DeliveryInv
<1>4. Objects'
  BY <1>1 DEF DeliveryInv, Objects, Live
<1>5. \A s \in Subscriptions : Got(s)' = Got(s)
  BY <1>1 DEF Got
<1> QED BY <1>1, <1>2, <1>3, <1>4, <1>5

LEMMA MoreOnWire ==
  ASSUME IsSequence(wire), NEW more, IsSequence(more), wire' = wire \o more
  PROVE  /\ IsSequence(wire')
         /\ \A i \in DOMAIN wire : i \in DOMAIN wire' /\ wire'[i] = wire[i]
         /\ \A i \in DOMAIN wire' \ DOMAIN wire :
              /\ \E k \in DOMAIN more : wire'[i] = more[k]
              /\ \A j \in DOMAIN wire : j < i
<1>1. PICK m \in Nat, n \in Nat :
        /\ m = Len(wire) /\ n = Len(more) /\ DOMAIN wire = 1 .. m /\ DOMAIN more = 1 .. n
  BY SequenceDomain
<1>2. /\ IsSequence(wire') /\ DOMAIN wire' = 1 .. m + n
      /\ \A i \in 1 .. m : wire'[i] = wire[i]
      /\ \A i \in m + 1 .. m + n : wire'[i] = more[i - m]
  BY <1>1, Joined
<1>3. \A i \in 1 .. m : i \in 1 .. m + n
  OBVIOUS
<1>4. \A i \in (1 .. m + n) \ (1 .. m) :
        i \in m + 1 .. m + n /\ i - m \in 1 .. n /\ \A j \in 1 .. m : j < i
  OBVIOUS
<1> QED BY <1>1, <1>2, <1>3, <1>4

LEMMA ServerSubscribesDelivers ==
  ASSUME DeliveryInv, ServerSubscribes, UNCHANGED objectVars
  PROVE  DeliveryInv'
<1>1. /\ IsSequence(requests) /\ requests # <<>> /\ link = "up" /\ link' = link
      /\ requests' = Tail(requests)
      /\ UNCHANGED <<channels, patterns, published, pubEpoch>>
  BY DEF DeliveryInv, OnlyChannels, ServerSubscribes, baseVars
<1>2. /\ \A i \in DOMAIN requests' :
           requests'[i].kind = "subscribe" /\ requests'[i].names \subseteq Channels
      /\ IsSequence(requests')
      /\ Head(requests).kind = "subscribe" /\ Head(requests).names \subseteq Channels
  <2>1. PICK n \in Nat \ {0} : n = Len(requests)
    BY <1>1, Rest
  <2>2. /\ DOMAIN requests = 1 .. n /\ DOMAIN Tail(requests) = 1 .. n - 1
        /\ Head(requests) = requests[1] /\ IsSequence(Tail(requests))
        /\ \A i \in 1 .. n - 1 : Tail(requests)[i] = requests[i + 1]
    BY <1>1, <2>1, Rest
  <2>3. (1 \in 1 .. n) /\ \A i \in 1 .. n - 1 : i + 1 \in 1 .. n
    OBVIOUS
  <2> QED BY <1>1, <2>2, <2>3 DEF DeliveryInv, OnlyChannels
<1>3. PICK names : names = Head(requests).names
  OBVIOUS
<1>4. /\ wire' = wire \o Acknowledgements("subscribe", names)
      /\ serverPatterns' = serverPatterns
  BY <1>2, <1>3 DEF ServerSubscribes
<1>5. IsFiniteSet(names) /\ names \subseteq Channels
  BY <1>2, <1>3, ChannelsAssumption, FS_Subset
<1>6. PICK acks :
        /\ wire' = wire \o acks /\ IsSequence(acks)
        /\ \A i \in DOMAIN acks :
             Parse(acks[i]).messageType = "subscribe" /\ Parse(acks[i]).channel \in Channels
  BY <1>4, <1>5, Acknowledged
<1>7. /\ IsSequence(wire')
      /\ \A i \in DOMAIN wire : i \in DOMAIN wire' /\ wire'[i] = wire[i]
      /\ \A i \in DOMAIN wire' \ DOMAIN wire :
           /\ Parse(wire'[i]).messageType = "subscribe"
           /\ Parse(wire'[i]).channel \in Channels
  BY <1>6, MoreOnWire DEF DeliveryInv, WireHolds
<1>8. \A i \in DOMAIN wire' \ DOMAIN wire : ~IsMessage(wire'[i])
  BY <1>7 DEF IsMessage
<1>9. \A n : OnWire(n)' <=> OnWire(n)
  <2>1. \A n : OnWire(n)' <=> \E i \in DOMAIN wire' : IsMessage(wire'[i]) /\ Number(wire'[i]) = n
    BY DEF OnWire, IsMessage, Number
  <2> QED BY <1>7, <1>8, <2>1 DEF OnWire
<1>10. /\ Objects' /\ Registered' /\ SameObjects
       /\ \A s \in Subscriptions : Got(s)' = Got(s)
       /\ UNCHANGED delivering
  BY ObjectsSame
<1>11. OnlyChannels' /\ Epochs'
  BY <1>1, <1>2, <1>4 DEF DeliveryInv, OnlyChannels, Epochs
<1>12. /\ Delivery' /\ Older' /\ NoneLost' /\ Unskipped'
       /\ \A n, m \in DOMAIN published' : (OnWire(n)' /\ n < m /\ Sent(m)') => OnWire(m)'
  BY <1>1, <1>9, <1>10, <1>11, AroundKeeps
<1>13. WireHolds'
  <2>1. ASSUME NEW i \in DOMAIN wire'
        PROVE  IF IsMessage(wire'[i])
               THEN /\ Number(wire'[i]) \in DOMAIN published
                    /\ published[Number(wire'[i])].epoch = pubEpoch
                    /\ Parse(wire'[i]).channel = published[Number(wire'[i])].channel
               ELSE /\ Parse(wire'[i]).messageType = "subscribe"
                    /\ Parse(wire'[i]).channel \in Channels
    <3>1. CASE i \in DOMAIN wire
      BY <1>7, <3>1 DEF DeliveryInv, WireHolds, Sent
    <3>2. CASE i \notin DOMAIN wire
      BY <1>7, <1>8, <3>2
    <3> QED BY <3>1, <3>2
  <2>2. link' # "down"
    BY <1>1
  <2> QED BY <1>1, <1>7, <2>1, <2>2 DEF WireHolds, Sent, IsMessage, Number
<1>14. \A i, j \in DOMAIN wire' : (i < j /\ IsMessage(wire'[i]) /\ IsMessage(wire'[j])) =>
         Number(wire'[i]) < Number(wire'[j])
  BY <1>7, <1>8 DEF DeliveryInv, WireOrdered
<1>15. WireOrdered'
  BY <1>12, <1>14 DEF WireOrdered, IsMessage, Number
<1> QED BY <1>10, <1>11, <1>12, <1>13, <1>15 DEF DeliveryInv

-----------------------------------------------------------------------------
(* Publications                                                              *)

LEMMA NoneListed == SetToSeq({}) = <<>>
<1>1. IsFiniteSet({})
  BY FS_EmptySet
<1>2. IsSequence(SetToSeq({})) /\ \A i \in DOMAIN SetToSeq({}) : SetToSeq({})[i] \in {}
  BY <1>1, Listed
<1>3. PICK S : SetToSeq({}) \in Seq(S)
  BY <1>2 DEF IsSequence
<1>4. PICK n \in Nat : n = Len(SetToSeq({})) /\ DOMAIN SetToSeq({}) = 1 .. n
  BY <1>3
<1>5. \A i \in 1 .. n : FALSE
  BY <1>2, <1>4
<1>6. n = 0
  <2>1. n # 0 => n \in 1 .. n
    OBVIOUS
  <2> QED BY <1>5, <2>1
<1> QED BY <1>3, <1>4, <1>6

\* The publication goes to the client, if it is subscribed.
LEMMA Published ==
  ASSUME DeliveryInv, NEW channel \in Channels, PublishOn(channel)
  PROVE  \E epoch \in Nat, n \in Nat :
           /\ n = Len(published) + 1
           /\ published' = Append(published, [channel |-> channel, epoch |-> epoch])
           /\ \/ epoch = 0 /\ wire' = wire
              \/ /\ epoch = pubEpoch /\ link = "up"
                 /\ wire' = wire \o <<Reply(<<"message", channel, n>>)>>
<1>1. PICK n \in Nat : n = Len(published) + 1
  <2>1. Len(published) + 1 \in Nat
    BY DEF DeliveryInv, Epochs
  <2> QED BY <2>1
<1>2. PICK message : message = Reply(<<"message", channel, n>>)
  OBVIOUS
<1>3. PICK direct : direct = IF link = "up" /\ channel \in serverChannels THEN <<message>> ELSE <<>>
  OBVIOUS
<1>4. serverPatterns = {}
  BY DEF DeliveryInv, OnlyChannels
<1>5. PICK matched : matched = SetToSeq(IF link = "up" THEN serverPatterns ELSE {})
  OBVIOUS
<1>6. DOMAIN matched = {}
  <2>1. (IF link = "up" THEN serverPatterns ELSE {}) = {}
    BY <1>4
  <2>2. matched = <<>>
    BY <1>5, <2>1, NoneListed
  <2> QED BY <2>2
<1>7. PICK none : none = [i \in DOMAIN matched |-> Reply(<<"pmessage", matched[i], channel, n>>)]
  OBVIOUS
<1>8. none = <<>>
  BY <1>6, <1>7
<1>9. /\ wire' = (wire \o direct) \o none
      /\ published' = Append(published, [channel |-> channel,
             epoch |-> IF direct = <<>> THEN 0 ELSE pubEpoch])
  BY <1>1, <1>2, <1>3, <1>5, <1>7 DEF PublishOn
<1>10. PICK S : wire \in Seq(S)
  BY DEF DeliveryInv, WireHolds, IsSequence
<1>11. pubEpoch \in Nat /\ 0 \in Nat
  BY DEF DeliveryInv, Epochs
<1>12. CASE direct = <<>>
  <2>1. (wire \o <<>>) \o <<>> = wire
    BY <1>10, ConcatEmptySeq
  <2> QED BY <1>1, <1>8, <1>9, <1>11, <1>12, <2>1
<1>13. CASE direct # <<>>
  <2>1. link = "up" /\ direct = <<message>>
    BY <1>3, <1>13
  <2>2. wire \in Seq(S \cup {message}) /\ <<message>> \in Seq(S \cup {message})
    BY <1>10, SeqMonotonic
  <2>3. (wire \o <<message>>) \o <<>> = wire \o <<message>>
    <3>1. wire \o <<message>> \in Seq(S \cup {message})
      BY <2>2, ConcatProperties
    <3> QED BY <3>1, ConcatEmptySeq
  <2> QED BY <1>1, <1>2, <1>8, <1>9, <1>11, <1>13, <2>1, <2>3
<1> QED BY <1>12, <1>13

LEMMA PublishDelivers ==
  ASSUME DeliveryInv, NEW channel \in Channels, PublishOn(channel), UNCHANGED objectVars
  PROVE  DeliveryInv'
<1>1. PICK epoch \in Nat, n \in Nat :
           /\ n = Len(published) + 1
           /\ published' = Append(published, [channel |-> channel, epoch |-> epoch])
           /\ \/ epoch = 0 /\ wire' = wire
              \/ /\ epoch = pubEpoch /\ link = "up"
                 /\ wire' = wire \o <<Reply(<<"message", channel, n>>)>>
  BY Published
<1>2. UNCHANGED <<channels, patterns, requests, serverPatterns, link, pubEpoch>>
  BY DEF PublishOn, baseVars
<1>3. /\ published \in Seq([channel : Channels, epoch : Nat]) /\ pubEpoch \in Nat \ {0}
      /\ link \in {"up", "down"} /\ \A k \in DOMAIN published : published[k].epoch <= pubEpoch
  BY DEF DeliveryInv, Epochs
<1>4. PICK publication \in [channel : Channels, epoch : Nat] :
        publication = [channel |-> channel, epoch |-> epoch]
  OBVIOUS
<1>5. /\ published' \in Seq([channel : Channels, epoch : Nat])
      /\ DOMAIN published' = 1 .. n /\ DOMAIN published = 1 .. n - 1
      /\ \A k \in 1 .. n - 1 : published'[k] = published[k]
      /\ published'[n] = publication
  BY <1>1, <1>3, <1>4, AppendProperties
<1>6. publication.channel = channel /\ publication.epoch = epoch /\ n \in 1 .. n
  BY <1>1, <1>3, <1>4
<1>7. Epochs'
  <2>1. epoch <= pubEpoch
    BY <1>1, <1>3
  <2>2. \A k \in 1 .. n : k \in 1 .. n - 1 \/ k = n
    OBVIOUS
  <2>3. \A k \in 1 .. n : published'[k].epoch <= pubEpoch
    BY <1>3, <1>5, <1>6, <2>1, <2>2
  <2> QED BY <1>2, <1>3, <1>5, <2>3 DEF Epochs
<1>8. OnlyChannels'
  BY <1>2 DEF DeliveryInv, OnlyChannels
<1>9. /\ Objects' /\ Registered' /\ SameObjects
      /\ \A s \in Subscriptions : Got(s)' = Got(s)
      /\ UNCHANGED delivering
  BY ObjectsSame
<1>10. (\A m \in DOMAIN published : Sent(m)' <=> Sent(m)) /\ (Sent(n)' <=> epoch = pubEpoch)
  <2>1. \A k \in 1 .. n - 1 : k \in 1 .. n
    OBVIOUS
  <2> QED BY <1>2, <1>5, <1>6, <2>1 DEF Sent
<1>11. \A i \in DOMAIN wire : IsMessage(wire[i]) => Number(wire[i]) \in 1 .. n - 1
  BY <1>5 DEF DeliveryInv, WireHolds, Sent
<1>12. PICK wireNow : wireNow = wire'
  OBVIOUS
<1>13. \A m : OnWire(m)' <=> \E i \in DOMAIN wireNow : IsMessage(wireNow[i]) /\ Number(wireNow[i]) = m
  BY <1>12 DEF OnWire, IsMessage, Number
<1>14. SUFFICES
         /\ IsSequence(wireNow) /\ (link = "down" => wireNow = <<>>)
         /\ \A m : OnWire(m)' <=> OnWire(m) \/ (m = n /\ epoch = pubEpoch)
         /\ \A i \in DOMAIN wireNow :
              IF IsMessage(wireNow[i])
              THEN /\ Number(wireNow[i]) \in DOMAIN published'
                   /\ published'[Number(wireNow[i])].epoch = pubEpoch
                   /\ Parse(wireNow[i]).channel = published'[Number(wireNow[i])].channel
              ELSE /\ Parse(wireNow[i]).messageType = "subscribe"
                   /\ Parse(wireNow[i]).channel \in Channels
         /\ \A i, j \in DOMAIN wireNow : (i < j /\ IsMessage(wireNow[i]) /\ IsMessage(wireNow[j])) =>
              Number(wireNow[i]) < Number(wireNow[j])
  <2>1. \A m \in 1 .. n - 1 : m # n /\ m < n /\ m \in 1 .. n
    OBVIOUS
  <2>2. \A m \in 1 .. n : m \notin 1 .. n - 1 => m = n
    OBVIOUS
  <2>3. n \notin 1 .. n - 1
    OBVIOUS
  <2>4. ~OnWire(n)
    BY <1>11, <2>3 DEF OnWire
  <2>5. /\ \A m \in DOMAIN published : m \in DOMAIN published' /\ published'[m] = published[m]
        /\ \A m \in DOMAIN published : OnWire(m)' <=> OnWire(m)
        /\ \A m \in DOMAIN published' \ DOMAIN published :
             /\ OnWire(m)' <=> Sent(m)'
             /\ \A k \in DOMAIN published : k < m
    BY <1>5, <1>10, <1>14, <2>1, <2>2, <2>4
  <2>6. /\ Delivery' /\ Older' /\ NoneLost' /\ Unskipped'
        /\ \A k, m \in DOMAIN published' : (OnWire(k)' /\ k < m /\ Sent(m)') => OnWire(m)'
    BY <1>2, <1>7, <1>9, <2>5, AroundKeeps
  <2>7. WireHolds'
    BY <1>2, <1>12, <1>14 DEF WireHolds, Sent, IsMessage, Number
  <2>8. WireOrdered'
    BY <1>12, <1>14, <2>6 DEF WireOrdered, IsMessage, Number
  <2> QED BY <1>7, <1>8, <1>9, <2>6, <2>7, <2>8 DEF DeliveryInv
<1>15. /\ IsSequence(wire) /\ (link = "down" => wire = <<>>)
       /\ \A i \in DOMAIN wire :
              IF IsMessage(wire[i])
              THEN /\ Number(wire[i]) \in DOMAIN published'
                   /\ published'[Number(wire[i])].epoch = pubEpoch
                   /\ Parse(wire[i]).channel = published'[Number(wire[i])].channel
              ELSE /\ Parse(wire[i]).messageType = "subscribe"
                   /\ Parse(wire[i]).channel \in Channels
       /\ \A i, j \in DOMAIN wire : (i < j /\ IsMessage(wire[i]) /\ IsMessage(wire[j])) =>
              Number(wire[i]) < Number(wire[j])
  <2>1. \A m \in 1 .. n - 1 : m \in 1 .. n
    OBVIOUS
  <2> QED BY <1>5, <2>1 DEF DeliveryInv, WireHolds, WireOrdered, Sent
<1>16. CASE epoch = 0 /\ wire' = wire
  <2>1. epoch # pubEpoch
    BY <1>3, <1>16
  <2>2. wireNow = wire
    BY <1>12, <1>16
  <2> QED BY <1>13, <1>15, <2>1, <2>2 DEF OnWire
<1>17. CASE /\ epoch = pubEpoch /\ link = "up"
            /\ wire' = wire \o <<Reply(<<"message", channel, n>>)>>
  <2>1. PICK message : message = Reply(<<"message", channel, n>>)
    OBVIOUS
  <2>2. wireNow = Append(wire, message)
    BY <1>12, <1>15, <1>17, <2>1, JoinedOne
  <2>3. IsMessage(message) /\ Number(message) = n /\ Parse(message).channel = channel
    <3>1. PICK parsed : parsed = Parse(message)
      OBVIOUS
    <3>2. parsed = [messageType |-> "message", pattern |-> "", channel |-> channel, payload |-> n]
      BY <2>1, <3>1, ParsedMessage
    <3>3. parsed.messageType = "message" /\ parsed.channel = channel /\ parsed.payload = n
      BY <3>2
    <3> QED BY <3>1, <3>3 DEF IsMessage, Number
  <2>4. PICK last \in Nat : last = Len(wire)
    BY <1>15, SequenceDomain
  <2>5. /\ IsSequence(wireNow) /\ DOMAIN wire = 1 .. last /\ DOMAIN wireNow = 1 .. last + 1
        /\ wireNow[last + 1] = message /\ \A i \in 1 .. last : wireNow[i] = wire[i]
    BY <1>15, <2>2, <2>4, Appended
  <2>6. \A i \in 1 .. last + 1 : i \in 1 .. last \/ i = last + 1
    OBVIOUS
  <2>7. last + 1 \in 1 .. last + 1 /\ \A i \in 1 .. last : i \in 1 .. last + 1
    OBVIOUS
  <2>8. \A m : OnWire(m)' <=> OnWire(m) \/ m = n
    BY <1>13, <2>3, <2>5, <2>6, <2>7 DEF OnWire
  <2>9. ASSUME NEW i \in DOMAIN wireNow
        PROVE IF IsMessage(wireNow[i])
              THEN /\ Number(wireNow[i]) \in DOMAIN published'
                   /\ published'[Number(wireNow[i])].epoch = pubEpoch
                   /\ Parse(wireNow[i]).channel = published'[Number(wireNow[i])].channel
              ELSE /\ Parse(wireNow[i]).messageType = "subscribe"
                   /\ Parse(wireNow[i]).channel \in Channels
    <3>1. CASE i \in 1 .. last
      <4>1. wireNow[i] = wire[i] /\ i \in DOMAIN wire
        BY <2>5, <3>1
      <4> QED BY <1>15, <4>1
    <3>2. CASE i = last + 1
      <4>1. wireNow[i] = message
        BY <2>5, <3>2
      <4> QED BY <1>5, <1>6, <1>17, <2>3, <4>1
    <3> QED BY <2>5, <2>6, <3>1, <3>2
  <2>10. ASSUME NEW i \in DOMAIN wireNow, NEW j \in DOMAIN wireNow, i < j,
                IsMessage(wireNow[i]), IsMessage(wireNow[j])
         PROVE  Number(wireNow[i]) < Number(wireNow[j])
    <3>1. i \in 1 .. last /\ (j \in 1 .. last \/ j = last + 1)
      BY <2>5, <2>10
    <3>2. wireNow[i] = wire[i]
      BY <2>5, <3>1
    <3>3. CASE j \in 1 .. last
      BY <1>15, <2>5, <2>10, <3>1, <3>2, <3>3
    <3>4. CASE j = last + 1
      <4>1. Number(wireNow[j]) = n
        BY <2>3, <2>5, <3>4
      <4>2. Number(wireNow[i]) \in 1 .. n - 1
        BY <1>11, <2>5, <2>10, <3>1, <3>2
      <4> QED BY <4>1, <4>2
    <3> QED BY <3>1, <3>3, <3>4
  <2>11. link # "down"
    BY <1>17
  <2> QED BY <1>17, <2>5, <2>8, <2>9, <2>10, <2>11
<1> QED BY <1>1, <1>16, <1>17

-----------------------------------------------------------------------------
(* Connections                                                               *)

\* Steps that neither publish nor give an object anything
LEMMA SkippedAgain ==
  ASSUME NEW s, NEW got, NoneSkipped(s, got), published' = published,
         subscription'[s].channel = subscription[s].channel
  PROVE  NoneSkipped(s, got)'
BY DEF NoneSkipped

LEMMA UnskippedAgain ==
  ASSUME Unskipped, published' = published, subscription' = subscription
  PROVE  Unskipped'
<1>1. \A s : Got(s)' = Got(s)
  BY DEF Got
<1>2. ASSUME NEW s, NEW got, NoneSkipped(s, got) PROVE NoneSkipped(s, got)'
  BY <1>2, SkippedAgain
<1> QED BY <1>1, <1>2 DEF Unskipped

LEMMA LinkLostDelivers ==
  ASSUME DeliveryInv, MutexFree, LinkLost, UNCHANGED objectVars
  PROVE  DeliveryInv'
<1>1. /\ link' = "down" /\ requests' = <<>> /\ wire' = <<>> /\ serverPatterns' = {}
      /\ UNCHANGED <<channels, patterns, published, pubEpoch>>
      /\ UNCHANGED <<subscription, channelSubscriptions, delivering>>
  BY DEF LinkLost, baseVars, objectVars
<1>2. Objects' /\ Registered'
  BY ObjectsSame
<1>3. OnlyChannels' /\ Epochs' /\ WireHolds'
  BY <1>1, EmptyIsSequence DEF DeliveryInv, OnlyChannels, Epochs, WireHolds
<1>4. \A n : ~OnWire(n)'
  BY <1>1 DEF OnWire
<1>5. WireOrdered'
  BY <1>1, <1>4 DEF WireOrdered
<1>6. MutexFree'
  BY <1>1 DEF MutexFree, NoDelivery
<1>7. Delivery' /\ NoneLost'
  BY <1>1, <1>6 DEF Delivery, NoneLost
<1>8. Older'
  <2>1. /\ \A s \in Subscriptions : Got(s)' = Got(s)
        /\ ~(~MutexFree')
    BY ObjectsSame, <1>1, <1>4, <1>6
  <2> QED BY <1>1, <1>4, <1>6, <2>1 DEF DeliveryInv, Older
<1>9. Unskipped'
  BY <1>1, UnskippedAgain DEF DeliveryInv
<1> QED BY <1>2, <1>3, <1>5, <1>7, <1>8, <1>9 DEF DeliveryInv

LEMMA LinkEstablishedDelivers ==
  ASSUME DeliveryInv, MutexFree, LinkEstablished, UNCHANGED objectVars
  PROVE  DeliveryInv'
<1>1. /\ link = "down" /\ link' = "up" /\ pubEpoch' = pubEpoch + 1
      /\ requests' = requests \o Resubscribe
      /\ UNCHANGED <<channels, patterns, published, wire, serverPatterns>>
      /\ UNCHANGED <<subscription, channelSubscriptions, delivering>>
  BY DEF LinkEstablished, baseVars, objectVars
<1>2. Objects' /\ Registered'
  BY ObjectsSame
<1>3. wire' = <<>>
  BY <1>1 DEF DeliveryInv, WireHolds
<1>4. OnlyChannels'
  <2>1. /\ IsSequence(requests) /\ patterns = {} /\ channels \subseteq Channels
        /\ serverPatterns = {}
        /\ \A i \in DOMAIN requests :
             requests[i].kind = "subscribe" /\ requests[i].names \subseteq Channels
    BY DEF DeliveryInv, OnlyChannels
  <2>2. PICK request : request = [kind |-> "subscribe", names |-> channels]
    OBVIOUS
  <2>3. request.kind = "subscribe" /\ request.names \subseteq Channels
    BY <2>1, <2>2
  <2>4. PICK S : requests \in Seq(S)
    BY <2>1 DEF IsSequence
  <2>5. Resubscribe = (IF channels = {} THEN <<>> ELSE <<request>>) \o <<>>
    BY <2>1, <2>2 DEF Resubscribe
  <2>6. requests' = IF channels = {} THEN requests ELSE Append(requests, request)
    <3>1. CASE channels = {}
      <4>1. Resubscribe = <<>>
        BY <2>5, <3>1
      <4> QED BY <1>1, <2>4, <3>1, <4>1, ConcatEmptySeq
    <3>2. CASE channels # {}
      <4>1. <<request>> \in Seq({request})
        OBVIOUS
      <4>2. Resubscribe = <<request>>
        BY <2>5, <3>2, <4>1, ConcatEmptySeq
      <4> QED BY <1>1, <2>1, <3>2, <4>2, JoinedOne
    <3> QED BY <3>1, <3>2
  <2>7. PICK n \in Nat : n = Len(requests) /\ DOMAIN requests = 1 .. n
    BY <2>1, SequenceDomain
  <2>8. PICK more : more = Append(requests, request)
    OBVIOUS
  <2>9. /\ IsSequence(more) /\ DOMAIN more = 1 .. n + 1 /\ more[n + 1] = request
        /\ \A i \in 1 .. n : more[i] = requests[i]
    BY <2>1, <2>7, <2>8, Appended
  <2>10. \A i \in 1 .. n + 1 : i \in 1 .. n \/ i = n + 1
    OBVIOUS
  <2>11. \A i \in DOMAIN more : more[i].kind = "subscribe" /\ more[i].names \subseteq Channels
    <3>1. SUFFICES ASSUME NEW i \in DOMAIN more
                   PROVE  more[i].kind = "subscribe" /\ more[i].names \subseteq Channels
      OBVIOUS
    <3>2. CASE i \in 1 .. n
      <4>1. more[i] = requests[i] /\ i \in DOMAIN requests
        BY <2>7, <2>9, <3>2
      <4> QED BY <2>1, <4>1
    <3>3. CASE i = n + 1
      <4>1. more[i] = request
        BY <2>9, <3>3
      <4> QED BY <2>3, <4>1
    <3> QED BY <2>9, <2>10, <3>2, <3>3
  <2>12. requests' = requests \/ requests' = more
    BY <2>6, <2>8
  <2> QED BY <1>1, <2>1, <2>9, <2>11, <2>12 DEF OnlyChannels
<1>5. Epochs' /\ \A n \in DOMAIN published : ~(Sent(n)')
  <2>1. /\ published \in Seq([channel : Channels, epoch : Nat]) /\ pubEpoch \in Nat \ {0}
        /\ \A n \in DOMAIN published : published[n].epoch <= pubEpoch
    BY DEF DeliveryInv, Epochs
  <2>2. ASSUME NEW n \in DOMAIN published
        PROVE  published[n].epoch <= pubEpoch + 1 /\ published[n].epoch # pubEpoch + 1
    <3>1. PICK epoch \in Nat : epoch = published[n].epoch
      <4>1. published[n] \in [channel : Channels, epoch : Nat]
        <5>1. PICK P : P = [channel : Channels, epoch : Nat]
          OBVIOUS
        <5>2. published \in Seq(P)
          BY <2>1, <5>1
        <5>3. published[n] \in P
          BY <5>2, ElementOfSeq
        <5> QED BY <5>1, <5>3
      <4>2. published[n].epoch \in Nat
        BY <4>1
      <4> QED BY <4>2
    <3> QED BY <2>1, <3>1
  <2>3. pubEpoch + 1 \in Nat \ {0}
    BY <2>1
  <2> QED BY <1>1, <2>1, <2>2, <2>3 DEF Epochs, Sent
<1>6. WireHolds'
  BY <1>1, <1>3, EmptyIsSequence DEF WireHolds
<1>7. \A n : ~OnWire(n)'
  BY <1>3 DEF OnWire
<1>8. WireOrdered'
  BY <1>3, <1>7 DEF WireOrdered
<1>9. MutexFree'
  BY <1>1 DEF MutexFree, NoDelivery
<1>10. Delivery'
  BY <1>9 DEF Delivery
<1>11. NoneLost'
  BY <1>1, <1>5 DEF NoneLost
<1>12. Older'
  <2>1. /\ \A s \in Subscriptions : Got(s)' = Got(s)
        /\ ~(~MutexFree')
    BY ObjectsSame, <1>1, <1>7, <1>9
  <2> QED BY <1>1, <1>7, <1>9, <2>1 DEF DeliveryInv, Older
<1>13. Unskipped'
  BY <1>1, UnskippedAgain DEF DeliveryInv
<1> QED BY <1>2, <1>4, <1>5, <1>6, <1>8, <1>10, <1>11, <1>12, <1>13 DEF DeliveryInv

-----------------------------------------------------------------------------
(* Deliveries                                                                *)

\* processIncomingMessage() takes the first reply.
LEMMA FirstTaken ==
  ASSUME DeliveryInv, wire # <<>>, wire' = Tail(wire), UNCHANGED <<published, pubEpoch>>,
         NEW first, first = Head(wire)
  PROVE  /\ IsSequence(wire')
         /\ \E i \in DOMAIN wire : wire[i] = first
         /\ \A i \in DOMAIN wire' : \E j \in DOMAIN wire : wire'[i] = wire[j]
         /\ \A i, j \in DOMAIN wire' : (i < j /\ IsMessage(wire'[i]) /\ IsMessage(wire'[j])) =>
              Number(wire'[i]) < Number(wire'[j])
         /\ ~IsMessage(first) => \A n : OnWire(n)' <=> OnWire(n)
         /\ IsMessage(first) =>
              /\ OnWire(Number(first))
              /\ \A n : OnWire(n)' <=> OnWire(n) /\ n # Number(first)
              /\ \A n : OnWire(n)' => Number(first) < n
<1>1. IsSequence(wire)
  BY DEF DeliveryInv, WireHolds
<1>2. PICK n \in Nat : n = Len(wire) - 1
  BY <1>1, Rest
<1>3. /\ DOMAIN wire = 1 .. n + 1 /\ DOMAIN wire' = 1 .. n /\ first = wire[1]
      /\ IsSequence(wire') /\ \A i \in 1 .. n : wire'[i] = wire[i + 1]
  BY <1>1, <1>2, Rest
<1>4. /\ 1 \in 1 .. n + 1
      /\ \A i \in 1 .. n : i + 1 \in 1 .. n + 1 /\ 1 < i + 1
      /\ \A i, j \in 1 .. n : i < j => i + 1 < j + 1
  OBVIOUS
<1>5. \A i \in 1 .. n + 1 : i = 1 \/ \E k \in 1 .. n : i = k + 1
  <2>1. ASSUME NEW i \in 1 .. n + 1, i # 1 PROVE i - 1 \in 1 .. n /\ i = (i - 1) + 1
    BY <2>1
  <2> QED BY <2>1
<1>6. \A i, j \in DOMAIN wire : (i < j /\ IsMessage(wire[i]) /\ IsMessage(wire[j])) =>
        Number(wire[i]) < Number(wire[j])
  BY DEF DeliveryInv, WireOrdered
<1>7. \A m : OnWire(m)' <=> \E i \in 1 .. n : IsMessage(wire[i + 1]) /\ Number(wire[i + 1]) = m
  <2>1. \A m : OnWire(m)' <=>
          \E i \in DOMAIN wire' : IsMessage(wire'[i]) /\ Number(wire'[i]) = m
    BY DEF OnWire, IsMessage, Number
  <2> QED BY <1>3, <2>1
<1>8. \A m : OnWire(m) <=> OnWire(m)' \/ (IsMessage(first) /\ Number(first) = m)
  <2>1. \A m : OnWire(m) <=> \E i \in 1 .. n + 1 : IsMessage(wire[i]) /\ Number(wire[i]) = m
    BY <1>3 DEF OnWire
  <2>2. ASSUME NEW m, OnWire(m) PROVE OnWire(m)' \/ (IsMessage(first) /\ Number(first) = m)
    BY <1>3, <1>5, <1>7, <2>1, <2>2
  <2>3. ASSUME NEW m, OnWire(m)' \/ (IsMessage(first) /\ Number(first) = m) PROVE OnWire(m)
    BY <1>3, <1>4, <1>7, <2>1, <2>3
  <2> QED BY <2>2, <2>3
<1>9. \A i \in DOMAIN wire : IsMessage(wire[i]) => Number(wire[i]) \in Nat
  BY DEF DeliveryInv, WireHolds, Sent, Epochs
<1>10. IsMessage(first) => \A m : OnWire(m)' => Number(first) < m /\ m # Number(first)
  <2>1. ASSUME IsMessage(first), NEW m, OnWire(m)'
        PROVE  Number(first) < m /\ m # Number(first)
    <3>1. PICK i \in 1 .. n : IsMessage(wire[i + 1]) /\ Number(wire[i + 1]) = m
      BY <1>7, <2>1
    <3>2. Number(first) < m
      BY <1>3, <1>4, <1>6, <2>1, <3>1
    <3>3. Number(first) \in Nat
      BY <1>3, <1>4, <1>9, <2>1
    <3> QED BY <3>2, <3>3
  <2> QED BY <2>1
<1>11. \A i, j \in DOMAIN wire' : (i < j /\ IsMessage(wire'[i]) /\ IsMessage(wire'[j])) =>
         Number(wire'[i]) < Number(wire'[j])
  BY <1>3, <1>4, <1>6
<1> QED BY <1>3, <1>4, <1>8, <1>10, <1>11

\* What is left on the wire is as before.
LEMMA WireLeft ==
  ASSUME DeliveryInv, wire # <<>>, wire' = Tail(wire), UNCHANGED <<published, pubEpoch, link>>
  PROVE  WireHolds' /\ WireOrdered'
<1>1. PICK first : first = Head(wire)
  OBVIOUS
<1>2. PICK left : left = wire'
  OBVIOUS
<1>3. /\ IsSequence(left)
      /\ \A i \in DOMAIN left : \E j \in DOMAIN wire : left[i] = wire[j]
      /\ \A i, j \in DOMAIN left : (i < j /\ IsMessage(left[i]) /\ IsMessage(left[j])) =>
              Number(left[i]) < Number(left[j])
      /\ \A n, m \in DOMAIN published : (OnWire(n)' /\ OnWire(m) /\ n < m) => OnWire(m)'
  <2>1. /\ IsSequence(wire')
        /\ \A i \in DOMAIN wire' : \E j \in DOMAIN wire : wire'[i] = wire[j]
        /\ \A i, j \in DOMAIN wire' : (i < j /\ IsMessage(wire'[i]) /\ IsMessage(wire'[j])) =>
              Number(wire'[i]) < Number(wire'[j])
        /\ ~IsMessage(first) => \A n : OnWire(n)' <=> OnWire(n)
        /\ IsMessage(first) =>
              /\ OnWire(Number(first))
              /\ \A n : OnWire(n)' <=> OnWire(n) /\ n # Number(first)
              /\ \A n : OnWire(n)' => Number(first) < n
    BY <1>1, FirstTaken
  <2>2. ASSUME NEW n \in DOMAIN published, NEW m \in DOMAIN published,
               OnWire(n)', OnWire(m), n < m, IsMessage(first)
        PROVE  m # Number(first)
    <3>1. n \in Nat /\ m \in Nat
      BY DEF DeliveryInv, Epochs
    <3>2. Number(first) < n
      BY <2>1, <2>2
    <3> QED BY <2>2, <3>1, <3>2
  <2> QED BY <1>2, <2>1, <2>2
<1>4. link = "down" => left = <<>>
  BY DEF DeliveryInv, WireHolds
<1>5. \A i \in DOMAIN left :
        IF IsMessage(left[i])
        THEN /\ Number(left[i]) \in DOMAIN published
             /\ published[Number(left[i])].epoch = pubEpoch
             /\ Parse(left[i]).channel = published[Number(left[i])].channel
        ELSE Parse(left[i]).messageType = "subscribe" /\ Parse(left[i]).channel \in Channels
  BY <1>3 DEF DeliveryInv, WireHolds, Sent
<1>6. WireHolds'
  BY <1>2, <1>3, <1>4, <1>5 DEF WireHolds, Sent, IsMessage, Number
<1>7. \A n, m \in DOMAIN published : (OnWire(n)' /\ n < m /\ Sent(m)) => OnWire(m)'
  <2>1. \A n : OnWire(n)' => OnWire(n)
    BY <1>1, FirstTaken
  <2> QED BY <1>3, <2>1 DEF DeliveryInv, WireOrdered
<1>8. \A n : Sent(n)' <=> Sent(n)
  BY DEF Sent
<1>9. WireOrdered'
  BY <1>2, <1>3, <1>7, <1>8 DEF WireOrdered, IsMessage, Number
<1> QED BY <1>6, <1>9

LEMMA TargetsTyped ==
  ASSUME DeliveryInv, NEW channel \in Channels, NEW targets,
         targets = channelSubscriptions[channel]
  PROVE  /\ targets \in Seq(Subscriptions)
         /\ \A i \in DOMAIN targets :
              /\ targets[i] \in Subscriptions /\ Live(targets[i])
              /\ subscription[targets[i]].channel = channel
         /\ \A i, j \in DOMAIN targets : targets[i] = targets[j] => i = j
         /\ targets # <<>> => Head(targets) \in Subscriptions
<1>1. targets \in Seq(Subscriptions)
  BY DEF DeliveryInv, Objects
<1>2. /\ \A i \in DOMAIN targets :
           Live(targets[i]) /\ subscription[targets[i]].channel = channel
      /\ \A i, j \in DOMAIN targets : targets[i] = targets[j] => i = j
  BY DEF DeliveryInv, Registered
<1> QED BY <1>1, <1>2

LEMMA AcknowledgedDelivers ==
  ASSUME DeliveryInv, MutexFree, wire # <<>>, wire' = Tail(wire),
         UNCHANGED <<channels, patterns, requests, serverPatterns, published, link, pubEpoch,
                     channelSubscriptions, delivering>>,
         NEW m, m = Parse(Head(wire)), m.messageType = "subscribe",
         NEW targets, targets = channelSubscriptions[m.channel],
         subscription' = IF targets = <<>> THEN subscription
                         ELSE [subscription EXCEPT ![Head(targets)].acknowledged = TRUE]
  PROVE  DeliveryInv'
<1>1. PICK first : first = Head(wire)
  OBVIOUS
<1>2. ~IsMessage(first)
  BY <1>1 DEF IsMessage
<1>3. m.channel \in Channels
  <2>1. \E i \in DOMAIN wire : wire[i] = first
    BY <1>1, FirstTaken
  <2> QED BY <1>1, <1>2, <2>1 DEF DeliveryInv, WireHolds
<1>4. /\ \A s \in Subscriptions :
           /\ subscription'[s].state = subscription[s].state
           /\ subscription'[s].channel = subscription[s].channel
           /\ subscription'[s].attached = subscription[s].attached
           /\ subscription'[s].seen = subscription[s].seen
           /\ subscription'[s].items = subscription[s].items
      /\ subscription' \in [Subscriptions -> Object]
  <2>1. CASE targets = <<>>
    BY <2>1 DEF DeliveryInv, Objects
  <2>2. CASE targets # <<>>
    <3>1. PICK t \in Subscriptions : t = Head(targets)
      BY <1>3, <2>2, TargetsTyped
    <3>2. subscription \in [Subscriptions -> Object] /\ subscription[t] \in Object
      BY DEF DeliveryInv, Objects
    <3>3. PICK now : now = [subscription[t] EXCEPT !.acknowledged = TRUE]
      OBVIOUS
    <3>4. /\ now \in Object /\ now.state = subscription[t].state
          /\ now.channel = subscription[t].channel /\ now.attached = subscription[t].attached
          /\ now.seen = subscription[t].seen /\ now.items = subscription[t].items
      BY <3>2, <3>3 DEF Object
    <3>5. subscription' = [subscription EXCEPT ![t] = now]
      BY <2>2, <3>1, <3>3
    <3>6. /\ subscription' \in [Subscriptions -> Object] /\ subscription'[t] = now
          /\ \A s \in Subscriptions : s # t => subscription'[s] = subscription[s]
      BY <3>2, <3>4, <3>5
    <3> QED BY <3>4, <3>6
  <2> QED BY <2>1, <2>2
<1>5. SameObjects /\ \A s \in Subscriptions : Got(s)' = Got(s)
  BY <1>4 DEF SameObjects, Got
<1>6. Objects'
  BY <1>4 DEF DeliveryInv, Objects, Live
<1>7. Registered'
  BY <1>5, RegisteredKept DEF DeliveryInv
<1>8. OnlyChannels' /\ Epochs'
  BY DEF DeliveryInv, OnlyChannels, Epochs
<1>9. \A n : OnWire(n)' <=> OnWire(n)
  BY <1>1, <1>2, FirstTaken
<1>10. Delivery' /\ Older' /\ NoneLost' /\ Unskipped'
  BY <1>5, <1>8, <1>9, AroundKeeps
<1>11. WireHolds' /\ WireOrdered'
  BY WireLeft
<1> QED BY <1>6, <1>7, <1>8, <1>10, <1>11 DEF DeliveryInv

LEMMA MessageDelivers ==
  ASSUME DeliveryInv, MutexFree, wire # <<>>, wire' = Tail(wire),
         UNCHANGED <<channels, patterns, requests, serverPatterns, published, link, pubEpoch,
                     channelSubscriptions, subscription>>,
         NEW m, m = Parse(Head(wire)), m.messageType \in {"message", "pmessage"},
         NEW targets, targets = channelSubscriptions[m.channel],
         delivering' = IF targets = <<>> THEN NoDelivery
                       ELSE [payload |-> m.payload, targets |-> targets]
  PROVE  DeliveryInv'
<1>1. PICK first, payload : first = Head(wire) /\ payload = m.payload
  OBVIOUS
<1>2. \E i \in DOMAIN wire : wire[i] = first
  BY <1>1, FirstTaken
<1>3. IsMessage(first)
  <2>1. m.messageType # "subscribe"
    OBVIOUS
  <2> QED BY <1>1, <1>2, <2>1 DEF DeliveryInv, WireHolds
<1>4. Number(first) = payload
  BY <1>1 DEF Number
<1>5. /\ Sent(payload) /\ m.channel = published[payload].channel
      /\ payload \in DOMAIN published
  BY <1>1, <1>2, <1>3, <1>4 DEF DeliveryInv, WireHolds, Sent
<1>6. PICK channel \in Channels : channel = m.channel
  <2>1. PICK P : P = [channel : Channels, epoch : Nat]
    OBVIOUS
  <2>2. published \in Seq(P)
    BY <2>1 DEF DeliveryInv, Epochs
  <2>3. published[payload] \in P
    BY <1>5, <2>2, ElementOfSeq
  <2> QED BY <1>5, <2>1, <2>3
<1>7. /\ targets \in Seq(Subscriptions)
      /\ \A i \in DOMAIN targets :
           /\ targets[i] \in Subscriptions /\ Live(targets[i])
           /\ subscription[targets[i]].channel = channel
      /\ \A i, j \in DOMAIN targets : targets[i] = targets[j] => i = j
  <2>1. targets = channelSubscriptions[channel]
    BY <1>6
  <2> QED BY <2>1, TargetsTyped
<1>8. /\ OnWire(payload)
      /\ \A n : OnWire(n)' <=> OnWire(n) /\ n # payload
      /\ \A n : OnWire(n)' => payload < n
  BY <1>1, <1>3, <1>4, FirstTaken
<1>9. /\ payload \in Nat \ {0} /\ \A n \in DOMAIN published : n \in Nat
  BY <1>5 DEF DeliveryInv, Epochs
<1>10. MutexFree' <=> targets = <<>>
  <2>1. CASE targets = <<>>
    BY <2>1 DEF MutexFree, NoDelivery
  <2>2. CASE targets # <<>>
    <3>1. delivering'.payload = payload
      BY <1>1, <2>2
    <3>2. NoDelivery.payload = 0
      BY DEF NoDelivery
    <3>3. delivering' # NoDelivery
      BY <1>9, <3>1, <3>2
    <3> QED BY <2>2, <3>3 DEF MutexFree, NoDelivery
  <2> QED BY <2>1, <2>2
<1>11. targets # <<>> =>
         /\ payload = delivering'.payload /\ targets = delivering'.targets
         /\ delivering' = [payload |-> payload, targets |-> targets]
  BY <1>1
<1>12. \A s \in Subscriptions : Got(s)' = Got(s)
  BY DEF Got
<1>13. /\ link = "up"
       /\ \A n \in DOMAIN published : (payload < n /\ Sent(n)) => OnWire(n)'
  <2>1. wire # <<>> => link # "down"
    BY DEF DeliveryInv, WireHolds
  <2>2. link = "up"
    BY <2>1 DEF DeliveryInv, Epochs
  <2>3. ASSUME NEW n \in DOMAIN published, payload < n, Sent(n) PROVE OnWire(n)'
    <3>1. OnWire(n)
      BY <1>5, <1>8, <2>3 DEF DeliveryInv, WireOrdered
    <3>2. n # payload
      BY <1>9, <2>3
    <3> QED BY <1>8, <3>1, <3>2
  <2> QED BY <2>2, <2>3
<1>14. Delivery'
  <2>1. CASE targets = <<>>
    BY <1>10, <2>1 DEF Delivery
  <2>2. CASE targets # <<>>
    <3>1. /\ Sent(payload)' /\ \A n : Sent(n)' <=> Sent(n)
      BY <1>5 DEF Sent
    <3>2. \A i \in DOMAIN targets :
            /\ subscription'[targets[i]].state = "live"
            /\ subscription'[targets[i]].channel = published'[payload].channel
      BY <1>5, <1>6, <1>7 DEF Live
    <3>3. /\ payload = delivering'.payload /\ targets = delivering'.targets
          /\ delivering' = [payload |-> payload, targets |-> targets]
      BY <1>11, <2>2
    <3>4. link' = "up"
      BY <1>13
    <3>5. /\ \A n \in DOMAIN published' : OnWire(n)' => payload < n
          /\ \A n \in DOMAIN published' : (payload < n /\ Sent(n)') => OnWire(n)'
      BY <1>8, <1>13, <3>1
    <3>6. \A i, j \in DOMAIN targets : targets[i] = targets[j] => i = j
      BY <1>7
    <3>7. targets \in Seq(Subscriptions) /\ Sent(payload)'
      BY <1>7, <3>1
    <3>8. targets # <<>>
      BY <2>2
    <3>9. PICK p, t : p = payload /\ t = targets
      OBVIOUS
    <3>10. /\ p = delivering'.payload /\ t = delivering'.targets
           /\ delivering' = [payload |-> p, targets |-> t]
           /\ Sent(p)' /\ t \in Seq(Subscriptions) /\ t # <<>>
      BY <3>3, <3>7, <3>8, <3>9
    <3>11. /\ \A i \in DOMAIN t :
                /\ subscription'[t[i]].state = "live"
                /\ subscription'[t[i]].channel = published'[p].channel
           /\ \A i, j \in DOMAIN t : t[i] = t[j] => i = j
      BY <3>2, <3>6, <3>9
    <3>12. /\ \A n \in DOMAIN published' : OnWire(n)' => p < n
           /\ \A n \in DOMAIN published' : (p < n /\ Sent(n)') => OnWire(n)'
      BY <3>5, <3>9
    <3>13. HandsTo(p, t)
      BY <3>4, <3>10, <3>11, <3>12 DEF HandsTo
    <3> QED BY <3>13, HandingIsDelivery
  <2> QED BY <2>1, <2>2
<1>15. Older'
  <2>1. SUFFICES ASSUME NEW s \in Subscriptions, NEW i \in DOMAIN Got(s)
        PROVE  /\ Got(s)[i] \in DOMAIN published
               /\ published[Got(s)[i]].channel = subscription[s].channel
               /\ \A n \in DOMAIN published : OnWire(n)' => Got(s)[i] < n
               /\ ~MutexFree' => Got(s)[i] < delivering'.payload /\ Got(s)[i] <= delivering'.payload
               /\ \A j \in DOMAIN Got(s) : i < j => Got(s)[i] < Got(s)[j]
    BY <1>12 DEF Older
  <2>2. /\ Got(s)[i] \in DOMAIN published
        /\ published[Got(s)[i]].channel = subscription[s].channel
        /\ \A n \in DOMAIN published : OnWire(n) => Got(s)[i] < n
        /\ \A j \in DOMAIN Got(s) : i < j => Got(s)[i] < Got(s)[j]
    BY DEF DeliveryInv, Older
  <2>3. Got(s)[i] < payload /\ Got(s)[i] <= payload
    <3>1. Got(s)[i] < payload
      BY <1>5, <1>8, <2>2
    <3> QED BY <1>9, <2>2, <3>1
  <2> QED BY <1>8, <1>10, <1>11, <2>2, <2>3
<1>16. NoneLost'
  <2>1. SUFFICES ASSUME NEW s \in Subscriptions, Live(s), NEW i \in DOMAIN Got(s),
                        NEW n \in DOMAIN published, Got(s)[i] < n, Sent(Got(s)[i]), Sent(n),
                        published[n].channel = subscription[s].channel
                 PROVE  ToCome(s, n)' \/ \E j \in DOMAIN Got(s) : Got(s)[j] = n
    BY <1>12 DEF NoneLost, Sent, Live
  <2>2. OnWire(n) \/ \E j \in DOMAIN Got(s) : Got(s)[j] = n
    BY <1>13, <2>1 DEF DeliveryInv, NoneLost, ToCome
  <2>3. CASE OnWire(n) /\ n # payload
    BY <1>8, <2>3 DEF ToCome
  <2>4. CASE n = payload
    <3>1. subscription[s].channel = channel
      BY <1>5, <1>6, <2>1, <2>4
    <3>2. PICK k \in DOMAIN targets : targets[k] = s
      BY <1>6, <2>1, <3>1 DEF DeliveryInv, Registered
    <3>3. targets # <<>>
      BY <3>2
    <3>4. Target(s)'
      BY <1>11, <3>2, <3>3 DEF Target
    <3> QED BY <1>10, <1>11, <2>4, <3>3, <3>4 DEF ToCome
  <2> QED BY <2>2, <2>3, <2>4
<1>17. Unskipped'
  BY UnskippedAgain DEF DeliveryInv
<1>18. Objects'
  BY DEF DeliveryInv, Objects, Live
<1>19. SameObjects
  BY DEF SameObjects
<1>20. Registered'
  BY <1>19, RegisteredKept DEF DeliveryInv
<1>21. OnlyChannels' /\ Epochs'
  BY DEF DeliveryInv, OnlyChannels, Epochs
<1>22. WireHolds' /\ WireOrdered'
  BY WireLeft
<1> QED BY <1>14, <1>15, <1>16, <1>17, <1>18, <1>20, <1>21, <1>22 DEF DeliveryInv

LEMMA ReceivesDelivers ==
  ASSUME DeliveryInv, Receives PROVE DeliveryInv'
<1>1. /\ MutexFree /\ wire # <<>> /\ wire' = Tail(wire)
      /\ UNCHANGED <<channels, patterns, requests, serverPatterns, published, link, pubEpoch,
                     channelSubscriptions>>
  BY DEF Receives, baseVars
<1>2. PICK m, targets : m = Parse(Head(wire)) /\ targets = channelSubscriptions[m.channel]
  OBVIOUS
<1>3. \/ /\ m.messageType = "subscribe"
         /\ subscription' = IF targets = <<>> THEN subscription
                            ELSE [subscription EXCEPT ![Head(targets)].acknowledged = TRUE]
         /\ delivering' = delivering
      \/ /\ m.messageType \in {"message", "pmessage"}
         /\ delivering' = IF targets = <<>> THEN NoDelivery
                          ELSE [payload |-> m.payload, targets |-> targets]
         /\ subscription' = subscription
  BY <1>2 DEF Receives
<1> QED BY <1>1, <1>2, <1>3, AcknowledgedDelivers, MessageDelivers

LEMMA StillToCome ==
  ASSUME NoneLost, link = "up", NEW s \in Subscriptions, Live(s),
         NEW i \in DOMAIN Got(s), NEW m \in DOMAIN published,
         Got(s)[i] < m, Sent(Got(s)[i]), Sent(m),
         published[m].channel = subscription[s].channel
  PROVE  ToCome(s, m) \/ \E j \in DOMAIN Got(s) : Got(s)[j] = m
BY DEF NoneLost

\* processIncoming() of the next object.
LEMMA NextDelivers ==
  ASSUME DeliveryInv, DeliversToNext PROVE DeliveryInv'
<1>1. /\ ~MutexFree /\ UNCHANGED channelSubscriptions
      /\ UNCHANGED <<channels, patterns, requests, serverPatterns, published, link, pubEpoch, wire>>
  BY DEF DeliversToNext, subscriberVars, baseVars, linkVars
<1>2. PICK payload, targets : payload = delivering.payload /\ targets = delivering.targets
  OBVIOUS
<1>3. /\ delivering = [payload |-> payload, targets |-> targets]
      /\ link = "up" /\ Sent(payload)
      /\ targets \in Seq(Subscriptions) /\ targets # <<>>
      /\ \A i \in DOMAIN targets :
           Live(targets[i]) /\ subscription[targets[i]].channel = published[payload].channel
      /\ \A i, j \in DOMAIN targets : targets[i] = targets[j] => i = j
      /\ \A m \in DOMAIN published : OnWire(m) => payload < m
      /\ \A m \in DOMAIN published : (payload < m /\ Sent(m)) => OnWire(m)
  BY <1>1, <1>2 DEF DeliveryInv, Delivery
<1>4. /\ payload \in DOMAIN published /\ payload \in Nat \ {0}
      /\ \A n \in DOMAIN published : n \in Nat
  BY <1>3 DEF Sent, DeliveryInv, Epochs
<1>5. PICK len \in Nat : len = Len(targets) - 1
  BY <1>3
<1>6. PICK next, rest : next = Head(targets) /\ rest = Tail(targets)
  OBVIOUS
<1>7. /\ DOMAIN targets = 1 .. len + 1 /\ DOMAIN rest = 1 .. len /\ next = targets[1]
      /\ rest \in Seq(Subscriptions) /\ next \in Subscriptions
      /\ \A i \in 1 .. len : rest[i] = targets[i + 1]
      /\ Len(targets) = 1 <=> rest = <<>>
  <2>1. rest \in Seq(Subscriptions) /\ next = targets[1]
    BY <1>3, <1>6
  <2>2. DOMAIN targets = 1 .. len + 1 /\ Len(targets) = len + 1
    BY <1>3, <1>5
  <2>3. Len(rest) = len /\ \A i \in 1 .. len : rest[i] = targets[i + 1]
    BY <1>3, <1>6, <2>2
  <2>4. DOMAIN rest = 1 .. len
    BY <2>1, <2>3
  <2>5. next \in Subscriptions
    BY <1>3, <2>1, <2>2
  <2>6. Len(targets) = 1 <=> rest = <<>>
    BY <2>1, <2>2, <2>3
  <2> QED BY <2>1, <2>2, <2>3, <2>4, <2>5, <2>6
<1>8. /\ Live(next) /\ subscription[next].channel = published[payload].channel
      /\ \A i \in DOMAIN rest :
           /\ Live(rest[i]) /\ subscription[rest[i]].channel = published[payload].channel
           /\ rest[i] # next /\ rest[i] \in Subscriptions
      /\ \A i, j \in DOMAIN rest : rest[i] = rest[j] => i = j
  <2>1. /\ 1 \in 1 .. len + 1 /\ \A i \in 1 .. len : i + 1 \in 1 .. len + 1 /\ i + 1 # 1
        /\ \A i, j \in 1 .. len : i + 1 = j + 1 => i = j
    OBVIOUS
  <2>2. Live(next) /\ subscription[next].channel = published[payload].channel
    BY <1>3, <1>7, <2>1
  <2>3. ASSUME NEW i \in 1 .. len
        PROVE  /\ Live(rest[i]) /\ subscription[rest[i]].channel = published[payload].channel
               /\ rest[i] # next /\ rest[i] \in Subscriptions
    <3>1. rest[i] = targets[i + 1] /\ i + 1 \in DOMAIN targets /\ 1 \in DOMAIN targets /\ i + 1 # 1
      BY <1>7, <2>1
    <3>2. targets[i + 1] \in Subscriptions
      BY <1>3, <3>1
    <3>3. targets[i + 1] # targets[1]
      BY <1>3, <3>1
    <3>4. /\ Live(targets[i + 1])
          /\ subscription[targets[i + 1]].channel = published[payload].channel
      BY <1>3, <3>1
    <3> QED BY <1>7, <3>1, <3>2, <3>3, <3>4
  <2>4. ASSUME NEW i \in 1 .. len, NEW j \in 1 .. len, rest[i] = rest[j] PROVE i = j
    <3>1. /\ rest[i] = targets[i + 1] /\ i + 1 \in DOMAIN targets
          /\ rest[j] = targets[j + 1] /\ j + 1 \in DOMAIN targets
      BY <1>7, <2>1
    <3>2. i + 1 = j + 1
      BY <1>3, <2>4, <3>1
    <3> QED BY <3>2
  <2> QED BY <1>7, <2>2, <2>3, <2>4
<1>9. \A s : Target(s) <=> s = next \/ \E i \in DOMAIN rest : rest[i] = s
  <2>1. /\ 1 \in 1 .. len + 1 /\ \A i \in 1 .. len : i + 1 \in 1 .. len + 1
    OBVIOUS
  <2>2. \A i \in 1 .. len + 1 : i = 1 \/ \E k \in 1 .. len : i = k + 1
    <3>1. ASSUME NEW i \in 1 .. len + 1, i # 1 PROVE i - 1 \in 1 .. len /\ i = (i - 1) + 1
      BY <3>1
    <3> QED BY <3>1
  <2>3. \A s : Target(s) <=> \E i \in 1 .. len + 1 : targets[i] = s
    BY <1>2, <1>7 DEF Target
  <2>4. ASSUME NEW s, Target(s) PROVE s = next \/ \E i \in 1 .. len : rest[i] = s
    <3>1. PICK i \in 1 .. len + 1 : targets[i] = s
      BY <2>3, <2>4
    <3>2. CASE i = 1
      BY <1>7, <3>1, <3>2
    <3>3. CASE i # 1
      <4>1. PICK k \in 1 .. len : i = k + 1
        BY <2>2, <3>3
      <4>2. rest[k] = s
        BY <1>7, <3>1, <4>1
      <4> QED BY <4>2
    <3> QED BY <3>2, <3>3
  <2>5. Target(next)
    BY <1>7, <2>1, <2>3
  <2>6. ASSUME NEW s, NEW i \in 1 .. len, rest[i] = s PROVE Target(s)
    <3>1. targets[i + 1] = s /\ i + 1 \in 1 .. len + 1
      BY <1>7, <2>1, <2>6
    <3> QED BY <2>3, <3>1
  <2> QED BY <1>7, <2>4, <2>5, <2>6
<1>10. PICK now : now = Emplace(subscription[next], payload)
  OBVIOUS
<1>11. /\ subscription' = [subscription EXCEPT ![next] = now]
       /\ delivering' = IF rest = <<>> THEN NoDelivery
                        ELSE [delivering EXCEPT !.targets = rest]
  BY <1>2, <1>6, <1>7, <1>10 DEF DeliversToNext
<1>12. /\ subscription \in [Subscriptions -> Object] /\ subscription[next] \in Object
       /\ subscription[next].attached => subscription[next].items = <<>>
  BY <1>7 DEF DeliveryInv, Objects
<1>13. /\ now \in Object /\ now.state = subscription[next].state
       /\ now.channel = subscription[next].channel
       /\ now.attached => now.items = <<>>
       /\ now.seen \o now.items = Append(subscription[next].seen \o subscription[next].items, payload)
  <2>1. PICK object \in Object : object = subscription[next]
    BY <1>12
  <2>2. payload \in Nat /\ now = Emplace(object, payload)
        /\ (object.attached => object.items = <<>>)
    BY <1>4, <1>10, <1>12, <2>1
  <2>3. /\ now \in Object /\ now.state = object.state /\ now.channel = object.channel
        /\ now.attached => now.items = <<>>
        /\ now.seen \o now.items = Append(object.seen \o object.items, payload)
    BY <2>2, Emplaced
  <2> QED BY <2>1, <2>3
<1>14. /\ subscription' \in [Subscriptions -> Object] /\ subscription'[next] = now
       /\ \A t \in Subscriptions : t # next => subscription'[t] = subscription[t]
  BY <1>7, <1>11, <1>12, <1>13
<1>15. SameObjects /\ \A s \in Subscriptions : Live(s)' <=> Live(s)
  BY <1>13, <1>14 DEF SameObjects, Live
<1>16. PICK got \in Seq(Nat), more \in Seq(Nat) :
         got = Got(next) /\ more = Append(got, payload)
  <2>1. Got(next) \in Seq(Nat) /\ Append(Got(next), payload) \in Seq(Nat)
    BY <1>4, <1>7, GotTyped DEF DeliveryInv
  <2> QED BY <2>1
<1>17. /\ \A s \in Subscriptions : s # next => Got(s)' = Got(s)
       /\ Got(next)' = more
  <2>1. ASSUME NEW s \in Subscriptions, s # next PROVE Got(s)' = Got(s)
    BY <1>14, <2>1 DEF Got
  <2>2. now.seen \o now.items = more
    BY <1>13, <1>16 DEF Got
  <2>3. Got(next)' = subscription'[next].seen \o subscription'[next].items
    BY DEF Got
  <2> QED BY <1>14, <2>1, <2>2, <2>3
<1>18. PICK last \in Nat : last = Len(got)
  BY <1>16
<1>19. /\ DOMAIN got = 1 .. last /\ DOMAIN more = 1 .. last + 1 /\ Len(more) = last + 1
       /\ more[last + 1] = payload /\ \A i \in 1 .. last : more[i] = got[i]
  BY <1>4, <1>16, <1>18, AppendProperties
<1>20. \A i \in 1 .. last + 1 : i \in 1 .. last \/ i = last + 1
  OBVIOUS
<1>21. /\ MutexFree' <=> rest = <<>>
       /\ rest # <<>> =>
            /\ payload = delivering'.payload /\ rest = delivering'.targets
            /\ delivering' = [payload |-> payload, targets |-> rest]
  <2>1. CASE rest = <<>>
    BY <1>11, <2>1 DEF MutexFree, NoDelivery
  <2>2. CASE rest # <<>>
    <3>1. delivering' = [delivering EXCEPT !.targets = rest]
      BY <1>11, <2>2
    <3>2. delivering'.payload = payload
      BY <1>2, <3>1
    <3>3. delivering'.targets = rest
      BY <1>3, <3>1
    <3>4. NoDelivery.payload = 0
      BY DEF NoDelivery
    <3>5. delivering' # NoDelivery
      BY <1>4, <3>2, <3>4
    <3>6. delivering' = [payload |-> payload, targets |-> rest]
      BY <1>3, <3>1
    <3> QED BY <2>2, <3>2, <3>3, <3>5, <3>6 DEF MutexFree
  <2> QED BY <2>1, <2>2
<1>22. rest # <<>> => \A s : Target(s)' <=> \E i \in DOMAIN rest : rest[i] = s
  BY <1>21 DEF Target
<1>23. (\A n : OnWire(n)' <=> OnWire(n)) /\ (\A n : Sent(n)' <=> Sent(n))
  BY <1>1, WireSame DEF Sent
<1>24. Delivery'
  <2>1. CASE rest = <<>>
    BY <1>21, <2>1 DEF Delivery
  <2>2. CASE rest # <<>>
    <3>1. \A i \in DOMAIN rest :
            /\ subscription'[rest[i]].state = "live"
            /\ subscription'[rest[i]].channel = published'[payload].channel
      BY <1>1, <1>8, <1>15 DEF SameObjects, Live
    <3> QED BY <1>1, <1>3, <1>7, <1>8, <1>21, <1>23, <2>2, <3>1, DeliveryAgain
  <2> QED BY <2>1, <2>2
<1>25. Older'
  <2>1. ASSUME NEW s \in Subscriptions, s # next, NEW i \in DOMAIN Got(s)
        PROVE  /\ Got(s)[i] \in DOMAIN published
               /\ published[Got(s)[i]].channel = subscription'[s].channel
               /\ \A n \in DOMAIN published : OnWire(n) => Got(s)[i] < n
               /\ ~MutexFree' => Got(s)[i] <= delivering'.payload
               /\ ~MutexFree' /\ Target(s)' => Got(s)[i] < delivering'.payload
               /\ \A j \in DOMAIN Got(s) : i < j => Got(s)[i] < Got(s)[j]
    <3>1. /\ Got(s)[i] \in DOMAIN published
          /\ published[Got(s)[i]].channel = subscription[s].channel
          /\ \A n \in DOMAIN published : OnWire(n) => Got(s)[i] < n
          /\ Got(s)[i] <= payload
          /\ Target(s) => Got(s)[i] < payload
          /\ \A j \in DOMAIN Got(s) : i < j => Got(s)[i] < Got(s)[j]
      BY <1>1, <1>2 DEF DeliveryInv, Older
    <3>2. ~MutexFree' /\ Target(s)' => Target(s)
      BY <1>9, <1>21, <1>22
    <3> QED BY <1>14, <1>21, <2>1, <3>1, <3>2
  <2>2. ASSUME NEW i \in 1 .. last + 1
        PROVE  /\ more[i] \in DOMAIN published
               /\ published[more[i]].channel = subscription'[next].channel
               /\ \A n \in DOMAIN published : OnWire(n) => more[i] < n
               /\ more[i] <= payload
               /\ \A j \in 1 .. last + 1 : i < j => more[i] < more[j]
    <3>1. subscription'[next].channel = subscription[next].channel
      BY <1>7, <1>15 DEF SameObjects
    <3>2. CASE i = last + 1
      <4>1. \A j \in 1 .. last + 1 : ~(i < j)
        BY <3>2
      <4>2. more[i] = payload /\ payload <= payload
        BY <1>4, <1>19, <3>2
      <4> QED BY <1>3, <1>4, <1>8, <3>1, <4>1, <4>2
    <3>3. CASE i \in 1 .. last
      <4>1. more[i] = got[i]
        BY <1>19, <3>3
      <4>2. /\ got[i] \in DOMAIN published
            /\ published[got[i]].channel = subscription[next].channel
            /\ \A n \in DOMAIN published : OnWire(n) => got[i] < n
            /\ got[i] <= payload /\ got[i] < payload
            /\ \A j \in 1 .. last : i < j => got[i] < got[j]
        <5>1. Target(next)
          BY <1>9
        <5>2. i \in DOMAIN Got(next) /\ DOMAIN Got(next) = 1 .. last
          BY <1>16, <1>19, <3>3
        <5> QED BY <1>1, <1>2, <1>7, <1>16, <5>1, <5>2 DEF DeliveryInv, Older
      <4>3. ASSUME NEW j \in 1 .. last + 1, i < j PROVE more[i] < more[j]
        <5>1. CASE j \in 1 .. last
          BY <1>19, <4>1, <4>2, <4>3, <5>1
        <5>2. CASE j = last + 1
          BY <1>19, <4>1, <4>2, <5>2
        <5> QED BY <1>20, <5>1, <5>2
      <4> QED BY <3>1, <4>1, <4>2, <4>3
    <3> QED BY <1>20, <3>2, <3>3
  <2>3. ~(~MutexFree' /\ Target(next)')
    BY <1>8, <1>21, <1>22
  <2>4. ~MutexFree' => payload = delivering'.payload
    BY <1>21
  <2>5. ASSUME NEW s \in Subscriptions, NEW i \in DOMAIN Got(s)'
        PROVE  /\ Got(s)'[i] \in DOMAIN published
               /\ published[Got(s)'[i]].channel = subscription'[s].channel
               /\ \A n \in DOMAIN published : OnWire(n)' => Got(s)'[i] < n
               /\ ~MutexFree' => Got(s)'[i] <= delivering'.payload
               /\ ~MutexFree' /\ Target(s)' => Got(s)'[i] < delivering'.payload
               /\ \A j \in DOMAIN Got(s)' : i < j => Got(s)'[i] < Got(s)'[j]
    <3>1. CASE s = next
      BY <1>17, <1>19, <1>23, <2>2, <2>3, <2>4, <2>5, <3>1
    <3>2. CASE s # next
      BY <1>17, <1>23, <2>1, <2>5, <3>2
    <3> QED BY <3>1, <3>2
  <2> QED BY <1>1, <2>5 DEF Older
<1>26. \A s \in Subscriptions, m \in DOMAIN published : ToCome(s, m) =>
         ToCome(s, m)' \/ (s = next /\ m = payload)
  <2>1. SUFFICES ASSUME NEW s \in Subscriptions, NEW m \in DOMAIN published,
                        payload = m, Target(s), s # next
                 PROVE  ~MutexFree' /\ delivering'.payload = m /\ Target(s)'
    BY <1>2, <1>23 DEF ToCome
  <2>2. PICK i \in DOMAIN rest : rest[i] = s
    BY <1>9, <2>1
  <2>3. rest # <<>>
    BY <2>2
  <2> QED BY <1>21, <1>22, <2>1, <2>2, <2>3
<1>27. NoneLost'
  <2>1. ASSUME NEW s \in Subscriptions, s # next, Live(s), NEW i \in DOMAIN Got(s),
               NEW m \in DOMAIN published, Got(s)[i] < m, Sent(Got(s)[i]), Sent(m),
               published[m].channel = subscription[s].channel
        PROVE  ToCome(s, m)' \/ \E j \in DOMAIN Got(s) : Got(s)[j] = m
    BY <1>3, <1>26, <2>1 DEF DeliveryInv, NoneLost
  <2>2. ASSUME NEW i \in 1 .. last + 1, NEW m \in DOMAIN published, more[i] < m,
               Sent(more[i]), Sent(m), published[m].channel = subscription[next].channel
        PROVE  ToCome(next, m)' \/ \E j \in 1 .. last + 1 : more[j] = m
    <3>1. last + 1 \in 1 .. last + 1 /\ \A j \in 1 .. last : j \in 1 .. last + 1
      OBVIOUS
    <3>2. CASE i = last + 1
      BY <1>3, <1>19, <1>23, <2>2, <3>2 DEF ToCome
    <3>3. CASE i \in 1 .. last
      <4>1. got[i] < m /\ Sent(got[i])
        BY <1>19, <2>2, <3>3
      <4>2. ToCome(next, m) \/ \E j \in 1 .. last : got[j] = m
        <5>1. i \in DOMAIN Got(next) /\ Got(next)[i] = got[i] /\ DOMAIN Got(next) = 1 .. last
          BY <1>16, <1>19, <3>3
        <5>2. /\ Got(next)[i] < m /\ Sent(Got(next)[i]) /\ Sent(m) /\ m \in DOMAIN published
              /\ published[m].channel = subscription[next].channel
          BY <2>2, <4>1, <5>1
        <5>3. ToCome(next, m) \/ \E j \in DOMAIN Got(next) : Got(next)[j] = m
          <6>1. NoneLost /\ link = "up" /\ Live(next) /\ next \in Subscriptions
            BY <1>3, <1>7, <1>8 DEF DeliveryInv
          <6> QED BY <5>1, <5>2, <6>1, StillToCome
        <5> QED BY <1>16, <5>1, <5>3
      <4> QED BY <1>7, <1>19, <1>26, <3>1, <4>2
    <3> QED BY <1>20, <3>2, <3>3
  <2>3. ASSUME NEW s \in Subscriptions, Live(s), NEW i \in DOMAIN Got(s)',
               NEW m \in DOMAIN published, Got(s)'[i] < m, Sent(Got(s)'[i]), Sent(m),
               published[m].channel = subscription[s].channel
        PROVE  ToCome(s, m)' \/ \E j \in DOMAIN Got(s)' : Got(s)'[j] = m
    <3>1. CASE s = next
      BY <1>17, <1>19, <2>2, <2>3, <3>1
    <3>2. CASE s # next
      BY <1>17, <2>1, <2>3, <3>2
    <3> QED BY <3>1, <3>2
  <2>4. \A s \in Subscriptions : subscription'[s].channel = subscription[s].channel
    BY <1>15 DEF SameObjects
  <2>5. ASSUME NEW s \in Subscriptions, Live(s)', NEW i \in DOMAIN Got(s)',
               NEW m \in DOMAIN published', Got(s)'[i] < m,
               m \in DOMAIN published, Sent(Got(s)'[i]), Sent(m),
               published'[m].channel = subscription'[s].channel
        PROVE  ToCome(s, m)' \/ \E j \in DOMAIN Got(s)' : Got(s)'[j] = m
    BY <1>1, <1>15, <2>3, <2>4, <2>5
  <2>6. NoneLost' <=>
          (link' = "up" =>
            \A s \in Subscriptions : Live(s)' =>
              \A i \in DOMAIN Got(s)' : \A m \in DOMAIN published' :
                (/\ Got(s)'[i] < m /\ Sent(Got(s)[i])' /\ Sent(m)'
                 /\ published'[m].channel = subscription'[s].channel) =>
                  ToCome(s, m)' \/ \E j \in DOMAIN Got(s)' : Got(s)'[j] = m)
    BY DEF NoneLost
  <2>7. \A s : \A i : Sent(Got(s)[i])' => Sent(Got(s)'[i])
    BY <1>1 DEF Sent
  <2> QED BY <1>1, <1>23, <2>5, <2>6, <2>7
<1>28. Unskipped'
  <2>1. ASSUME NEW s \in Subscriptions, s # next, NEW any, any = Got(s)
        PROVE  NoneSkipped(s, any)'
    <3>1. NoneSkipped(s, any)
      BY <2>1 DEF DeliveryInv, Unskipped
    <3>2. published' = published /\ subscription'[s].channel = subscription[s].channel
      BY <1>1, <1>14, <2>1
    <3> QED BY <3>1, <3>2, SkippedAgain
  <2>2. NoneSkipped(next, got)
    BY <1>7, <1>16 DEF DeliveryInv, Unskipped
  <2>3. ASSUME NEW i \in 2 .. last + 1
        PROVE  /\ more[i - 1] < more[i]
               /\ \A n \in more[i - 1] + 1 .. more[i] - 1 :
                    ~ /\ published[n].channel = subscription[next].channel
                      /\ published[n].epoch = published[more[i]].epoch
                      /\ published[n].epoch = published[more[i - 1]].epoch
    <3>1. CASE i \in 2 .. last
      <4>1. more[i] = got[i] /\ more[i - 1] = got[i - 1] /\ i \in 2 .. Len(got)
        <5>1. i \in 1 .. last /\ i - 1 \in 1 .. last
          BY <3>1
        <5> QED BY <1>18, <1>19, <3>1, <5>1
      <4> QED BY <2>2, <4>1 DEF NoneSkipped
    <3>2. CASE i = last + 1
      <4>1. last \in 1 .. last /\ i - 1 = last
        BY <2>3, <3>2
      <4>2. PICK old : old = got[last]
        OBVIOUS
      <4>3. more[i] = payload /\ more[i - 1] = old
        BY <1>19, <3>2, <4>1, <4>2
      <4>4. /\ old \in DOMAIN published /\ old < payload
            /\ \A j \in 1 .. last : j < last => got[j] < old
        <5>1. Target(next)
          BY <1>9
        <5>2. last \in DOMAIN Got(next) /\ DOMAIN Got(next) = 1 .. last
          BY <1>16, <1>19, <4>1
        <5>3. Got(next)[last] = old
          BY <1>16, <4>2
        <5>4. /\ Got(next)[last] \in DOMAIN published /\ Got(next)[last] < delivering.payload
              /\ \A j \in DOMAIN Got(next) : j < last => Got(next)[j] < Got(next)[last]
          BY <1>1, <1>7, <5>1, <5>2 DEF DeliveryInv, Older
        <5> QED BY <1>2, <1>16, <5>2, <5>3, <5>4
      <4>5. ASSUME NEW n \in old + 1 .. payload - 1,
                   published[n].channel = subscription[next].channel,
                   published[n].epoch = published[payload].epoch,
                   published[n].epoch = published[old].epoch
            PROVE  FALSE
        <5>1. PICK count \in Nat : DOMAIN published = 1 .. count
          <6>1. Len(published) \in Nat /\ DOMAIN published = 1 .. Len(published)
            BY DEF DeliveryInv, Epochs
          <6> QED BY <6>1
        <5>2. /\ n \in DOMAIN published /\ old < n /\ n < payload /\ n # payload
              /\ ~(payload < n) /\ ~(n < old) /\ n # old
          BY <1>4, <4>4, <4>5, <5>1
        <5>3. Sent(n) /\ Sent(old)
          BY <1>3, <4>4, <4>5, <5>2 DEF Sent
        <5>4. ToCome(next, n) \/ \E j \in 1 .. last : got[j] = n
          <6>1. last \in DOMAIN Got(next) /\ Got(next)[last] = old /\ DOMAIN Got(next) = 1 .. last
            BY <1>16, <1>19, <4>1, <4>2
          <6>2. /\ Got(next)[last] < n /\ Sent(Got(next)[last]) /\ Sent(n) /\ n \in DOMAIN published
                /\ published[n].channel = subscription[next].channel
            BY <4>5, <5>2, <5>3, <6>1
          <6>3. ToCome(next, n) \/ \E j \in DOMAIN Got(next) : Got(next)[j] = n
            <7>1. NoneLost /\ link = "up" /\ Live(next) /\ next \in Subscriptions
              BY <1>3, <1>7, <1>8 DEF DeliveryInv
            <7> QED BY <6>1, <6>2, <7>1, StillToCome
          <6> QED BY <1>16, <6>1, <6>3
        <5>5. ~ToCome(next, n)
          BY <1>2, <1>3, <5>2 DEF ToCome
        <5>6. PICK j \in 1 .. last : got[j] = n
          BY <5>4, <5>5
        <5>7. j = last \/ j < last
          OBVIOUS
        <5> QED BY <4>2, <4>4, <5>2, <5>6, <5>7
      <4> QED BY <4>3, <4>4, <4>5
    <3>3. i \in 2 .. last \/ i = last + 1
      OBVIOUS
    <3> QED BY <3>1, <3>2, <3>3
  <2>4. NoneSkipped(next, more)'
    <3>1. subscription'[next].channel = subscription[next].channel
      BY <1>7, <1>15 DEF SameObjects
    <3> QED BY <1>1, <1>19, <2>3, <3>1 DEF NoneSkipped
  <2>5. ASSUME NEW s \in Subscriptions, NEW any, any = Got(s)'
        PROVE  NoneSkipped(s, any)'
    BY <1>17, <2>1, <2>4, <2>5
  <2> QED BY <2>5 DEF Unskipped
<1>29. Objects'
  <2>1. \A t \in Subscriptions :
          /\ subscription'[t].attached => subscription'[t].items = <<>>
          /\ subscription'[t].state = "live" => subscription'[t].channel \in Channels
    BY <1>13, <1>14 DEF DeliveryInv, Objects, Live
  <2>2. channelSubscriptions' \in [Channels -> Seq(Subscriptions)]
    BY <1>1 DEF DeliveryInv, Objects
  <2> QED BY <1>14, <2>1, <2>2 DEF Objects, Live
<1>30. Registered'
  BY <1>1, <1>15, RegisteredKept DEF DeliveryInv
<1>31. OnlyChannels' /\ Epochs'
  BY <1>1 DEF DeliveryInv, OnlyChannels, Epochs
<1>32. WireHolds' /\ WireOrdered'
  BY <1>1, <1>23 DEF DeliveryInv, WireHolds, WireOrdered, Sent, IsMessage, Number
<1> QED BY <1>24, <1>25, <1>27, <1>28, <1>29, <1>30, <1>31, <1>32 DEF DeliveryInv

-----------------------------------------------------------------------------
(* Objects come and go                                                       *)

LEMMA UnusedObject ==
  /\ Unused \in Object /\ Unused.state = "unused"
  /\ Unused.items = <<>> /\ Unused.seen = <<>> /\ ~Unused.attached
<1>1. PICK none \in Seq(Nat) : none = <<>>
  <2>1. <<>> \in Seq(Nat)
    OBVIOUS
  <2> QED BY <2>1
<1>2. Unused = [state |-> "unused", channel |-> "", acknowledged |-> FALSE,
                attached |-> FALSE, items |-> none, seen |-> none]
  BY <1>1 DEF Unused
<1> QED BY <1>1, <1>2 DEF Object

\* erase() of one of the objects of a channel.
LEMMA Removed ==
  ASSUME NEW S, NEW q \in Seq(S), NEW i \in DOMAIN q, NEW r, r = RemoveAt(q, i),
         \A j, k \in DOMAIN q : q[j] = q[k] => j = k
  PROVE  /\ r \in Seq(S)
         /\ \A k \in DOMAIN r : \E j \in DOMAIN q : j # i /\ r[k] = q[j]
         /\ \A j \in DOMAIN q : j # i => \E k \in DOMAIN r : r[k] = q[j]
         /\ \A j, k \in DOMAIN r : r[j] = r[k] => j = k
<1>1. PICK n \in Nat : n = Len(q) /\ DOMAIN q = 1 .. n /\ i \in 1 .. n
  OBVIOUS
<1>2. PICK a \in Seq(S), b \in Seq(S) :
        a = SubSeq(q, 1, i - 1) /\ b = SubSeq(q, i + 1, n)
  <2>1. SubSeq(q, 1, i - 1) \in Seq(S) /\ SubSeq(q, i + 1, n) \in Seq(S)
    BY <1>1, SubSeqProperties
  <2> QED BY <2>1
<1>3. r = a \o b
  BY <1>1, <1>2 DEF RemoveAt
<1>4. Len(a) = i - 1 /\ \A k \in 1 .. i - 1 : a[k] = q[k]
  <2>1. Len(a) = IF 1 <= i - 1 THEN i - 1 - 1 + 1 ELSE 0
    BY <1>1, <1>2
  <2>2. Len(a) = i - 1
    BY <1>1, <2>1
  <2>3. ASSUME NEW k \in 1 .. i - 1 PROVE a[k] = q[k]
    BY <1>1, <1>2, <2>2, <2>3
  <2> QED BY <2>2, <2>3
<1>5. Len(b) = n - i /\ \A k \in 1 .. n - i : b[k] = q[i + k]
  <2>1. Len(b) = n - i
    BY <1>1, <1>2
  <2>2. ASSUME NEW k \in 1 .. n - i PROVE b[k] = q[i + k]
    <3>1. /\ i + 1 \in Int /\ n \in Int /\ \A x \in i + 1 .. n : q[x] \in S
          /\ k \in 1 .. n - (i + 1) + 1 /\ (i + 1) + k - 1 = i + k
      BY <1>1
    <3>2. SubSeq(q, i + 1, n)[k] = q[(i + 1) + k - 1]
      BY <3>1, SubSeqProperties
    <3> QED BY <1>2, <3>1, <3>2
  <2> QED BY <2>1, <2>2
<1>6. PICK m \in Nat : m = i - 1 /\ n >= 1 /\ n - 1 \in Nat /\ Len(a) + Len(b) = n - 1
  <2>1. i - 1 \in Nat /\ n >= 1 /\ n - 1 \in Nat /\ (i - 1) + (n - i) = n - 1
    BY <1>1
  <2> QED BY <1>4, <1>5, <2>1
<1>7. /\ r \in Seq(S) /\ Len(r) = n - 1
      /\ \A k \in 1 .. n - 1 : r[k] = IF k <= m THEN a[k] ELSE b[k - m]
  <2>1. /\ Len(r) = Len(a) + Len(b) /\ r \in Seq(S)
        /\ \A k \in 1 .. Len(a) + Len(b) : r[k] = IF k <= Len(a) THEN a[k] ELSE b[k - Len(a)]
    BY <1>3, ConcatProperties
  <2> QED BY <1>4, <1>6, <2>1
<1>8. \A k \in 1 .. n - 1 : r[k] = IF k < i THEN q[k] ELSE q[k + 1]
  <2>1. SUFFICES ASSUME NEW k \in 1 .. n - 1 PROVE r[k] = IF k < i THEN q[k] ELSE q[k + 1]
    OBVIOUS
  <2>2. CASE k < i
    <3>1. k \in 1 .. i - 1 /\ k <= m
      BY <1>1, <1>6, <2>2
    <3> QED BY <1>4, <1>7, <2>2, <3>1
  <2>3. CASE ~(k < i)
    <3>1. k - m \in 1 .. n - i /\ ~(k <= m) /\ i + (k - m) = k + 1
      BY <1>1, <1>6, <2>3
    <3>2. r[k] = b[k - m]
      BY <1>7, <3>1
    <3>3. b[k - m] = q[i + (k - m)]
      BY <1>5, <3>1
    <3> QED BY <2>3, <3>1, <3>2, <3>3
  <2> QED BY <2>2, <2>3
<1>9. DOMAIN r = 1 .. n - 1
  BY <1>6, <1>7
<1>10. PICK at : at = [k \in 1 .. n - 1 |-> IF k < i THEN k ELSE k + 1]
  OBVIOUS
<1>11. /\ \A k \in 1 .. n - 1 : at[k] \in 1 .. n /\ at[k] # i
       /\ \A j, k \in 1 .. n - 1 : at[j] = at[k] => j = k
       /\ \A j \in 1 .. n : j # i => \E k \in 1 .. n - 1 : at[k] = j
  <2>1. \A k \in 1 .. n - 1 : at[k] \in 1 .. n /\ at[k] # i
    BY <1>1, <1>10
  <2>2. \A j, k \in 1 .. n - 1 : at[j] = at[k] => j = k
    BY <1>1, <1>10
  <2>3. ASSUME NEW j \in 1 .. n, j # i PROVE \E k \in 1 .. n - 1 : at[k] = j
    <3>1. CASE j < i
      <4>1. j \in 1 .. n - 1 /\ at[j] = j
        BY <1>1, <1>10, <3>1
      <4> QED BY <4>1
    <3>2. CASE ~(j < i)
      <4>1. j - 1 \in 1 .. n - 1 /\ ~(j - 1 < i) /\ (j - 1) + 1 = j
        BY <1>1, <2>3, <3>2
      <4>2. at[j - 1] = j
        BY <1>10, <4>1
      <4> QED BY <4>1, <4>2
    <3> QED BY <3>1, <3>2
  <2> QED BY <2>1, <2>2, <2>3
<1>12. \A k \in 1 .. n - 1 : r[k] = q[at[k]]
  BY <1>8, <1>10
<1> HIDE DEF RemoveAt
<1>13. \A j, k \in 1 .. n - 1 : r[j] = r[k] => j = k
  <2>1. SUFFICES ASSUME NEW j \in 1 .. n - 1, NEW k \in 1 .. n - 1, r[j] = r[k] PROVE j = k
    OBVIOUS
  <2>2. q[at[j]] = q[at[k]] /\ at[j] \in 1 .. n /\ at[k] \in 1 .. n
    BY <1>11, <1>12, <2>1
  <2>3. at[j] = at[k]
    BY <1>1, <2>2
  <2> QED BY <1>11, <2>3
<1>14. \A k \in 1 .. n - 1 : \E j \in 1 .. n : j # i /\ r[k] = q[j]
  BY <1>11, <1>12
<1>15. ASSUME NEW j \in 1 .. n, j # i PROVE \E k \in 1 .. n - 1 : r[k] = q[j]
  <2>1. PICK k \in 1 .. n - 1 : at[k] = j
    BY <1>11, <1>15
  <2> QED BY <1>12, <2>1
<1>16. DOMAIN q = 1 .. n
  BY <1>1
<1>17. \A k \in DOMAIN r : \E j \in DOMAIN q : j # i /\ r[k] = q[j]
  BY <1>9, <1>14, <1>16
<1>18. \A j \in DOMAIN q : j # i => \E k \in DOMAIN r : r[k] = q[j]
  BY <1>9, <1>15, <1>16
<1> QED BY <1>7, <1>9, <1>13, <1>17, <1>18

\* The mutex is free: users come and go while nothing is being delivered.
LEMMA QuietKeeps ==
  ASSUME DeliveryInv, MutexFree, UNCHANGED <<delivering, wire, published, link, pubEpoch>>,
         \A s \in Subscriptions : Got(s)' = Got(s),
         \A s \in Subscriptions :
           \/ Got(s) = <<>>
           \/ subscription'[s].channel = subscription[s].channel /\ (Live(s)' => Live(s))
  PROVE  Epochs' /\ WireHolds' /\ WireOrdered' /\ Delivery' /\ Older' /\ NoneLost' /\ Unskipped'
<1>1. MutexFree' /\ (\A n : OnWire(n)' <=> OnWire(n)) /\ (\A n : Sent(n)' <=> Sent(n))
  BY WireSame DEF MutexFree, NoDelivery, Sent
<1>2. Epochs'
  BY DEF DeliveryInv, Epochs
<1>3. WireHolds' /\ WireOrdered'
  BY <1>1 DEF DeliveryInv, WireHolds, WireOrdered, Sent, IsMessage, Number
<1>4. Delivery'
  BY <1>1 DEF Delivery
<1>5. \A s \in Subscriptions : Got(s) = <<>> => DOMAIN Got(s) = {} /\ Len(Got(s)) = 0
  <2>1. DOMAIN <<>> = {} /\ Len(<<>>) = 0
    OBVIOUS
  <2> QED BY <2>1
<1>6. Older'
  <2>1. SUFFICES ASSUME NEW s \in Subscriptions, NEW i \in DOMAIN Got(s)
                 PROVE  /\ Got(s)[i] \in DOMAIN published
                        /\ published[Got(s)[i]].channel = subscription'[s].channel
                        /\ \A m \in DOMAIN published : OnWire(m) => Got(s)[i] < m
                        /\ \A j \in DOMAIN Got(s) : i < j => Got(s)[i] < Got(s)[j]
    BY <1>1 DEF Older
  <2>2. subscription'[s].channel = subscription[s].channel
    BY <1>5, <2>1
  <2> QED BY <2>2 DEF DeliveryInv, Older
<1>7. NoneLost'
  <2>1. SUFFICES ASSUME link = "up", NEW s \in Subscriptions, Live(s)', NEW i \in DOMAIN Got(s),
                        NEW m \in DOMAIN published, Got(s)[i] < m, Sent(Got(s)[i]), Sent(m),
                        published[m].channel = subscription'[s].channel
                 PROVE  ToCome(s, m)' \/ \E j \in DOMAIN Got(s) : Got(s)[j] = m
    BY <1>1 DEF NoneLost, Sent
  <2>2. subscription'[s].channel = subscription[s].channel /\ Live(s)
    BY <1>5, <2>1
  <2>3. ToCome(s, m) \/ \E j \in DOMAIN Got(s) : Got(s)[j] = m
    BY <2>1, <2>2, StillToCome DEF DeliveryInv
  <2> QED BY <1>1, <2>3 DEF ToCome
<1>8. Unskipped'
  <2>1. SUFFICES ASSUME NEW s \in Subscriptions, NEW got, got = Got(s)
                 PROVE  NoneSkipped(s, got)'
    BY DEF Unskipped
  <2>2. CASE got = <<>>
    <3>1. Len(got) = 0 /\ 2 .. 0 = {}
      BY <1>5, <2>1, <2>2
    <3> QED BY <3>1 DEF NoneSkipped
  <2>3. CASE got # <<>>
    <3>1. NoneSkipped(s, got)
      BY <2>1 DEF DeliveryInv, Unskipped
    <3>2. subscription'[s].channel = subscription[s].channel
      BY <2>1, <2>3
    <3> QED BY <3>1, <3>2 DEF NoneSkipped
  <2> QED BY <2>2, <2>3
<1> QED BY <1>2, <1>3, <1>4, <1>6, <1>7, <1>8

\* Subscriber::subscribe(), the constructor of Subscription
LEMMA SubscribingDelivers ==
  ASSUME DeliveryInv, NEW s \in Subscriptions, NEW channel \in Channels,
         UserSubscribes(s, channel)
  PROVE  DeliveryInv'
<1>1. /\ subscription[s] = Unused /\ MutexFree
      /\ channelSubscriptions' =
           [channelSubscriptions EXCEPT ![channel] = Append(@, s)]
      /\ UNCHANGED <<delivering, wire, published, link, pubEpoch, serverPatterns>>
      /\ Subscribe({channel})
  BY DEF UserSubscribes
<1>2. PICK now : now = [Unused EXCEPT !.state = "live", !.channel = channel]
  OBVIOUS
<1>3. /\ now \in Object /\ now.state = "live" /\ now.channel = channel
      /\ now.items = <<>> /\ now.seen = <<>> /\ ~now.attached
  BY <1>2, UnusedObject DEF Object
<1>4. /\ subscription \in [Subscriptions -> Object]
      /\ subscription' = [subscription EXCEPT ![s] = now]
  BY <1>2 DEF UserSubscribes, DeliveryInv, Objects
<1>5. /\ subscription' \in [Subscriptions -> Object] /\ subscription'[s] = now
      /\ \A t \in Subscriptions : t # s => subscription'[t] = subscription[t]
  BY <1>3, <1>4
<1>6. ~Live(s) /\ Live(s)' /\ \A t \in Subscriptions : t # s => (Live(t)' <=> Live(t))
  BY <1>1, <1>3, <1>5, UnusedObject DEF Live
<1>7. Got(s) = <<>> /\ \A t \in Subscriptions : Got(t)' = Got(t)
  <2>1. <<>> \o <<>> = <<>>
    OBVIOUS
  <2>2. Got(s) = <<>>
    BY <1>1, <2>1, UnusedObject DEF Got
  <2>3. Got(s)' = <<>>
    <3>1. subscription'[s].seen \o subscription'[s].items = <<>>
      BY <1>3, <1>5, <2>1
    <3> QED BY <3>1 DEF Got
  <2>4. ASSUME NEW t \in Subscriptions, t # s PROVE Got(t)' = Got(t)
    BY <1>5, <2>4 DEF Got
  <2> QED BY <2>2, <2>3, <2>4
<1>8. Epochs' /\ WireHolds' /\ WireOrdered' /\ Delivery' /\ Older' /\ NoneLost' /\ Unskipped'
  <2>1. \A t \in Subscriptions :
          \/ Got(t) = <<>>
          \/ subscription'[t].channel = subscription[t].channel /\ (Live(t)' => Live(t))
    BY <1>5, <1>6, <1>7
  <2> QED BY <1>1, <1>7, <2>1, QuietKeeps
<1>9. PICK targets, more : targets = channelSubscriptions[channel] /\ more = Append(targets, s)
  OBVIOUS
<1>10. /\ targets \in Seq(Subscriptions)
       /\ \A i \in DOMAIN targets :
            Live(targets[i]) /\ subscription[targets[i]].channel = channel
       /\ \A i, j \in DOMAIN targets : targets[i] = targets[j] => i = j
  BY <1>9 DEF DeliveryInv, Objects, Registered
<1>11. PICK n \in Nat : DOMAIN targets = 1 .. n /\ n = Len(targets)
  BY <1>10
<1>12. /\ more \in Seq(Subscriptions) /\ DOMAIN more = 1 .. n + 1 /\ more[n + 1] = s
       /\ \A i \in 1 .. n : more[i] = targets[i]
  BY <1>9, <1>10, <1>11, AppendProperties
<1>13. /\ channelSubscriptions' \in [Channels -> Seq(Subscriptions)]
       /\ channelSubscriptions'[channel] = more
       /\ \A c \in Channels : c # channel => channelSubscriptions'[c] = channelSubscriptions[c]
  BY <1>1, <1>9, <1>12 DEF DeliveryInv, Objects
<1>14. Objects'
  <2>1. \A t \in Subscriptions :
          /\ subscription'[t].attached => subscription'[t].items = <<>>
          /\ subscription'[t].state = "live" => subscription'[t].channel \in Channels
    BY <1>3, <1>5 DEF DeliveryInv, Objects, Live
  <2> QED BY <1>5, <1>13, <2>1 DEF Objects, Live
<1>15. \A i \in 1 .. n + 1 : i \in 1 .. n \/ i = n + 1
  OBVIOUS
<1>16. ASSUME NEW i \in 1 .. n
       PROVE  /\ more[i] # s /\ more[i] \in Subscriptions
              /\ Live(more[i]) /\ subscription[more[i]].channel = channel
  <2>1. more[i] = targets[i] /\ i \in DOMAIN targets
    BY <1>11, <1>12
  <2>2. targets[i] \in Subscriptions
    BY <1>10, <2>1
  <2> QED BY <1>6, <1>10, <2>1, <2>2
<1>17. Registered'
  <2>1. ASSUME NEW i \in 1 .. n + 1
        PROVE  /\ subscription'[more[i]].state = "live"
               /\ subscription'[more[i]].channel = channel
    <3>1. CASE i \in 1 .. n
      BY <1>5, <1>16, <3>1 DEF Live
    <3>2. CASE i = n + 1
      BY <1>3, <1>5, <1>12, <3>2
    <3> QED BY <1>15, <3>1, <3>2
  <2>2. ASSUME NEW i \in 1 .. n + 1, NEW j \in 1 .. n + 1, more[i] = more[j] PROVE i = j
    <3>1. CASE i \in 1 .. n /\ j \in 1 .. n
      BY <1>10, <1>11, <1>12, <2>2, <3>1
    <3>2. CASE i = n + 1 \/ j = n + 1
      BY <1>12, <1>15, <1>16, <2>2, <3>2
    <3> QED BY <1>15, <3>1, <3>2
  <2>3. ASSUME NEW c \in Channels, c # channel, NEW old, old = channelSubscriptions[c]
        PROVE  /\ \A i \in DOMAIN old :
                    /\ subscription'[old[i]].state = "live"
                    /\ subscription'[old[i]].channel = c
               /\ \A i, j \in DOMAIN old : old[i] = old[j] => i = j
    <3>1. /\ \A i \in DOMAIN old :
               /\ old[i] \in Subscriptions /\ Live(old[i])
               /\ subscription[old[i]].channel = c
          /\ \A i, j \in DOMAIN old : old[i] = old[j] => i = j
      BY <2>3, TargetsTyped
    <3> QED BY <1>5, <1>6, <3>1 DEF Live
  <2>4. ASSUME NEW c \in Channels
        PROVE  /\ \A i \in DOMAIN channelSubscriptions'[c] :
                    /\ subscription'[channelSubscriptions'[c][i]].state = "live"
                    /\ subscription'[channelSubscriptions'[c][i]].channel = c
               /\ \A i, j \in DOMAIN channelSubscriptions'[c] :
                    channelSubscriptions'[c][i] = channelSubscriptions'[c][j] => i = j
    <3>1. CASE c = channel
      BY <1>12, <1>13, <2>1, <2>2, <3>1
    <3>2. CASE c # channel
      BY <1>13, <2>3, <3>2
    <3> QED BY <3>1, <3>2
  <2>5. ASSUME NEW t \in Subscriptions, subscription'[t].state = "live"
        PROVE  \E i \in DOMAIN channelSubscriptions'[subscription'[t].channel] :
                 channelSubscriptions'[subscription'[t].channel][i] = t
    <3>1. CASE t = s
      <4>1. n + 1 \in 1 .. n + 1
        OBVIOUS
      <4> QED BY <1>3, <1>5, <1>12, <1>13, <3>1, <4>1
    <3>2. CASE t # s
      <4>1. Live(t) /\ subscription'[t] = subscription[t] /\ subscription[t].channel \in Channels
        BY <1>5, <2>5, <3>2 DEF Live, DeliveryInv, Objects
      <4>2. PICK i \in DOMAIN channelSubscriptions[subscription[t].channel] :
              channelSubscriptions[subscription[t].channel][i] = t
        BY <4>1 DEF DeliveryInv, Registered
      <4>3. CASE subscription[t].channel = channel
        <5>1. i \in 1 .. n + 1 /\ more[i] = t
          BY <1>9, <1>11, <1>12, <4>2, <4>3
        <5> QED BY <1>12, <1>13, <4>1, <4>3, <5>1
      <4>4. CASE subscription[t].channel # channel
        BY <1>13, <4>1, <4>2, <4>4
      <4> QED BY <4>3, <4>4
    <3> QED BY <3>1, <3>2
  <2>6. (\A c \in Channels :
          LET some == channelSubscriptions[c]
          IN /\ \A i \in DOMAIN some : Live(some[i]) /\ subscription[some[i]].channel = c
             /\ \A i, j \in DOMAIN some : some[i] = some[j] => i = j)'
    BY <2>4 DEF Live
  <2>7. (\A t \in Subscriptions : Live(t) =>
          \E i \in DOMAIN channelSubscriptions[subscription[t].channel] :
            channelSubscriptions[subscription[t].channel][i] = t)'
    BY <2>5 DEF Live
  <2> QED BY <2>6, <2>7 DEF Registered
<1>18. OnlyChannels'
  <2>1. /\ channels' = channels \cup {channel} /\ patterns' = patterns
        /\ IF {channel} \subseteq channels THEN requests' = requests
           ELSE Send("subscribe", {channel} \ channels)
    BY <1>1 DEF Subscribe
  <2>2. /\ patterns' = {} /\ serverPatterns' = {} /\ channels' \subseteq Channels
    BY <1>1, <2>1 DEF DeliveryInv, OnlyChannels
  <2>3. /\ IsSequence(requests)
        /\ \A i \in DOMAIN requests :
             requests[i].kind = "subscribe" /\ requests[i].names \subseteq Channels
    BY DEF DeliveryInv, OnlyChannels
  <2>4. CASE {channel} \subseteq channels
    BY <2>1, <2>2, <2>3, <2>4 DEF OnlyChannels
  <2>5. CASE ~({channel} \subseteq channels)
    <3>1. PICK request : request = [kind |-> "subscribe", names |-> {channel} \ channels]
      OBVIOUS
    <3>2. /\ requests' = Append(requests, request) /\ request.kind = "subscribe"
          /\ request.names \subseteq Channels
      BY <2>1, <2>5, <3>1 DEF Send
    <3>3. PICK len \in Nat : len = Len(requests) /\ DOMAIN requests = 1 .. len
      BY <2>3, SequenceDomain
    <3>4. /\ IsSequence(requests') /\ DOMAIN requests' = 1 .. len + 1
          /\ requests'[len + 1] = request
          /\ \A i \in 1 .. len : requests'[i] = requests[i]
      BY <2>3, <3>2, <3>3, Appended
    <3>5. \A i \in 1 .. len + 1 : i \in 1 .. len \/ i = len + 1
      OBVIOUS
    <3>6. \A i \in DOMAIN requests' :
            requests'[i].kind = "subscribe" /\ requests'[i].names \subseteq Channels
      <4>1. SUFFICES ASSUME NEW i \in DOMAIN requests'
            PROVE  requests'[i].kind = "subscribe" /\ requests'[i].names \subseteq Channels
        OBVIOUS
      <4>2. CASE i \in 1 .. len
        <5>1. requests'[i] = requests[i] /\ i \in DOMAIN requests
          BY <3>3, <3>4, <4>2
        <5> QED BY <2>3, <5>1
      <4>3. CASE i = len + 1
        BY <3>2, <3>4, <4>3
      <4> QED BY <3>4, <3>5, <4>2, <4>3
    <3> QED BY <2>2, <3>4, <3>6 DEF OnlyChannels
  <2> QED BY <2>4, <2>5
<1> QED BY <1>8, <1>14, <1>17, <1>18 DEF DeliveryInv

\* ~Subscription()
LEMMA DestroyDelivers ==
  ASSUME DeliveryInv, NEW s \in Subscriptions, Destroy(s)
  PROVE  DeliveryInv'
<1>1. /\ Live(s) /\ MutexFree /\ Unregister(s)
      /\ UNCHANGED <<delivering, wire, published, link, pubEpoch, channels, patterns,
                     requests, serverPatterns>>
  BY DEF Destroy, subscriberVars, baseVars, linkVars
<1>2. PICK now : now = [subscription[s] EXCEPT !.state = "destroyed"]
  OBVIOUS
<1>3. /\ subscription \in [Subscriptions -> Object] /\ subscription[s] \in Object
      /\ subscription[s].attached => subscription[s].items = <<>>
  BY DEF DeliveryInv, Objects
<1>4. /\ now \in Object /\ now.state = "destroyed" /\ now.channel = subscription[s].channel
      /\ now.attached = subscription[s].attached
      /\ now.items = subscription[s].items /\ now.seen = subscription[s].seen
  BY <1>2, <1>3 DEF Object
<1>5. subscription' = [subscription EXCEPT ![s] = now]
  BY <1>2 DEF Destroy
<1>6. /\ subscription' \in [Subscriptions -> Object] /\ subscription'[s] = now
      /\ \A t \in Subscriptions : t # s => subscription'[t] = subscription[t]
  BY <1>3, <1>4, <1>5
<1>7. /\ ~Live(s)' /\ \A t \in Subscriptions : t # s => (Live(t)' <=> Live(t))
      /\ \A t \in Subscriptions : subscription'[t].channel = subscription[t].channel
      /\ \A t \in Subscriptions : Live(t)' => Live(t)
  BY <1>1, <1>4, <1>6 DEF Live
<1>8. \A t \in Subscriptions : Got(t)' = Got(t)
  <2>1. SUFFICES ASSUME NEW t \in Subscriptions
                 PROVE  subscription'[t].seen \o subscription'[t].items
                          = subscription[t].seen \o subscription[t].items
    BY DEF Got
  <2> QED BY <1>4, <1>6
<1>9. Epochs' /\ WireHolds' /\ WireOrdered' /\ Delivery' /\ Older' /\ NoneLost' /\ Unskipped'
  BY <1>1, <1>7, <1>8, QuietKeeps
<1>10. PICK channel \in Channels : channel = subscription[s].channel
  <2>1. subscription[s].channel \in Channels
    BY <1>1 DEF DeliveryInv, Objects
  <2> QED BY <2>1
<1>11. PICK targets : targets = channelSubscriptions[channel]
  OBVIOUS
<1>12. PICK at \in DOMAIN targets :
         /\ targets[at] = s
         /\ channelSubscriptions' =
              [channelSubscriptions EXCEPT ![channel] = RemoveAt(@, at)]
  BY <1>1, <1>10, <1>11 DEF Unregister
<1>13. PICK rest : rest = RemoveAt(targets, at)
  OBVIOUS
<1>14. /\ targets \in Seq(Subscriptions)
       /\ \A i \in DOMAIN targets :
            Live(targets[i]) /\ subscription[targets[i]].channel = channel
       /\ \A i, j \in DOMAIN targets : targets[i] = targets[j] => i = j
  BY <1>11, TargetsTyped
<1>15. /\ rest \in Seq(Subscriptions)
       /\ \A k \in DOMAIN rest : \E j \in DOMAIN targets : j # at /\ rest[k] = targets[j]
       /\ \A j \in DOMAIN targets : j # at => \E k \in DOMAIN rest : rest[k] = targets[j]
       /\ \A j, k \in DOMAIN rest : rest[j] = rest[k] => j = k
  BY <1>13, <1>14, Removed
<1>16. /\ channelSubscriptions' \in [Channels -> Seq(Subscriptions)]
       /\ channelSubscriptions'[channel] = rest
       /\ \A c \in Channels : c # channel => channelSubscriptions'[c] = channelSubscriptions[c]
  BY <1>11, <1>12, <1>13, <1>15 DEF DeliveryInv, Objects
<1>17. Objects'
  <2>1. \A t \in Subscriptions :
          /\ subscription'[t].attached => subscription'[t].items = <<>>
          /\ subscription'[t].state = "live" => subscription'[t].channel \in Channels
    BY <1>3, <1>4, <1>6 DEF DeliveryInv, Objects, Live
  <2> QED BY <1>6, <1>16, <2>1 DEF Objects, Live
<1>18. ASSUME NEW k \in DOMAIN rest
       PROVE  /\ subscription'[rest[k]].state = "live"
              /\ subscription'[rest[k]].channel = channel
  <2>1. PICK j \in DOMAIN targets : j # at /\ rest[k] = targets[j]
    BY <1>15
  <2>2. /\ targets[j] \in Subscriptions /\ targets[j] # s
        /\ Live(targets[j]) /\ subscription[targets[j]].channel = channel
    BY <1>12, <1>14, <2>1
  <2> QED BY <1>6, <2>1, <2>2 DEF Live
<1>19. Registered'
  <2>1. ASSUME NEW c \in Channels, c # channel, NEW old, old = channelSubscriptions[c]
        PROVE  /\ \A i \in DOMAIN old :
                    /\ subscription'[old[i]].state = "live"
                    /\ subscription'[old[i]].channel = c
               /\ \A i, j \in DOMAIN old : old[i] = old[j] => i = j
    <3>1. /\ \A i \in DOMAIN old :
               /\ old[i] \in Subscriptions /\ Live(old[i])
               /\ subscription[old[i]].channel = c
          /\ \A i, j \in DOMAIN old : old[i] = old[j] => i = j
      BY <2>1, TargetsTyped
    <3>2. \A i \in DOMAIN old : old[i] # s
      BY <1>10, <2>1, <3>1
    <3> QED BY <1>6, <3>1, <3>2 DEF Live
  <2>2. ASSUME NEW c \in Channels
        PROVE  /\ \A i \in DOMAIN channelSubscriptions'[c] :
                    /\ subscription'[channelSubscriptions'[c][i]].state = "live"
                    /\ subscription'[channelSubscriptions'[c][i]].channel = c
               /\ \A i, j \in DOMAIN channelSubscriptions'[c] :
                    channelSubscriptions'[c][i] = channelSubscriptions'[c][j] => i = j
    <3>1. CASE c = channel
      BY <1>15, <1>16, <1>18, <3>1
    <3>2. CASE c # channel
      BY <1>16, <2>1, <3>2
    <3> QED BY <3>1, <3>2
  <2>3. ASSUME NEW t \in Subscriptions, subscription'[t].state = "live"
        PROVE  \E i \in DOMAIN channelSubscriptions'[subscription'[t].channel] :
                 channelSubscriptions'[subscription'[t].channel][i] = t
    <3>1. /\ t # s /\ Live(t) /\ subscription'[t] = subscription[t]
          /\ subscription[t].channel \in Channels
      BY <1>4, <1>6, <2>3 DEF Live, DeliveryInv, Objects
    <3>2. PICK i \in DOMAIN channelSubscriptions[subscription[t].channel] :
            channelSubscriptions[subscription[t].channel][i] = t
      BY <3>1 DEF DeliveryInv, Registered
    <3>3. CASE subscription[t].channel = channel
      <4>1. i \in DOMAIN targets /\ targets[i] = t /\ i # at
        BY <1>11, <1>12, <3>1, <3>2, <3>3
      <4>2. PICK k \in DOMAIN rest : rest[k] = t
        BY <1>15, <4>1
      <4> QED BY <1>16, <3>1, <3>3, <4>2
    <3>4. CASE subscription[t].channel # channel
      BY <1>16, <3>1, <3>2, <3>4
    <3> QED BY <3>3, <3>4
  <2>4. (\A c \in Channels :
          LET some == channelSubscriptions[c]
          IN /\ \A i \in DOMAIN some : Live(some[i]) /\ subscription[some[i]].channel = c
             /\ \A i, j \in DOMAIN some : some[i] = some[j] => i = j)'
    BY <2>2 DEF Live
  <2>5. (\A t \in Subscriptions : Live(t) =>
          \E i \in DOMAIN channelSubscriptions[subscription[t].channel] :
            channelSubscriptions[subscription[t].channel][i] = t)'
    BY <2>3 DEF Live
  <2> QED BY <2>4, <2>5 DEF Registered
<1>20. OnlyChannels'
  BY <1>1 DEF DeliveryInv, OnlyChannels
<1> QED BY <1>9, <1>17, <1>19, <1>20 DEF DeliveryInv

-----------------------------------------------------------------------------
(* The theorems about Subscriber                                             *)

LEMMA InitDelivers == SubscriberInit => DeliveryInv
<1> SUFFICES ASSUME SubscriberInit PROVE DeliveryInv
  OBVIOUS
<1>1. /\ channels = {} /\ patterns = {} /\ requests = <<>> /\ wire = <<>>
      /\ serverPatterns = {} /\ published = <<>> /\ link = "up" /\ pubEpoch = 1
      /\ subscription = [s \in Subscriptions |-> Unused]
      /\ channelSubscriptions = [channel \in Channels |-> <<>>]
      /\ MutexFree
  BY DEF SubscriberInit, BaseInit, MutexFree
<1>2. DOMAIN <<>> = {} /\ Len(<<>>) = 0 /\ <<>> \o <<>> = <<>> /\ 2 .. 0 = {}
  OBVIOUS
<1>3. \A s \in Subscriptions : ~Live(s) /\ Got(s) = <<>>
  BY <1>1, <1>2, UnusedObject DEF Live, Got
<1>4. Objects
  <2>1. \A channel \in Channels : <<>> \in Seq(Subscriptions)
    OBVIOUS
  <2>2. channelSubscriptions \in [Channels -> Seq(Subscriptions)]
    BY <1>1, <2>1
  <2> QED BY <1>1, <1>3, <2>2, UnusedObject DEF Objects
<1>5. Registered
  BY <1>1, <1>2, <1>3 DEF Registered
<1>6. OnlyChannels
  BY <1>1, <1>2, EmptyIsSequence DEF OnlyChannels
<1>7. Epochs
  <2>1. PICK P : P = [channel : Channels, epoch : Nat]
    OBVIOUS
  <2>2. published \in Seq(P)
    BY <1>1
  <2> QED BY <1>1, <1>2, <2>1, <2>2 DEF Epochs
<1>8. WireHolds /\ WireOrdered
  BY <1>1, <1>2, EmptyIsSequence DEF WireHolds, WireOrdered, OnWire
<1>9. Delivery
  BY <1>1 DEF Delivery
<1>10. Older /\ NoneLost
  <2>1. \A s \in Subscriptions : DOMAIN Got(s) = {}
    BY <1>2, <1>3
  <2> QED BY <2>1 DEF Older, NoneLost
<1>11. Unskipped
  BY <1>2, <1>3 DEF Unskipped, NoneSkipped
<1> QED BY <1>4, <1>5, <1>6, <1>7, <1>8, <1>9, <1>10, <1>11 DEF DeliveryInv

LEMMA DeliveryStutters ==
  ASSUME DeliveryInv, UNCHANGED subscribersVars PROVE DeliveryInv'
<1>1. /\ UNCHANGED <<channels, patterns, requests, serverPatterns, wire, published, link,
                     pubEpoch>>
      /\ UNCHANGED <<subscription, channelSubscriptions, delivering>>
      /\ UNCHANGED objectVars
  BY DEF subscribersVars, subscriberVars, baseVars, linkVars, objectVars
<1>2. /\ Objects' /\ Registered' /\ SameObjects
      /\ \A s \in Subscriptions : Got(s)' = Got(s)
  BY <1>1, ObjectsSame
<1>3. OnlyChannels' /\ Epochs'
  BY <1>1 DEF DeliveryInv, OnlyChannels, Epochs
<1>4. (\A n : OnWire(n)' <=> OnWire(n)) /\ (\A n : Sent(n)' <=> Sent(n))
  BY <1>1, WireSame DEF Sent
<1>5. WireHolds' /\ WireOrdered'
  BY <1>1, <1>4 DEF DeliveryInv, WireHolds, WireOrdered, Sent, IsMessage, Number
<1>6. Delivery' /\ Older' /\ NoneLost' /\ Unskipped'
  BY <1>1, <1>2, <1>3, <1>4, AroundKeeps
<1> QED BY <1>2, <1>3, <1>5, <1>6 DEF DeliveryInv

LEMMA DeliveryStepsKeep == DeliveryInv /\ [SubscriberNext]_subscribersVars => DeliveryInv'
<1> SUFFICES ASSUME DeliveryInv, [SubscriberNext]_subscribersVars PROVE DeliveryInv'
  OBVIOUS
<1>1. CASE UNCHANGED subscribersVars
  BY <1>1, DeliveryStutters
<1>2. CASE PubSubServer /\ UNCHANGED objectVars
  BY <1>2, ServerSubscribesDelivers, PublishDelivers DEF PubSubServer
<1>3. CASE MutexFree /\ (LinkLost \/ LinkEstablished) /\ UNCHANGED objectVars
  BY <1>3, LinkLostDelivers, LinkEstablishedDelivers
<1>4. ASSUME NEW s \in Subscriptions, UserAttaches(s) \/ UserDetaches(s) \/ UserPops(s)
      PROVE  DeliveryInv'
  BY <1>4, UserKeeps
<1>5. ASSUME NEW s \in Subscriptions, Destroy(s) PROVE DeliveryInv'
  BY <1>5, DestroyDelivers
<1>6. ASSUME NEW s \in Subscriptions, NEW channel \in Channels, UserSubscribes(s, channel)
      PROVE  DeliveryInv'
  BY <1>6, SubscribingDelivers
<1>7. CASE Receives
  BY <1>7, ReceivesDelivers
<1>8. CASE DeliversToNext
  BY <1>8, NextDelivers
<1> QED BY <1>1, <1>2, <1>3, <1>4, <1>5, <1>6, <1>7, <1>8 DEF SubscriberNext

LEMMA DeliveryHolds == SubscriberSpec => []DeliveryInv
BY InitDelivers, DeliveryStepsKeep, PTL DEF SubscriberSpec

LEMMA UnskippedSuffices == DeliveryInv => NoMessageSkipped
<1> SUFFICES ASSUME DeliveryInv PROVE NoMessageSkipped
  OBVIOUS
<1>1. \A s \in Subscriptions : NoneSkipped(s, subscription[s].seen \o subscription[s].items)
  BY DEF DeliveryInv, Unskipped, Got
<1>2. ASSUME link = "up", NEW s \in Subscriptions, Live(s),
             NEW i \in DOMAIN Got(s), NEW n \in Got(s)[i] + 1 .. Len(published),
             published[Got(s)[i]].epoch = pubEpoch, published[n].epoch = pubEpoch,
             published[n].channel = subscription[s].channel
      PROVE  ToArrive(s, n) \/ \E j \in DOMAIN Got(s) : Got(s)[j] = n
  <2>1. Got(s)[i] \in DOMAIN published
    BY DEF DeliveryInv, Older
  <2>2. n \in DOMAIN published /\ Got(s)[i] < n
    BY <2>1 DEF DeliveryInv, Epochs
  <2>3. ToCome(s, n) \/ \E j \in DOMAIN Got(s) : Got(s)[j] = n
    BY <1>2, <2>1, <2>2 DEF DeliveryInv, NoneLost, Sent
  <2>4. ToCome(s, n) => ToArrive(s, n)
    BY DEF ToCome, ToArrive, OnWire, IsMessage, Number, Target
  <2> QED BY <2>3, <2>4
<1> QED BY <1>1, <1>2 DEF NoMessageSkipped, NoneSkipped, Got

LEMMA RegisteredSuffices == DeliveryInv => DeliversToLiveOnly
<1> SUFFICES ASSUME DeliveryInv PROVE DeliversToLiveOnly
  OBVIOUS
<1>1. \A channel \in Channels : \A i \in DOMAIN channelSubscriptions[channel] :
        Live(channelSubscriptions[channel][i])
  BY DEF DeliveryInv, Registered
<1>2. CASE MutexFree
  <2>1. delivering.targets = <<>> /\ DOMAIN <<>> = {}
    BY <1>2 DEF MutexFree, NoDelivery
  <2> QED BY <1>1, <2>1 DEF DeliversToLiveOnly
<1>3. CASE ~MutexFree
  BY <1>1, <1>3 DEF DeliveryInv, Delivery, DeliversToLiveOnly
<1> QED BY <1>2, <1>3

\* A Subscription gets the messages of its channel in the order of publication, once
\* each and without one missing as long as the connection lasts, however its user
\* mixes the queue and the callbacks (processIncomingMessage(), AttachableQueue).
THEOREM MessagesInOrder == SubscriberSpec => []NoMessageSkipped
BY DeliveryHolds, UnskippedSuffices, PTL

\* processIncomingMessage() holds the mutex while it goes through the objects of a
\* channel: it never reaches one whose destructor has run.
THEOREM DeliveredToLiveOnly == SubscriberSpec => []DeliversToLiveOnly
BY DeliveryHolds, RegisteredSuffices, PTL

\* The subscriptions of a Subscriber, whose calls are only those of its objects.
LEMMA SubscriberStepsKeep == SubscribedInv /\ [SubscriberNext]_subscribersVars => SubscribedInv'
<1> SUFFICES ASSUME SubscribedInv, [SubscriberNext]_subscribersVars PROVE SubscribedInv'
  OBVIOUS
<1>1. CASE UNCHANGED subscribersVars
  BY <1>1, OthersKeep DEF subscribersVars, subscriberVars, baseVars, linkVars
<1>2. CASE ServerSubscribes
  BY <1>2, ServerKeeps
<1>3. ASSUME NEW channel \in Channels, PublishOn(channel) PROVE SubscribedInv'
  BY <1>3, OthersKeep DEF PublishOn, baseVars
<1>4. CASE LinkLost \/ LinkEstablished
  BY <1>4, LostKeeps, EstablishedKeeps
<1>5. ASSUME NEW s \in Subscriptions,
             UserAttaches(s) \/ UserDetaches(s) \/ UserPops(s) \/ Destroy(s)
      PROVE  SubscribedInv'
  BY <1>5, OthersKeep
     DEF UserAttaches, UserDetaches, UserPops, Destroy, subscriberVars, baseVars, linkVars
<1>6. ASSUME NEW s \in Subscriptions, NEW channel \in Channels, UserSubscribes(s, channel)
      PROVE  SubscribedInv'
  BY <1>6, CallsKeep DEF UserSubscribes
<1>7. CASE Receives \/ DeliversToNext
  BY <1>7, OthersKeep DEF Receives, DeliversToNext, subscriberVars, baseVars, linkVars
<1> QED BY <1>1, <1>2, <1>3, <1>4, <1>5, <1>6, <1>7 DEF SubscriberNext, PubSubServer

\* The same of a Subscriber: every object's channel is subscribed to at the server
\* once everything staged is executed.
THEOREM SubscriberSubscribedAtRest == SubscriberSpec => []SubscribedAtRest
<1>1. SubscriberInit => SubscribedInv
  BY InitSubscribed DEF SubscriberInit
<1>2. SubscriberSpec => []SubscribedInv
  BY <1>1, SubscriberStepsKeep, PTL DEF SubscriberSpec
<1> QED BY <1>2, RestSubscribed, PTL

-----------------------------------------------------------------------------
(* Subscriptions to a shared hash                                            *)

\* While mMutex is held the objects left to feed are registered; registered
\* objects have not been destroyed.
FeedInv ==
  /\ DOMAIN watcher = Watchers
  /\ watcher = [w \in Watchers |-> watcher[w]]
  /\ \A w \in Watchers : DOMAIN watcher[w] = {"state", "attached", "items", "seen"}
  /\ mSubscriptions \subseteq Watchers
  /\ \A w \in mSubscriptions : Watching(w)
  /\ feeding = [updates |-> feeding.updates, targets |-> feeding.targets]
  /\ IsSequence(feeding.targets)
  /\ \A i \in DOMAIN feeding.targets : feeding.targets[i] \in mSubscriptions

LEMMA InitFed == SharedHashInit => FeedInv
<1> SUFFICES ASSUME SharedHashInit PROVE FeedInv
  OBVIOUS
<1>1. /\ watcher = [w \in Watchers |->
            [state |-> "unused", attached |-> FALSE, items |-> <<>>, seen |-> <<>>]]
      /\ mSubscriptions = {} /\ feeding = NotFed
  BY DEF SharedHashInit
<1>2. feeding.targets = <<>> /\ DOMAIN <<>> = {}
  BY <1>1 DEF NotFed
<1>3. feeding = [updates |-> feeding.updates, targets |-> feeding.targets]
  BY <1>1 DEF NotFed
<1>4. \A w \in Watchers : DOMAIN watcher[w] = {"state", "attached", "items", "seen"}
  BY <1>1
<1> QED BY <1>1, <1>2, <1>3, <1>4, EmptyIsSequence DEF FeedInv

\* What users and the feeding itself do to an object, as far as it matters here.
LEMMA WatcherKept ==
  ASSUME FeedInv, NEW w \in Watchers, NEW now,
         now.state = watcher[w].state \/ now.state = "detached" \/ now.state = "registered",
         DOMAIN now = {"state", "attached", "items", "seen"},
         watcher' = [watcher EXCEPT ![w] = now],
         UNCHANGED <<mSubscriptions, feeding>>
  PROVE  FeedInv'
<1>1. /\ DOMAIN watcher' = Watchers /\ watcher'[w] = now
      /\ watcher' = [v \in Watchers |-> watcher'[v]]
      /\ \A v \in Watchers : v # w => watcher'[v] = watcher[v]
  BY DEF FeedInv
<1>2. \A v \in mSubscriptions : Watching(v)'
  <2>1. ASSUME NEW v \in mSubscriptions PROVE Watching(v)'
    <3>1. v \in Watchers /\ Watching(v)
      BY DEF FeedInv
    <3> QED BY <1>1, <3>1 DEF Watching
  <2> QED BY <2>1
<1>3. \A v \in Watchers : DOMAIN watcher'[v] = {"state", "attached", "items", "seen"}
  BY <1>1 DEF FeedInv
<1> QED BY <1>1, <1>2, <1>3 DEF FeedInv

LEMMA QueueOnly ==
  ASSUME NEW object, NEW item, NEW now,
         DOMAIN object = {"state", "attached", "items", "seen"},
         \/ now = Attach(object) \/ now = Detach(object)
         \/ now = PopFront(object) \/ now = Emplace(object, item)
  PROVE  now.state = object.state /\ DOMAIN now = {"state", "attached", "items", "seen"}
<1>1. CASE now = Attach(object)
  BY <1>1 DEF Attach
<1>2. CASE now = Detach(object)
  BY <1>2 DEF Detach
<1>3. CASE now = PopFront(object)
  BY <1>3 DEF PopFront
<1>4. CASE now = Emplace(object, item)
  <2>1. CASE object.attached
    BY <1>4, <2>1 DEF Emplace
  <2>2. CASE ~object.attached
    BY <1>4, <2>2 DEF Emplace
  <2> QED BY <2>1, <2>2
<1> QED BY <1>1, <1>2, <1>3, <1>4

\* The set of objects, and the objects left, change.
LEMMA FeedAgain ==
  ASSUME FeedInv, UNCHANGED <<watcher, mSubscriptions>>,
         NEW updates, NEW targets, feeding' = [updates |-> updates, targets |-> targets],
         IsSequence(targets), \A i \in DOMAIN targets : targets[i] \in mSubscriptions
  PROVE  FeedInv'
<1>1. feeding'.updates = updates /\ feeding'.targets = targets
  OBVIOUS
<1>2. \A w \in mSubscriptions : Watching(w)'
  BY DEF FeedInv, Watching
<1> QED BY <1>1, <1>2 DEF FeedInv

LEMMA WatchersKeep ==
  ASSUME FeedInv, NEW w \in Watchers, WatcherDetaches(w) \/ WatcherAttaches(w) \/ WatcherPops(w)
  PROVE  FeedInv'
<1>1. DOMAIN watcher[w] = {"state", "attached", "items", "seen"} /\ DOMAIN watcher = Watchers
  BY DEF FeedInv
<1>2. CASE WatcherDetaches(w)
  <2>1. PICK now : now = [watcher[w] EXCEPT !.state = "detached"]
    OBVIOUS
  <2>2. now.state = "detached" /\ DOMAIN now = {"state", "attached", "items", "seen"}
    BY <1>1, <2>1
  <2>3. watcher' = [watcher EXCEPT ![w] = now] /\ UNCHANGED <<mSubscriptions, feeding>>
    BY <1>2, <2>1 DEF WatcherDetaches
  <2> QED BY <2>2, <2>3, WatcherKept
<1>3. CASE WatcherAttaches(w) \/ WatcherPops(w)
  <2>1. PICK now :
          /\ \/ now = Attach(watcher[w]) \/ now = Detach(watcher[w])
             \/ now = PopFront(watcher[w])
          /\ watcher' = [watcher EXCEPT ![w] = now]
          /\ UNCHANGED <<mSubscriptions, feeding>>
    BY <1>3 DEF WatcherAttaches, WatcherPops
  <2>2. now.state = watcher[w].state /\ DOMAIN now = {"state", "attached", "items", "seen"}
    BY <1>1, <2>1, QueueOnly
  <2> QED BY <2>1, <2>2, WatcherKept
<1> QED BY <1>2, <1>3

LEMMA WatcherComes ==
  ASSUME FeedInv, NEW w \in Watchers, WatcherRegisters(w)
  PROVE  FeedInv'
<1>1. /\ feeding' = feeding /\ mSubscriptions' = mSubscriptions \cup {w}
      /\ watcher' = [watcher EXCEPT ![w].state = "registered"]
  BY DEF WatcherRegisters
<1>2. DOMAIN watcher[w] = {"state", "attached", "items", "seen"} /\ DOMAIN watcher = Watchers
  BY DEF FeedInv
<1>3. PICK now : now = [watcher[w] EXCEPT !.state = "registered"]
  OBVIOUS
<1>4. now.state = "registered" /\ DOMAIN now = {"state", "attached", "items", "seen"}
  BY <1>2, <1>3
<1>5. /\ DOMAIN watcher' = Watchers /\ watcher'[w] = now
      /\ watcher' = [v \in Watchers |-> watcher'[v]]
      /\ \A v \in Watchers : v # w => watcher'[v] = watcher[v]
  BY <1>1, <1>3 DEF FeedInv
<1>6. ASSUME NEW v \in mSubscriptions' PROVE v \in Watchers /\ Watching(v)'
  <2>1. CASE v = w
    BY <1>4, <1>5, <2>1 DEF Watching
  <2>2. CASE v # w
    <3>1. v \in mSubscriptions /\ v \in Watchers /\ Watching(v)
      BY <1>1, <1>6, <2>2 DEF FeedInv
    <3> QED BY <1>5, <2>2, <3>1 DEF Watching
  <2> QED BY <2>1, <2>2
<1>7. \A v \in Watchers : DOMAIN watcher'[v] = {"state", "attached", "items", "seen"}
  BY <1>4, <1>5 DEF FeedInv
<1>8. \A i \in DOMAIN feeding.targets : feeding.targets[i] \in mSubscriptions'
  BY <1>1 DEF FeedInv
<1> QED BY <1>1, <1>5, <1>6, <1>7, <1>8 DEF FeedInv

LEMMA WatcherGoes ==
  ASSUME FeedInv, NEW w \in Watchers, WatcherDestroyed(w)
  PROVE  FeedInv'
<1>1. feeding' = feeding /\ feeding.targets = <<>> /\ DOMAIN <<>> = {}
  BY DEF WatcherDestroyed, FeedFree
<1>2. CASE watcher[w].state = "detached"
  BY <1>2 DEF WatcherDestroyed, FeedInv, Watching
<1>3. CASE watcher[w].state # "detached"
  <2>1. /\ mSubscriptions' = mSubscriptions \ {w}
        /\ watcher' = [watcher EXCEPT ![w].state = "destroyed"]
    BY <1>3 DEF WatcherDestroyed
  <2>2. PICK now : now = [watcher[w] EXCEPT !.state = "destroyed"]
    OBVIOUS
  <2>3. DOMAIN watcher[w] = {"state", "attached", "items", "seen"} /\ DOMAIN watcher = Watchers
    BY DEF FeedInv
  <2>4. DOMAIN now = {"state", "attached", "items", "seen"}
    BY <2>2, <2>3
  <2>5. /\ DOMAIN watcher' = Watchers /\ watcher'[w] = now
        /\ watcher' = [v \in Watchers |-> watcher'[v]]
        /\ \A v \in Watchers : v # w => watcher'[v] = watcher[v]
    BY <2>1, <2>2 DEF FeedInv
  <2>6. ASSUME NEW v \in mSubscriptions' PROVE v \in Watchers /\ Watching(v)'
    <3>1. v # w /\ v \in Watchers /\ Watching(v)
      BY <2>1, <2>6 DEF FeedInv
    <3> QED BY <2>5, <3>1 DEF Watching
  <2>7. \A v \in Watchers : DOMAIN watcher'[v] = {"state", "attached", "items", "seen"}
    BY <2>4, <2>5 DEF FeedInv
  <2>8. \A i \in DOMAIN feeding'.targets : feeding'.targets[i] \in mSubscriptions'
    BY <1>1
  <2> QED BY <1>1, <2>5, <2>6, <2>7, <2>8 DEF FeedInv
<1> QED BY <1>2, <1>3

LEMMA FeedingKeeps ==
  ASSUME FeedInv, FeedLocks \/ FeedNext PROVE FeedInv'
<1>1. PICK updates, targets : updates = feeding.updates /\ targets = feeding.targets
  OBVIOUS
<1>2. /\ feeding = [updates |-> updates, targets |-> targets]
      /\ IsSequence(targets) /\ \A i \in DOMAIN targets : targets[i] \in mSubscriptions
  BY <1>1 DEF FeedInv
<1>3. CASE FeedLocks
  <2>1. UNCHANGED <<watcher, mSubscriptions>>
    BY <1>3 DEF FeedLocks
  <2>2. CASE mSubscriptions = {}
    <3>1. PICK left : left = Tail(updates)
      OBVIOUS
    <3>2. feeding' = [feeding EXCEPT !.updates = left]
      BY <1>1, <1>3, <2>2, <3>1 DEF FeedLocks
    <3>3. feeding' = [updates |-> left, targets |-> targets]
      BY <1>2, <3>2
    <3> QED BY <1>2, <2>1, <3>3, FeedAgain
  <2>3. CASE mSubscriptions # {}
    <3>1. PICK listed : listed = SetToSeq(mSubscriptions)
      OBVIOUS
    <3>2. feeding' = [feeding EXCEPT !.targets = listed]
      BY <1>3, <2>3, <3>1 DEF FeedLocks
    <3>3. feeding' = [updates |-> updates, targets |-> listed]
      BY <1>2, <3>2
    <3>4. IsFiniteSet(mSubscriptions)
      BY WatchersAssumption, FS_Subset DEF FeedInv
    <3>5. IsSequence(listed) /\ \A i \in DOMAIN listed : listed[i] \in mSubscriptions
      BY <3>1, <3>4, Listed
    <3> QED BY <2>1, <3>3, <3>5, FeedAgain
  <2> QED BY <2>2, <2>3
<1>4. CASE FeedNext
  <2>1. PICK w, rest, left :
          /\ w = Head(targets) /\ rest = Tail(targets)
          /\ left = IF Len(targets) = 1 THEN Tail(updates) ELSE updates
    OBVIOUS
  <2>2. PICK now : now = Emplace(watcher[w], Head(updates))
    OBVIOUS
  <2>3. /\ watcher' = [watcher EXCEPT ![w] = now]
        /\ feeding' = [updates |-> left, targets |-> rest]
        /\ mSubscriptions' = mSubscriptions /\ targets # <<>>
    BY <1>1, <1>4, <2>1, <2>2 DEF FeedNext, FeedFree
  <2>4. PICK n \in Nat \ {0} :
          /\ DOMAIN targets = 1 .. n /\ DOMAIN rest = 1 .. n - 1 /\ IsSequence(rest)
          /\ w = targets[1] /\ \A i \in 1 .. n - 1 : rest[i] = targets[i + 1]
    <3>1. PICK n : n = Len(targets)
      OBVIOUS
    <3> QED BY <1>2, <2>1, <2>3, <3>1, Rest
  <2>5. 1 \in 1 .. n /\ \A i \in 1 .. n - 1 : i + 1 \in 1 .. n
    OBVIOUS
  <2>6. w \in mSubscriptions /\ w \in Watchers
    BY <1>2, <2>4, <2>5 DEF FeedInv
  <2>7. \A i \in DOMAIN rest : rest[i] \in mSubscriptions
    <3>1. ASSUME NEW i \in 1 .. n - 1 PROVE rest[i] \in mSubscriptions
      <4>1. rest[i] = targets[i + 1] /\ i + 1 \in DOMAIN targets
        BY <2>4, <2>5
      <4> QED BY <1>2, <4>1
    <3> QED BY <2>4, <3>1
  <2>8. now.state = watcher[w].state /\ DOMAIN now = {"state", "attached", "items", "seen"}
    <3>1. DOMAIN watcher[w] = {"state", "attached", "items", "seen"}
      BY <2>6 DEF FeedInv
    <3> QED BY <2>2, <3>1, QueueOnly
  <2>9. /\ DOMAIN watcher' = Watchers /\ watcher'[w] = now
        /\ watcher' = [v \in Watchers |-> watcher'[v]]
        /\ \A v \in Watchers : v # w => watcher'[v] = watcher[v]
    BY <2>3, <2>6 DEF FeedInv
  <2>10. ASSUME NEW v \in mSubscriptions PROVE Watching(v)'
    <3>1. v \in Watchers /\ Watching(v)
      BY <2>10 DEF FeedInv
    <3> QED BY <2>8, <2>9, <3>1 DEF Watching
  <2>11. \A v \in Watchers : DOMAIN watcher'[v] = {"state", "attached", "items", "seen"}
    BY <2>8, <2>9 DEF FeedInv
  <2>12. /\ feeding' = [updates |-> feeding'.updates, targets |-> feeding'.targets]
         /\ feeding'.targets = rest
    BY <2>3
  <2>13. mSubscriptions' \subseteq Watchers
    BY <2>3 DEF FeedInv
  <2> QED BY <2>3, <2>4, <2>7, <2>9, <2>10, <2>11, <2>12, <2>13 DEF FeedInv
<1> QED BY <1>3, <1>4

\* processIncoming(): the updates of a batch are queued for feeding.
LEMMA ReceivesKeeps ==
  ASSUME FeedInv, NEW c \in Clients, TransientReceives(c) PROVE FeedInv'
<1>1. UNCHANGED <<watcher, mSubscriptions>>
  BY DEF TransientReceives
<1>2. CASE c # Observed
  <2>1. feeding' = feeding
    BY <1>2 DEF TransientReceives
  <2> QED BY <1>1, <2>1 DEF FeedInv, Watching
<1>3. CASE c = Observed
  <2>1. PICK updates : feeding' = [NotFed EXCEPT !.updates = updates]
    BY <1>3 DEF TransientReceives
  <2>2. PICK none : none = <<>>
    OBVIOUS
  <2>3. feeding' = [updates |-> updates, targets |-> none]
    BY <2>1, <2>2 DEF NotFed
  <2>4. IsSequence(none) /\ DOMAIN none = {}
    BY <2>2, EmptyIsSequence
  <2> QED BY <1>1, <2>3, <2>4, FeedAgain
<1> QED BY <1>2, <1>3

LEMMA FeedUntouched ==
  ASSUME FeedInv, UNCHANGED <<watcher, mSubscriptions, feeding>> PROVE FeedInv'
BY DEF FeedInv, Watching

LEMMA FeedStepsKeep == FeedInv /\ [SharedHashNext]_sharedHashVars => FeedInv'
<1> SUFFICES ASSUME FeedInv, [SharedHashNext]_sharedHashVars PROVE FeedInv'
  OBVIOUS
<1>1. CASE UNCHANGED sharedHashVars
  BY <1>1, FeedUntouched DEF sharedHashVars, watchVars
<1>2. ASSUME NEW c \in Clients,
             SetLocal(c) \/ SetTransient(c) \/ Broadcast(c) \/ ClientReconnects(c)
      PROVE  FeedInv'
  BY <1>2, FeedUntouched DEF SetLocal, SetTransient, Broadcast, ClientReconnects, watchVars
<1>3. ASSUME NEW c \in Clients, TransientReceives(c) PROVE FeedInv'
  BY <1>3, ReceivesKeeps
<1>4. CASE FeedLocks \/ FeedNext
  BY <1>4, FeedingKeeps
<1>5. ASSUME NEW w \in Watchers, WatcherDetaches(w) \/ WatcherAttaches(w) \/ WatcherPops(w)
      PROVE  FeedInv'
  BY <1>5, WatchersKeep
<1>6. ASSUME NEW w \in Watchers, WatcherRegisters(w) PROVE FeedInv'
  BY <1>6, WatcherComes
<1>7. ASSUME NEW w \in Watchers, WatcherDestroyed(w) PROVE FeedInv'
  BY <1>7, WatcherGoes
<1> QED BY <1>1, <1>2, <1>3, <1>4, <1>5, <1>6, <1>7 DEF SharedHashNext

LEMMA FeedSuffices == FeedInv => FedToLiveOnly
BY DEF FeedInv, FedToLiveOnly

\* feedUpdate() holds mMutex while it goes through the subscriptions of a hash: it
\* never reaches one that has been destroyed.
THEOREM UpdatesFedToLiveOnly == SharedHashSpec => []FedToLiveOnly
<1>1. SharedHashSpec => []FeedInv
  BY InitFed, FeedStepsKeep, PTL DEF SharedHashSpec
<1> QED BY <1>1, FeedSuffices, PTL
=============================================================================
