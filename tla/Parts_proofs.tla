---------------------------- MODULE Parts_proofs ----------------------------
(***************************************************************************)
(* Five parts that work alone, each with its inductive invariant.           *)
(*   - EndpointDecider makes a full circle only after asking for every        *)
(*     member and trying every address it looked up, but for those that a      *)
(*     redirection drops: for clusters of any size, names with any number of   *)
(*     addresses, and redirections at any moment; connectTCP() makes streams   *)
(*     of connected sockets only.                                             *)
(*   - A scan of any number of places, in batches of any size, while others   *)
(*     change what is there, shows everything that was there all the time.    *)
(*   - A chain of any number of handshakes admits a connection only after     *)
(*     every exchange of that connection was answered properly.               *)
(*   - A stream, plain or through the TLS filter, keeps what it is given in    *)
(*     order, for requests and records of any lengths and any buffers.        *)
(*   - Calls of QHash and QSet, waiting or left to an AsyncHandler, return     *)
(*     what they would if each took effect when it was made.                  *)
(***************************************************************************)
EXTENDS Connecting, Scanners, Handshakes, Tls, Structures, SequenceTheorems,
        FiniteSetTheorems, WellFoundedInduction, TLAPS

-----------------------------------------------------------------------------
(* Connecting: the inductive invariant                                       *)

All == 0 .. Members - 1

\* Since the first turn of the loop, either every member was asked for, or those
\* before the next one were and it has not come round yet.
MembersInOrder ==
  /\ nextMember \in All
  /\ askedFor = All \/ askedFor = 0 .. nextMember - 1

Begun == askedFor = All \/ nextMember >= 1

\* Whatever has addresses to try, is connecting, or follows a redirection comes
\* after a first member; a circle comes after all of them.
CircleIsFull ==
  /\ fullCircle => askedFor = All
  /\ resolvedEndpoints # <<>> \/ redirection # NoEndpoint \/ loopPhase \in {"block", "epoch"}
       => Begun

\* In turn k of the loop, k members were asked for since it began; only its first
\* turn may take a redirection.
LoopCounts ==
  /\ attempt = NoLoop \/ attempt \in Nat
  /\ attempt # NoLoop => loopPhase = "connect"
  /\ attempt # NoLoop /\ redirection # NoEndpoint => attempt = 0
  /\ attempt # NoLoop => askedFor = All \/ attempt <= nextMember

ConnectorFields == {"fd", "finished", "localerrno", "target", "kernel"}

\* What the connector knows of its socket is true.
ConnectorKnows ==
  /\ DOMAIN connector = ConnectorFields
  /\ connector = [f \in ConnectorFields |-> connector[f]]
  /\ connector.finished /\ ConnectorOk(connector) => connector.kernel = "established"
  /\ loopPhase = "epoch" =>
       connector.kernel = "established" /\ streamTo = connector.target

\* An address that waits is among those left to hand out, and none waits once the
\* circle is full; the loop over members begins when none is left.
WaitingAreLeft ==
  /\ \E S : resolvedEndpoints \in Seq(S)
  /\ \A a \in DOMAIN fate :
       fate[a] = "waiting" => ~fullCircle /\ a \in ToSet(resolvedEndpoints)
  /\ attempt # NoLoop => resolvedEndpoints = <<>>

ConnectingInv ==
  MembersInOrder /\ CircleIsFull /\ LoopCounts /\ ConnectorKnows /\ WaitingAreLeft

-----------------------------------------------------------------------------
LEMMA InitConnectingInv == ConnectingInit => ConnectingInv
BY ConnectingAssumption
DEF ConnectingInit, ConnectingInv, MembersInOrder, CircleIsFull, LoopCounts, Begun,
    ConnectorKnows, ConnectorFields, ConnectorOk, NoConnector, All, NoLoop, NoEndpoint,
    WaitingAreLeft

\* Handing out the first address leaves the others waiting; only the last one may
\* make the circle full.
LEMMA HandOutKeeps ==
  ASSUME NEW addresses, NEW S, addresses \in Seq(S), addresses # <<>>,
         \A a \in DOMAIN fate :
           fate[a] = "waiting" => ~fullCircle /\ a \in ToSet(addresses),
         HandedOut(addresses), resolvedEndpoints' = Tail(addresses), attempt' = NoLoop,
         fullCircle' => fullCircle \/ Len(addresses) = 1
  PROVE  WaitingAreLeft'
<1>1. Tail(addresses) \in Seq(S)
  OBVIOUS
<1>2. CASE fullCircle
  BY <1>1, <1>2 DEF HandedOut, WaitingAreLeft
<1>3. CASE ~fullCircle
  <2>1. fate' = [Waiting(addresses) EXCEPT ![Head(addresses)] = "tried"]
    BY <1>3 DEF HandedOut
  <2>2. ASSUME NEW a \in DOMAIN fate', fate'[a] = "waiting"
        PROVE  ~fullCircle' /\ a \in ToSet(Tail(addresses))
    <3>1. a \in DOMAIN Waiting(addresses) /\ a # Head(addresses)
          /\ Waiting(addresses)[a] = "waiting"
      BY <2>1, <2>2 DEF Waiting
    <3>2. a \in ToSet(addresses)
      BY <3>1 DEF Waiting
    <3>3. PICK i \in 1 .. Len(addresses) : addresses[i] = a
      BY <3>2 DEF ToSet
    <3>4. i # 1
      BY <3>1, <3>3
    <3>5. i - 1 \in 1 .. Len(Tail(addresses)) /\ Tail(addresses)[i - 1] = a
      BY <3>3, <3>4
    <3>6. Len(addresses) # 1
      BY <3>3, <3>4
    <3>7. a \in ToSet(Tail(addresses))
      <4>1. DOMAIN Tail(addresses) = 1 .. Len(Tail(addresses))
        BY <1>1
      <4> QED BY <3>5, <4>1, Zenon DEF ToSet
    <3> QED BY <1>3, <3>6, <3>7
  <2> QED BY <1>1, <2>2 DEF WaitingAreLeft
<1> QED BY <1>2, <1>3

\* A connector just made knows no more than the kernel told it.
LEMMA ConstructKnows ==
  ASSUME NEW target, Construct(target), loopPhase' = "block"
  PROVE  ConnectorKnows'
<1>1. PICK k \in {"none", "established", "connecting"} :
        connector' = [fd |-> k # "none", finished |-> k = "established",
                      localerrno |-> k = "none", target |-> target, kernel |-> k]
  BY DEF Construct
<1>2. /\ DOMAIN connector' = ConnectorFields
      /\ connector'.finished = (k = "established") /\ connector'.kernel = k
  BY <1>1 DEF ConnectorFields
<1>3. connector' = [f \in ConnectorFields |-> connector'[f]]
  BY <1>1 DEF ConnectorFields
<1> QED BY <1>2, <1>3 DEF ConnectorKnows

\* Asking for the next member keeps the members in order.
LEMMA AskNext ==
  ASSUME MembersInOrder, redirection = NoEndpoint,
         nextMember' = GetNext.nextMember, askedFor' = GetNext.asked
  PROVE  /\ MembersInOrder' /\ Begun'
         /\ askedFor = All => askedFor' = All
         /\ nextMember' = 0 => askedFor' = All
         /\ askedFor' = All \/ nextMember' = nextMember + 1
<1>1. /\ Members \in Nat /\ Members >= 1 /\ nextMember \in Int
      /\ 0 <= nextMember /\ nextMember < Members
  BY ConnectingAssumption DEF MembersInOrder, All
<1>2. /\ nextMember' = (nextMember + 1) % Members
      /\ askedFor' = askedFor \cup {nextMember}
  BY DEF GetNext
<1>3. askedFor = All => askedFor' = All
  BY <1>1, <1>2 DEF All
<1>4. CASE nextMember + 1 = Members
  <2>1. nextMember' = 0
    BY <1>1, <1>2, <1>4
  <2>2. askedFor' = All
    BY <1>1, <1>2, <1>3, <1>4 DEF MembersInOrder, All
  <2> QED BY <1>1, <2>1, <2>2 DEF MembersInOrder, Begun, All
<1>5. CASE nextMember + 1 # Members
  <2>1. nextMember' = nextMember + 1
    BY <1>1, <1>2, <1>5
  <2>2. askedFor' = All \/ askedFor' = 0 .. nextMember
    BY <1>1, <1>2, <1>3 DEF MembersInOrder
  <2>3. nextMember' \in All /\ nextMember' >= 1 /\ nextMember' # 0
    BY <1>1, <1>5, <2>1 DEF All
  <2>4. nextMember' - 1 = nextMember
    BY <1>1, <2>1
  <2> QED BY <1>3, <2>1, <2>2, <2>3, <2>4 DEF MembersInOrder, Begun, All
<1> QED BY <1>4, <1>5

LEMMA TryMemberKeeps == ASSUME ConnectingInv, TryMember PROVE ConnectingInv'
<1> USE DEF ConnectingInv
<1>1. /\ attempt \in Nat /\ attempt # NoLoop /\ loopPhase = "connect"
      /\ nextMember' = GetNext.nextMember /\ askedFor' = GetNext.asked
      /\ redirection' = NoEndpoint
  BY DEF TryMember, LoopCounts
<1>2. PICK addresses \in Resolve(GetNext.endpoint) :
        /\ fullCircle' = (fullCircle \/ (Len(addresses) = 1 /\ nextMember' = 0))
        /\ IF addresses # <<>> THEN Fetch(addresses)
           ELSE /\ attempt' = attempt + 1
                /\ UNCHANGED <<resolvedEndpoints, fate, connector, loopPhase>>
  BY DEF TryMember
<1>3. UNCHANGED streamTo
  BY DEF TryMember
<1>4. /\ MembersInOrder' /\ Begun'
      /\ askedFor = All => askedFor' = All
      /\ nextMember' = 0 => askedFor' = All
      /\ askedFor' = All \/ attempt + 1 <= nextMember'
  <2>1. CASE redirection = NoEndpoint
    <3>1. nextMember \in Int
      BY ConnectingAssumption DEF MembersInOrder, All
    <3> QED BY <1>1, <2>1, <3>1, AskNext DEF LoopCounts
  <2>2. CASE redirection # NoEndpoint
    <3>1. nextMember' = nextMember /\ askedFor' = askedFor
      BY <1>1, <2>2 DEF GetNext
    <3>2. attempt = 0 /\ Begun /\ nextMember \in Nat
      BY <1>1, <2>2, ConnectingAssumption DEF LoopCounts, CircleIsFull, MembersInOrder, All
    <3> QED BY <3>1, <3>2 DEF MembersInOrder, Begun, All
  <2> QED BY <2>1, <2>2
<1>5. CASE addresses # <<>>
  <2>1. attempt' = NoLoop /\ loopPhase' = "block" /\ Construct(Head(addresses))
    BY <1>2, <1>5 DEF Fetch
  <2>2. ConnectorKnows'
    BY <2>1, ConstructKnows
  <2>3. CircleIsFull'
    BY <1>2, <1>4 DEF CircleIsFull
  <2>4. WaitingAreLeft'
    <3>1. PICK n \in AddressCounts :
            addresses = [i \in 1 .. n |-> <<Translate(GetNext.endpoint), i>>]
      BY DEF Resolve
    <3>2. n \in Nat
      BY ConnectingAssumption
    <3>3. addresses \in Seq({addresses[i] : i \in 1 .. n})
      BY <3>1, <3>2
    <3>4. \A a \in DOMAIN fate :
            fate[a] = "waiting" => ~fullCircle /\ a \in ToSet(addresses)
      BY <1>1 DEF WaitingAreLeft, ToSet
    <3> QED BY <1>2, <1>5, <3>3, <3>4, HandOutKeeps DEF Fetch
  <2> QED BY <1>4, <2>1, <2>2, <2>3, <2>4 DEF LoopCounts
<1>6. CASE addresses = <<>>
  <2>1. attempt' = attempt + 1
        /\ UNCHANGED <<resolvedEndpoints, fate, connector, loopPhase>>
    BY <1>2, <1>6
  <2>2. ConnectorKnows'
    BY <1>1, <1>3, <2>1 DEF ConnectorKnows, ConnectorOk
  <2>3. CircleIsFull'
    BY <1>2, <1>4 DEF CircleIsFull
  <2>4. LoopCounts'
    BY <1>1, <1>4, <2>1 DEF LoopCounts
  <2>5. WaitingAreLeft'
    <3>1. resolvedEndpoints = <<>> /\ resolvedEndpoints' = <<>> /\ fate' = fate
      BY <1>1, <2>1 DEF WaitingAreLeft
    <3>2. \A a \in DOMAIN fate : fate[a] # "waiting"
      BY <3>1 DEF WaitingAreLeft, ToSet
    <3> QED BY <3>1, <3>2 DEF WaitingAreLeft
  <2> QED BY <1>4, <2>2, <2>3, <2>4, <2>5
<1> QED BY <1>5, <1>6

\* The loop ends without an address only after a whole circle.
LEMMA NoMemberResolvesKeeps ==
  ASSUME ConnectingInv, NoMemberResolves PROVE ConnectingInv'
<1> USE DEF ConnectingInv
<1>1. /\ Members \in Nat /\ Members >= 1
      /\ attempt \in Nat /\ nextMember < Members /\ nextMember \in Nat
  BY ConnectingAssumption DEF NoMemberResolves, LoopCounts, MembersInOrder, All
<1>2. redirection = NoEndpoint
  BY <1>1 DEF NoMemberResolves, LoopCounts
<1>3. attempt >= Members
  BY <1>1, <1>2 DEF NoMemberResolves
<1>4. askedFor = All
  BY <1>1, <1>3 DEF NoMemberResolves, LoopCounts
<1>5. /\ fullCircle' = TRUE /\ attempt' = NoLoop
      /\ UNCHANGED <<nextMember, redirection, resolvedEndpoints, askedFor, fate,
                     intercepts, connector, loopPhase, shutdown, streamTo>>
  BY DEF NoMemberResolves
<1>6. WaitingAreLeft'
  <2>1. resolvedEndpoints = <<>> /\ resolvedEndpoints' = <<>> /\ fate' = fate
    BY <1>1, <1>5 DEF WaitingAreLeft, NoMemberResolves
  <2>2. \A a \in DOMAIN fate : fate[a] # "waiting"
    BY <2>1 DEF WaitingAreLeft, ToSet
  <2> QED BY <2>1, <2>2 DEF WaitingAreLeft
<1> QED BY <1>4, <1>5, <1>6
        DEF MembersInOrder, CircleIsFull, LoopCounts, ConnectorKnows, ConnectorOk, Begun, All

LEMMA GetNextEndpointKeeps ==
  ASSUME ConnectingInv, GetNextEndpoint PROVE ConnectingInv'
<1> USE DEF ConnectingInv
<1>1. /\ fullCircle' = (fullCircle \/ (Len(resolvedEndpoints) = 1 /\ nextMember = 0))
      /\ UNCHANGED <<nextMember, redirection, askedFor, streamTo>>
      /\ loopPhase = "connect"
  BY DEF GetNextEndpoint
<1>2. MembersInOrder' /\ nextMember \in Nat
  BY <1>1, ConnectingAssumption DEF MembersInOrder, All
<1>3. fullCircle' => askedFor' = All
  <2>1. Len(<<>>) = 0
    OBVIOUS
  <2>2. 0 # 1
    OBVIOUS
  <2>3. Len(resolvedEndpoints) = 1 => resolvedEndpoints # <<>>
    BY <2>1, <2>2, Zenon
  <2>4. nextMember = 0 => ~(nextMember >= 1)
    OBVIOUS
  <2> QED BY <1>1, <2>3, <2>4, Zenon DEF CircleIsFull, Begun
<1>4. CASE resolvedEndpoints # <<>>
  <2>1. /\ attempt' = NoLoop /\ loopPhase' = "block"
        /\ Construct(Head(resolvedEndpoints))
    BY <1>4 DEF GetNextEndpoint, Fetch
  <2>2. Begun'
    BY <1>1, <1>4 DEF CircleIsFull, Begun, All
  <2>3. WaitingAreLeft'
    BY <1>1, <1>4, HandOutKeeps DEF GetNextEndpoint, Fetch, WaitingAreLeft
  <2> QED BY <1>2, <1>3, <2>1, <2>2, <2>3, ConstructKnows
          DEF CircleIsFull, LoopCounts, All
<1>5. CASE resolvedEndpoints = <<>>
  <2>1. attempt' = 0 /\ UNCHANGED <<resolvedEndpoints, fate, connector, loopPhase>>
    BY <1>5 DEF GetNextEndpoint
  <2>2. ConnectorKnows'
    BY <1>1, <2>1 DEF ConnectorKnows, ConnectorOk
  <2>3. CircleIsFull'
    BY <1>1, <1>3, <2>1 DEF CircleIsFull, Begun, All
  <2>4. LoopCounts'
    BY <1>1, <1>2, <2>1 DEF LoopCounts
  <2>5. WaitingAreLeft'
    <3>1. \A a \in DOMAIN fate : fate[a] # "waiting"
      BY <1>5 DEF WaitingAreLeft, ToSet
    <3> QED BY <1>5, <2>1, <3>1 DEF WaitingAreLeft
  <2> QED BY <1>2, <2>2, <2>3, <2>4, <2>5
<1> QED BY <1>4, <1>5

-----------------------------------------------------------------------------
(* The connector and the connection                                          *)

\* A stream is made of a connector that knows it is connected.
LEMMA StreamOfConnected ==
  ASSUME NEW c, AfterBlock(c), c.finished \/ c.localerrno \/ ~c.fd,
         c.finished /\ ConnectorOk(c) => c.kernel = "established"
  PROVE  /\ loopPhase' \in {"connect", "epoch"}
         /\ loopPhase' = "epoch" => c.kernel = "established" /\ streamTo' = c.target
BY DEF AfterBlock, ConnectorOk

LEMMA BlockKeeps ==
  ASSUME ConnectingInv, ReadyAlready \/ SocketReady PROVE ConnectingInv'
<1> USE DEF ConnectingInv
<1>1. UNCHANGED deciderVars /\ loopPhase = "block"
  BY DEF ReadyAlready, SocketReady
<1>2. /\ AfterBlock(connector')
      /\ connector'.finished \/ connector'.localerrno \/ ~connector'.fd
      /\ connector'.finished /\ ConnectorOk(connector')
           => connector'.kernel = "established"
      /\ DOMAIN connector' = ConnectorFields
      /\ connector' = [f \in ConnectorFields |-> connector'[f]]
  <2>1. CASE ReadyAlready
    BY <2>1 DEF ReadyAlready, KnownReady, ConnectorKnows
  <2>2. CASE SocketReady
    <3>1. connector' = [connector EXCEPT !.finished = TRUE,
                                         !.localerrno = connector.kernel = "refused"]
      BY <2>2 DEF SocketReady
    <3>2. DOMAIN connector' = ConnectorFields
      BY <3>1 DEF ConnectorKnows
    <3>3. /\ connector'.finished = TRUE
          /\ connector'.localerrno = (connector.kernel = "refused")
          /\ connector'.kernel = connector.kernel
      BY <3>1 DEF ConnectorKnows, ConnectorFields
    <3>4. connector' = [f \in ConnectorFields |-> connector'[f]]
      BY <3>1, <3>2, Zenon DEF ConnectorKnows
    <3>5. connector.kernel \in {"established", "refused"} /\ AfterBlock(connector')
      BY <2>2 DEF SocketReady
    <3>6. ConnectorOk(connector') => connector'.kernel = "established"
      BY <3>3, <3>5, Zenon DEF ConnectorOk
    <3>7. connector'.finished \/ connector'.localerrno \/ ~connector'.fd
      BY <3>3
    <3>8. connector'.finished /\ ConnectorOk(connector')
            => connector'.kernel = "established"
      BY <3>6
    <3> QED BY <3>2, <3>4, <3>5, <3>7, <3>8
  <2> QED BY <2>1, <2>2
<1>3. /\ loopPhase' \in {"connect", "epoch"}
      /\ loopPhase' = "epoch" =>
           connector'.kernel = "established" /\ streamTo' = connector'.target
  BY <1>2, StreamOfConnected
<1>4. ConnectorKnows'
  BY <1>2, <1>3 DEF ConnectorKnows, ConnectorOk
<1> QED BY <1>1, <1>3, <1>4 DEF MembersInOrder, CircleIsFull, LoopCounts, Begun, All,
                                WaitingAreLeft, deciderVars

LEMMA KernelAnswersKeeps ==
  ASSUME ConnectingInv, KernelAnswers PROVE ConnectingInv'
<1> USE DEF ConnectingInv
<1>1. PICK k \in {"established", "refused"} :
        connector' = [connector EXCEPT !.kernel = k]
  BY DEF KernelAnswers
<1>2. /\ connector.kernel = "connecting"
      /\ UNCHANGED <<nextMember, fullCircle, redirection, resolvedEndpoints, attempt,
                     askedFor, fate, loopPhase, streamTo>>
  BY DEF KernelAnswers, deciderVars
<1>3. /\ DOMAIN connector' = ConnectorFields
      /\ \A f \in ConnectorFields \ {"kernel"} : connector'[f] = connector[f]
  BY <1>1 DEF ConnectorKnows, ConnectorFields
<1>4. connector' = [f \in ConnectorFields |-> connector'[f]]
  BY <1>1, <1>3 DEF ConnectorKnows
<1>5. /\ connector'.finished = connector.finished
      /\ connector'.fd = connector.fd
      /\ connector'.localerrno = connector.localerrno
  BY <1>3 DEF ConnectorFields
<1>6. ConnectorKnows'
  BY <1>2, <1>3, <1>4, <1>5 DEF ConnectorKnows, ConnectorOk
<1> QED BY <1>2, <1>6 DEF MembersInOrder, CircleIsFull, LoopCounts, Begun, All,
                          WaitingAreLeft

\* Steps that leave members and attempts alone, and start from no connector.
LEMMA LeavingKeeps ==
  ASSUME ConnectingInv, StopBlocking \/ Redirected \/ ConnectionEnds
  PROVE  ConnectingInv'
<1> USE DEF ConnectingInv
<1>1. /\ connector' = NoConnector
      /\ loopPhase' \in {"connect", "stopped"} /\ loopPhase \in {"block", "epoch"}
      /\ UNCHANGED <<nextMember, fullCircle, attempt, askedFor>>
  BY DEF StopBlocking, Redirected, ConnectionEnds, deciderVars
<1>2. attempt = NoLoop /\ Begun
  BY <1>1 DEF LoopCounts, CircleIsFull
<1>3. ConnectorKnows'
  BY <1>1 DEF ConnectorKnows, ConnectorFields, ConnectorOk, NoConnector
<1>4. WaitingAreLeft'
  <2>1. CASE Redirected
    <3>1. resolvedEndpoints' = <<>> /\ resolvedEndpoints' \in Seq({})
      BY <2>1 DEF Redirected
    <3>2. ASSUME NEW a \in DOMAIN fate' PROVE fate'[a] # "waiting"
      BY <2>1 DEF Redirected, Dropped, WaitingAreLeft
    <3> QED BY <3>1, <3>2 DEF WaitingAreLeft
  <2>2. CASE StopBlocking \/ ConnectionEnds
    BY <2>2 DEF StopBlocking, ConnectionEnds, deciderVars, WaitingAreLeft
  <2> QED BY <2>1, <2>2
<1> QED BY <1>1, <1>2, <1>3, <1>4
        DEF MembersInOrder, CircleIsFull, LoopCounts, Begun, All

-----------------------------------------------------------------------------
LEMMA NextConnectingInv ==
  ConnectingInv /\ [ConnectingNext]_connectingVars => ConnectingInv'
<1> SUFFICES ASSUME ConnectingInv, [ConnectingNext]_connectingVars
             PROVE  ConnectingInv'
  OBVIOUS
<1>1. CASE AddIntercept \/ ClearIntercepts \/ AskForShutdown \/ UNCHANGED connectingVars
  <2>1. UNCHANGED <<nextMember, fullCircle, redirection, resolvedEndpoints, attempt,
                    askedFor, fate, connector, loopPhase, streamTo>>
    BY <1>1 DEF AddIntercept, ClearIntercepts, AskForShutdown, connectingVars, deciderVars
  <2> QED BY <2>1 DEF ConnectingInv, MembersInOrder, CircleIsFull, LoopCounts, Begun, All,
                      ConnectorKnows, ConnectorOk, WaitingAreLeft
<1> QED BY <1>1, TryMemberKeeps, NoMemberResolvesKeeps, GetNextEndpointKeeps, BlockKeeps,
           KernelAnswersKeeps, LeavingKeeps
        DEF ConnectingNext

\* EndpointDecider (getNextEndpoint(), fetchServiceEndpoint(),
\* registerRedirection()) calls a circle full only when every member was asked for
\* and every address looked up was tried, or dropped by a redirection; and
\* connectTCP() makes a stream only of a socket the kernel connected, to the
\* address handed out: for any number of members and of addresses.
THEOREM ConnectingInTurn == ConnectingSpec => []ConnectsInTurn
<1>1. ConnectingInv => ConnectsInTurn
  BY DEF ConnectingInv, CircleIsFull, ConnectorKnows, WaitingAreLeft, ConnectsInTurn, All
<1> QED BY <1>1, InitConnectingInv, NextConnectingInv, PTL DEF ConnectingSpec

-----------------------------------------------------------------------------
(* Scanners: the inductive invariant                                         *)

\* Places up to here have been asked for.
Bound(i) == IF i.reachedEnd THEN Places ELSE i.cursor
ToShow(i) == i.it + 1 .. Len(i.results)
Iterators == [cursor : 0 .. Places, reachedEnd : BOOLEAN, results : Seq(ever),
              it : Nat, mError : BOOLEAN, usable : BOOLEAN]

ScannerTypes ==
  /\ iterator \in Iterators
  /\ iterator.it <= Len(iterator.results)
  /\ kind # "QSet" => iterator.it = 0
  /\ filling \in BOOLEAN /\ (filling => NeedsMore(iterator))
  /\ visited \in Seq(ever)
  /\ \A e \in ever : e[1] \in 1 .. Places
  /\ always \subseteq Elements /\ Elements \subseteq ever

\* Elements are shown in the order of their places.
ShownInOrder(i, v) ==
  /\ \A p, q \in DOMAIN v : p < q => v[p][1] < v[q][1]
  /\ \A p \in DOMAIN v : v[p][1] <= Bound(i)
  /\ \A p \in DOMAIN v, q \in ToShow(i) : v[p][1] < i.results[q][1]
  /\ \A p, q \in ToShow(i) : p < q => i.results[p][1] < i.results[q][1]
  /\ \A q \in ToShow(i) : i.results[q][1] <= Bound(i)

\* What was there all the time, at a place asked for, was shown or is in the batch.
NoneMissing(i, v) ==
  ~i.mError => \A e \in always :
    e[1] <= Bound(i) => \/ e \in ToSet(v)
                        \/ \E q \in ToShow(i) : i.results[q] = e

ScanInv == /\ ScannerTypes
           /\ ShownInOrder(iterator, visited)
           /\ NoneMissing(iterator, visited)

-----------------------------------------------------------------------------
(* The elements of a set of numbers, counted from the least                  *)

Within(T, a, b) == T \subseteq a .. b
Rank(T, p) == Cardinality({q \in T : q <= p})

LEMMA Ranks ==
  ASSUME NEW a \in Int, NEW b \in Int, NEW T, Within(T, a, b)
  PROVE  /\ Cardinality(T) \in Nat
         /\ \A p \in T : Rank(T, p) \in 1 .. Cardinality(T)
         /\ \A p, q \in T : p < q => Rank(T, p) < Rank(T, q)
         /\ \A n \in 1 .. Cardinality(T) : \E p \in T : Rank(T, p) = n
<1>1. IsFiniteSet(T) /\ T \subseteq Int
  <2>1. IsFiniteSet(a .. b)
    BY FS_Interval
  <2>2. IsFiniteSet(T)
    BY <2>1, FS_Subset DEF Within
  <2>3. T \subseteq Int
    BY DEF Within
  <2> QED BY <2>2, <2>3
<1>2. Cardinality(T) \in Nat
  BY <1>1, FS_CardinalityType
<1> DEFINE Below(p) == {q \in T : q <= p}
<1>3. \A p \in T : /\ Below(p) \in SUBSET T /\ IsFiniteSet(Below(p))
                   /\ Rank(T, p) = Cardinality(Below(p))
                   /\ Rank(T, p) \in Nat /\ Rank(T, p) <= Cardinality(T)
  BY <1>1, FS_Subset, FS_CardinalityType DEF Rank
<1>4. \A p \in T : Rank(T, p) \in 1 .. Cardinality(T)
  <2> SUFFICES ASSUME NEW p \in T PROVE Rank(T, p) \in 1 .. Cardinality(T)
    OBVIOUS
  <2>1. p \in Below(p)
    BY <1>1
  <2>2. Rank(T, p) # 0
    BY <1>3, <2>1, FS_EmptySet
  <2>3. Rank(T, p) \in Nat /\ Rank(T, p) <= Cardinality(T)
    BY <1>3
  <2> HIDE DEF Below
  <2> QED BY <1>2, <2>2, <2>3
<1>5. ASSUME NEW p \in T, NEW q \in T, p < q PROVE Rank(T, p) < Rank(T, q)
  <2>1. Below(p) \in SUBSET Below(q)
    <3> SUFFICES ASSUME NEW r \in T, r <= p PROVE r <= q
      OBVIOUS
    <3>1. r \in Int /\ p \in Int /\ q \in Int
      BY <1>1
    <3> QED BY <1>5, <3>1
  <2>2. q \in Below(q) /\ q \notin Below(p)
    BY <1>1, <1>5
  <2>3. /\ Cardinality(Below(p)) <= Cardinality(Below(q))
        /\ Cardinality(Below(p)) # Cardinality(Below(q))
    BY <1>3, <2>1, <2>2, FS_Subset
  <2> QED BY <1>3, <2>3
<1>6. ASSUME NEW n \in 1 .. Cardinality(T) PROVE \E p \in T : Rank(T, p) = n
  <2> DEFINE f == [p \in T |-> Rank(T, p)]
             N == 1 .. Cardinality(T)
  <2>1. f \in [T -> N]
    BY <1>4
  <2>2. \A p, q \in T : f[p] = f[q] => p = q
    <3> SUFFICES ASSUME NEW p \in T, NEW q \in T, f[p] = f[q], p # q PROVE FALSE
      OBVIOUS
    <3>1. Rank(T, p) = Rank(T, q) /\ Rank(T, p) \in Nat /\ p \in Int /\ q \in Int
      BY <1>1, <1>3
    <3>2. p < q \/ q < p
      BY <3>1
    <3> QED BY <1>5, <3>1, <3>2
  <2>3. f \in Injection(T, N)
    BY <2>1, <2>2 DEF Injection, IsInjective
  <2>4. IsFiniteSet(N) /\ Cardinality(N) = Cardinality(T)
    <3>1. 1 > Cardinality(T) => Cardinality(T) = 0
      BY <1>2
    <3>2. Cardinality(T) - 1 + 1 = Cardinality(T) /\ 1 \in Int /\ Cardinality(T) \in Int
      BY <1>2
    <3>3. IsFiniteSet(N) /\ Cardinality(N) = IF 1 > Cardinality(T) THEN 0 ELSE Cardinality(T) - 1 + 1
      BY <3>2, FS_Interval
    <3> QED BY <3>1, <3>2, <3>3
  <2>5. f \in Surjection(T, N)
    BY <2>3, <2>4, FS_Injection
  <2> QED BY <2>5 DEF Surjection
<1> QED BY <1>2, <1>4, <1>5, <1>6
-----------------------------------------------------------------------------
(* A batch: the elements at the places it looks at, in order                  *)

There(first, last) == {p \in first .. last : held[p] # NotThere}

\* What a reply to the iterator holds, the place at which it ends included.
BatchTo(last) ==
  /\ last \in iterator.cursor .. Places
  /\ Batch.next \in 0 .. Places
  /\ Batch.next = End <=> last = Places
  /\ Batch.next # End => Batch.next = last
  /\ Batch.elements \in Seq(Elements)
  /\ \A q \in 1 .. Len(Batch.elements) :
       Batch.elements[q][1] \in iterator.cursor + 1 .. last
  /\ \A p, q \in 1 .. Len(Batch.elements) :
       p < q => Batch.elements[p][1] < Batch.elements[q][1]
  /\ \A e \in Elements : e[1] \in iterator.cursor + 1 .. last =>
       \E q \in 1 .. Len(Batch.elements) : Batch.elements[q] = e

LEMMA BatchIs ==
  ASSUME ScannerTypes PROVE \E last : BatchTo(last)
<1> DEFINE c == iterator.cursor
           first == c + 1
           last == IF first + ScanCount - 1 > Places THEN Places ELSE first + ScanCount - 1
           T == There(first, last)
           N == Cardinality(T)
           at(n) == CHOOSE p \in T : Rank(T, p) = n
           elements == [n \in 1 .. N |-> Element(at(n))]
<1>1. /\ Places \in Nat /\ ScanCount \in Nat /\ ScanCount >= 1
      /\ c \in Nat /\ c <= Places
  BY ScannersAssumption DEF ScannerTypes, Iterators
<1>2. Batch = [elements |-> elements, next |-> IF last = Places THEN End ELSE last]
  BY DEF Batch, There, Rank
<1>3. last \in c .. Places /\ (last # Places => last >= 1) /\ first \in 1 .. last + 1
  <2>1. CASE first + ScanCount - 1 > Places
    BY <1>1, <2>1
  <2>2. CASE ~(first + ScanCount - 1 > Places)
    <3>1. last = c + ScanCount
      BY <1>1, <2>2
    <3>2. last <= Places
      BY <1>1, <2>2
    <3> HIDE DEF last
    <3> QED BY <1>1, <3>1, <3>2
  <2> QED BY <2>1, <2>2
<1>4. Batch.elements = elements /\ Batch.next = IF last = Places THEN End ELSE last
  BY <1>2, Zenon
<1> HIDE DEF last
<1>5. /\ Batch.next \in 0 .. Places /\ (Batch.next = End <=> last = Places)
      /\ Batch.next # End => Batch.next = last
  BY <1>1, <1>3, <1>4 DEF End
<1>6. Within(T, first, last) /\ first \in Int /\ last \in Int
  BY <1>1, <1>3 DEF There, Within
<1>7. T \subseteq 1 .. Places /\ \A p \in T : held[p] # NotThere
  BY <1>1, <1>3 DEF There
<1> HIDE DEF T, first, N
<1>8. /\ N \in Nat
      /\ \A p \in T : Rank(T, p) \in 1 .. N
      /\ \A p, q \in T : p < q => Rank(T, p) < Rank(T, q)
      /\ \A n \in 1 .. N : \E p \in T : Rank(T, p) = n
  <2>1. /\ Cardinality(T) \in Nat
        /\ \A p \in T : Rank(T, p) \in 1 .. Cardinality(T)
        /\ \A p, q \in T : p < q => Rank(T, p) < Rank(T, q)
        /\ \A n \in 1 .. Cardinality(T) : \E p \in T : Rank(T, p) = n
    BY <1>6, Ranks
  <2>2. N = Cardinality(T)
    BY DEF N
  <2> QED BY <2>1, <2>2, Zenon
<1>9. \A n \in 1 .. N : at(n) \in T /\ Rank(T, at(n)) = n
  BY <1>8, Zenon
<1>10. \A p, q \in T : Rank(T, p) = Rank(T, q) => p = q
  <2> SUFFICES ASSUME NEW p \in T, NEW q \in T, Rank(T, p) = Rank(T, q), p # q PROVE FALSE
    OBVIOUS
  <2>1. p \in Int /\ q \in Int
    BY <1>7
  <2>2. p < q \/ q < p
    BY <2>1
  <2>3. Rank(T, p) \in Int /\ Rank(T, q) \in Int
    BY <1>8
  <2> QED BY <1>8, <2>2, <2>3
<1> HIDE DEF at
<1>11. \A n \in 1 .. N : Element(at(n)) \in Elements
  BY <1>7, <1>9 DEF Elements
<1>12. \A p : Element(p)[1] = p
  BY DEF Element
<1>13. elements \in Seq(Elements) /\ Len(elements) = N
  <2>1. elements \in [1 .. N -> Elements]
    BY <1>11
  <2> QED BY <1>8, <2>1
<1>14. \A q \in 1 .. N : elements[q] = Element(at(q)) /\ elements[q][1] = at(q)
  BY <1>12
<1> HIDE DEF elements
<1>15. \A q \in 1 .. N : elements[q][1] \in c + 1 .. last
  <2> SUFFICES ASSUME NEW q \in 1 .. N PROVE at(q) \in c + 1 .. last
    BY <1>14
  <2>1. at(q) \in first .. last
    BY <1>6, <1>9 DEF Within
  <2> QED BY <2>1 DEF first
<1>16. \A p, q \in 1 .. N : p < q => elements[p][1] < elements[q][1]
  <2> SUFFICES ASSUME NEW p \in 1 .. N, NEW q \in 1 .. N, p < q PROVE at(p) < at(q)
    BY <1>14
  <2>1. /\ at(p) \in T /\ at(q) \in T
        /\ Rank(T, at(p)) = p /\ Rank(T, at(q)) = q
    BY <1>9, Zenon
  <2>2. at(p) \in Int /\ at(q) \in Int
    <3>1. \A r \in T : r \in Int
      BY <1>7
    <3> QED BY <2>1, <3>1, Zenon
  <2>3. at(q) < at(p) => q < p
    BY <1>8, <2>1
  <2>4. at(q) # at(p)
    BY <2>1
  <2> QED BY <2>2, <2>3, <2>4
<1>17. \A e \in Elements : e[1] \in c + 1 .. last => \E q \in 1 .. N : elements[q] = e
  <2> SUFFICES ASSUME NEW e \in Elements, e[1] \in c + 1 .. last
               PROVE  \E q \in 1 .. N : elements[q] = e
    OBVIOUS
  <2>1. PICK p \in 1 .. Places : held[p] # NotThere /\ e = Element(p)
    BY DEF Elements
  <2>2. e[1] = p
    BY <1>12, <2>1
  <2>3. p \in T
    BY <2>1, <2>2 DEF T, There, first
  <2>4. Rank(T, p) \in 1 .. N
    BY <1>8, <2>3
  <2>5. at(Rank(T, p)) = p
    BY <1>9, <1>10, <2>3, <2>4
  <2> QED BY <1>14, <2>1, <2>4, <2>5
<1>18. BatchTo(last)
  BY <1>3, <1>4, <1>5, <1>13, <1>15, <1>16, <1>17 DEF BatchTo
<1> QED BY <1>18
-----------------------------------------------------------------------------
(* Each step keeps the invariant                                             *)

LEMMA IteratorFields ==
  ASSUME NEW i \in Iterators
  PROVE  /\ i.cursor \in 0 .. Places /\ i.reachedEnd \in BOOLEAN /\ i.results \in Seq(ever)
         /\ i.it \in Nat /\ i.mError \in BOOLEAN /\ i.usable \in BOOLEAN
         /\ Len(i.results) \in Nat
         /\ DOMAIN i = {"cursor", "reachedEnd", "results", "it", "mError", "usable"}
BY DEF Iterators

\* The elements of a reply follow all that was shown.
LEMMA FromBatch ==
  ASSUME ScanInv, filling, NEW last, BatchTo(last),
         NEW n \in 0 .. Len(Batch.elements), NEW i \in Iterators,
         i.cursor = Batch.next, i.reachedEnd = (Batch.next = End), i.it = 0,
         i.results = SubSeq(Batch.elements, 1, n),
         n = Len(Batch.elements) \/ i.mError
  PROVE  ShownInOrder(i, visited) /\ NoneMissing(i, visited) /\ i.it <= Len(i.results)
<1> DEFINE B == Batch.elements
           c == iterator.cursor
<1>1. /\ ~iterator.reachedEnd /\ ~iterator.mError /\ Exhausted(iterator)
      /\ iterator \in Iterators /\ visited \in Seq(ever)
      /\ \A e \in ever : e[1] \in 1 .. Places
      /\ always \subseteq Elements
  BY DEF ScanInv, ScannerTypes, NeedsMore
<1>2. /\ c \in Nat /\ last \in c .. Places /\ Places \in Nat /\ last \in Nat
      /\ B \in Seq(Elements) /\ Len(B) \in Nat
  BY <1>1, IteratorFields, ScannersAssumption DEF BatchTo
<1>3. Bound(iterator) = c
  BY <1>1 DEF Bound
<1>4. Bound(i) = last
  BY DEF Bound, BatchTo
<1>5. ToShow(iterator) = {}
  BY <1>1, IteratorFields DEF ToShow, Exhausted
<1>6. /\ Len(i.results) = n
      /\ \A q \in 1 .. n : i.results[q] = B[q] /\ q \in 1 .. Len(B)
  <2>1. \A q \in 1 .. n : q \in 1 .. Len(B)
    BY <1>2
  <2>2. \A q \in 1 .. n : B[q] \in Elements
    BY <1>2, <2>1
  <2>3. n \in Int /\ 1 \in Int /\ n >= 0
    BY <1>2
  <2>4. /\ Len(SubSeq(B, 1, n)) = IF 1 <= n THEN n - 1 + 1 ELSE 0
        /\ \A q \in 1 .. n - 1 + 1 : SubSeq(B, 1, n)[q] = B[1 + q - 1]
    BY <2>2, <2>3, SubSeqProperties
  <2>5. i.results = SubSeq(B, 1, n)
    OBVIOUS
  <2> HIDE DEF B
  <2>6. Len(SubSeq(B, 1, n)) = n
    BY <2>3, <2>4
  <2>7. \A q \in 1 .. n : q \in 1 .. n - 1 + 1 /\ 1 + q - 1 = q
    BY <2>3
  <2> QED BY <2>1, <2>4, <2>5, <2>6, <2>7
<1>7. ToShow(i) = 1 .. n
  BY <1>6 DEF ToShow
<1>8. DOMAIN visited = 1 .. Len(visited) /\ \A p \in DOMAIN visited : visited[p][1] \in Nat
  BY <1>1
<1>9. \A q \in 1 .. n : i.results[q][1] \in c + 1 .. last
  BY <1>6 DEF BatchTo
<1>10. \A p \in DOMAIN visited : visited[p][1] <= c
  BY <1>3 DEF ScanInv, ShownInOrder
<1>11. ShownInOrder(i, visited)
  <2>1. \A p, q \in DOMAIN visited : p < q => visited[p][1] < visited[q][1]
    BY DEF ScanInv, ShownInOrder
  <2>2. \A p \in DOMAIN visited : visited[p][1] <= Bound(i)
    BY <1>2, <1>4, <1>8, <1>10
  <2>3. \A p \in DOMAIN visited, q \in ToShow(i) : visited[p][1] < i.results[q][1]
    <3> SUFFICES ASSUME NEW p \in DOMAIN visited, NEW q \in 1 .. n
                 PROVE  visited[p][1] < i.results[q][1]
      BY <1>7
    <3> PICK at : at = i.results[q][1]
      OBVIOUS
    <3>1. at \in c + 1 .. last
      BY <1>9
    <3> PICK before \in Nat : before = visited[p][1]
      BY <1>8
    <3>2. before <= c
      BY <1>10
    <3>3. before < at
      BY <1>2, <3>1, <3>2
    <3> QED BY <3>3
  <2>4. \A p, q \in ToShow(i) : p < q => i.results[p][1] < i.results[q][1]
    <3>1. \A p, q \in 1 .. Len(B) : p < q => B[p][1] < B[q][1]
      BY DEF BatchTo
    <3> HIDE DEF B
    <3> SUFFICES ASSUME NEW p \in 1 .. n, NEW q \in 1 .. n, p < q
                 PROVE  i.results[p][1] < i.results[q][1]
      BY <1>7
    <3>2. i.results[p] = B[p] /\ i.results[q] = B[q] /\ p \in 1 .. Len(B) /\ q \in 1 .. Len(B)
      BY <1>6
    <3>3. B[p][1] < B[q][1]
      BY <3>1, <3>2
    <3> QED BY <3>2, <3>3
  <2>5. \A q \in ToShow(i) : i.results[q][1] <= Bound(i)
    BY <1>2, <1>4, <1>7, <1>9
  <2> QED BY <2>1, <2>2, <2>3, <2>4, <2>5 DEF ShownInOrder
<1>12. NoneMissing(i, visited)
  <2> SUFFICES ASSUME ~i.mError, NEW e \in always, e[1] <= last
               PROVE  e \in ToSet(visited) \/ \E q \in ToShow(i) : i.results[q] = e
    BY <1>4 DEF NoneMissing
  <2>1. n = Len(B)
    OBVIOUS
  <2>2. e \in Elements /\ e[1] \in Int
    BY <1>1 DEF ScanInv, ScannerTypes
  <2>3. CASE e[1] <= c
    <3>1. e \in ToSet(visited) \/ \E q \in ToShow(iterator) : iterator.results[q] = e
      BY <1>1, <1>3, <2>3 DEF ScanInv, NoneMissing
    <3> QED BY <1>5, <3>1
  <2>4. CASE ~(e[1] <= c)
    <3>1. e[1] \in c + 1 .. last
      BY <1>2, <2>2, <2>4
    <3>2. PICK q \in 1 .. Len(B) : B[q] = e
      BY <2>2, <3>1 DEF BatchTo
    <3> QED BY <1>6, <1>7, <2>1, <3>2
  <2> QED BY <2>3, <2>4
<1> QED BY <1>2, <1>6, <1>11, <1>12

\* A reply makes an iterator like any other, with the elements or some of them.
LEMMA ReplyTypes ==
  ASSUME ScannerTypes, NEW last, BatchTo(last), NEW n \in 0 .. Len(Batch.elements)
  PROVE  SubSeq(Batch.elements, 1, n) \in Seq(ever)
<1>1. /\ Batch.elements \in Seq(Elements) /\ Elements \subseteq ever
      /\ Len(Batch.elements) \in Nat
  BY DEF BatchTo, ScannerTypes
<1>2. \A q \in 1 .. n : Batch.elements[q] \in ever
  BY <1>1
<1>3. 1 \in Int /\ n \in Int
  BY <1>1
<1> QED BY <1>2, <1>3, SubSeqProperties

LEMMA ScanTypesUnchanged ==
  ASSUME ScannerTypes, UNCHANGED <<kind, held, always, ever>>,
         iterator' \in Iterators, iterator'.it <= Len(iterator'.results),
         kind # "QSet" => iterator'.it = 0, visited' \in Seq(ever),
         filling' \in BOOLEAN, filling' => NeedsMore(iterator')
  PROVE  ScannerTypes'
BY DEF ScannerTypes, NeedsMore, Exhausted, Elements, Element, Iterators

LEMMA ScanInvUnchanged ==
  ASSUME always' = always, ShownInOrder(iterator', visited'), NoneMissing(iterator', visited'),
         ScannerTypes'
  PROVE  ScanInv'
BY DEF ScanInv, ShownInOrder, NoneMissing, Bound, ToShow, ToSet

LEMMA ReceiveKeeps == ASSUME ScanInv, Receive PROVE ScanInv'
<1>1. PICK last : BatchTo(last)
  BY BatchIs DEF ScanInv
<1> DEFINE i == [iterator EXCEPT !.results = Batch.elements, !.it = 0,
                   !.cursor = Batch.next, !.reachedEnd = Batch.next = End]
           n == Len(Batch.elements)
<1>2. /\ iterator' = i /\ filling' = NeedsMore(i) /\ filling
      /\ UNCHANGED <<kind, held, visited, always, ever>>
  BY DEF Receive, Filled
<1>3. iterator \in Iterators /\ visited \in Seq(ever)
  BY DEF ScanInv, ScannerTypes
<1>4. /\ Batch.elements \in Seq(Elements) /\ n \in Nat /\ n \in 0 .. n
      /\ Batch.next \in 0 .. Places
  BY <1>1 DEF BatchTo
<1>5. SubSeq(Batch.elements, 1, n) = Batch.elements
  BY <1>4, SubSeqFull
<1>6. Batch.elements \in Seq(ever)
  BY <1>1, <1>4, <1>5, ReplyTypes DEF ScanInv
<1>7. /\ i.results = Batch.elements /\ i.it = 0 /\ i.cursor = Batch.next
      /\ i.reachedEnd = (Batch.next = End) /\ i \in Iterators
  BY <1>3, <1>4, <1>6 DEF Iterators
<1> HIDE DEF i
<1>8. ShownInOrder(i, visited) /\ NoneMissing(i, visited) /\ i.it <= Len(i.results)
  BY <1>1, <1>2, <1>4, <1>5, <1>7, FromBatch
<1>9. ScannerTypes'
  BY <1>2, <1>3, <1>7, <1>8, ScanTypesUnchanged DEF ScanInv, NeedsMore
<1> QED BY <1>2, <1>8, <1>9, ScanInvUnchanged
LEMMA ReceiveNullKeeps == ASSUME ScanInv, ReceiveNull PROVE ScanInv'
<1>1. /\ filling' = FALSE
      /\ iterator' = IF kind = "QLocalityHash" THEN [iterator EXCEPT !.mError = TRUE]
                     ELSE [iterator EXCEPT !.usable = visited # <<>>]
      /\ UNCHANGED <<kind, held, visited, always, ever>>
  BY DEF ReceiveNull
<1>2. /\ iterator \in Iterators /\ visited \in Seq(ever)
      /\ iterator.it <= Len(iterator.results) /\ (kind # "QSet" => iterator.it = 0)
  BY DEF ScanInv, ScannerTypes
<1>3. /\ iterator'.cursor = iterator.cursor /\ iterator'.reachedEnd = iterator.reachedEnd
      /\ iterator'.results = iterator.results /\ iterator'.it = iterator.it
      /\ iterator.mError => iterator'.mError
      /\ iterator' \in Iterators
  <2>1. [iterator EXCEPT !.mError = TRUE] \in Iterators
    BY <1>2 DEF Iterators
  <2>2. [iterator EXCEPT !.usable = visited # <<>>] \in Iterators
    BY <1>2 DEF Iterators
  <2> QED BY <1>1, <1>2, <2>1, <2>2 DEF Iterators
<1>4. ScannerTypes'
  BY <1>1, <1>2, <1>3, ScanTypesUnchanged DEF ScanInv
<1>5. ShownInOrder(iterator', visited') /\ NoneMissing(iterator', visited')
  BY <1>1, <1>3 DEF ScanInv, ShownInOrder, NoneMissing, Bound, ToShow
<1> QED BY <1>1, <1>4, <1>5, ScanInvUnchanged

LEMMA ReceiveMalformedKeeps == ASSUME ScanInv, ReceiveMalformed PROVE ScanInv'
<1>1. /\ filling /\ kind = "QLocalityHash"
      /\ UNCHANGED <<kind, held, visited, always, ever>>
  BY DEF ReceiveMalformed
<1>2. /\ iterator \in Iterators /\ visited \in Seq(ever)
      /\ iterator.it <= Len(iterator.results) /\ iterator.it = 0
  BY <1>1 DEF ScanInv, ScannerTypes
<1>3. CASE Filled([iterator EXCEPT !.mError = TRUE])
  <2>1. /\ iterator' = [iterator EXCEPT !.mError = TRUE]
        /\ filling' = NeedsMore([iterator EXCEPT !.mError = TRUE])
    BY <1>3 DEF Filled
  <2>2. /\ iterator'.cursor = iterator.cursor /\ iterator'.reachedEnd = iterator.reachedEnd
        /\ iterator'.results = iterator.results /\ iterator'.it = iterator.it
        /\ iterator'.mError /\ iterator' \in Iterators
    BY <1>2, <2>1 DEF Iterators
  <2>3. ScannerTypes'
    BY <1>1, <1>2, <2>1, <2>2, ScanTypesUnchanged DEF ScanInv, NeedsMore
  <2>4. ShownInOrder(iterator', visited') /\ NoneMissing(iterator', visited')
    BY <1>1, <2>2 DEF ScanInv, ShownInOrder, NoneMissing, Bound, ToShow
  <2> QED BY <1>1, <2>3, <2>4, ScanInvUnchanged
<1>4. ASSUME NEW n \in 0 .. Len(Batch.elements),
             Filled([iterator EXCEPT !.mError = TRUE, !.cursor = Batch.next,
                       !.reachedEnd = Batch.next = End, !.it = 0,
                       !.results = SubSeq(Batch.elements, 1, n)])
      PROVE  ScanInv'
  <2>1. PICK last : BatchTo(last)
    BY BatchIs DEF ScanInv
  <2> DEFINE i == [iterator EXCEPT !.mError = TRUE, !.cursor = Batch.next,
                     !.reachedEnd = Batch.next = End, !.it = 0,
                     !.results = SubSeq(Batch.elements, 1, n)]
  <2>2. iterator' = i /\ filling' = NeedsMore(i)
    BY <1>4 DEF Filled
  <2>3. SubSeq(Batch.elements, 1, n) \in Seq(ever) /\ Batch.next \in 0 .. Places
    BY <2>1, ReplyTypes DEF ScanInv, BatchTo
  <2>4. /\ i.results = SubSeq(Batch.elements, 1, n) /\ i.it = 0 /\ i.cursor = Batch.next
        /\ i.reachedEnd = (Batch.next = End) /\ i.mError /\ i \in Iterators
    BY <1>2, <2>3 DEF Iterators
  <2> HIDE DEF i
  <2>5. ShownInOrder(i, visited) /\ NoneMissing(i, visited) /\ i.it <= Len(i.results)
    BY <1>1, <2>1, <2>4, FromBatch
  <2>6. ScannerTypes'
    BY <1>1, <1>2, <2>2, <2>4, <2>5, ScanTypesUnchanged DEF ScanInv, NeedsMore
  <2> QED BY <1>1, <2>2, <2>5, <2>6, ScanInvUnchanged
<1> QED BY <1>3, <1>4 DEF ReceiveMalformed
\* The first element of the batch goes; the others stay, d places further on.
LEMMA OneShown ==
  ASSUME ScanInv, ScannerValid, NEW i \in Iterators, NEW d \in {0, 1},
         i.cursor = iterator.cursor, i.reachedEnd = iterator.reachedEnd,
         i.mError = iterator.mError,
         \A q \in ToShow(i) : /\ q + d \in ToShow(iterator) /\ q + d # iterator.it + 1
                              /\ i.results[q] = iterator.results[q + d],
         \A q \in ToShow(iterator) : q # iterator.it + 1 =>
           \E r \in ToShow(i) : i.results[r] = iterator.results[q]
  PROVE  /\ ShownInOrder(i, Append(visited, Current(iterator)))
         /\ NoneMissing(i, Append(visited, Current(iterator)))
         /\ Append(visited, Current(iterator)) \in Seq(ever)
<1> DEFINE first == iterator.it + 1
           e == Current(iterator)
           v == Append(visited, e)
<1>1. /\ iterator \in Iterators /\ visited \in Seq(ever)
      /\ \A x \in ever : x[1] \in 1 .. Places
      /\ iterator.it <= Len(iterator.results)
  BY DEF ScanInv, ScannerTypes
<1>2. /\ iterator.it \in Nat /\ Len(iterator.results) \in Nat /\ first \in Nat
      /\ iterator.results \in Seq(ever) /\ Len(i.results) \in Nat /\ i.it \in Nat
      /\ iterator.cursor \in Nat /\ Places \in Nat
  BY <1>1, IteratorFields, ScannersAssumption
<1>3. first \in ToShow(iterator) /\ first \in 1 .. Len(iterator.results)
  BY <1>1, <1>2 DEF ScannerValid, Exhausted, ToShow
<1>4. e = iterator.results[first] /\ e \in ever
  BY <1>2, <1>3 DEF Current
<1>5. Bound(i) = Bound(iterator) /\ Bound(i) \in Nat
  BY <1>1, <1>2 DEF Bound
<1>6. \A q \in ToShow(iterator) : q \in Int /\ first <= q /\ iterator.results[q][1] \in Nat
  <2>1. \A q \in ToShow(iterator) : q \in 1 .. Len(iterator.results) /\ first <= q
    BY <1>2 DEF ToShow
  <2>2. \A q \in 1 .. Len(iterator.results) : iterator.results[q] \in ever
    BY <1>2
  <2> QED BY <1>1, <2>1, <2>2
<1>7. /\ DOMAIN visited = 1 .. Len(visited) /\ Len(visited) \in Nat
      /\ DOMAIN v = 1 .. Len(visited) + 1
      /\ v[Len(visited) + 1] = e
      /\ \A p \in DOMAIN visited : v[p] = visited[p]
      /\ v \in Seq(ever)
  BY <1>1, <1>4
<1>8. \A p \in DOMAIN visited : visited[p][1] \in Nat
  BY <1>1
<1>9. \A p \in DOMAIN v : p \in DOMAIN visited \/ p = Len(visited) + 1
  BY <1>7
<1> HIDE DEF v, e
<1>10. /\ \A p, q \in DOMAIN visited : p < q => visited[p][1] < visited[q][1]
       /\ \A p \in DOMAIN visited : visited[p][1] <= Bound(iterator)
       /\ \A p \in DOMAIN visited, q \in ToShow(iterator) :
            visited[p][1] < iterator.results[q][1]
       /\ \A p, q \in ToShow(iterator) : p < q => iterator.results[p][1] < iterator.results[q][1]
       /\ \A q \in ToShow(iterator) : iterator.results[q][1] <= Bound(iterator)
  BY DEF ScanInv, ShownInOrder
<1>11. \A p, q \in DOMAIN v : p < q => v[p][1] < v[q][1]
  <2> SUFFICES ASSUME NEW p \in DOMAIN v, NEW q \in DOMAIN v, p < q PROVE v[p][1] < v[q][1]
    OBVIOUS
  <2>1. p \in DOMAIN visited /\ v[p] = visited[p]
    BY <1>7
  <2>2. CASE q \in DOMAIN visited
    BY <1>7, <1>10, <2>1, <2>2
  <2>3. CASE q = Len(visited) + 1
    <3>1. v[q] = iterator.results[first]
      BY <1>4, <1>7, <2>3
    <3> QED BY <1>3, <1>10, <2>1, <3>1
  <2> QED BY <1>9, <2>2, <2>3
<1>12. \A p \in DOMAIN v : v[p][1] <= Bound(i)
  <2> SUFFICES ASSUME NEW p \in DOMAIN v PROVE v[p][1] <= Bound(i)
    OBVIOUS
  <2>1. CASE p \in DOMAIN visited
    BY <1>5, <1>7, <1>10, <2>1
  <2>2. CASE p = Len(visited) + 1
    BY <1>3, <1>4, <1>5, <1>7, <1>10, <2>2
  <2> QED BY <1>9, <2>1, <2>2
<1>13. ASSUME NEW q \in ToShow(i)
       PROVE  /\ q + d \in ToShow(iterator) /\ q + d # first
              /\ i.results[q] = iterator.results[q + d]
              /\ q \in Int /\ d \in Int /\ first < q + d
  <2>1. /\ q + d \in ToShow(iterator) /\ q + d # first
        /\ i.results[q] = iterator.results[q + d]
    OBVIOUS
  <2>2. q \in Int /\ d \in Int
    BY <1>2 DEF ToShow
  <2>3. first <= q + d
    BY <1>6, <2>1
  <2> QED BY <1>2, <2>1, <2>2, <2>3
<1>14. \A p \in DOMAIN v, q \in ToShow(i) : v[p][1] < i.results[q][1]
  <2> SUFFICES ASSUME NEW p \in DOMAIN v, NEW q \in ToShow(i)
               PROVE  v[p][1] < i.results[q][1]
    OBVIOUS
  <2>1. CASE p \in DOMAIN visited
    BY <1>7, <1>10, <1>13, <2>1
  <2>2. CASE p = Len(visited) + 1
    <3>1. v[p] = iterator.results[first]
      BY <1>4, <1>7, <2>2
    <3> QED BY <1>3, <1>10, <1>13, <3>1
  <2> QED BY <1>9, <2>1, <2>2
<1>15. \A p, q \in ToShow(i) : p < q => i.results[p][1] < i.results[q][1]
  <2> SUFFICES ASSUME NEW p \in ToShow(i), NEW q \in ToShow(i), p < q
               PROVE  i.results[p][1] < i.results[q][1]
    OBVIOUS
  <2>1. p + d < q + d
    BY <1>13
  <2> QED BY <1>10, <1>13, <2>1
<1>16. \A q \in ToShow(i) : i.results[q][1] <= Bound(i)
  BY <1>5, <1>10, <1>13
<1>17. ShownInOrder(i, v)
  BY <1>11, <1>12, <1>14, <1>15, <1>16 DEF ShownInOrder
<1>18. NoneMissing(i, v)
  <2> SUFFICES ASSUME ~i.mError, NEW x \in always, x[1] <= Bound(i)
               PROVE  x \in ToSet(v) \/ \E q \in ToShow(i) : i.results[q] = x
    BY DEF NoneMissing
  <2>1. x \in ToSet(visited) \/ \E q \in ToShow(iterator) : iterator.results[q] = x
    BY <1>5 DEF ScanInv, NoneMissing
  <2>2. ASSUME x \in ToSet(visited) PROVE x \in ToSet(v)
    BY <1>7, <2>2 DEF ToSet
  <2>3. ASSUME NEW q \in ToShow(iterator), iterator.results[q] = x
        PROVE  x \in ToSet(v) \/ \E r \in ToShow(i) : i.results[r] = x
    <3>1. CASE q = first
      <4>1. x = v[Len(visited) + 1] /\ Len(visited) + 1 \in DOMAIN v
        BY <1>4, <1>7, <2>3, <3>1
      <4> QED BY <4>1 DEF ToSet
    <3>2. CASE q # first
      BY <2>3, <3>2
    <3> QED BY <3>1, <3>2
  <2> QED BY <2>1, <2>2, <2>3
<1> QED BY <1>7, <1>17, <1>18 DEF v, e

LEMMA AdvanceKeeps == ASSUME ScanInv, Advance PROVE ScanInv'
<1> DEFINE i == IF kind = "QSet" THEN [iterator EXCEPT !.it = @ + 1]
                ELSE [iterator EXCEPT !.results = Tail(@)]
<1>1. /\ ScannerValid /\ visited' = Append(visited, Current(iterator))
      /\ iterator' = i /\ filling' = NeedsMore(i)
      /\ UNCHANGED <<kind, held, always, ever>>
  BY DEF Advance, Filled
<1>2. /\ iterator \in Iterators
      /\ iterator.it <= Len(iterator.results) /\ (kind # "QSet" => iterator.it = 0)
  BY DEF ScanInv, ScannerTypes
<1>3. /\ iterator.it \in Nat /\ Len(iterator.results) \in Nat
      /\ iterator.results \in Seq(ever) /\ iterator.it < Len(iterator.results)
  BY <1>1, <1>2, IteratorFields DEF ScannerValid, Exhausted
<1>4. CASE kind = "QSet"
  <2>1. /\ i.cursor = iterator.cursor /\ i.reachedEnd = iterator.reachedEnd
        /\ i.mError = iterator.mError /\ i.results = iterator.results
        /\ i.it = iterator.it + 1 /\ i \in Iterators
    BY <1>2, <1>4 DEF Iterators
  <2> HIDE DEF i
  <2>2. /\ \A q \in ToShow(i) : q + 0 = q /\ q \in ToShow(iterator) /\ q # iterator.it + 1
        /\ \A q \in ToShow(iterator) : q # iterator.it + 1 => q \in ToShow(i)
    BY <1>3, <2>1 DEF ToShow
  <2>3. /\ ShownInOrder(i, visited') /\ NoneMissing(i, visited') /\ visited' \in Seq(ever)
    BY <1>1, <2>1, <2>2, OneShown
  <2>4. ScannerTypes'
    <3>1. /\ iterator' \in Iterators /\ iterator'.it <= Len(iterator'.results)
          /\ kind # "QSet" => iterator'.it = 0
      BY <1>1, <1>3, <1>4, <2>1
    <3>2. filling' \in BOOLEAN /\ (filling' => NeedsMore(iterator'))
      BY <1>1 DEF NeedsMore
    <3> QED BY <1>1, <2>3, <3>1, <3>2, ScanTypesUnchanged DEF ScanInv
  <2> QED BY <1>1, <2>3, <2>4, ScanInvUnchanged
<1>5. CASE kind # "QSet"
  <2>1. /\ Tail(iterator.results) \in Seq(ever)
        /\ Len(Tail(iterator.results)) = Len(iterator.results) - 1
        /\ \A q \in 1 .. Len(iterator.results) - 1 :
             Tail(iterator.results)[q] = iterator.results[q + 1]
    <3>1. iterator.results # <<>>
      BY <1>3
    <3> QED BY <1>3, <3>1, HeadTailProperties
  <2>2. /\ i.cursor = iterator.cursor /\ i.reachedEnd = iterator.reachedEnd
        /\ i.mError = iterator.mError /\ i.results = Tail(iterator.results)
        /\ i.it = 0 /\ iterator.it = 0 /\ i \in Iterators
    BY <1>2, <1>5, <2>1 DEF Iterators
  <2> HIDE DEF i
  <2>3. ToShow(i) = 1 .. Len(iterator.results) - 1 /\ ToShow(iterator) = 1 .. Len(iterator.results)
    BY <2>1, <2>2 DEF ToShow
  <2>4. /\ \A q \in ToShow(i) : /\ q + 1 \in ToShow(iterator) /\ q + 1 # iterator.it + 1
                                /\ i.results[q] = iterator.results[q + 1]
        /\ \A q \in ToShow(iterator) : q # iterator.it + 1 =>
             /\ q - 1 \in ToShow(i) /\ i.results[q - 1] = iterator.results[q]
    BY <1>3, <2>1, <2>2, <2>3
  <2>5. /\ ShownInOrder(i, visited') /\ NoneMissing(i, visited') /\ visited' \in Seq(ever)
    BY <1>1, <2>2, <2>4, OneShown
  <2>6. ScannerTypes'
    <3>1. /\ iterator' \in Iterators /\ iterator'.it <= Len(iterator'.results)
          /\ kind # "QSet" => iterator'.it = 0
      BY <1>1, <1>3, <1>5, <2>1, <2>2
    <3>2. filling' \in BOOLEAN /\ (filling' => NeedsMore(iterator'))
      BY <1>1 DEF NeedsMore
    <3> QED BY <1>1, <2>5, <3>1, <3>2, ScanTypesUnchanged DEF ScanInv
  <2> QED BY <1>1, <2>5, <2>6, ScanInvUnchanged
<1> QED BY <1>4, <1>5
LEMMA AdvanceExhaustedKeeps == ASSUME ScanInv, AdvanceExhausted PROVE ScanInv'
<1> DEFINE i == CASE kind = "QSet" /\ iterator.reachedEnd ->
                       [iterator EXCEPT !.results = <<>>, !.it = 0]
                  [] kind # "QSet" /\ iterator.results # <<>> ->
                       [iterator EXCEPT !.results = Tail(@)]
                  [] OTHER -> iterator
<1>1. /\ ~ScannerValid /\ iterator' = i /\ filling' = NeedsMore(i)
      /\ UNCHANGED <<kind, held, visited, always, ever>>
  BY DEF AdvanceExhausted, Filled
<1>2. /\ iterator \in Iterators /\ visited \in Seq(ever)
      /\ iterator.it <= Len(iterator.results) /\ (kind # "QSet" => iterator.it = 0)
  BY DEF ScanInv, ScannerTypes
<1>3. /\ iterator.it \in Nat /\ Len(iterator.results) \in Nat
      /\ iterator.results \in Seq(ever)
  BY <1>2, IteratorFields
<1>4. filling' \in BOOLEAN /\ (filling' => NeedsMore(iterator'))
  BY <1>1 DEF NeedsMore
<1>5. CASE kind = "QSet" /\ iterator.reachedEnd
  <2>1. i = [iterator EXCEPT !.results = <<>>, !.it = 0]
    BY <1>5
  <2> HIDE DEF i
  <2>2. /\ i.cursor = iterator.cursor /\ i.reachedEnd = iterator.reachedEnd
        /\ i.mError = iterator.mError /\ i.results = <<>> /\ i.it = 0
        /\ i \in Iterators
    <3>1. <<>> \in Seq(ever) /\ 0 \in Nat
      BY EmptySeq
    <3> QED BY <1>2, <2>1, <3>1 DEF Iterators
  <2>3. ToShow(i) = {} /\ Len(i.results) = 0
    BY <2>2 DEF ToShow
  <2>4. ~i.mError => ToShow(iterator) = {}
    BY <1>1, <1>3, <2>2 DEF ScannerValid, Exhausted, ToShow
  <2>5. Bound(i) = Bound(iterator)
    BY <2>2 DEF Bound
  <2>6. ShownInOrder(i, visited)
    BY <2>3, <2>5 DEF ScanInv, ShownInOrder
  <2>7. NoneMissing(i, visited)
    BY <2>2, <2>4, <2>5 DEF ScanInv, NoneMissing
  <2>8. ScannerTypes'
    BY <1>1, <1>2, <1>4, <2>2, <2>3, ScanTypesUnchanged DEF ScanInv
  <2> QED BY <1>1, <2>6, <2>7, <2>8, ScanInvUnchanged
<1>6. CASE kind # "QSet" /\ iterator.results # <<>>
  <2>1. i = [iterator EXCEPT !.results = Tail(@)] /\ iterator.it = 0
    BY <1>2, <1>6
  <2>2. /\ Tail(iterator.results) \in Seq(ever)
        /\ Len(Tail(iterator.results)) = Len(iterator.results) - 1
        /\ \A q \in 1 .. Len(iterator.results) - 1 :
             Tail(iterator.results)[q] = iterator.results[q + 1]
    BY <1>3, <1>6, HeadTailProperties
  <2>3. /\ i.cursor = iterator.cursor /\ i.reachedEnd = iterator.reachedEnd
        /\ i.mError = iterator.mError /\ i.results = Tail(iterator.results)
        /\ i.it = 0 /\ i \in Iterators
    BY <1>2, <2>1, <2>2 DEF Iterators
  <2> HIDE DEF i
  <2>4. iterator.mError
    <3>1. iterator.it # Len(iterator.results)
      BY <1>3, <1>6, <2>1, EmptySeq
    <3> QED BY <1>1, <3>1 DEF ScannerValid, Exhausted
  <2>5. ToShow(i) = 1 .. Len(iterator.results) - 1 /\ ToShow(iterator) = 1 .. Len(iterator.results)
    BY <2>1, <2>2, <2>3 DEF ToShow
  <2>6. \A q \in ToShow(i) : /\ q \in Int /\ q + 1 \in ToShow(iterator)
                             /\ i.results[q] = iterator.results[q + 1]
    BY <1>3, <2>2, <2>3, <2>5
  <2>7. Bound(i) = Bound(iterator)
    BY <2>3 DEF Bound
  <2>8. ShownInOrder(i, visited)
    <3>1. \A p, q \in ToShow(i) : p < q => i.results[p][1] < i.results[q][1]
      <4> SUFFICES ASSUME NEW p \in ToShow(i), NEW q \in ToShow(i), p < q
                   PROVE  i.results[p][1] < i.results[q][1]
        OBVIOUS
      <4>1. p + 1 < q + 1
        BY <2>6
      <4> QED BY <2>6, <4>1 DEF ScanInv, ShownInOrder
    <3>2. \A p \in DOMAIN visited, q \in ToShow(i) : visited[p][1] < i.results[q][1]
      BY <2>6 DEF ScanInv, ShownInOrder
    <3>3. \A q \in ToShow(i) : i.results[q][1] <= Bound(i)
      BY <2>6, <2>7 DEF ScanInv, ShownInOrder
    <3> QED BY <2>7, <3>1, <3>2, <3>3 DEF ScanInv, ShownInOrder
  <2>9. NoneMissing(i, visited)
    BY <2>3, <2>4 DEF NoneMissing
  <2>10. ScannerTypes'
    <3>1. /\ iterator' \in Iterators /\ iterator'.it <= Len(iterator'.results)
          /\ iterator'.it = 0
      <4>1. Len(i.results) \in Nat
        BY <2>3, IteratorFields
      <4> QED BY <1>1, <2>3, <4>1
    <3> QED BY <1>1, <1>2, <1>4, <3>1, ScanTypesUnchanged DEF ScanInv
  <2> QED BY <1>1, <2>8, <2>9, <2>10, ScanInvUnchanged
<1>7. CASE ~(kind = "QSet" /\ iterator.reachedEnd) /\ ~(kind # "QSet" /\ iterator.results # <<>>)
  <2>1. i = iterator
    BY <1>7
  <2> HIDE DEF i
  <2>2. ScannerTypes'
    BY <1>1, <1>2, <1>4, <2>1, ScanTypesUnchanged DEF ScanInv
  <2> QED BY <1>1, <2>1, <2>2, ScanInvUnchanged DEF ScanInv
<1> QED BY <1>5, <1>6, <1>7

LEMMA OthersChangeKeeps == ASSUME ScanInv, OthersChange PROVE ScanInv'
<1>1. /\ always' = always \cap Elements' /\ ever' = ever \cup Elements'
      /\ UNCHANGED <<kind, iterator, filling, visited>>
  BY DEF OthersChange
<1>2. \A e \in Elements' : e[1] \in 1 .. Places
  BY DEF Elements, Element
<1>3. ever \subseteq ever' /\ always' \subseteq always
  BY <1>1
<1>4. /\ iterator \in Iterators /\ visited \in Seq(ever)
  BY DEF ScanInv, ScannerTypes
<1>5. visited \in Seq(ever') /\ iterator.results \in Seq(ever')
  BY <1>3, <1>4, SeqMonotonic, IteratorFields
<1>6. iterator' \in Iterators'
  BY <1>1, <1>4, <1>5 DEF Iterators
<1>7. ScannerTypes'
  <2>1. iterator'.it <= Len(iterator'.results) /\ (kind' # "QSet" => iterator'.it = 0)
    BY <1>1 DEF ScanInv, ScannerTypes
  <2>2. filling' \in BOOLEAN /\ (filling' => NeedsMore(iterator)')
    BY <1>1 DEF ScanInv, ScannerTypes, NeedsMore, Exhausted
  <2>3. \A e \in ever' : e[1] \in 1 .. Places
    BY <1>1, <1>2 DEF ScanInv, ScannerTypes
  <2>4. always' \subseteq Elements' /\ Elements' \subseteq ever'
    BY <1>1
  <2> QED BY <1>1, <1>5, <1>6, <2>1, <2>2, <2>3, <2>4 DEF ScannerTypes
<1>8. ShownInOrder(iterator, visited)'
  BY <1>1 DEF ScanInv, ShownInOrder, Bound, ToShow
<1>9. NoneMissing(iterator, visited)'
  BY <1>1, <1>3 DEF ScanInv, NoneMissing, Bound, ToShow, ToSet
<1> QED BY <1>7, <1>8, <1>9 DEF ScanInv

LEMMA InitScanInv == ScannerInit => ScanInv
<1> SUFFICES ASSUME ScannerInit PROVE ScanInv
  OBVIOUS
<1>1. /\ iterator = [cursor |-> End, reachedEnd |-> FALSE, results |-> <<>>, it |-> 0,
                     mError |-> FALSE, usable |-> TRUE]
      /\ filling = TRUE /\ visited = <<>> /\ always = Elements /\ ever = Elements
  BY DEF ScannerInit
<1>2. Places \in Nat /\ <<>> \in Seq(ever) /\ Len(<<>>) = 0 /\ DOMAIN <<>> = {}
  BY ScannersAssumption, EmptySeq
<1>3. iterator \in Iterators
  BY <1>1, <1>2 DEF Iterators, End
<1>4. \A e \in ever : e[1] \in 1 .. Places
  BY <1>1 DEF Elements, Element
<1>5. ToShow(iterator) = {} /\ Bound(iterator) = 0
  BY <1>1, <1>2 DEF ToShow, Bound, End
<1>6. ScannerTypes
  BY <1>1, <1>2, <1>3, <1>4 DEF ScannerTypes, NeedsMore, Exhausted
<1>7. ShownInOrder(iterator, visited)
  BY <1>1, <1>2, <1>5 DEF ShownInOrder
<1>8. NoneMissing(iterator, visited)
  <2>1. \A e \in always : ~(e[1] <= 0)
    BY <1>1, <1>4
  <2> QED BY <1>5, <2>1 DEF NoneMissing
<1> QED BY <1>6, <1>7, <1>8 DEF ScanInv

LEMMA ScanInvInductive == ScanInv /\ [ScannerNext]_scannerVars => ScanInv'
<1> SUFFICES ASSUME ScanInv, [ScannerNext]_scannerVars PROVE ScanInv'
  OBVIOUS
<1>1. CASE UNCHANGED scannerVars
  <2>1. ScannerTypes'
    BY <1>1 DEF scannerVars, ScanInv, ScannerTypes, NeedsMore, Exhausted, Elements, Element,
                Iterators
  <2>2. ShownInOrder(iterator', visited') /\ NoneMissing(iterator', visited') /\ always' = always
    BY <1>1 DEF scannerVars, ScanInv
  <2> QED BY <2>1, <2>2, ScanInvUnchanged
<1> QED BY <1>1, ReceiveKeeps, ReceiveNullKeeps, ReceiveMalformedKeeps, AdvanceKeeps,
           AdvanceExhaustedKeeps, OthersChangeKeeps
        DEF ScannerNext

LEMMA ScanInvShowsEverything == ScanInv => ScansEverything
<1> SUFFICES ASSUME ScanInv PROVE ScansEverything
  OBVIOUS
<1>1. /\ visited \in Seq(ever) /\ always \subseteq ever /\ iterator \in Iterators
      /\ \A e \in ever : e[1] \in 1 .. Places
  BY DEF ScanInv, ScannerTypes
<1>2. DOMAIN visited \subseteq Int /\ \A p \in DOMAIN visited : visited[p] \in ever
  BY <1>1
<1>3. ASSUME NEW p \in DOMAIN visited, NEW q \in DOMAIN visited, visited[p][1] = visited[q][1]
      PROVE  p = q
  <2>1. p \in Int /\ q \in Int /\ visited[p][1] \in Int /\ visited[q][1] \in Int
    BY <1>1, <1>2
  <2>2. ~(p < q) /\ ~(q < p)
    BY <1>3, <2>1 DEF ScanInv, ShownInOrder
  <2> QED BY <2>1, <2>2
<1>4. ToSet(visited) \subseteq ever
  BY <1>2 DEF ToSet
<1>5. ASSUME iterator.reachedEnd, ~iterator.mError, Exhausted(iterator), NEW e \in always
      PROVE  e \in ToSet(visited)
  <2>1. Bound(iterator) = Places /\ e[1] <= Places
    BY <1>1, <1>5, ScannersAssumption DEF Bound
  <2>2. ToShow(iterator) = {}
    BY <1>1, <1>5, IteratorFields DEF ToShow, Exhausted
  <2> QED BY <1>5, <2>1, <2>2 DEF ScanInv, NoneMissing
<1> QED BY <1>3, <1>4, <1>5 DEF ScansEverything

\* A walk that ends without an error has shown every element that was there all
\* along, exactly once and nothing else, for any number of places, any COUNT, any
\* changes by others between the batches and any failed requests: the four
\* iterators' fillFromBackend() and next().
THEOREM ScansShowEverything == ScannerSpec => []ScansEverything
<1>1. ScannerSpec => []ScanInv
  BY InitScanInv, ScanInvInductive, PTL DEF ScannerSpec
<1> QED BY <1>1, ScanInvShowsEverything, PTL

-----------------------------------------------------------------------------
(* Handshakes: the inductive invariant                                       *)

IsSequence(s) == \E S : s \in Seq(S)

Links == 1 .. Len(links)
HmacFields == [initiated : BOOLEAN, receivedChallenge : BOOLEAN, randomBytes : Nat,
               stringToSign : Nat]

HandshakeTypes ==
  /\ links \in Seq(LinkKinds)
  /\ firstDone \in [1 .. Len(links) - 1 -> BOOLEAN]
  /\ hmac \in [Links -> HmacFields]
  /\ inHandshake \in BOOLEAN
  /\ IsSequence(handshakeRequests) /\ IsSequence(accepted)
  /\ drawn \in Nat /\ drawnBefore \in Nat /\ drawnBefore <= drawn
  /\ connections \in Nat
  /\ connections = 0 => ~inHandshake
  /\ links = <<>> => handshakeRequests = <<>> /\ ~inHandshake

\* The link at k has asked what its state says, and nothing else is under way.
Asking(k) ==
  LET first == RequestsBefore(k) + 1 IN
  IF links[k] # "hmac"
  THEN Len(accepted) = RequestsBefore(k) /\ handshakeRequests[first] = <<links[k]>>
  ELSE /\ hmac[k].initiated /\ hmac[k].randomBytes \in drawnBefore + 1 .. drawn
       /\ handshakeRequests[first] = <<"challenge", hmac[k].randomBytes>>
       /\ IF hmac[k].receivedChallenge
          THEN /\ Len(accepted) = RequestsBefore(k) + 1
               /\ hmac[k].stringToSign = hmac[k].randomBytes
               /\ accepted[first] = Challenge(hmac[k].randomBytes)
               /\ handshakeRequests[first + 1] = <<"validate", hmac[k].randomBytes>>
          ELSE Len(accepted) = RequestsBefore(k)

\* The links before k had their exchanges, those behind it are as new.
At(k) ==
  /\ \A j \in 1 .. Len(links) - 1 : firstDone[j] <=> j < k
  /\ \A j \in 1 .. k - 1 : Exchanged(j)
  /\ \A j \in k + 1 .. Len(links) : hmac[j] = FreshHmac
  /\ Len(handshakeRequests) = Len(accepted) + 1
  /\ Asking(k)

HandshakesInv ==
  /\ HandshakeTypes
  /\ inHandshake /\ ~Over => \E k \in Links : At(k)
  /\ AdmittedOnlyAfterAll

-----------------------------------------------------------------------------
(* The place of a link's requests among those of a connection                *)

Signing(n) == {j \in 1 .. n : links[j] = "hmac"}

LEMMA SigningFinite ==
  ASSUME NEW n \in Nat
  PROVE  IsFiniteSet(Signing(n)) /\ Cardinality(Signing(n)) \in Nat
<1>1. IsFiniteSet(1 .. n)
  BY FS_Interval
<1>2. IsFiniteSet(Signing(n))
  BY <1>1, FS_Subset DEF Signing
<1> QED BY <1>2, FS_CardinalityType

LEMMA PlaceIs ==
  ASSUME NEW k \in Nat, k >= 1
  PROVE  /\ RequestsBefore(k) = k - 1 + Cardinality(Signing(k - 1))
         /\ RequestsBefore(k) \in Nat
<1>1. Cardinality(Signing(k - 1)) \in Nat
  BY SigningFinite
<1>2. RequestsBefore(k) = k - 1 + Cardinality(Signing(k - 1))
  BY DEF RequestsBefore, Signing
<1> QED BY <1>1, <1>2

LEMMA FirstPlace == RequestsBefore(1) = 0
<1>1. Signing(0) = {}
  BY DEF Signing
<1>2. RequestsBefore(1) = 1 - 1 + Cardinality(Signing(1 - 1))
  BY PlaceIs
<1>3. 1 - 1 = 0 /\ Cardinality({}) = 0
  BY FS_EmptySet
<1> QED BY <1>1, <1>2, <1>3

LEMMA NextPlace ==
  ASSUME NEW k \in Nat, k >= 1
  PROVE  RequestsBefore(k + 1) = RequestsBefore(k) + IF links[k] = "hmac" THEN 2 ELSE 1
<1>1. /\ IsFiniteSet(Signing(k - 1)) /\ Cardinality(Signing(k - 1)) \in Nat
      /\ k \notin Signing(k - 1)
  BY SigningFinite DEF Signing
<1>2. RequestsBefore(k + 1) = k + Cardinality(Signing(k))
  <2>1. k + 1 - 1 = k /\ k + 1 \in Nat /\ k + 1 >= 1
    OBVIOUS
  <2>2. RequestsBefore(k + 1) = k + 1 - 1 + Cardinality(Signing(k + 1 - 1))
    BY <2>1, PlaceIs
  <2> QED BY <2>1, <2>2
<1>3. RequestsBefore(k) = k - 1 + Cardinality(Signing(k - 1))
  BY PlaceIs
<1>4. CASE links[k] = "hmac"
  <2>1. Signing(k) = Signing(k - 1) \cup {k}
    BY <1>4 DEF Signing
  <2>2. Cardinality(Signing(k)) = Cardinality(Signing(k - 1)) + 1
    BY <1>1, <2>1, FS_AddElement
  <2> QED BY <1>1, <1>2, <1>3, <1>4, <2>2
<1>5. CASE links[k] # "hmac"
  <2>1. Signing(k) = Signing(k - 1)
    BY <1>5 DEF Signing
  <2> QED BY <1>1, <1>2, <1>3, <1>5, <2>1
<1> QED BY <1>4, <1>5

LEMMA PlacesInOrder ==
  ASSUME NEW j \in Nat, NEW k \in Nat, j >= 1, j < k
  PROVE  RequestsBefore(j + 1) <= RequestsBefore(k)
<1>1. /\ RequestsBefore(j + 1) = j + Cardinality(Signing(j))
      /\ RequestsBefore(k) = k - 1 + Cardinality(Signing(k - 1))
  <2>1. j + 1 - 1 = j /\ j + 1 \in Nat /\ j + 1 >= 1 /\ k >= 1
    OBVIOUS
  <2>2. RequestsBefore(j + 1) = j + 1 - 1 + Cardinality(Signing(j + 1 - 1))
    BY <2>1, PlaceIs
  <2> QED BY <2>1, <2>2, PlaceIs
<1>2. k - 1 \in Nat /\ j <= k - 1
  OBVIOUS
<1>3. Signing(j) \subseteq Signing(k - 1)
  BY <1>2 DEF Signing
<1>4. /\ IsFiniteSet(Signing(k - 1)) /\ Cardinality(Signing(k - 1)) \in Nat
      /\ Cardinality(Signing(j)) \in Nat
  BY <1>2, SigningFinite
<1>5. Cardinality(Signing(j)) <= Cardinality(Signing(k - 1))
  BY <1>3, <1>4, FS_Subset
<1> QED BY <1>1, <1>2, <1>4, <1>5

\* The outermost chainer whose first part is done decides.
LEMMA CurrentIs ==
  ASSUME NEW n \in Nat, NEW k \in 1 .. n + 1, NEW done \in [1 .. n -> BOOLEAN],
         \A j \in 1 .. n : done[j] <=> j < k
  PROVE  CurrentLink(done) = k
<1> DEFINE S == {0} \cup {j \in DOMAIN done : done[j]}
<1>1. S = 0 .. k - 1
  <2>1. \A j \in DOMAIN done : done[j] <=> j < k
    OBVIOUS
  <2>2. DOMAIN done = 1 .. n
    OBVIOUS
  <2> QED BY <2>1, <2>2
<1>2. CurrentLink(done) = 1 + Max(S)
  BY DEF CurrentLink
<1> HIDE DEF S
<1>3. k - 1 \in S /\ \A y \in S : k - 1 >= y
  BY <1>1
<1>4. \A x \in S : (\A y \in S : x >= y) => x = k - 1
  BY <1>1, <1>3
<1>5. Max(S) = k - 1
  BY <1>3, <1>4 DEF Max
<1> QED BY <1>2, <1>5

-----------------------------------------------------------------------------
(* Sequences whose elements are of no matter                                  *)

LEMMA Appended ==
  ASSUME NEW s, IsSequence(s), NEW x
  PROVE  /\ IsSequence(Append(s, x)) /\ Len(s) \in Nat
         /\ Len(Append(s, x)) = Len(s) + 1
         /\ Append(s, x)[Len(s) + 1] = x
         /\ \A p \in 1 .. Len(s) : Append(s, x)[p] = s[p]
         /\ Append(s, x) # <<>> /\ Last(Append(s, x)) = x
<1>1. PICK S : s \in Seq(S)
  BY DEF IsSequence
<1>2. s \in Seq(S \cup {x}) /\ x \in S \cup {x}
  BY <1>1, SeqMonotonic
<1>3. /\ Append(s, x) \in Seq(S \cup {x}) /\ Len(s) \in Nat
      /\ Len(Append(s, x)) = Len(s) + 1
      /\ Append(s, x)[Len(s) + 1] = x
      /\ \A p \in 1 .. Len(s) : Append(s, x)[p] = s[p]
  BY <1>2
<1>4. Append(s, x) # <<>>
  BY <1>3, EmptySeq
<1> QED BY <1>3, <1>4 DEF IsSequence, Last

LEMMA EmptyIsSequence == IsSequence(<<>>) /\ Len(<<>>) = 0
BY EmptySeq DEF IsSequence
-----------------------------------------------------------------------------
(* Each step keeps the invariant                                             *)

\* An exchange that was had stays, as the sequences only grow.
LEMMA ExchangedStays ==
  ASSUME HandshakeTypes, NEW j \in Links, Exchanged(j),
         links' = links, drawnBefore' = drawnBefore, drawn' \in Nat, drawn <= drawn',
         RequestsBefore(j + 1) <= Len(handshakeRequests),
         RequestsBefore(j + 1) <= Len(accepted) + 1,
         \A p \in 1 .. Len(handshakeRequests) : handshakeRequests'[p] = handshakeRequests[p],
         \A p \in 1 .. Len(accepted) : accepted'[p] = accepted[p]
  PROVE  Exchanged(j)'
<1> DEFINE first == RequestsBefore(j) + 1
<1>1. /\ j \in Nat /\ j >= 1 /\ RequestsBefore(j) \in Nat
      /\ RequestsBefore(j + 1) = RequestsBefore(j) + IF links[j] = "hmac" THEN 2 ELSE 1
      /\ Len(handshakeRequests) \in Nat /\ Len(accepted) \in Nat
  <2>1. j \in Nat /\ j >= 1
    BY DEF Links, HandshakeTypes
  <2>2. IsSequence(handshakeRequests) /\ IsSequence(accepted)
    BY DEF HandshakeTypes
  <2>3. Len(handshakeRequests) \in Nat /\ Len(accepted) \in Nat
    BY <2>2, Appended
  <2> QED BY <2>1, <2>3, PlaceIs, NextPlace
<1>2. first \in 1 .. Len(handshakeRequests)
  BY <1>1
<1>3. links[j] = "hmac" =>
        first + 1 \in 1 .. Len(handshakeRequests) /\ first \in 1 .. Len(accepted)
  BY <1>1
<1>4. RequestsBefore(j)' = RequestsBefore(j)
  BY DEF RequestsBefore
<1> HIDE DEF first
<1>5. /\ handshakeRequests'[first] = handshakeRequests[first]
      /\ links[j] = "hmac" => /\ accepted'[first] = accepted[first]
                              /\ handshakeRequests'[first + 1] = handshakeRequests[first + 1]
  BY <1>2, <1>3
<1>6. CASE links[j] = "hmac"
  <2>1. PICK n \in drawnBefore + 1 .. drawn :
          /\ handshakeRequests[first] = <<"challenge", n>>
          /\ accepted[first] = Challenge(n)
          /\ handshakeRequests[first + 1] = <<"validate", n>>
    BY <1>6 DEF Exchanged, first
  <2>2. n \in drawnBefore' + 1 .. drawn'
    BY DEF HandshakeTypes
  <2> QED BY <1>4, <1>5, <1>6, <2>1, <2>2 DEF Exchanged, first, Challenge
<1>7. CASE links[j] # "hmac"
  BY <1>4, <1>5, <1>7 DEF Exchanged, first
<1> QED BY <1>6, <1>7

LEMMA InitiatedHmac ==
  ASSUME NEW h \in HmacFields, NEW n \in Nat
  PROVE  LET i == [h EXCEPT !.initiated = TRUE, !.randomBytes = n + 1] IN
         /\ i \in HmacFields /\ i.initiated /\ i.randomBytes = n + 1
         /\ i.receivedChallenge = h.receivedChallenge
<1>1. PICK g : g = [h EXCEPT !.initiated = TRUE]
  OBVIOUS
<1>2. g \in HmacFields /\ g.initiated /\ g.receivedChallenge = h.receivedChallenge
  BY <1>1 DEF HmacFields
<1> PICK m \in Nat : m = n + 1
  OBVIOUS
<1>3. PICK i : i = [g EXCEPT !.randomBytes = m]
  OBVIOUS
<1>4. /\ i \in HmacFields /\ i.initiated = g.initiated /\ i.randomBytes = m
      /\ i.receivedChallenge = g.receivedChallenge
  BY <1>2, <1>3 DEF HmacFields
<1>5. i = [h EXCEPT !.initiated = TRUE, !.randomBytes = n + 1]
  BY <1>1, <1>3
<1> QED BY <1>2, <1>4, <1>5, Zenon

LEMMA OneMoreDrawn ==
  ASSUME NEW b \in Nat, NEW d \in Nat, b <= d
  PROVE  d + 1 \in b + 1 .. d + 1
OBVIOUS

\* A link that is as new, asked for its request, is the one that asks.
LEMMA FreshLinkAsks ==
  ASSUME HandshakeTypes, NEW k \in Links, NEW done, CurrentLink(done) = k,
         NEW states \in [Links -> HmacFields], states[k] = FreshHmac,
         NEW requests, IsSequence(requests), Len(requests) = RequestsBefore(k),
         Provide(done, states, requests),
         links' = links, drawnBefore' \in Nat, drawnBefore' <= drawn,
         Len(accepted') = RequestsBefore(k)
  PROVE  /\ Asking(k)'
         /\ IsSequence(handshakeRequests)' /\ Len(handshakeRequests') = Len(requests) + 1
         /\ \A p \in 1 .. Len(requests) : handshakeRequests'[p] = requests[p]
         /\ hmac' \in [Links -> HmacFields]
         /\ \A j \in Links : j # k => hmac'[j] = states[j]
         /\ drawn' \in Nat /\ drawn <= drawn'
<1> DEFINE provided == ProvideHandshake(k, states[k], drawn)
<1>1. /\ handshakeRequests' = Append(requests, provided.request)
      /\ hmac' = [states EXCEPT ![k] = provided.hmac]
      /\ drawn' = provided.drawn
  BY DEF Provide
<1>2. /\ drawn \in Nat /\ k \in Nat /\ RequestsBefore(k)' = RequestsBefore(k)
      /\ links'[k] = links[k]
  BY DEF HandshakeTypes, Links, RequestsBefore
<1>3. /\ FreshHmac \in HmacFields /\ ~FreshHmac.initiated /\ ~FreshHmac.receivedChallenge
  BY DEF FreshHmac, HmacFields
<1>4. CASE links[k] # "hmac"
  <2>1. /\ provided.request = <<links[k]>> /\ provided.hmac = FreshHmac
        /\ provided.drawn = drawn
    BY <1>4 DEF ProvideHandshake
  <2> HIDE DEF provided
  <2>2. /\ handshakeRequests'[RequestsBefore(k) + 1] = <<links[k]>>
        /\ IsSequence(handshakeRequests') /\ Len(handshakeRequests') = Len(requests) + 1
        /\ \A p \in 1 .. Len(requests) : handshakeRequests'[p] = requests[p]
    BY <1>1, <2>1, Appended
  <2>3. Asking(k)'
    BY <1>2, <1>4, <2>2 DEF Asking
  <2>4. /\ hmac' \in [Links -> HmacFields]
        /\ \A j \in Links : j # k => hmac'[j] = states[j]
    BY <1>1, <1>3, <2>1
  <2> QED BY <1>1, <1>2, <2>1, <2>2, <2>3, <2>4 DEF IsSequence
<1>5. CASE links[k] = "hmac"
  <2> DEFINE h == [FreshHmac EXCEPT !.initiated = TRUE, !.randomBytes = drawn + 1]
  <2>1. /\ provided.request = <<"challenge", drawn + 1>> /\ provided.hmac = h
        /\ provided.drawn = drawn + 1
    BY <1>3, <1>5 DEF ProvideHandshake
  <2> HIDE DEF provided
  <2>2. /\ handshakeRequests'[RequestsBefore(k) + 1] = <<"challenge", drawn + 1>>
        /\ IsSequence(handshakeRequests') /\ Len(handshakeRequests') = Len(requests) + 1
        /\ \A p \in 1 .. Len(requests) : handshakeRequests'[p] = requests[p]
    BY <1>1, <2>1, Appended
  <2>3. /\ h \in HmacFields /\ h.initiated /\ h.randomBytes = drawn + 1
        /\ ~h.receivedChallenge
    BY <1>2, <1>3, InitiatedHmac
  <2> HIDE DEF h
  <2>4. hmac'[k] = h
    BY <1>1, <2>1
  <2>5. drawn + 1 \in drawnBefore' + 1 .. drawn' /\ drawn' = drawn + 1
    <3>1. drawn' = drawn + 1
      BY <1>1, <2>1
    <3> QED BY <1>2, <3>1, OneMoreDrawn
  <2>6. Asking(k)'
    BY <1>2, <1>5, <2>2, <2>3, <2>4, <2>5 DEF Asking
  <2>7. /\ hmac' \in [Links -> HmacFields]
        /\ \A j \in Links : j # k => hmac'[j] = states[j]
    BY <1>1, <2>1, <2>3
  <2> QED BY <1>2, <2>2, <2>5, <2>6, <2>7 DEF IsSequence
<1> QED BY <1>4, <1>5

LEMMA InitHandshakesInv == HandshakesInit => HandshakesInv
<1> SUFFICES ASSUME HandshakesInit PROVE HandshakesInv
  OBVIOUS
<1>1. PICK n \in 0 .. MaxLinks : links \in [1 .. n -> LinkKinds]
  BY DEF HandshakesInit
<1>2. links \in Seq(LinkKinds)
  BY <1>1
<1>3. /\ firstDone = [k \in 1 .. Len(links) - 1 |-> FALSE]
      /\ hmac = [k \in 1 .. Len(links) |-> FreshHmac]
      /\ inHandshake = FALSE /\ handshakeRequests = <<>> /\ accepted = <<>>
      /\ drawn = 0 /\ drawnBefore = 0 /\ connections = 0
  BY DEF HandshakesInit
<1>4. FreshHmac \in HmacFields
  BY DEF FreshHmac, HmacFields
<1>5. HandshakeTypes
  <2>1. firstDone \in [1 .. Len(links) - 1 -> BOOLEAN] /\ hmac \in [Links -> HmacFields]
    BY <1>3, <1>4 DEF Links
  <2>2. IsSequence(handshakeRequests) /\ IsSequence(accepted)
    BY <1>3, EmptyIsSequence
  <2>3. /\ inHandshake \in BOOLEAN /\ drawn \in Nat /\ drawnBefore \in Nat /\ drawnBefore <= drawn
        /\ connections \in Nat
    <3>1. drawn = 0 /\ drawnBefore = 0 /\ connections = 0
      BY <1>3
    <3>2. drawn \in Nat /\ drawnBefore \in Nat /\ drawnBefore <= drawn /\ connections \in Nat
      BY <3>1
    <3> QED BY <1>3, <3>2
  <2>4. ~inHandshake /\ handshakeRequests = <<>>
    BY <1>3
  <2> QED BY <1>2, <2>1, <2>2, <2>3, <2>4 DEF HandshakeTypes
<1> QED BY <1>3, <1>5 DEF HandshakesInv, AdmittedOnlyAfterAll

LEMMA ReconnectionKeeps == ASSUME HandshakesInv, Reconnection PROVE HandshakesInv'
<1> USE DEF HandshakesInv
<1>1. /\ connections' = connections + 1 /\ accepted' = <<>> /\ drawnBefore' = drawn
      /\ inHandshake' = (links # <<>>) /\ links' = links
  BY DEF Reconnection
<1>2. /\ connections \in Nat /\ drawn \in Nat /\ links \in Seq(LinkKinds) /\ Len(links) \in Nat
      /\ firstDone \in [1 .. Len(links) - 1 -> BOOLEAN] /\ hmac \in [Links -> HmacFields]
  BY DEF HandshakeTypes
<1>3. Links' = Links /\ IsSequence(accepted') /\ Len(accepted') = 0
  BY <1>1, EmptyIsSequence DEF Links
<1>4. CASE links = <<>>
  <2>1. UNCHANGED <<firstDone, hmac, handshakeRequests, drawn>>
    BY <1>4 DEF Reconnection
  <2>2. HandshakeTypes'
    BY <1>1, <1>2, <1>3, <1>4, <2>1 DEF HandshakeTypes
  <2>3. AdmittedOnlyAfterAll'
    <3>1. Len(links') = 0 /\ DOMAIN links' = {} /\ handshakeRequests' = <<>>
      BY <1>1, <1>4, <2>1, EmptySeq DEF HandshakeTypes
    <3>2. RequestsBefore(1)' = RequestsBefore(1)
      BY <1>1 DEF RequestsBefore
    <3>3. RequestsBefore(Len(links) + 1)' = 0
      BY <3>1, <3>2, FirstPlace
    <3> QED BY <1>3, <3>1, <3>3, EmptyIsSequence DEF AdmittedOnlyAfterAll
  <2> QED BY <1>1, <1>4, <2>2, <2>3
<1>5. CASE links # <<>>
  <2>1. /\ firstDone' = Restarted.done /\ Provide(Restarted.done, Restarted.hmac, <<>>)
    BY <1>5 DEF Reconnection
  <2>2. /\ Restarted.done = [k \in 1 .. Len(links) - 1 |-> FALSE]
        /\ Restarted.hmac = [k \in Links |-> FreshHmac]
    BY <1>2 DEF Restarted
  <2>3. 1 \in Links /\ Len(links) - 1 \in Nat /\ Len(links) - 1 + 1 = Len(links)
    BY <1>2, <1>5, EmptySeq DEF Links
  <2>4. CurrentLink(Restarted.done) = 1
    <3>1. Restarted.done \in [1 .. Len(links) - 1 -> BOOLEAN]
      BY <2>2
    <3>2. \A j \in 1 .. Len(links) - 1 : Restarted.done[j] <=> j < 1
      BY <2>2
    <3> QED BY <2>3, <3>1, <3>2, CurrentIs DEF Links
  <2>5. Restarted.hmac \in [Links -> HmacFields] /\ Restarted.hmac[1] = FreshHmac
    BY <2>2, <2>3 DEF FreshHmac, HmacFields
  <2>6. /\ Asking(1)' /\ IsSequence(handshakeRequests)'
        /\ Len(handshakeRequests') = 0 + 1
        /\ hmac' \in [Links -> HmacFields]
        /\ \A j \in Links : j # 1 => hmac'[j] = Restarted.hmac[j]
        /\ drawn' \in Nat /\ drawn <= drawn'
    <3>1. /\ drawnBefore' \in Nat /\ drawnBefore' <= drawn
          /\ Len(accepted') = RequestsBefore(1) /\ Len(<<>>) = RequestsBefore(1)
          /\ IsSequence(<<>>)
      BY <1>1, <1>2, <1>3, FirstPlace, EmptyIsSequence
    <3> DEFINE done == Restarted.done
               states == Restarted.hmac
    <3>2. CurrentLink(done) = 1 /\ states \in [Links -> HmacFields] /\ states[1] = FreshHmac
      BY <2>4, <2>5
    <3>3. Provide(done, states, <<>>)
      BY <2>1
    <3> HIDE DEF done, states
    <3>4. /\ Asking(1)' /\ IsSequence(handshakeRequests)'
          /\ Len(handshakeRequests') = Len(<<>>) + 1
          /\ hmac' \in [Links -> HmacFields]
          /\ \A j \in Links : j # 1 => hmac'[j] = states[j]
          /\ drawn' \in Nat /\ drawn <= drawn'
      <4>1. links' = links
        BY <1>1
      <4>2. PICK k \in Links : k = 1
        BY <2>3
      <4>3. PICK requests : requests = <<>>
        OBVIOUS
      <4>4. CurrentLink(done) = k /\ states \in [Links -> HmacFields] /\ states[k] = FreshHmac
        BY <3>2, <4>2
      <4>5. Provide(done, states, requests)
        BY <3>3, <4>2, <4>3
      <4>6. /\ drawnBefore' \in Nat /\ drawnBefore' <= drawn /\ IsSequence(requests)
            /\ Len(requests) = RequestsBefore(k) /\ Len(accepted') = RequestsBefore(k)
        BY <3>1, <4>2, <4>3
      <4>7. /\ Asking(k)' /\ IsSequence(handshakeRequests)'
            /\ Len(handshakeRequests') = Len(requests) + 1
            /\ hmac' \in [Links -> HmacFields]
            /\ \A j \in Links : j # k => hmac'[j] = states[j]
            /\ drawn' \in Nat /\ drawn <= drawn'
        <5>1. HandshakeTypes
          OBVIOUS
        <5> QED BY <4>1, <4>4, <4>5, <4>6, <5>1, FreshLinkAsks
      <4> QED BY <4>2, <4>3, <4>7 DEF Asking
    <3> QED BY <3>4, EmptyIsSequence DEF states
  <2>7. At(1)'
    <3>1. \A j \in 1 .. Len(links') - 1 : firstDone'[j] <=> j < 1
      BY <1>1, <2>1, <2>2
    <3>2. \A j \in 1 + 1 .. Len(links') : hmac'[j] = FreshHmac
      BY <1>1, <2>2, <2>6 DEF Links
    <3> QED BY <1>3, <2>6, <3>1, <3>2 DEF At, FreshHmac
  <2>8. HandshakeTypes'
    <3>1. firstDone' \in [1 .. Len(links') - 1 -> BOOLEAN] /\ hmac' \in [Links' -> HmacFields]
      BY <1>1, <1>3, <2>1, <2>2, <2>6
    <3>2. connections' \in Nat /\ connections' # 0 /\ inHandshake' \in BOOLEAN
      BY <1>1, <1>2
    <3>3. drawn' \in Nat /\ drawnBefore' \in Nat /\ drawnBefore' <= drawn'
      BY <1>1, <1>2, <2>6
    <3> QED BY <1>1, <1>2, <1>3, <1>5, <2>6, <3>1, <3>2, <3>3 DEF HandshakeTypes
  <2> QED BY <1>1, <1>3, <1>5, <2>3, <2>7, <2>8 DEF AdmittedOnlyAfterAll
<1> QED BY <1>4, <1>5
\* The sequences of a connection, and what was drawn, only grow.
Grown ==
  /\ links' = links /\ drawnBefore' = drawnBefore /\ drawn' \in Nat /\ drawn <= drawn'
  /\ \A p \in 1 .. Len(handshakeRequests) : handshakeRequests'[p] = handshakeRequests[p]
  /\ \A p \in 1 .. Len(accepted) : accepted'[p] = accepted[p]

LEMMA Lengths ==
  ASSUME HandshakeTypes, NEW k \in Links, At(k)
  PROVE  /\ k \in Nat /\ k >= 1 /\ RequestsBefore(k) \in Nat
         /\ IsSequence(handshakeRequests) /\ IsSequence(accepted)
         /\ Len(accepted) \in Nat /\ Len(handshakeRequests) = Len(accepted) + 1
         /\ RequestsBefore(k) <= Len(accepted)
         /\ RequestsBefore(k + 1) = RequestsBefore(k) + IF links[k] = "hmac" THEN 2 ELSE 1
         /\ Len(accepted) = RequestsBefore(k) +
              IF links[k] = "hmac" /\ hmac[k].receivedChallenge THEN 1 ELSE 0
<1>1. k \in Nat /\ k >= 1
  BY DEF Links, HandshakeTypes
<1>2. IsSequence(handshakeRequests) /\ IsSequence(accepted) /\ Len(accepted) \in Nat
  BY Appended DEF HandshakeTypes
<1>3. /\ RequestsBefore(k) \in Nat
      /\ RequestsBefore(k + 1) = RequestsBefore(k) + IF links[k] = "hmac" THEN 2 ELSE 1
  BY <1>1, PlaceIs, NextPlace
<1>4. Len(handshakeRequests) = Len(accepted) + 1
  BY DEF At
<1>5. Asking(k)
  BY DEF At
<1>6. CASE links[k] # "hmac"
  <2>1. Len(accepted) = RequestsBefore(k)
    BY <1>5, <1>6 DEF Asking
  <2> QED BY <1>1, <1>2, <1>3, <1>4, <1>6, <2>1
<1>7. CASE links[k] = "hmac" /\ hmac[k].receivedChallenge
  <2>1. Len(accepted) = RequestsBefore(k) + 1
    BY <1>5, <1>7 DEF Asking
  <2> QED BY <1>1, <1>2, <1>3, <1>4, <1>7, <2>1
<1>8. CASE links[k] = "hmac" /\ ~hmac[k].receivedChallenge
  <2>1. Len(accepted) = RequestsBefore(k)
    BY <1>5, <1>8 DEF Asking
  <2> QED BY <1>1, <1>2, <1>3, <1>4, <1>8, <2>1
<1> QED BY <1>6, <1>7, <1>8

LEMMA EarlierStay ==
  ASSUME HandshakeTypes, NEW k \in Links, At(k), Grown
  PROVE  \A j \in 1 .. k - 1 : Exchanged(j)'
<1> SUFFICES ASSUME NEW j \in 1 .. k - 1 PROVE Exchanged(j)'
  OBVIOUS
<1>1. /\ k \in Nat /\ RequestsBefore(k) \in Nat /\ RequestsBefore(k) <= Len(accepted)
      /\ Len(accepted) \in Nat /\ Len(handshakeRequests) = Len(accepted) + 1
  BY Lengths
<1>2. j \in Nat /\ j >= 1 /\ j < k /\ j \in Links /\ Exchanged(j)
  BY <1>1 DEF At, Links, HandshakeTypes
<1>3. RequestsBefore(j + 1) <= RequestsBefore(k) /\ RequestsBefore(j + 1) \in Nat
  BY <1>1, <1>2, PlacesInOrder, PlaceIs
<1>4. /\ RequestsBefore(j + 1) <= Len(handshakeRequests)
      /\ RequestsBefore(j + 1) <= Len(accepted) + 1
  BY <1>1, <1>3
<1> QED BY <1>2, <1>4, ExchangedStays DEF Grown

\* The link that asks has all but the last reply of its exchange, or the first of two.
LEMMA NowExchanged ==
  ASSUME HandshakeTypes, NEW k \in Links, At(k), Grown,
         links[k] # "hmac" \/ hmac[k].receivedChallenge
  PROVE  /\ RequestsBefore(k + 1) = Len(accepted) + 1
         /\ Exchanged(k)'
<1>1. /\ Len(accepted) \in Nat /\ Len(handshakeRequests) = Len(accepted) + 1
      /\ RequestsBefore(k) \in Nat /\ RequestsBefore(k + 1) = Len(accepted) + 1
  BY Lengths
<1>2. Asking(k)
  BY DEF At
<1>3. Exchanged(k)
  BY <1>2 DEF Asking, Exchanged
<1>4. /\ RequestsBefore(k + 1) <= Len(handshakeRequests)
      /\ RequestsBefore(k + 1) <= Len(accepted) + 1
  BY <1>1
<1> QED BY <1>1, <1>3, <1>4, ExchangedStays DEF Grown

\* What a reply makes of a link's state
LEMMA StatusIs ==
  ASSUME HandshakeTypes, NEW k \in Links, NEW reply
  PROVE  LET status == ValidateResponse(k, reply) IN
         /\ status \in {"invalid", "complete", "incomplete"}
         /\ status = "incomplete" =>
              /\ links[k] = "hmac" /\ ~hmac[k].receivedChallenge
              /\ reply = Challenge(hmac[k].randomBytes)
         /\ status = "complete" => /\ links[k] # "hmac" \/ hmac[k].receivedChallenge
                                   /\ Kept(k, reply) = hmac[k]
<1>1. links[k] \in LinkKinds
  BY DEF HandshakeTypes, Links
<1>2. CASE links[k] = "hmac"
  <2>1. ValidateResponse(k, reply) = HmacAuth(hmac[k], reply)
    BY <1>2 DEF ValidateResponse
  <2> QED BY <1>2, <2>1 DEF HmacAuth, CompleteIf, Kept
<1>3. CASE links[k] # "hmac"
  <2>1. ValidateResponse(k, reply) \in {"invalid", "complete"}
    BY <1>1, <1>3 DEF ValidateResponse, LinkKinds, Auth, Ping, ActivatePushTypes, SetClientName,
                      CompleteIf
  <2>2. Kept(k, reply) = hmac[k]
    BY <1>3 DEF Kept
  <2> QED BY <1>3, <2>1, <2>2
<1> QED BY <1>2, <1>3

LEMMA KeptFields ==
  ASSUME HandshakeTypes, NEW k \in Links, NEW reply \in AnyAnswers
  PROVE  Kept(k, reply) \in HmacFields
<1>1. hmac[k] \in HmacFields
  BY DEF HandshakeTypes
<1>2. reply[1] = "string" => reply[2] \in Nat
  BY DEF AnyAnswers, Ok, Challenge, HandshakeTypes
<1>3. ASSUME reply[1] = "string"
      PROVE  [hmac[k] EXCEPT !.receivedChallenge = TRUE, !.stringToSign = reply[2]] \in HmacFields
  <2>1. PICK n \in Nat : n = reply[2]
    BY <1>2, <1>3
  <2>2. PICK g : g = [hmac[k] EXCEPT !.receivedChallenge = TRUE]
    OBVIOUS
  <2>3. g \in HmacFields
    BY <1>1, <2>2 DEF HmacFields
  <2>4. [g EXCEPT !.stringToSign = n] \in HmacFields
    BY <2>3 DEF HmacFields
  <2> QED BY <2>1, <2>2, <2>4
<1> QED BY <1>1, <1>3 DEF Kept
\* After a reply that is not valid the connection is over.
LEMMA OverKeeps ==
  ASSUME HandshakesInv, inHandshake, NEW k \in Links, CurrentLink(firstDone) = k,
         NEW reply \in AnyAnswers, OverAfter(reply),
         UNCHANGED <<links, drawnBefore, connections>>
  PROVE  HandshakesInv'
<1> USE DEF HandshakesInv
<1>1. /\ hmac' = [hmac EXCEPT ![k] = Kept(k, reply)]
      /\ accepted' = Append(accepted, <<"invalid">>)
      /\ UNCHANGED <<firstDone, inHandshake, handshakeRequests, drawn>>
  BY DEF OverAfter
<1>2. IsSequence(accepted') /\ Over'
  BY <1>1, Appended DEF HandshakeTypes, Over
<1>3. hmac' \in [Links' -> HmacFields]
  BY <1>1, KeptFields DEF HandshakeTypes, Links
<1>4. HandshakeTypes'
  BY <1>1, <1>2, <1>3 DEF HandshakeTypes, IsSequence
<1> QED BY <1>1, <1>2, <1>4 DEF AdmittedOnlyAfterAll

\* The last reply of the last link ends the handshake.
LEMMA LastKeeps ==
  ASSUME HandshakesInv, inHandshake, NEW k \in Links, At(k), k = Len(links), NEW reply,
         links[k] # "hmac" \/ hmac[k].receivedChallenge,
         accepted' = Append(accepted, reply), inHandshake' = FALSE,
         UNCHANGED <<firstDone, hmac, handshakeRequests, drawn,
                     links, drawnBefore, connections>>
  PROVE  HandshakesInv'
<1> USE DEF HandshakesInv
<1>1. /\ IsSequence(accepted') /\ Len(accepted') = Len(accepted) + 1
      /\ \A p \in 1 .. Len(accepted) : accepted'[p] = accepted[p]
  BY Appended DEF HandshakeTypes
<1>2. Grown
  BY <1>1 DEF Grown, HandshakeTypes
<1>3. RequestsBefore(k + 1) = Len(accepted) + 1 /\ Exchanged(k)'
  BY <1>2, NowExchanged
<1>4. \A j \in 1 .. k - 1 : Exchanged(j)'
  BY <1>2, EarlierStay
<1>5. k \in Nat /\ Len(handshakeRequests) = Len(accepted) + 1
  BY Lengths
<1>6. DOMAIN links' = 1 .. k /\ Len(links') = k
  BY DEF HandshakeTypes
<1>7. \A j \in DOMAIN links' : Exchanged(j)'
  <2> SUFFICES ASSUME NEW j \in DOMAIN links' PROVE Exchanged(j)'
    OBVIOUS
  <2>1. j \in 1 .. k - 1 \/ j = k
    BY <1>5, <1>6
  <2> QED BY <1>3, <1>4, <2>1
<1>8. RequestsBefore(Len(links) + 1)' = RequestsBefore(k + 1)
  BY DEF RequestsBefore
<1>9. /\ Len(handshakeRequests') = RequestsBefore(Len(links) + 1)'
      /\ Len(accepted') = Len(handshakeRequests')
  BY <1>1, <1>3, <1>5, <1>8
<1>10. AdmittedOnlyAfterAll'
  BY <1>7, <1>9 DEF AdmittedOnlyAfterAll
<1>11. HandshakeTypes'
  <2>1. Links' = Links
    BY DEF Links
  <2> QED BY <1>1, <2>1 DEF HandshakeTypes, IsSequence
<1> QED BY <1>10, <1>11

\* The last reply of another link: the next asks.
LEMMA NextLinkKeeps ==
  ASSUME HandshakesInv, inHandshake, connections # 0, NEW k \in Links, At(k), k # Len(links),
         NEW reply, links[k] # "hmac" \/ hmac[k].receivedChallenge,
         NEW done, done = [firstDone EXCEPT ![k] = TRUE], firstDone' = done,
         Provide(done, hmac, handshakeRequests),
         accepted' = Append(accepted, reply), inHandshake' = TRUE,
         UNCHANGED <<links, drawnBefore, connections>>
  PROVE  HandshakesInv'
<1> USE DEF HandshakesInv
<1>1. /\ IsSequence(accepted') /\ Len(accepted') = Len(accepted) + 1
      /\ \A p \in 1 .. Len(accepted) : accepted'[p] = accepted[p]
  BY Appended DEF HandshakeTypes
<1>2. /\ k \in Nat /\ k >= 1 /\ Len(links) \in Nat /\ k <= Len(links) - 1
      /\ Links' = Links /\ links # <<>>
  <2>1. k \in 1 .. Len(links) /\ Len(links) \in Nat
    BY DEF Links, HandshakeTypes
  <2>2. links # <<>>
    BY <2>1, EmptySeq
  <2> QED BY <2>1, <2>2 DEF Links
<1>3. k + 1 \in Links /\ k \in 1 .. Len(links) - 1 /\ Len(links) - 1 \in Nat
  BY <1>2 DEF Links
<1>4. /\ done \in [1 .. Len(links) - 1 -> BOOLEAN]
      /\ \A j \in 1 .. Len(links) - 1 : done[j] <=> j < k + 1
  <2>1. /\ firstDone \in [1 .. Len(links) - 1 -> BOOLEAN]
        /\ \A j \in 1 .. Len(links) - 1 : firstDone[j] <=> j < k
    BY DEF HandshakeTypes, At
  <2>2. \A j \in 1 .. Len(links) - 1 : j < k + 1 <=> j < k \/ j = k
    BY <1>2
  <2> QED BY <1>3, <2>1, <2>2
<1> PICK m : m = k + 1
  OBVIOUS
<1>5. CurrentLink(done) = m
  <2>1. PICK n \in Nat : n = Len(links) - 1
    BY <1>3
  <2>2. /\ m \in 1 .. n + 1 /\ done \in [1 .. n -> BOOLEAN]
        /\ \A j \in 1 .. n : done[j] <=> j < m
    BY <1>2, <1>4, <2>1
  <2> QED BY <2>1, <2>2, CurrentIs
<1>6. /\ Len(accepted) \in Nat /\ Len(handshakeRequests) = Len(accepted) + 1
      /\ RequestsBefore(m) = Len(accepted) + 1
  <2>1. RequestsBefore(k + 1) = Len(accepted) + 1
    BY Lengths
  <2> QED BY <2>1, Lengths
<1>7. hmac \in [Links -> HmacFields] /\ hmac[m] = FreshHmac
  BY <1>2, <1>3 DEF HandshakeTypes, At, Links
<1>8. /\ Asking(m)'
      /\ IsSequence(handshakeRequests)'
      /\ Len(handshakeRequests') = Len(handshakeRequests) + 1
      /\ \A p \in 1 .. Len(handshakeRequests) : handshakeRequests'[p] = handshakeRequests[p]
      /\ hmac' \in [Links -> HmacFields]
      /\ \A j \in Links : j # m => hmac'[j] = hmac[j]
      /\ drawn' \in Nat /\ drawn <= drawn'
  <2>1. /\ IsSequence(handshakeRequests)
        /\ Len(handshakeRequests) = RequestsBefore(m) /\ Len(accepted') = RequestsBefore(m)
        /\ drawnBefore' \in Nat /\ drawnBefore' <= drawn
    BY <1>1, <1>6 DEF HandshakeTypes
  <2> QED BY <1>3, <1>5, <1>7, <2>1, FreshLinkAsks
<1>9. Grown
  BY <1>1, <1>8 DEF Grown
<1>10. \A j \in 1 .. m - 1 : Exchanged(j)'
  <2>1. Exchanged(k)'
    BY <1>9, NowExchanged
  <2>2. \A j \in 1 .. k - 1 : Exchanged(j)'
    BY <1>9, EarlierStay
  <2>3. \A j \in 1 .. m - 1 : j \in 1 .. k - 1 \/ j = k
    BY <1>2
  <2> QED BY <2>1, <2>2, <2>3
<1>11. \A j \in m + 1 .. Len(links') : hmac'[j] = FreshHmac
  <2> SUFFICES ASSUME NEW j \in m + 1 .. Len(links) PROVE hmac'[j] = FreshHmac
    OBVIOUS
  <2>1. j \in k + 1 .. Len(links) /\ j # m /\ j \in Links
    BY <1>2 DEF Links
  <2> QED BY <1>8, <2>1 DEF At
<1>12. At(m)'
  <2>1. \A j \in 1 .. Len(links') - 1 : firstDone'[j] <=> j < m
    BY <1>4
  <2>2. Len(handshakeRequests') = Len(accepted') + 1
    BY <1>1, <1>6, <1>8
  <2> QED BY <1>8, <1>10, <1>11, <2>1, <2>2 DEF At, FreshHmac
<1>13. HandshakeTypes'
  <2>1. firstDone' \in [1 .. Len(links') - 1 -> BOOLEAN] /\ hmac' \in [Links' -> HmacFields]
    BY <1>2, <1>4, <1>8
  <2>2. drawnBefore' <= drawn' /\ drawnBefore' \in Nat
    BY <1>8 DEF HandshakeTypes
  <2> QED BY <1>1, <1>2, <1>8, <2>1, <2>2 DEF HandshakeTypes
<1>14. m \in Links' /\ AdmittedOnlyAfterAll'
  BY <1>2, <1>3 DEF AdmittedOnlyAfterAll
<1> QED BY <1>12, <1>13, <1>14

\* The challenge of this connection: the same link asks for what it signed.
LEMMA ChallengeKeeps ==
  ASSUME HandshakesInv, inHandshake, connections # 0, NEW k \in Links, At(k),
         CurrentLink(firstDone) = k,
         links[k] = "hmac", ~hmac[k].receivedChallenge,
         NEW reply, reply = Challenge(hmac[k].randomBytes),
         NEW states, states = [hmac EXCEPT ![k] = Kept(k, reply)],
         Provide(firstDone, states, handshakeRequests), firstDone' = firstDone,
         accepted' = Append(accepted, reply), inHandshake' = TRUE,
         UNCHANGED <<links, drawnBefore, connections>>
  PROVE  HandshakesInv'
<1> USE DEF HandshakesInv
<1>1. /\ IsSequence(accepted') /\ Len(accepted') = Len(accepted) + 1
      /\ \A p \in 1 .. Len(accepted) : accepted'[p] = accepted[p]
      /\ accepted'[Len(accepted) + 1] = reply
  BY Appended DEF HandshakeTypes
<1>2. /\ hmac \in [Links -> HmacFields] /\ hmac[k] \in HmacFields /\ Links' = Links
      /\ IsSequence(handshakeRequests) /\ drawn \in Nat
  BY DEF HandshakeTypes, Links
<1>3. /\ Len(accepted) \in Nat /\ Len(handshakeRequests) = Len(accepted) + 1
      /\ RequestsBefore(k) = Len(accepted) /\ k \in Nat
  BY Lengths
<1>4. PICK n \in Nat : n = hmac[k].randomBytes
  BY <1>2 DEF HmacFields
<1>5. /\ hmac[k].initiated /\ n \in drawnBefore + 1 .. drawn
      /\ handshakeRequests[RequestsBefore(k) + 1] = <<"challenge", n>>
  <2>1. Asking(k)
    BY DEF At
  <2> QED BY <1>4, <2>1 DEF Asking
<1>6. PICK h : h = Kept(k, reply)
  OBVIOUS
<1>7. /\ h \in HmacFields /\ h.initiated /\ h.receivedChallenge
      /\ h.randomBytes = n /\ h.stringToSign = n
  <2>1. reply[1] = "string" /\ reply[2] = n
    BY <1>4 DEF Challenge
  <2>2. h = [hmac[k] EXCEPT !.receivedChallenge = TRUE, !.stringToSign = n]
    BY <1>6, <2>1 DEF Kept
  <2>3. PICK g : g = [hmac[k] EXCEPT !.receivedChallenge = TRUE]
    OBVIOUS
  <2>4. /\ g \in HmacFields /\ g.initiated = hmac[k].initiated /\ g.receivedChallenge
        /\ g.randomBytes = hmac[k].randomBytes
    BY <1>2, <2>3 DEF HmacFields
  <2>5. h = [g EXCEPT !.stringToSign = n]
    BY <2>2, <2>3
  <2>6. /\ h \in HmacFields /\ h.initiated = g.initiated /\ h.stringToSign = n
        /\ h.receivedChallenge = g.receivedChallenge /\ h.randomBytes = g.randomBytes
    BY <2>4, <2>5 DEF HmacFields
  <2> QED BY <1>4, <1>5, <2>4, <2>6
<1>8. states \in [Links -> HmacFields] /\ states[k] = h
  BY <1>2, <1>6, <1>7
<1>9. /\ handshakeRequests' = Append(handshakeRequests, <<"validate", n>>)
      /\ hmac' = [states EXCEPT ![k] = h] /\ drawn' = drawn
  <2>1. ProvideHandshake(k, h, drawn) =
          [request |-> <<"validate", h.stringToSign>>, hmac |-> h, drawn |-> drawn]
    BY <1>7 DEF ProvideHandshake
  <2>2. /\ handshakeRequests' =
             Append(handshakeRequests, ProvideHandshake(k, states[k], drawn).request)
        /\ hmac' = [states EXCEPT ![k] = ProvideHandshake(k, states[k], drawn).hmac]
        /\ drawn' = ProvideHandshake(k, states[k], drawn).drawn
    BY Zenon DEF Provide
  <2>3. /\ ProvideHandshake(k, states[k], drawn).request = <<"validate", n>>
        /\ ProvideHandshake(k, states[k], drawn).hmac = h
        /\ ProvideHandshake(k, states[k], drawn).drawn = drawn
    BY <1>7, <1>8, <2>1
  <2> QED BY <2>2, <2>3
<1>10. /\ IsSequence(handshakeRequests') /\ Len(handshakeRequests') = Len(handshakeRequests) + 1
       /\ \A p \in 1 .. Len(handshakeRequests) : handshakeRequests'[p] = handshakeRequests[p]
       /\ handshakeRequests'[Len(handshakeRequests) + 1] = <<"validate", n>>
  BY <1>2, <1>9, Appended
<1>11. /\ hmac' \in [Links -> HmacFields] /\ hmac'[k] = h
       /\ \A j \in Links : j # k => hmac'[j] = hmac[j]
  BY <1>2, <1>6, <1>7, <1>8, <1>9
<1>12. Grown
  BY <1>1, <1>2, <1>9, <1>10 DEF Grown
<1>13. \A j \in 1 .. k - 1 : Exchanged(j)'
  BY <1>12, EarlierStay
<1>14. Asking(k)'
  <2>1. RequestsBefore(k)' = Len(accepted) /\ links'[k] = "hmac"
    BY <1>3 DEF RequestsBefore
  <2>2. /\ Len(accepted) + 1 \in 1 .. Len(handshakeRequests)
        /\ Len(handshakeRequests) + 1 = Len(accepted) + 1 + 1
    BY <1>3
  <2>3. /\ handshakeRequests'[Len(accepted) + 1] = <<"challenge", n>>
        /\ handshakeRequests'[Len(accepted) + 1 + 1] = <<"validate", n>>
    BY <1>3, <1>5, <1>10, <2>2
  <2>4. accepted'[Len(accepted) + 1] = Challenge(n)
    BY <1>1, <1>4
  <2> QED BY <1>1, <1>5, <1>7, <1>9, <1>11, <2>1, <2>3, <2>4 DEF Asking, Challenge
<1>15. At(k)'
  <2>1. \A j \in 1 .. Len(links') - 1 : firstDone'[j] <=> j < k
    BY DEF At
  <2>2. \A j \in k + 1 .. Len(links') : hmac'[j] = FreshHmac
    <3> SUFFICES ASSUME NEW j \in k + 1 .. Len(links) PROVE hmac'[j] = FreshHmac
      OBVIOUS
    <3>1. j \in Links /\ j # k
      BY <1>3 DEF Links, HandshakeTypes
    <3> QED BY <1>11, <3>1 DEF At
  <2>3. Len(handshakeRequests') = Len(accepted') + 1
    BY <1>1, <1>3, <1>10
  <2> QED BY <1>13, <1>14, <2>1, <2>2, <2>3 DEF At, FreshHmac
<1>16. HandshakeTypes'
  BY <1>1, <1>2, <1>9, <1>10, <1>11 DEF HandshakeTypes, IsSequence, Links
<1> QED BY <1>2, <1>15, <1>16 DEF AdmittedOnlyAfterAll
LEMMA ConsumeResponseKeeps == ASSUME HandshakesInv, ConsumeResponse PROVE HandshakesInv'
<1> USE DEF HandshakesInv
<1>1. /\ inHandshake /\ ~Over /\ UNCHANGED <<links, drawnBefore, connections>>
      /\ connections # 0
  BY DEF ConsumeResponse, HandshakeTypes
<1>2. PICK k \in Links : At(k)
  BY <1>1
<1>3. k \in 1 .. Len(links) /\ Len(links) \in Nat
  BY DEF Links, HandshakeTypes
<1>4. CurrentLink(firstDone) = k
  <2>1. PICK n \in Nat : n = Len(links) - 1
    BY <1>3
  <2>2. /\ k \in 1 .. n + 1 /\ firstDone \in [1 .. n -> BOOLEAN]
        /\ \A j \in 1 .. n : firstDone[j] <=> j < k
    BY <1>2, <1>3, <2>1 DEF HandshakeTypes, At
  <2> QED BY <2>1, <2>2, CurrentIs
<1>5. PICK reply \in AnyAnswers :
        IF ValidateResponse(k, reply) = "invalid" THEN OverAfter(reply)
        ELSE ConsumeValid(reply, ValidateResponse(k, reply))
  BY <1>4 DEF ConsumeResponse
<1> DEFINE status == ValidateResponse(k, reply)
           states == [hmac EXCEPT ![k] = Kept(k, reply)]
<1>6. CASE status = "invalid"
  <2>1. OverAfter(reply)
    BY <1>5, <1>6
  <2> QED BY <1>1, <1>4, <2>1, OverKeeps
<1>7. /\ status \in {"invalid", "complete", "incomplete"}
      /\ status = "incomplete" => /\ links[k] = "hmac" /\ ~hmac[k].receivedChallenge
                                  /\ reply = Challenge(hmac[k].randomBytes)
      /\ status = "complete" => /\ links[k] # "hmac" \/ hmac[k].receivedChallenge
                                /\ Kept(k, reply) = hmac[k]
  BY StatusIs
<1>8. ASSUME status # "invalid"
      PROVE  LET done == IF status = "complete" /\ k \in DOMAIN firstDone
                         THEN [firstDone EXCEPT ![k] = TRUE] ELSE firstDone
                 complete == status = "complete" /\ k = Len(links)
             IN /\ accepted' = Append(accepted, reply)
                /\ firstDone' = done /\ inHandshake' = ~complete
                /\ IF complete THEN hmac' = states /\ UNCHANGED <<handshakeRequests, drawn>>
                   ELSE Provide(done, states, handshakeRequests)
  BY <1>4, <1>5, <1>8 DEF ConsumeValid
<1>9. DOMAIN firstDone = 1 .. Len(links) - 1 /\ hmac \in [Links -> HmacFields]
  BY DEF HandshakeTypes
<1> HIDE DEF status
<1>10. status = "complete" => states = hmac
  BY <1>7, <1>9
<1> HIDE DEF states
<1>11. CASE status = "complete" /\ k = Len(links)
  <2>1. k \notin DOMAIN firstDone
    BY <1>3, <1>9, <1>11
  <2>2. /\ accepted' = Append(accepted, reply) /\ inHandshake' = FALSE
        /\ UNCHANGED <<firstDone, hmac, handshakeRequests, drawn>>
    BY <1>8, <1>10, <1>11, <2>1
  <2> QED BY <1>1, <1>2, <1>7, <1>11, <2>2, LastKeeps
<1>12. CASE status = "complete" /\ k # Len(links)
  <2>1. k \in DOMAIN firstDone
    BY <1>3, <1>9, <1>12
  <2>2. PICK done : done = [firstDone EXCEPT ![k] = TRUE]
    OBVIOUS
  <2>3. /\ accepted' = Append(accepted, reply) /\ inHandshake' = TRUE
        /\ firstDone' = done /\ Provide(done, hmac, handshakeRequests)
    BY <1>8, <1>10, <1>12, <2>1, <2>2
  <2> QED BY <1>1, <1>2, <1>7, <1>12, <2>2, <2>3, NextLinkKeeps
<1>13. CASE status = "incomplete"
  <2>1. /\ accepted' = Append(accepted, reply) /\ inHandshake' = TRUE
        /\ firstDone' = firstDone /\ Provide(firstDone, states, handshakeRequests)
    BY <1>8, <1>13
  <2>2. PICK s : s = states
    OBVIOUS
  <2>3. s = [hmac EXCEPT ![k] = Kept(k, reply)]
    BY <2>2 DEF states
  <2>4. Provide(firstDone, s, handshakeRequests)
    BY <2>1, <2>2
  <2> QED BY <1>1, <1>2, <1>4, <1>7, <1>13, <2>1, <2>3, <2>4, ChallengeKeeps
<1> QED BY <1>6, <1>7, <1>11, <1>12, <1>13 DEF status

LEMMA HandshakesInvInductive == HandshakesInv /\ [HandshakesNext]_handshakesVars => HandshakesInv'
<1> SUFFICES ASSUME HandshakesInv, [HandshakesNext]_handshakesVars PROVE HandshakesInv'
  OBVIOUS
<1>1. CASE UNCHANGED handshakesVars
  <2> USE <1>1 DEF handshakesVars
  <2>1. HandshakeTypes' /\ Links' = Links /\ (Over' <=> Over)
    BY DEF HandshakesInv, HandshakeTypes, IsSequence, Links, Over
  <2>2. ASSUME NEW j PROVE RequestsBefore(j)' = RequestsBefore(j) /\ (Exchanged(j)' <=> Exchanged(j))
    BY DEF Exchanged, RequestsBefore, Challenge
  <2>3. ASSUME NEW k, At(k) PROVE At(k)'
    <3>1. Asking(k)'
      BY <2>2, <2>3 DEF At, Asking, Challenge
    <3> QED BY <2>2, <2>3, <3>1 DEF At, FreshHmac
  <2>4. AdmittedOnlyAfterAll => AdmittedOnlyAfterAll'
    BY <2>2 DEF AdmittedOnlyAfterAll
  <2> QED BY <2>1, <2>3, <2>4 DEF HandshakesInv
<1> QED BY <1>1, ReconnectionKeeps, ConsumeResponseKeeps DEF HandshakesNext

\* A connection leaves the handshake only after every link of the chain, in order,
\* had its whole exchange in this very connection, and what was signed begins with
\* random bytes drawn for it: for chains of any length, answers of any kind, and
\* any number of connections that failed half-way (Handshake.cc, ConnectionCore's
\* reconnection() and consumeResponse()).
THEOREM AdmittedAfterAll == HandshakesSpec => []AdmittedOnlyAfterAll
<1>1. HandshakesInv => AdmittedOnlyAfterAll
  BY DEF HandshakesInv
<1> QED BY <1>1, InitHandshakesInv, HandshakesInvInductive, PTL DEF HandshakesSpec

-----------------------------------------------------------------------------
(* Tls: the inductive invariant                                              *)

Wired == [byte : Nat, last : BOOLEAN]
StreamByte == Int \X Int
Flights == IF active THEN HandshakeFlights ELSE 0

\* All the server sends, its records of the handshake first
Wire == [i \in 1 .. Flights |-> Handshake] \o Sent

\* s is what w holds from place n + 1 on.
Piece(s, w, n) == \A i \in 1 .. Len(s) : s[i] = w[n + i]

\* Places of the wire that left OpenSSL
Decrypted == Flights - flights + Len(receivedBytes) + Len(plain)

TlsTypes ==
  /\ active \in BOOLEAN /\ flights \in 0 .. Flights
  /\ pendingWrites \in Seq(StreamByte) /\ givenToSend \in Seq(StreamByte)
  /\ atServer \in Seq(StreamByte)
  /\ cutShort \in BOOLEAN
  /\ request \in Nat \ {0} /\ bytesWritten \in Nat
  /\ request <= Len(RequestLengths) => bytesWritten < RequestLengths[request]
  /\ toSend \in Seq(Wired) /\ socket \in Seq(Wired) /\ wbio \in Seq(Wired)
  /\ plain \in Seq(Nat) /\ receivedBytes \in Seq(Nat) /\ bytesRead \in Nat

\* What is not at the server waits for the handshake.
SendInOrder ==
  /\ ~cutShort => atServer \o pendingWrites = givenToSend
  /\ flights = 0 => pendingWrites = <<>>

\* The wire, cut where each part of it is now
WireInOrder ==
  /\ Piece(receivedBytes, ServerBytes, 0)
  /\ Piece(plain, ServerBytes, Len(receivedBytes))
  /\ Piece(wbio, Wire, Decrypted)
  /\ Piece(socket, Wire, Decrypted + Len(wbio))
  /\ Piece(toSend, Wire, Decrypted + Len(wbio) + Len(socket))
  /\ Decrypted + Len(wbio) + Len(socket) + Len(toSend) = Flights + Len(Sent)
  /\ flights # 0 => wbio = <<>> /\ plain = <<>> /\ receivedBytes = <<>>
  /\ ~active => wbio = <<>> /\ plain = <<>>

\* A recv() that gave nothing, on a connection that lives, left nothing it could give.
NothingLeft ==
  connectionAlive /\ bytesRead = 0 => plain = <<>> /\ \A i \in DOMAIN wbio : ~wbio[i].last

TlsInv == TlsTypes /\ SendInOrder /\ WireInOrder /\ NothingLeft

-----------------------------------------------------------------------------
(* Pieces of a sequence                                                      *)

LEMMA SequenceOf ==
  ASSUME NEW S, NEW n \in Nat, NEW c \in [1 .. n -> S]
  PROVE  c \in Seq(S) /\ Len(c) = n
OBVIOUS

LEMMA PieceJoined ==
  ASSUME NEW S, NEW s \in Seq(S), NEW t \in Seq(S), NEW w, NEW n \in Int,
         Piece(s, w, n), Piece(t, w, n + Len(s))
  PROVE  /\ Piece(s \o t, w, n) /\ s \o t \in Seq(S) /\ Len(s \o t) = Len(s) + Len(t)
<1>1. /\ Len(s) \in Nat /\ Len(t) \in Nat /\ s \o t \in Seq(S) /\ Len(s \o t) = Len(s) + Len(t)
      /\ \A i \in 1 .. Len(s) + Len(t) :
           (s \o t)[i] = IF i <= Len(s) THEN s[i] ELSE t[i - Len(s)]
  BY ConcatProperties
<1>2. ASSUME NEW i \in 1 .. Len(s) + Len(t) PROVE (s \o t)[i] = w[n + i]
  <2>1. CASE i <= Len(s)
    BY <1>1, <2>1 DEF Piece
  <2>2. CASE ~(i <= Len(s))
    <3>1. i - Len(s) \in 1 .. Len(t) /\ n + Len(s) + (i - Len(s)) = n + i
      BY <1>1, <2>2
    <3>2. t[i - Len(s)] = w[n + i]
      BY <3>1 DEF Piece
    <3> QED BY <1>1, <2>2, <3>2
  <2> QED BY <2>1, <2>2
<1> QED BY <1>1, <1>2 DEF Piece

LEMMA PieceCut ==
  ASSUME NEW S, NEW s \in Seq(S), NEW w, NEW n \in Int, Piece(s, w, n),
         NEW m \in Nat \ {0}, NEW b \in Nat, m <= b + 1, b <= Len(s)
  PROVE  /\ SubSeq(s, m, b) \in Seq(S) /\ Len(SubSeq(s, m, b)) = b - m + 1
         /\ Piece(SubSeq(s, m, b), w, n + m - 1)
<1>1. Len(s) \in Nat /\ \A i \in m .. b : s[i] \in S
  BY ElementOfSeq
<1>2. /\ SubSeq(s, m, b) \in Seq(S)
      /\ Len(SubSeq(s, m, b)) = IF m <= b THEN b - m + 1 ELSE 0
      /\ \A i \in 1 .. b - m + 1 : SubSeq(s, m, b)[i] = s[m + i - 1]
  BY <1>1, SubSeqProperties
<1>3. Len(SubSeq(s, m, b)) = b - m + 1
  <2>1. ~(m <= b) => b - m + 1 = 0
    OBVIOUS
  <2> QED BY <1>2, <2>1
<1>4. ASSUME NEW i \in 1 .. b - m + 1
      PROVE  SubSeq(s, m, b)[i] = w[n + m - 1 + i]
  <2> PICK k \in Int : k = m + i - 1
    OBVIOUS
  <2>1. k \in 1 .. Len(s) /\ n + m - 1 + i = n + k
    BY <1>1
  <2>2. SubSeq(s, m, b)[i] = s[k] /\ s[k] = w[n + k]
    BY <1>2, <2>1 DEF Piece
  <2> QED BY <2>1, <2>2
<1> QED BY <1>2, <1>3, <1>4 DEF Piece

UpTo(s, g) == SubSeq(s, 1, g)
After(s, g) == SubSeq(s, g + 1, Len(s))

LEMMA UpToCut ==
  ASSUME NEW S, NEW s \in Seq(S), NEW w, NEW n \in Int, Piece(s, w, n),
         NEW g \in Nat, g <= Len(s)
  PROVE  /\ UpTo(s, g) \in Seq(S) /\ Len(UpTo(s, g)) = g
         /\ Piece(UpTo(s, g), w, n)
<1> PICK m \in Nat \ {0} : m = 1
  OBVIOUS
<1>1. m <= g + 1
  OBVIOUS
<1>2. /\ SubSeq(s, m, g) \in Seq(S) /\ Len(SubSeq(s, m, g)) = g - m + 1
      /\ Piece(SubSeq(s, m, g), w, n + m - 1)
  BY <1>1, PieceCut
<1>3. g - m + 1 = g /\ n + m - 1 = n
  OBVIOUS
<1> QED BY <1>2, <1>3 DEF UpTo

LEMMA AfterCut ==
  ASSUME NEW S, NEW s \in Seq(S), NEW w, NEW n \in Int, Piece(s, w, n),
         NEW g \in Nat, g <= Len(s)
  PROVE  /\ After(s, g) \in Seq(S) /\ Len(After(s, g)) = Len(s) - g
         /\ Piece(After(s, g), w, n + g)
<1> PICK L \in Nat : L = Len(s)
  OBVIOUS
<1> PICK m \in Nat \ {0} : m = g + 1
  OBVIOUS
<1>1. m <= L + 1
  OBVIOUS
<1>2. /\ SubSeq(s, m, L) \in Seq(S) /\ Len(SubSeq(s, m, L)) = L - m + 1
      /\ Piece(SubSeq(s, m, L), w, n + m - 1)
  BY <1>1, PieceCut
<1>3. L - m + 1 = L - g /\ n + m - 1 = n + g
  OBVIOUS
<1> QED BY <1>2, <1>3 DEF After

\* What the wire holds: handshake records, then the bytes of the data
LEMMA WireIs ==
  ASSUME active \in BOOLEAN
  PROVE  /\ Flights \in Nat /\ Len(Sent) \in Nat
         /\ Wire \in Seq(Wired) /\ Len(Wire) = Flights + Len(Sent)
         /\ \A i \in 1 .. Flights + Len(Sent) : IsHandshake(Wire[i]) <=> i <= Flights
         /\ \A i \in 1 .. Len(Sent) : Wire[Flights + i] = Sent[i]
         /\ \A i \in 1 .. Len(Sent) : ServerBytes[i] = Sent[i].byte
<1>1. Flights \in Nat /\ Sent \in Seq(Cipher) /\ Len(Sent) \in Nat
  BY TlsAssumption DEF Flights
<1>2. Handshake \in Wired /\ IsHandshake(Handshake) /\ Cipher \subseteq Wired
  BY DEF Handshake, Wired, IsHandshake, Cipher
<1> DEFINE h == [i \in 1 .. Flights |-> Handshake]
<1>3. h \in Seq(Wired) /\ Len(h) = Flights /\ \A i \in 1 .. Flights : h[i] = Handshake
  <2>1. h \in [1 .. Flights -> Wired]
    BY <1>2
  <2> QED BY <1>1, <2>1
<1>4. Sent \in Seq(Wired)
  BY <1>1, <1>2, SeqMonotonic
<1>5. Wire = h \o Sent
  BY DEF Wire
<1> HIDE DEF h
<1>6. /\ Wire \in Seq(Wired) /\ Len(Wire) = Flights + Len(Sent)
      /\ \A i \in 1 .. Flights + Len(Sent) :
           Wire[i] = IF i <= Flights THEN h[i] ELSE Sent[i - Flights]
  BY <1>3, <1>4, <1>5, ConcatProperties
<1>7. \A i \in 1 .. Len(Sent) : Sent[i] \in Cipher /\ ~IsHandshake(Sent[i])
  <2>1. \A c \in Cipher : ~IsHandshake(c)
    BY DEF Cipher, IsHandshake
  <2>2. \A i \in 1 .. Len(Sent) : Sent[i] \in Cipher
    BY <1>1, ElementOfSeq
  <2> QED BY <2>1, <2>2
<1>8. ASSUME NEW i \in 1 .. Flights + Len(Sent)
      PROVE  IsHandshake(Wire[i]) <=> i <= Flights
  <2>1. CASE i <= Flights
    <3>1. i \in 1 .. Flights
      BY <1>1, <2>1
    <3> QED BY <1>2, <1>3, <1>6, <2>1, <3>1
  <2>2. CASE ~(i <= Flights)
    <3>1. i - Flights \in 1 .. Len(Sent)
      BY <1>1, <2>2
    <3> QED BY <1>6, <1>7, <2>2, <3>1
  <2> QED BY <2>1, <2>2
<1>9. ASSUME NEW i \in 1 .. Len(Sent) PROVE Wire[Flights + i] = Sent[i]
  <2> PICK k \in Int : k = Flights + i
    BY <1>1
  <2>1. k \in 1 .. Flights + Len(Sent) /\ ~(k <= Flights) /\ k - Flights = i
    BY <1>1
  <2>2. Wire[k] = Sent[k - Flights]
    BY <1>6, <2>1
  <2> QED BY <2>1, <2>2
<1>10. \A i \in 1 .. Len(Sent) : ServerBytes[i] = Sent[i].byte
  BY <1>1 DEF ServerBytes
<1> QED BY <1>1, <1>6, <1>8, <1>9, <1>10

-----------------------------------------------------------------------------
(* SSL_read()                                                                *)

Leading(cipher) ==
  Cardinality({i \in DOMAIN cipher : \A j \in 1 .. i : IsHandshake(cipher[j])})
RecordEnds(rest) == {i \in DOMAIN rest : rest[i].last}
FirstEnd(rest) ==
  CHOOSE i \in RecordEnds(rest) : \A j \in RecordEnds(rest) : i <= j
NoRecord(rest) == plain # <<>> \/ RecordEnds(rest) = {}
ClearText(rest) ==
  IF NoRecord(rest) THEN plain ELSE [i \in 1 .. FirstEnd(rest) |-> rest[i].byte]
StillCipher(rest) ==
  IF NoRecord(rest) THEN rest ELSE SubSeq(rest, FirstEnd(rest) + 1, Len(rest))

Data(cipher) == After(cipher, Leading(cipher))
Given(cipher, blen) == Shorter(blen, Len(ClearText(Data(cipher))))

LEMMA SSLReadShape ==
  ASSUME NEW cipher, NEW blen
  PROVE  SSLRead(cipher, blen) =
           [handshakes |-> Leading(cipher),
            cipher |-> StillCipher(Data(cipher)),
            given |-> UpTo(ClearText(Data(cipher)), Given(cipher, blen)),
            left |-> After(ClearText(Data(cipher)), Given(cipher, blen))]
BY DEF SSLRead, Leading, ClearText, StillCipher, NoRecord, FirstEnd, RecordEnds,
       Data, Given, UpTo, After

\* The handshake records come first: as many are taken as came and are missing.
LEMMA LeadingIs ==
  ASSUME active \in BOOLEAN, NEW d \in Nat, NEW cipher \in Seq(Wired),
         Piece(cipher, Wire, d), d + Len(cipher) <= Flights + Len(Sent),
         NEW missing \in Nat,
         missing = IF d < Flights THEN Flights - d ELSE 0
  PROVE  Leading(cipher) = Shorter(missing, Len(cipher))
<1> PICK L \in Nat : L = Len(cipher)
  OBVIOUS
<1> PICK F \in Nat : F = Flights
  BY WireIs
<1>1. \A j \in 1 .. L : IsHandshake(cipher[j]) <=> d + j <= F
  <2> TAKE j \in 1 .. L
  <2>1. d + j \in 1 .. Flights + Len(Sent)
    BY WireIs
  <2>2. cipher[j] = Wire[d + j]
    BY DEF Piece
  <2> QED BY <2>1, <2>2, WireIs
<1> PICK n \in Nat : n = Shorter(missing, L)
  BY DEF Shorter
<1>2. n <= L /\ \A i \in 1 .. L : i <= n <=> d + i <= F
  BY DEF Shorter
<1>3. DOMAIN cipher = 1 .. L
  OBVIOUS
<1>4. {i \in DOMAIN cipher : \A j \in 1 .. i : IsHandshake(cipher[j])} = 1 .. n
  <2>1. ASSUME NEW i \in 1 .. L
        PROVE  (\A j \in 1 .. i : IsHandshake(cipher[j])) <=> i <= n
    <3>1. \A j \in 1 .. i : j \in 1 .. L /\ (i <= n => j <= n)
      BY <1>2
    <3>2. i \in 1 .. i
      OBVIOUS
    <3> QED BY <1>1, <1>2, <3>1, <3>2
  <2>2. \A i : i \in 1 .. n <=> i \in 1 .. L /\ i <= n
    BY <1>2
  <2> QED BY <1>3, <2>1, <2>2
<1>5. Cardinality(1 .. n) = n
  BY FS_Interval
<1> QED BY <1>4, <1>5 DEF Leading

LEMMA FirstEndIs ==
  ASSUME NEW rest \in Seq(Wired), RecordEnds(rest) # {}
  PROVE  FirstEnd(rest) \in 1 .. Len(rest)
<1> DEFINE T == RecordEnds(rest)
<1>1. Within(T, 1, Len(rest))
  BY DEF Within, RecordEnds
<1>2. \A p \in T : p \in 1 .. Len(rest)
  BY <1>1 DEF Within
<1> HIDE DEF T
<1>3. /\ Cardinality(T) \in Nat
      /\ \A p \in T : Rank(T, p) \in 1 .. Cardinality(T)
      /\ \A p, q \in T : p < q => Rank(T, p) < Rank(T, q)
      /\ \A k \in 1 .. Cardinality(T) : \E p \in T : Rank(T, p) = k
  BY <1>1, Ranks
<1>4. T # {}
  BY DEF T
<1>5. 1 \in 1 .. Cardinality(T)
  BY <1>3, <1>4
<1> PICK p \in T : Rank(T, p) = 1
  BY <1>3, <1>5
<1>6. ASSUME NEW q \in T PROVE p <= q
  <2>1. ~(q < p)
    <3>1. Rank(T, q) \in 1 .. Cardinality(T)
      BY <1>3
    <3>2. q < p => Rank(T, q) < 1
      BY <1>3
    <3> QED BY <1>3, <3>1, <3>2
  <2> QED BY <1>2, <2>1
<1>7. \E i \in RecordEnds(rest) : \A j \in RecordEnds(rest) : i <= j
  BY <1>6 DEF T
<1>8. FirstEnd(rest) \in RecordEnds(rest)
  BY <1>7 DEF FirstEnd
<1> QED BY <1>2, <1>8 DEF T

\* Whole records only are decrypted, one of them, when no decrypted byte waits.
LEMMA Decrypts ==
  ASSUME active \in BOOLEAN, NEW d \in Nat, NEW have \in Nat,
         NEW rest \in Seq(Wired), Piece(rest, Wire, d),
         d + Len(rest) <= Flights + Len(Sent),
         plain \in Seq(Nat), Piece(plain, ServerBytes, have),
         rest # <<>> => d = Flights + have + Len(plain)
  PROVE  /\ ClearText(rest) \in Seq(Nat) /\ Piece(ClearText(rest), ServerBytes, have)
         /\ StillCipher(rest) \in Seq(Wired)
         /\ Piece(StillCipher(rest), Wire, d + (Len(ClearText(rest)) - Len(plain)))
         /\ Len(ClearText(rest)) + Len(StillCipher(rest)) = Len(plain) + Len(rest)
         /\ rest = <<>> => StillCipher(rest) = <<>> /\ ClearText(rest) = plain
         /\ Len(ClearText(rest)) = 0 =>
              plain = <<>> /\ \A i \in DOMAIN StillCipher(rest) : ~StillCipher(rest)[i].last
<1>1. CASE NoRecord(rest)
  <2>1. ClearText(rest) = plain /\ StillCipher(rest) = rest
    BY <1>1 DEF ClearText, StillCipher
  <2>2. Len(plain) = 0 => plain = <<>>
    OBVIOUS
  <2>3. plain = <<>> => \A i \in DOMAIN rest : ~rest[i].last
    BY <1>1 DEF NoRecord, RecordEnds
  <2>4. Len(plain) \in Nat /\ d + (Len(plain) - Len(plain)) = d
    OBVIOUS
  <2> QED BY <2>1, <2>2, <2>3, <2>4
<1>2. CASE ~NoRecord(rest)
  <2>1. plain = <<>> /\ RecordEnds(rest) # {} /\ Len(plain) = 0
    BY <1>2 DEF NoRecord
  <2> PICK e \in 1 .. Len(rest) : e = FirstEnd(rest)
    BY <2>1, FirstEndIs
  <2> DEFINE c == [i \in 1 .. e |-> rest[i].byte]
  <2>2. ClearText(rest) = c /\ StillCipher(rest) = SubSeq(rest, e + 1, Len(rest))
    BY <1>2 DEF ClearText, StillCipher
  <2>3. rest # <<>> /\ d = Flights + have /\ Flights \in Nat /\ Len(Sent) \in Nat
    BY <2>1, WireIs
  <2>4. ASSUME NEW i \in 1 .. e
        PROVE  rest[i].byte \in Nat /\ rest[i].byte = ServerBytes[have + i]
    <3>1. i \in 1 .. Len(rest) /\ rest[i] \in Wired
      BY ElementOfSeq
    <3> PICK k \in Int : k = have + i
      OBVIOUS
    <3>2. k \in 1 .. Len(Sent) /\ d + i = Flights + k
      BY <2>3, <3>1
    <3>3. rest[i] = Wire[d + i]
      BY <3>1 DEF Piece
    <3>4. Wire[Flights + k] = Sent[k] /\ ServerBytes[k] = Sent[k].byte
      BY <3>2, WireIs
    <3>5. rest[i].byte \in Nat
      BY <3>1 DEF Wired
    <3> QED BY <3>2, <3>3, <3>4, <3>5
  <2>5. c \in Seq(Nat) /\ Len(c) = e /\ \A i \in 1 .. e : c[i] = rest[i].byte
    <3>1. c \in [1 .. e -> Nat] /\ e \in Nat
      BY <2>4
    <3>2. \A i \in 1 .. e : c[i] = rest[i].byte
      OBVIOUS
    <3> HIDE DEF c
    <3> QED BY <3>1, <3>2, SequenceOf
  <2> HIDE DEF c
  <2>6. Piece(c, ServerBytes, have)
    BY <2>4, <2>5 DEF Piece
  <2>7. e \in Nat /\ e <= Len(rest) /\ Len(rest) \in Nat
    OBVIOUS
  <2> PICK s : s = SubSeq(rest, e + 1, Len(rest))
    OBVIOUS
  <2>8. s \in Seq(Wired) /\ Len(s) = Len(rest) - e /\ Piece(s, Wire, d + e)
    <3>1. s = After(rest, e)
      BY DEF After
    <3>2. /\ After(rest, e) \in Seq(Wired) /\ Len(After(rest, e)) = Len(rest) - e
          /\ Piece(After(rest, e), Wire, d + e)
      <4>1. d \in Int /\ e \in Nat /\ e <= Len(rest)
        BY <2>7
      <4>2. rest \in Seq(Wired) /\ Piece(rest, Wire, d)
        OBVIOUS
      <4> QED BY <4>1, <4>2, AfterCut
    <3> QED BY <3>1, <3>2
  <2>9. e + (Len(rest) - e) = Len(rest) /\ e - 0 = e /\ e # 0
    BY <2>7
  <2>10. /\ d + (Len(c) - Len(plain)) = d + e /\ Len(c) # 0
         /\ Len(c) + Len(s) = Len(plain) + Len(rest)
    <3> PICK m \in Nat : m = Len(rest)
      BY <2>7
    <3>1. Len(plain) = 0 /\ Len(c) = e /\ Len(s) = m - e /\ e \in Nat /\ e # 0
      BY <2>1, <2>5, <2>7, <2>8, <2>9
    <3>2. d + (e - 0) = d + e
      BY <2>9
    <3>3. e + (m - e) = m /\ 0 + m = m
      BY <2>9
    <3> QED BY <3>1, <3>2, <3>3
  <2>11. Piece(s, Wire, d + (Len(c) - Len(plain)))
    BY <2>8, <2>10
  <2> PICK t, u : t = ClearText(rest) /\ u = StillCipher(rest)
    OBVIOUS
  <2>12. t = c /\ u = s
    BY <2>2
  <2> QED BY <2>3, <2>5, <2>6, <2>8, <2>10, <2>11, <2>12
<1> QED BY <1>1, <1>2

LEMMA ShorterIs ==
  ASSUME NEW a \in Nat, NEW b \in Nat
  PROVE  /\ Shorter(a, b) \in Nat /\ Shorter(a, b) <= a /\ Shorter(a, b) <= b
         /\ Shorter(a, b) = a \/ Shorter(a, b) = b
BY DEF Shorter

LEMMA DecryptedIs ==
  ASSUME TlsTypes, WireInOrder
  PROVE  /\ Decrypted \in Nat /\ Flights \in Nat /\ flights \in 0 .. Flights
         /\ Len(receivedBytes) \in Nat /\ Len(plain) \in Nat
         /\ Decrypted = Flights - flights + Len(receivedBytes) + Len(plain)
         /\ flights # 0 => Len(receivedBytes) = 0 /\ Len(plain) = 0
<1>1. active \in BOOLEAN /\ flights \in 0 .. Flights /\ plain \in Seq(Nat) /\ receivedBytes \in Seq(Nat)
  BY DEF TlsTypes
<1>2. Flights \in Nat /\ Len(receivedBytes) \in Nat /\ Len(plain) \in Nat
  BY <1>1, WireIs
<1>3. flights # 0 => receivedBytes = <<>> /\ plain = <<>>
  BY DEF WireInOrder
<1>4. Flights - flights + Len(receivedBytes) + Len(plain) \in Nat
  BY <1>1, <1>2
<1> QED BY <1>1, <1>2, <1>3, <1>4 DEF Decrypted

\* The handshake records off, the rest is data if anything is left.
LEMMA LeadingRead ==
  ASSUME TlsTypes, WireInOrder, NEW cipher \in Seq(Wired),
         Piece(cipher, Wire, Decrypted),
         Decrypted + Len(cipher) <= Flights + Len(Sent)
  PROVE  /\ Leading(cipher) \in Nat
         /\ Leading(cipher) <= flights /\ Leading(cipher) <= Len(cipher)
         /\ Data(cipher) \in Seq(Wired) /\ Len(Data(cipher)) = Len(cipher) - Leading(cipher)
         /\ Piece(Data(cipher), Wire, Decrypted + Leading(cipher))
         /\ Leading(cipher) # flights => Data(cipher) = <<>>
         /\ Data(cipher) # <<>> =>
              Decrypted + Leading(cipher) = Flights + Len(receivedBytes) + Len(plain)
<1> PICK n, rest : n = Leading(cipher) /\ rest = Data(cipher)
  OBVIOUS
<1>1. flights \in Nat /\ flights = IF Decrypted < Flights THEN Flights - Decrypted ELSE 0
  BY DecryptedIs
<1>2. n = Shorter(flights, Len(cipher))
  <2>1. active \in BOOLEAN /\ Decrypted \in Nat
    BY DecryptedIs DEF TlsTypes
  <2> QED BY <1>1, <2>1, LeadingIs
<1>3. /\ n \in Nat /\ n <= flights /\ n <= Len(cipher) /\ Len(cipher) \in Nat
      /\ n = flights \/ n = Len(cipher)
  <2> PICK f \in Nat, L \in Nat : f = flights /\ L = Len(cipher)
    BY <1>1
  <2>1. n = Shorter(f, L)
    BY <1>2
  <2>2. n \in Nat /\ n <= f /\ n <= L /\ (n = f \/ n = L)
    BY <2>1, ShorterIs
  <2> QED BY <2>2
<1>4. rest \in Seq(Wired) /\ Len(rest) = Len(cipher) - n /\ Piece(rest, Wire, Decrypted + n)
  <2> PICK D \in Nat : D = Decrypted
    BY DecryptedIs
  <2>1. After(cipher, n) \in Seq(Wired) /\ Len(After(cipher, n)) = Len(cipher) - n
        /\ Piece(After(cipher, n), Wire, D + n)
    BY <1>3, AfterCut
  <2>2. rest = After(cipher, n)
    BY DEF Data
  <2> QED BY <2>1, <2>2
<1>5. n # flights => rest = <<>>
  <2>1. n # flights => Len(rest) = 0
    BY <1>3, <1>4
  <2>2. Len(rest) = 0 => rest = <<>>
    BY <1>4
  <2> QED BY <2>1, <2>2
<1>6. n = flights => Decrypted + n = Flights + Len(receivedBytes) + Len(plain)
  BY DecryptedIs
<1> QED BY <1>3, <1>4, <1>5, <1>6

\* What SSL_read() gives, keeps decrypted and keeps as it came are the next
\* pieces of the wire.
ReadsAs(cipher, blen, k, clear, left, still) ==
  /\ SSLRead(cipher, blen) =
       [handshakes |-> k, cipher |-> still, given |-> clear, left |-> left]
  /\ k <= flights
  /\ Piece(clear, ServerBytes, Len(receivedBytes))
  /\ Piece(left, ServerBytes, Len(receivedBytes) + Len(clear))
  /\ Piece(still, Wire, Decrypted + k + (Len(clear) + Len(left) - Len(plain)))
  /\ k + Len(clear) + Len(left) + Len(still) = Len(plain) + Len(cipher)
  /\ k # flights => still = <<>> /\ clear = <<>> /\ left = <<>>
  /\ Len(clear) = 0 => left = <<>> /\ \A i \in DOMAIN still : ~still[i].last

LEMMA SSLReadIs ==
  ASSUME TlsTypes, WireInOrder, NEW cipher \in Seq(Wired),
         Piece(cipher, Wire, Decrypted),
         Decrypted + Len(cipher) <= Flights + Len(Sent),
         NEW blen \in Nat \ {0}
  PROVE  \E k \in Nat, clear \in Seq(Nat), left \in Seq(Nat), still \in Seq(Wired) :
           ReadsAs(cipher, blen, k, clear, left, still)
<1>1. PICK n, rest : n = Leading(cipher) /\ rest = Data(cipher)
  OBVIOUS
<1>2. /\ n \in Nat /\ n <= flights /\ n <= Len(cipher)
      /\ rest \in Seq(Wired) /\ Len(rest) = Len(cipher) - n
      /\ Piece(rest, Wire, Decrypted + n)
      /\ n # flights => rest = <<>>
      /\ rest # <<>> => Decrypted + n = Flights + Len(receivedBytes) + Len(plain)
  BY <1>1, LeadingRead
<1>3. PICK t, u : t = ClearText(rest) /\ u = StillCipher(rest)
  OBVIOUS
<1>4. PICK d \in Nat, h \in Nat, p \in Nat :
        d = Decrypted + n /\ h = Len(receivedBytes) /\ p = Len(plain)
  <2>1. Decrypted \in Nat /\ Len(receivedBytes) \in Nat /\ Len(plain) \in Nat
    BY DecryptedIs
  <2>2. Decrypted + n \in Nat
    BY <1>2, <2>1
  <2> QED BY <2>1, <2>2
<1>5. /\ t \in Seq(Nat) /\ Piece(t, ServerBytes, h) /\ u \in Seq(Wired)
      /\ Piece(u, Wire, d + (Len(t) - p)) /\ Len(t) + Len(u) = p + Len(rest)
      /\ rest = <<>> => u = <<>> /\ t = plain
      /\ Len(t) = 0 => plain = <<>> /\ \A i \in DOMAIN u : ~u[i].last
  <2>1. active \in BOOLEAN /\ plain \in Seq(Nat)
    BY DEF TlsTypes
  <2>2. Piece(plain, ServerBytes, h)
    BY <1>4 DEF WireInOrder
  <2>3. d + Len(rest) <= Flights + Len(Sent)
    <3>1. Decrypted \in Nat /\ Len(cipher) \in Nat
      BY DecryptedIs
    <3> QED BY <1>2, <1>4, <3>1
  <2>4. Piece(rest, Wire, d) /\ (rest # <<>> => d = Flights + h + Len(plain))
    BY <1>2, <1>4
  <2>5. rest \in Seq(Wired)
    BY <1>2
  <2>6. /\ ClearText(rest) \in Seq(Nat) /\ Piece(ClearText(rest), ServerBytes, h)
        /\ StillCipher(rest) \in Seq(Wired)
        /\ Piece(StillCipher(rest), Wire, d + (Len(ClearText(rest)) - Len(plain)))
        /\ Len(ClearText(rest)) + Len(StillCipher(rest)) = Len(plain) + Len(rest)
        /\ rest = <<>> => StillCipher(rest) = <<>> /\ ClearText(rest) = plain
        /\ Len(ClearText(rest)) = 0 =>
             plain = <<>> /\ \A i \in DOMAIN StillCipher(rest) : ~StillCipher(rest)[i].last
    BY <2>1, <2>2, <2>3, <2>4, <2>5, Decrypts
  <2> QED BY <1>3, <1>4, <2>6
<1>6. PICK T \in Nat : T = Len(t)
  BY <1>5
<1>7. PICK g : g = Given(cipher, blen)
  OBVIOUS
<1>8. g \in Nat /\ g <= T /\ (g = 0 => T = 0)
  <2>1. g = Shorter(blen, T)
    BY <1>1, <1>3, <1>6, <1>7 DEF Given
  <2>2. blen \in Nat /\ blen # 0
    OBVIOUS
  <2> QED BY <2>1, <2>2, ShorterIs
<1>9. PICK clear, left : clear = UpTo(t, g) /\ left = After(t, g)
  OBVIOUS
<1>10. clear \in Seq(Nat) /\ Len(clear) = g /\ Piece(clear, ServerBytes, h)
  BY <1>5, <1>6, <1>8, <1>9, UpToCut
<1>11. left \in Seq(Nat) /\ Len(left) = T - g /\ Piece(left, ServerBytes, h + g)
  <2>1. /\ After(t, g) \in Seq(Nat) /\ Len(After(t, g)) = Len(t) - g
        /\ Piece(After(t, g), ServerBytes, h + g)
    <3>1. t \in Seq(Nat) /\ Piece(t, ServerBytes, h) /\ h \in Int
      BY <1>5
    <3>2. g \in Nat /\ g <= Len(t)
      BY <1>6, <1>8
    <3> QED BY <3>1, <3>2, AfterCut
  <2> QED BY <1>6, <1>9, <2>1
<1>12. SSLRead(cipher, blen) =
         [handshakes |-> n, cipher |-> u, given |-> clear, left |-> left]
  BY <1>1, <1>3, <1>7, <1>9, SSLReadShape
<1>13. n + g + (T - g) + Len(u) = p + Len(cipher)
  <2>1. PICK v \in Nat, r \in Nat, L \in Nat : v = Len(u) /\ r = Len(rest) /\ L = Len(cipher)
    <3>1. Len(u) \in Nat
      BY <1>5
    <3>2. Len(rest) \in Nat /\ Len(cipher) \in Nat
      BY <1>2
    <3> QED BY <3>1, <3>2
  <2>2. T + v = p + r /\ r = L - n
    BY <1>2, <1>5, <1>6, <2>1
  <2> QED BY <1>2, <1>8, <2>1, <2>2
<1>14. Decrypted + n + (g + (T - g) - p) = d + (T - p)
  BY <1>4, <1>8
<1>15. T - g = 0 => left = <<>>
  BY <1>11
<1>16. g = 0 => left = <<>> /\ \A i \in DOMAIN u : ~u[i].last
  BY <1>5, <1>6, <1>8, <1>15
<1>17. n # flights => u = <<>> /\ clear = <<>> /\ left = <<>>
  <2>1. n # flights => flights # 0
    BY <1>2
  <2>2. n # flights => plain = <<>>
    BY <2>1 DEF WireInOrder
  <2>3. n # flights => u = <<>> /\ t = <<>>
    BY <1>2, <1>5, <2>2
  <2>4. n # flights => T = 0
    BY <1>6, <2>3
  <2>5. T = 0 => g = 0 /\ T - g = 0
    BY <1>8
  <2>6. g = 0 => clear = <<>>
    BY <1>10
  <2> QED BY <1>15, <2>3, <2>4, <2>5, <2>6
<1>18. Piece(u, Wire, Decrypted + n + (g + (T - g) - p))
  BY <1>5, <1>6, <1>14
<1> QED
  <2>1. /\ Piece(clear, ServerBytes, Len(receivedBytes))
        /\ Piece(left, ServerBytes, Len(receivedBytes) + Len(clear))
        /\ Piece(u, Wire, Decrypted + n + (Len(clear) + Len(left) - Len(plain)))
        /\ n + Len(clear) + Len(left) + Len(u) = Len(plain) + Len(cipher)
    BY <1>4, <1>10, <1>11, <1>13, <1>18
  <2>2. /\ n \in Nat /\ clear \in Seq(Nat) /\ left \in Seq(Nat) /\ u \in Seq(Wired)
        /\ n <= flights
        /\ Len(clear) = 0 => left = <<>> /\ \A i \in DOMAIN u : ~u[i].last
    BY <1>2, <1>5, <1>10, <1>11, <1>16
  <2>3. ReadsAs(cipher, blen, n, clear, left, u)
    BY <1>12, <1>17, <2>1, <2>2 DEF ReadsAs
  <2> QED BY <2>2, <2>3

LEMMA PushIs ==
  ASSUME NEW bytes \in Seq(StreamByte), atServer \in Seq(StreamByte),
         cutShort \in BOOLEAN, Push(bytes)
  PROVE  /\ atServer' \in Seq(StreamByte) /\ cutShort' \in BOOLEAN
         /\ ~cutShort' => ~cutShort /\ atServer' = atServer \o bytes
<1>1. CASE atServer' = atServer \o bytes /\ UNCHANGED cutShort
  BY <1>1, ConcatProperties
<1>2. CASE /\ \E n \in 0 .. Len(bytes) - 1 : atServer' = atServer \o SubSeq(bytes, 1, n)
           /\ cutShort' = TRUE
  <2> PICK n \in 0 .. Len(bytes) - 1 : atServer' = atServer \o SubSeq(bytes, 1, n)
    BY <1>2
  <2>1. \A i \in 1 .. n : bytes[i] \in StreamByte
    BY ElementOfSeq
  <2>2. SubSeq(bytes, 1, n) \in Seq(StreamByte)
    BY <2>1, SubSeqProperties
  <2> QED BY <1>2, <2>2, ConcatProperties
<1> QED BY <1>1, <1>2 DEF Push

-----------------------------------------------------------------------------
(* Sending                                                                   *)

RequestBytes == RequestLengths[request] - bytesWritten

LEMMA RequestIs ==
  ASSUME TlsTypes, request <= Len(RequestLengths)
  PROVE  /\ RequestBytes \in Nat \ {0}
         /\ RequestLengths[request] \in Nat
         /\ StreamBytes(request, bytesWritten) \in Seq(StreamByte)
         /\ Len(StreamBytes(request, bytesWritten)) = RequestBytes
<1>1. request \in Nat \ {0} /\ bytesWritten \in Nat /\ bytesWritten < RequestLengths[request]
  BY DEF TlsTypes
<1>2. RequestLengths[request] \in Nat \ {0}
  BY <1>1, TlsAssumption, ElementOfSeq
<1>3. RequestBytes \in Nat \ {0}
  BY <1>1, <1>2 DEF RequestBytes
<1>4. StreamBytes(request, bytesWritten) \in [1 .. RequestBytes -> StreamByte]
  BY <1>1 DEF StreamBytes, StreamByte, RequestBytes
<1> QED BY <1>2, <1>3, <1>4, SequenceOf

\* The writer's place stays inside a request, or goes to the next one's start.
LEMMA AdvanceWriterKeeps ==
  ASSUME TlsTypes, request <= Len(RequestLengths),
         NEW k \in Nat \ {0}, k <= RequestBytes, AdvanceWriter(k)
  PROVE  /\ request' \in Nat \ {0} /\ bytesWritten' \in Nat
         /\ request' <= Len(RequestLengths) => bytesWritten' < RequestLengths[request']
<1>1. request \in Nat \ {0} /\ bytesWritten \in Nat
  BY DEF TlsTypes
<1>2. RequestLengths[request] \in Nat /\ k <= RequestLengths[request] - bytesWritten
  BY RequestIs DEF RequestBytes
<1>3. CASE bytesWritten + k = RequestLengths[request]
  <2>1. request' = request + 1 /\ bytesWritten' = 0
    BY <1>3 DEF AdvanceWriter
  <2>2. request' \in Nat \ {0}
    BY <1>1, <2>1
  <2>3. request' <= Len(RequestLengths) => RequestLengths[request'] \in Nat \ {0}
    BY <2>2, TlsAssumption, ElementOfSeq
  <2> QED BY <2>1, <2>2, <2>3
<1>4. CASE bytesWritten + k # RequestLengths[request]
  <2>1. request' = request /\ bytesWritten' = bytesWritten + k
    BY <1>4 DEF AdvanceWriter
  <2>2. bytesWritten + k < RequestLengths[request]
    BY <1>1, <1>2, <1>4
  <2> QED BY <1>1, <2>1, <2>2
<1> QED BY <1>3, <1>4

\* The receiving half of the invariant says nothing of the other half's variables.
OnTheWire == <<active, flights, toSend, socket, wbio, plain, receivedBytes>>
Receiving == <<OnTheWire, bytesRead, connectionAlive>>

LEMMA WireUnchanged == ASSUME WireInOrder, UNCHANGED OnTheWire PROVE WireInOrder'
<1>1. /\ active' = active /\ flights' = flights /\ toSend' = toSend /\ socket' = socket
      /\ wbio' = wbio /\ plain' = plain /\ receivedBytes' = receivedBytes
  BY DEF OnTheWire
<1>2. Flights' = Flights
  BY <1>1 DEF Flights
<1>3. Wire' = Wire /\ Decrypted' = Decrypted /\ ServerBytes' = ServerBytes
  BY <1>1, <1>2 DEF Wire, Decrypted, ServerBytes, Handshake
<1> QED BY <1>1, <1>2, <1>3 DEF WireInOrder, Piece

LEMMA ReceivingUnchanged ==
  ASSUME WireInOrder, NothingLeft, UNCHANGED Receiving
  PROVE  WireInOrder' /\ NothingLeft'
<1>1. UNCHANGED OnTheWire /\ bytesRead' = bytesRead /\ connectionAlive' = connectionAlive
  BY DEF Receiving
<1>2. plain' = plain /\ wbio' = wbio
  BY <1>1 DEF OnTheWire
<1> QED BY <1>1, <1>2, WireUnchanged DEF NothingLeft

LEMMA StreamSendKeeps == ASSUME TlsInv, StreamSend PROVE TlsInv'
<1>1. TlsTypes /\ SendInOrder /\ WireInOrder /\ NothingLeft /\ request <= Len(RequestLengths)
  BY DEF TlsInv, StreamSend
<1>2. UNCHANGED Receiving
  BY DEF StreamSend, Receiving, OnTheWire
<1>3. WireInOrder' /\ NothingLeft'
  BY <1>1, <1>2, ReceivingUnchanged
<1>4. PICK buffer \in Seq(StreamByte) : /\ buffer = StreamBytes(request, bytesWritten)
                                        /\ Len(buffer) = RequestBytes
  BY <1>1, RequestIs
<1>5. RequestBytes \in Nat \ {0}
  BY <1>1, RequestIs
<1>6. /\ pendingWrites \in Seq(StreamByte) /\ givenToSend \in Seq(StreamByte)
      /\ atServer \in Seq(StreamByte) /\ cutShort \in BOOLEAN
      /\ flights' = flights
      /\ ~cutShort => atServer \o pendingWrites = givenToSend
      /\ flights = 0 => pendingWrites = <<>>
  BY <1>1, <1>2 DEF TlsTypes, SendInOrder, Receiving, OnTheWire
<1>7. /\ pendingWrites' \in Seq(StreamByte) /\ givenToSend' \in Seq(StreamByte)
      /\ atServer' \in Seq(StreamByte) /\ cutShort' \in BOOLEAN
      /\ SendInOrder'
      /\ \E k \in Nat \ {0} : k <= RequestBytes /\ AdvanceWriter(k)
  <2>1. CASE /\ active /\ givenToSend' = givenToSend \o buffer /\ FilterSend(buffer)
             /\ AdvanceWriter(1)
    <3>1. givenToSend' \in Seq(StreamByte)
      BY <1>4, <1>6, <2>1, ConcatProperties
    <3>2. \E k \in Nat \ {0} : k <= RequestBytes /\ AdvanceWriter(k)
      BY <1>5, <2>1
    <3>3. CASE flights = 0
      <4>1. pendingWrites = <<>> /\ pendingWrites' = <<>> /\ Push(pendingWrites \o buffer)
        BY <1>6, <2>1, <3>3 DEF FilterSend
      <4>2. pendingWrites \o buffer = buffer
        BY <1>4, <4>1, ConcatEmptySeq
      <4>3. /\ atServer' \in Seq(StreamByte) /\ cutShort' \in BOOLEAN
            /\ ~cutShort' => ~cutShort /\ atServer' = atServer \o buffer
        BY <1>4, <1>6, <4>1, <4>2, PushIs
      <4>4. ~cutShort => atServer = givenToSend
        BY <1>6, <4>1, ConcatEmptySeq
      <4>5. atServer' \o pendingWrites' = atServer'
        BY <4>1, <4>3, ConcatEmptySeq
      <4>6. ~cutShort' => atServer' \o pendingWrites' = givenToSend'
        BY <2>1, <4>3, <4>4, <4>5
      <4>7. SendInOrder'
        BY <4>1, <4>6 DEF SendInOrder
      <4>8. pendingWrites' \in Seq(StreamByte)
        BY <4>1
      <4> QED BY <3>1, <3>2, <4>3, <4>7, <4>8
    <3>4. CASE flights # 0
      <4>1. pendingWrites' = pendingWrites \o buffer /\ atServer' = atServer /\ cutShort' = cutShort
        BY <2>1, <3>4 DEF FilterSend
      <4>2. pendingWrites' \in Seq(StreamByte)
        BY <1>4, <1>6, <4>1, ConcatProperties
      <4>3. atServer \o (pendingWrites \o buffer) = (atServer \o pendingWrites) \o buffer
        <5>1. PICK s, t, u \in Seq(StreamByte) : s = atServer /\ t = pendingWrites /\ u = buffer
          BY <1>4, <1>6
        <5>2. (s \o t) \o u = s \o (t \o u)
          BY ConcatAssociative
        <5> QED BY <5>1, <5>2
      <4>4. SendInOrder'
        BY <1>6, <2>1, <3>4, <4>1, <4>3 DEF SendInOrder
      <4> QED BY <1>6, <3>1, <3>2, <4>1, <4>2, <4>4
    <3> QED BY <3>3, <3>4
  <2>2. ASSUME NEW n \in 1 .. Len(buffer), ~active,
               givenToSend' = givenToSend \o SubSeq(buffer, 1, n),
               atServer' = atServer \o SubSeq(buffer, 1, n),
               AdvanceWriter(n), UNCHANGED <<pendingWrites, cutShort>>
        PROVE  <1>7!:
    <3>1. SubSeq(buffer, 1, n) \in Seq(StreamByte)
      <4>1. \A i \in 1 .. n : buffer[i] \in StreamByte
        BY <1>4, ElementOfSeq
      <4> QED BY <4>1, SubSeqProperties
    <3>2. flights = 0 /\ pendingWrites = <<>> /\ pendingWrites' = <<>>
      BY <1>1, <1>6, <2>2 DEF TlsTypes, Flights
    <3>3. givenToSend' \in Seq(StreamByte) /\ atServer' \in Seq(StreamByte)
      BY <1>6, <2>2, <3>1, ConcatProperties
    <3>4. atServer \o pendingWrites = atServer /\ atServer' \o pendingWrites' = atServer'
      BY <1>6, <3>2, <3>3, ConcatEmptySeq
    <3>5. SendInOrder'
      BY <1>6, <2>2, <3>2, <3>4 DEF SendInOrder
    <3>6. n \in Nat \ {0} /\ n <= RequestBytes
      BY <1>4, <1>5
    <3> QED BY <1>6, <2>2, <3>2, <3>3, <3>5, <3>6
  <2> QED BY <1>4, <2>1, <2>2 DEF StreamSend
<1>8. /\ request' \in Nat \ {0} /\ bytesWritten' \in Nat
      /\ request' <= Len(RequestLengths) => bytesWritten' < RequestLengths[request']
  BY <1>1, <1>7, AdvanceWriterKeeps
<1>9. TlsTypes'
  BY <1>1, <1>2, <1>7, <1>8 DEF TlsTypes, Receiving, OnTheWire, Flights
<1> QED BY <1>3, <1>7, <1>9 DEF TlsInv

-----------------------------------------------------------------------------
(* Receiving                                                                 *)

LEMMA ArriveKeeps == ASSUME TlsInv, Arrive PROVE TlsInv'
<1>1. TlsTypes /\ SendInOrder /\ WireInOrder /\ NothingLeft
  BY DEF TlsInv
<1>2. /\ UNCHANGED <<active, flights, wbio, plain, receivedBytes, bytesRead, connectionAlive>>
      /\ UNCHANGED writing
  BY DEF Arrive
<1>3. PICK n \in 1 .. Len(toSend) :
        /\ socket' = socket \o SubSeq(toSend, 1, n)
        /\ toSend' = SubSeq(toSend, n + 1, Len(toSend))
  BY DEF Arrive
<1>4. toSend \in Seq(Wired) /\ socket \in Seq(Wired) /\ wbio \in Seq(Wired)
  BY <1>1 DEF TlsTypes
<1>5. PICK d \in Int : d = Decrypted + Len(wbio) + Len(socket)
  BY <1>1, <1>4, DecryptedIs
<1>6. n \in Nat /\ n <= Len(toSend)
  BY <1>4
<1>7. Piece(toSend, Wire, d)
  BY <1>1, <1>5 DEF WireInOrder
<1>8. /\ UpTo(toSend, n) \in Seq(Wired) /\ Len(UpTo(toSend, n)) = n
      /\ Piece(UpTo(toSend, n), Wire, d)
  BY <1>4, <1>6, <1>7, UpToCut
<1>9. /\ After(toSend, n) \in Seq(Wired) /\ Len(After(toSend, n)) = Len(toSend) - n
      /\ Piece(After(toSend, n), Wire, d + n)
  BY <1>4, <1>6, <1>7, AfterCut
<1>10. socket' = socket \o UpTo(toSend, n) /\ toSend' = After(toSend, n)
  BY <1>3 DEF UpTo, After
<1>11. PICK e \in Int : e = Decrypted + Len(wbio)
  BY <1>1, <1>4, DecryptedIs
<1>12. Piece(socket, Wire, e) /\ d = e + Len(socket)
  BY <1>1, <1>5, <1>11 DEF WireInOrder
<1>13. /\ Piece(socket', Wire, e) /\ socket' \in Seq(Wired)
       /\ Len(socket') = Len(socket) + n
  BY <1>4, <1>8, <1>10, <1>12, PieceJoined
<1>14. Flights' = Flights
  BY <1>2 DEF Flights
<1>15. Wire' = Wire /\ Decrypted' = Decrypted /\ ServerBytes' = ServerBytes
  BY <1>2, <1>14 DEF Wire, Decrypted, ServerBytes, Handshake
<1>16. /\ Piece(socket', Wire, Decrypted + Len(wbio))
       /\ Piece(toSend', Wire, Decrypted + Len(wbio) + Len(socket'))
       /\ Decrypted + Len(wbio) + Len(socket') + Len(toSend') = Flights + Len(Sent)
  <2>1. Len(socket) \in Nat /\ Len(toSend) \in Nat
    BY <1>4
  <2>2. e + Len(socket') = d + n
    BY <1>6, <1>12, <1>13, <2>1
  <2>3. e + Len(socket') + Len(toSend') = d + Len(toSend)
    <3>1. Len(toSend') = Len(toSend) - n
      BY <1>9, <1>10
    <3>2. d + n + (Len(toSend) - n) = d + Len(toSend)
      BY <1>6, <2>1
    <3> QED BY <2>2, <3>1, <3>2
  <2>4. d + Len(toSend) = Flights + Len(Sent)
    BY <1>1, <1>5 DEF WireInOrder
  <2> QED BY <1>9, <1>10, <1>11, <1>13, <2>2, <2>3, <2>4
<1>17. WireInOrder'
  BY <1>1, <1>2, <1>14, <1>15, <1>16 DEF WireInOrder, Piece
<1>18. TlsTypes'
  BY <1>1, <1>2, <1>9, <1>10, <1>13 DEF TlsTypes, writing, Flights
<1>19. SendInOrder' /\ NothingLeft'
  BY <1>1, <1>2 DEF SendInOrder, NothingLeft, writing
<1> QED BY <1>17, <1>18, <1>19 DEF TlsInv

Taken == Shorter(Len(socket), CipherBuffer)

LEMMA TakenIs ==
  ASSUME TlsInv
  PROVE  /\ Taken \in Nat /\ Taken <= Len(socket)
         /\ UpTo(socket, Taken) \in Seq(Wired) /\ After(socket, Taken) \in Seq(Wired)
         /\ Len(After(socket, Taken)) = Len(socket) - Taken
         /\ wbio \o UpTo(socket, Taken) \in Seq(Wired)
         /\ Len(wbio \o UpTo(socket, Taken)) = Len(wbio) + Taken
         /\ Piece(wbio \o UpTo(socket, Taken), Wire, Decrypted)
         /\ Piece(After(socket, Taken), Wire, Decrypted + Len(wbio) + Taken)
<1>1. TlsTypes /\ WireInOrder
  BY DEF TlsInv
<1>2. socket \in Seq(Wired) /\ wbio \in Seq(Wired)
  BY <1>1 DEF TlsTypes
<1>3. PICK n : n = Taken
  OBVIOUS
<1>4. n \in Nat /\ n <= Len(socket)
  <2>1. Len(socket) \in Nat /\ CipherBuffer \in Nat
    BY <1>2, TlsAssumption
  <2> QED BY <1>3, <2>1, ShorterIs DEF Taken
<1>5. PICK e \in Int, d \in Int : e = Decrypted + Len(wbio) /\ d = Decrypted
  BY <1>1, <1>2, DecryptedIs
<1>6. Piece(socket, Wire, e) /\ Piece(wbio, Wire, d) /\ e = d + Len(wbio)
  BY <1>1, <1>5 DEF WireInOrder
<1>7. /\ UpTo(socket, n) \in Seq(Wired) /\ Len(UpTo(socket, n)) = n
      /\ Piece(UpTo(socket, n), Wire, e)
  BY <1>2, <1>4, <1>6, UpToCut
<1>8. /\ After(socket, n) \in Seq(Wired) /\ Len(After(socket, n)) = Len(socket) - n
      /\ Piece(After(socket, n), Wire, e + n)
  BY <1>2, <1>4, <1>6, AfterCut
<1>9. PICK f : f = UpTo(socket, n)
  OBVIOUS
<1>10. f \in Seq(Wired) /\ Len(f) = n /\ Piece(f, Wire, d + Len(wbio))
  BY <1>6, <1>7, <1>9
<1>11. /\ Piece(wbio \o f, Wire, d) /\ wbio \o f \in Seq(Wired)
       /\ Len(wbio \o f) = Len(wbio) + Len(f)
  BY <1>2, <1>6, <1>10, PieceJoined
<1> QED BY <1>3, <1>4, <1>5, <1>7, <1>8, <1>9, <1>10, <1>11

\* What recv() of an active filter does to the variables of the stream
LEMMA RecvActive ==
  ASSUME TlsInv, StreamRecv, active
  PROVE  \E k \in Nat, clear \in Seq(Nat), left \in Seq(Nat), still \in Seq(Wired) :
           /\ k <= flights
           /\ Piece(clear, ServerBytes, Len(receivedBytes))
           /\ Piece(left, ServerBytes, Len(receivedBytes) + Len(clear))
           /\ Piece(still, Wire, Decrypted + k + (Len(clear) + Len(left) - Len(plain)))
           /\ k + Len(clear) + Len(left) + Len(still) = Len(plain) + Len(wbio) + Taken
           /\ k # flights => still = <<>> /\ clear = <<>> /\ left = <<>>
           /\ Len(clear) = 0 => left = <<>> /\ \A i \in DOMAIN still : ~still[i].last
           /\ socket' = After(socket, Taken)
           /\ wbio' = still /\ plain' = left /\ receivedBytes' = receivedBytes \o clear
           /\ bytesRead' = Len(clear) /\ flights' = flights - k
           /\ IF flights - k = 0 THEN Push(pendingWrites) ELSE UNCHANGED <<atServer, cutShort>>
           /\ pendingWrites' = FlushesPending(flights - k = 0)
<1>1. TlsTypes /\ WireInOrder
  BY DEF TlsInv
<1>2. PICK cipher : cipher = wbio \o UpTo(socket, Taken)
  OBVIOUS
<1>3. PICK R : R = SSLRead(cipher, PlainBuffer)
  OBVIOUS
<1>4. /\ socket' = After(socket, Taken)
      /\ wbio' = R.cipher /\ plain' = R.left /\ receivedBytes' = receivedBytes \o R.given
      /\ bytesRead' = Len(R.given) /\ flights' = flights - R.handshakes
      /\ IF flights - R.handshakes = 0
         THEN Push(pendingWrites) ELSE UNCHANGED <<atServer, cutShort>>
      /\ pendingWrites' = FlushesPending(flights - R.handshakes = 0)
  BY <1>2, <1>3 DEF StreamRecv, Taken, UpTo, After
<1>5. /\ cipher \in Seq(Wired) /\ Len(cipher) = Len(wbio) + Taken
      /\ Piece(cipher, Wire, Decrypted)
  BY <1>2, TakenIs
<1>6. Decrypted + Len(cipher) <= Flights + Len(Sent)
  <2>1. PICK d \in Nat, b \in Nat, s \in Nat, t \in Nat, n \in Nat :
          /\ d = Decrypted /\ b = Len(wbio) /\ s = Len(socket) /\ t = Len(toSend)
          /\ n = Taken
    <3>1. Decrypted \in Nat /\ Taken \in Nat
      BY <1>1, DecryptedIs, TakenIs
    <3>2. Len(wbio) \in Nat /\ Len(socket) \in Nat /\ Len(toSend) \in Nat
      BY <1>1 DEF TlsTypes
    <3> QED BY <3>1, <3>2
  <2>2. d + b + s + t = Flights + Len(Sent)
    BY <1>1, <2>1 DEF WireInOrder
  <2>3. n <= s
    BY <2>1, TakenIs
  <2>4. d + (b + n) <= d + b + s + t
    BY <2>3
  <2> QED BY <1>5, <2>1, <2>2, <2>4
<1>7. PICK k \in Nat, clear \in Seq(Nat), left \in Seq(Nat), still \in Seq(Wired) :
        ReadsAs(cipher, PlainBuffer, k, clear, left, still)
  <2>1. PICK b \in Nat \ {0} : b = PlainBuffer
    BY TlsAssumption
  <2>2. \E k \in Nat, clear \in Seq(Nat), left \in Seq(Nat), still \in Seq(Wired) :
           ReadsAs(cipher, b, k, clear, left, still)
    BY <1>1, <1>5, <1>6, SSLReadIs
  <2> QED BY <2>1, <2>2
<1>8. R.handshakes = k /\ R.cipher = still /\ R.given = clear /\ R.left = left
  BY <1>3, <1>7 DEF ReadsAs
<1>9. k + Len(clear) + Len(left) + Len(still) = Len(plain) + Len(wbio) + Taken
  <2>1. Len(plain) \in Nat /\ Len(wbio) \in Nat /\ Taken \in Nat
    <3>1. plain \in Seq(Nat) /\ wbio \in Seq(Wired)
      BY <1>1 DEF TlsTypes
    <3>2. Taken \in Nat
      BY <1>1, TakenIs
    <3> QED BY <3>1, <3>2
  <2>2. Len(plain) + (Len(wbio) + Taken) = Len(plain) + Len(wbio) + Taken
    BY <2>1
  <2> QED BY <1>5, <1>7, <2>2 DEF ReadsAs
<1> QED BY <1>4, <1>7, <1>8, <1>9 DEF ReadsAs

LEMMA RecvActiveKeeps == ASSUME TlsInv, StreamRecv, active PROVE TlsInv'
<1>1. TlsTypes /\ SendInOrder /\ WireInOrder
  BY DEF TlsInv
<1>2. PICK k \in Nat, clear \in Seq(Nat), left \in Seq(Nat), still \in Seq(Wired) :
        /\ k <= flights
        /\ Piece(clear, ServerBytes, Len(receivedBytes))
        /\ Piece(left, ServerBytes, Len(receivedBytes) + Len(clear))
        /\ Piece(still, Wire, Decrypted + k + (Len(clear) + Len(left) - Len(plain)))
        /\ k + Len(clear) + Len(left) + Len(still) = Len(plain) + Len(wbio) + Taken
        /\ k # flights => still = <<>> /\ clear = <<>> /\ left = <<>>
        /\ Len(clear) = 0 => left = <<>> /\ \A i \in DOMAIN still : ~still[i].last
        /\ socket' = After(socket, Taken)
        /\ wbio' = still /\ plain' = left /\ receivedBytes' = receivedBytes \o clear
        /\ bytesRead' = Len(clear) /\ flights' = flights - k
        /\ IF flights - k = 0 THEN Push(pendingWrites) ELSE UNCHANGED <<atServer, cutShort>>
        /\ pendingWrites' = FlushesPending(flights - k = 0)
  BY RecvActive
<1>3. UNCHANGED <<active, givenToSend, request, bytesWritten, toSend>>
  BY DEF StreamRecv
<1>4. Flights' = Flights
  BY <1>3 DEF Flights
<1>5. Wire' = Wire /\ ServerBytes' = ServerBytes
  BY <1>4 DEF Wire, ServerBytes, Handshake
<1>6. receivedBytes \in Seq(Nat) /\ Len(receivedBytes) \in Nat /\ Piece(receivedBytes, ServerBytes, 0)
  BY <1>1 DEF TlsTypes, WireInOrder
<1>7. /\ receivedBytes' \in Seq(Nat) /\ Len(receivedBytes') = Len(receivedBytes) + Len(clear)
      /\ Piece(receivedBytes', ServerBytes, 0)
  <2>1. PICK z \in Int : z = 0
    OBVIOUS
  <2>2. Piece(receivedBytes, ServerBytes, z) /\ Piece(clear, ServerBytes, z + Len(receivedBytes))
    BY <1>2, <1>6, <2>1
  <2>3. /\ Piece(receivedBytes \o clear, ServerBytes, z) /\ receivedBytes \o clear \in Seq(Nat)
        /\ Len(receivedBytes \o clear) = Len(receivedBytes) + Len(clear)
    BY <1>6, <2>2, PieceJoined
  <2> QED BY <1>2, <2>1, <2>3
<1>8. PICK F \in Nat, f \in Nat, h \in Nat, p \in Nat, b \in Nat, s \in Nat, t \in Nat, n \in Nat :
        /\ F = Flights /\ f = flights /\ h = Len(receivedBytes) /\ p = Len(plain)
        /\ b = Len(wbio) /\ s = Len(socket) /\ t = Len(toSend) /\ n = Taken
  <2>1. Flights \in Nat /\ flights \in Nat /\ Len(receivedBytes) \in Nat /\ Len(plain) \in Nat
    BY <1>1, DecryptedIs
  <2>2. Len(wbio) \in Nat /\ Len(socket) \in Nat /\ Len(toSend) \in Nat
    BY <1>1 DEF TlsTypes
  <2>3. Taken \in Nat
    BY TakenIs
  <2> QED BY <2>1, <2>2, <2>3
<1>9. PICK c \in Nat, l \in Nat, r \in Nat : c = Len(clear) /\ l = Len(left) /\ r = Len(still)
  OBVIOUS
<1>10. Decrypted = F - f + h + p /\ Decrypted' = F - (f - k) + (h + c) + l
  BY <1>2, <1>4, <1>7, <1>8, <1>9 DEF Decrypted
<1>11. k + c + l + r = p + b + n /\ f <= F /\ k <= f
  BY <1>1, <1>2, <1>8, <1>9, DecryptedIs
<1>12. /\ Decrypted' = Decrypted + k + (c + l - p)
       /\ Decrypted' + r = Decrypted + b + n
  BY <1>10, <1>11
<1>13. Piece(plain', ServerBytes, Len(receivedBytes'))
  BY <1>2, <1>7
<1>14. Piece(wbio', Wire, Decrypted')
  BY <1>2, <1>8, <1>9, <1>12
<1>15. Piece(socket', Wire, Decrypted' + Len(wbio')) /\ Len(socket') = s - n
  BY <1>2, <1>8, <1>9, <1>12, TakenIs
<1>16. n <= s
  BY <1>8, TakenIs
<1>17. Decrypted' + Len(wbio') + Len(socket') = Decrypted + Len(wbio) + Len(socket)
  <2>1. Decrypted + b + n + (s - n) = Decrypted + b + s
    BY <1>10, <1>16
  <2> QED BY <1>2, <1>8, <1>9, <1>12, <1>15, <2>1
<1>18. /\ Piece(toSend, Wire, Decrypted' + Len(wbio') + Len(socket'))
       /\ Decrypted' + Len(wbio') + Len(socket') + Len(toSend) = Flights + Len(Sent)
  BY <1>1, <1>17 DEF WireInOrder
<1>19. flights' # 0 => wbio' = <<>> /\ plain' = <<>> /\ receivedBytes' = <<>>
  <2>1. flights' # 0 => k # flights /\ flights # 0
    BY <1>2, <1>8
  <2>2. flights # 0 => receivedBytes = <<>>
    BY <1>1 DEF WireInOrder
  <2>3. <<>> \o <<>> = <<>>
    OBVIOUS
  <2> QED BY <1>2, <2>1, <2>2, <2>3
<1>20. WireInOrder'
  BY <1>3, <1>4, <1>5, <1>7, <1>13, <1>14, <1>15, <1>18, <1>19 DEF WireInOrder, Piece
<1>21. NothingLeft'
  BY <1>2 DEF NothingLeft
<1>22. /\ pendingWrites \in Seq(StreamByte) /\ givenToSend \in Seq(StreamByte)
       /\ atServer \in Seq(StreamByte) /\ cutShort \in BOOLEAN
       /\ ~cutShort => atServer \o pendingWrites = givenToSend
       /\ flights = 0 => pendingWrites = <<>>
  BY <1>1 DEF TlsTypes, SendInOrder
<1>23. /\ pendingWrites' \in Seq(StreamByte) /\ atServer' \in Seq(StreamByte)
       /\ cutShort' \in BOOLEAN /\ SendInOrder'
  <2>1. CASE flights - k = 0
    <3>1. pendingWrites' = <<>> /\ Push(pendingWrites)
      BY <1>2, <2>1 DEF FlushesPending
    <3>2. /\ atServer' \in Seq(StreamByte) /\ cutShort' \in BOOLEAN
          /\ ~cutShort' => ~cutShort /\ atServer' = atServer \o pendingWrites
      BY <1>22, <3>1, PushIs
    <3>3. atServer' \o pendingWrites' = atServer'
      BY <3>1, <3>2, ConcatEmptySeq
    <3>4. SendInOrder'
      BY <1>3, <1>22, <3>1, <3>2, <3>3 DEF SendInOrder
    <3> QED BY <3>1, <3>2, <3>4
  <2>2. CASE flights - k # 0
    <3>1. pendingWrites' = pendingWrites /\ atServer' = atServer /\ cutShort' = cutShort
      BY <1>2, <2>2 DEF FlushesPending
    <3>2. flights' # 0
      BY <1>2, <2>2
    <3> QED BY <1>3, <1>22, <3>1, <3>2 DEF SendInOrder
  <2> QED BY <2>1, <2>2
<1>24. flights' \in 0 .. Flights'
  BY <1>2, <1>4, <1>8, <1>11
<1>25. /\ wbio' \in Seq(Wired) /\ plain' \in Seq(Nat) /\ bytesRead' \in Nat
       /\ socket' \in Seq(Wired)
  BY <1>2, <1>9, TakenIs
<1>26. TlsTypes'
  BY <1>1, <1>3, <1>7, <1>22, <1>23, <1>24, <1>25 DEF TlsTypes
<1> QED BY <1>20, <1>21, <1>23, <1>26 DEF TlsInv

LEMMA RecvPlainKeeps == ASSUME TlsInv, StreamRecv, ~active PROVE TlsInv'
<1>1. TlsTypes /\ SendInOrder /\ WireInOrder
  BY DEF TlsInv
<1>2. PICK n : n = Shorter(Len(socket), PlainBuffer)
  OBVIOUS
<1>3. PICK got : got = [i \in 1 .. n |-> socket[i].byte]
  OBVIOUS
<1>4. /\ receivedBytes' = receivedBytes \o got /\ socket' = After(socket, n) /\ bytesRead' = n
      /\ UNCHANGED <<flights, wbio, plain, pendingWrites, atServer, cutShort>>
      /\ UNCHANGED <<active, givenToSend, request, bytesWritten, toSend>>
  BY <1>2, <1>3 DEF StreamRecv, After
<1>5. socket \in Seq(Wired) /\ receivedBytes \in Seq(Nat) /\ active \in BOOLEAN
  BY <1>1 DEF TlsTypes
<1>6. n \in Nat /\ n <= Len(socket)
  <2>1. Len(socket) \in Nat /\ PlainBuffer \in Nat
    BY <1>5, TlsAssumption
  <2> QED BY <1>2, <2>1, ShorterIs
<1>7. Flights = 0 /\ flights = 0 /\ wbio = <<>> /\ plain = <<>>
  BY <1>1 DEF Flights, TlsTypes, WireInOrder
<1>8. PICK h \in Nat, s \in Nat, t \in Nat : h = Len(receivedBytes) /\ s = Len(socket) /\ t = Len(toSend)
  BY <1>1 DEF TlsTypes
<1>9. Decrypted = h /\ Decrypted + Len(wbio) = h /\ Decrypted + Len(wbio) + Len(socket) = h + s
  BY <1>7, <1>8 DEF Decrypted
<1>10. /\ Piece(socket, Wire, h) /\ Piece(toSend, Wire, h + s) /\ h + s + t = Len(Sent)
       /\ Piece(receivedBytes, ServerBytes, 0)
  <2>1. Len(Sent) \in Nat
    BY <1>5, WireIs
  <2> QED BY <1>1, <1>7, <1>8, <1>9, <2>1 DEF WireInOrder
<1>11. /\ After(socket, n) \in Seq(Wired) /\ Len(After(socket, n)) = s - n
       /\ Piece(After(socket, n), Wire, h + n)
  <2>1. /\ After(socket, n) \in Seq(Wired) /\ Len(After(socket, n)) = Len(socket) - n
        /\ Piece(After(socket, n), Wire, h + n)
    <3>1. Piece(socket, Wire, h) /\ h \in Int
      BY <1>10
    <3> QED BY <1>5, <1>6, <3>1, AfterCut
  <2> QED BY <1>8, <2>1
<1>12. ASSUME NEW i \in 1 .. n
       PROVE  socket[i].byte \in Nat /\ socket[i].byte = ServerBytes[h + i]
  <2>1. i \in 1 .. Len(socket) /\ socket[i] \in Wired
    BY <1>5, <1>6, ElementOfSeq
  <2>2. PICK k \in Int : k = h + i
    OBVIOUS
  <2>3. k \in 1 .. Len(Sent) /\ Flights + k = k
    BY <1>7, <1>8, <1>10, <2>1, <2>2
  <2>4. socket[i] = Wire[k]
    BY <1>10, <2>1, <2>2 DEF Piece
  <2>5. Wire[Flights + k] = Sent[k] /\ ServerBytes[k] = Sent[k].byte
    BY <1>5, <2>3, WireIs
  <2>6. socket[i].byte \in Nat
    BY <2>1 DEF Wired
  <2> QED BY <2>2, <2>3, <2>4, <2>5, <2>6
<1>13. got \in [1 .. n -> Nat] /\ \A i \in 1 .. n : got[i] = socket[i].byte
  BY <1>3, <1>12
<1>14. got \in Seq(Nat) /\ Len(got) = n
  BY <1>6, <1>13, SequenceOf
<1>15. Piece(got, ServerBytes, h)
  BY <1>12, <1>13, <1>14 DEF Piece
<1>16. /\ receivedBytes' \in Seq(Nat) /\ Len(receivedBytes') = h + n
       /\ Piece(receivedBytes', ServerBytes, 0)
  <2>1. PICK z \in Int : z = 0
    OBVIOUS
  <2>2. Piece(receivedBytes, ServerBytes, z) /\ Piece(got, ServerBytes, z + Len(receivedBytes))
    BY <1>8, <1>10, <1>15, <2>1
  <2>3. /\ Piece(receivedBytes \o got, ServerBytes, z) /\ receivedBytes \o got \in Seq(Nat)
        /\ Len(receivedBytes \o got) = Len(receivedBytes) + Len(got)
    BY <1>5, <1>14, <2>2, PieceJoined
  <2> QED BY <1>4, <1>8, <1>14, <2>1, <2>3
<1>17. Flights' = Flights
  BY <1>4 DEF Flights
<1>18. Wire' = Wire /\ ServerBytes' = ServerBytes
  BY <1>17 DEF Wire, ServerBytes, Handshake
<1>19. /\ Decrypted' = h + n /\ Decrypted' + Len(wbio') = h + n
       /\ Decrypted' + Len(wbio') + Len(socket') = h + s
  <2>1. wbio' = <<>> /\ plain' = <<>> /\ flights' = 0 /\ Flights' = 0
    BY <1>4, <1>7, <1>17
  <2>2. Len(socket') = s - n
    BY <1>4, <1>11
  <2>3. h + n + (s - n) = h + s
    BY <1>6
  <2>4. Decrypted' = h + n
    BY <1>6, <1>16, <2>1 DEF Decrypted
  <2> QED BY <1>6, <2>1, <2>2, <2>3, <2>4
<1>20. WireInOrder'
  <2>1. Piece(socket', Wire', Decrypted' + Len(wbio')) /\ Piece(wbio', Wire', Decrypted')
    <3>1. Piece(socket', Wire, h + n)
      BY <1>4, <1>11
    <3>2. wbio' = <<>>
      BY <1>4, <1>7
    <3>3. Piece(<<>>, Wire', Decrypted')
      BY DEF Piece
    <3>4. Wire' = Wire /\ Decrypted' + Len(wbio') = h + n
      BY <1>18, <1>19
    <3>5. Piece(socket', Wire', Decrypted' + Len(wbio'))
      BY <3>1, <3>4
    <3> QED BY <3>2, <3>3, <3>5
  <2>2. /\ Piece(toSend', Wire', Decrypted' + Len(wbio') + Len(socket'))
        /\ Decrypted' + Len(wbio') + Len(socket') + Len(toSend') = Flights' + Len(Sent)
    <3>1. Len(Sent) \in Nat
      BY <1>5, WireIs
    <3> QED BY <1>4, <1>7, <1>8, <1>10, <1>17, <1>18, <1>19, <3>1
  <2>3. Piece(plain', ServerBytes', Len(receivedBytes')) /\ Piece(receivedBytes', ServerBytes', 0)
    <3>1. plain' = <<>> /\ ServerBytes' = ServerBytes
      BY <1>4, <1>7, <1>18
    <3>2. Piece(<<>>, ServerBytes', Len(receivedBytes'))
      BY DEF Piece
    <3> QED BY <1>16, <3>1, <3>2
  <2>4. flights' = 0 /\ wbio' = <<>> /\ plain' = <<>>
    BY <1>4, <1>7
  <2> QED BY <2>1, <2>2, <2>3, <2>4 DEF WireInOrder
<1>21. NothingLeft'
  BY <1>4, <1>7 DEF NothingLeft
<1>22. SendInOrder'
  BY <1>1, <1>4 DEF SendInOrder
<1>23. TlsTypes'
  BY <1>1, <1>4, <1>6, <1>11, <1>16, <1>17 DEF TlsTypes
<1> QED BY <1>20, <1>21, <1>22, <1>23 DEF TlsInv

-----------------------------------------------------------------------------
(* Tls: the theorem                                                          *)

LEMMA InitTlsInv == TlsInit => TlsInv
<1> SUFFICES ASSUME TlsInit PROVE TlsInv
  OBVIOUS
<1>1. /\ active \in BOOLEAN /\ flights = Flights
      /\ toSend = [i \in 1 .. flights |-> Handshake] \o Sent
      /\ pendingWrites = <<>> /\ givenToSend = <<>> /\ atServer = <<>> /\ cutShort = FALSE
      /\ request = 1 /\ bytesWritten = 0
      /\ socket = <<>> /\ wbio = <<>> /\ plain = <<>> /\ receivedBytes = <<>> /\ bytesRead = 0
  BY DEF TlsInit, Flights
<1>2. toSend = Wire
  BY <1>1 DEF Wire
<1>3. Flights \in Nat /\ Wire \in Seq(Wired) /\ Len(Wire) = Flights + Len(Sent) /\ Len(Sent) \in Nat
  BY <1>1, WireIs
<1>4. 1 <= Len(RequestLengths) => 0 < RequestLengths[1]
  <2>1. 1 <= Len(RequestLengths) => RequestLengths[1] \in Nat \ {0}
    BY TlsAssumption, ElementOfSeq
  <2> QED BY <2>1
<1>5. TlsTypes
  <2>1. toSend \in Seq(Wired) /\ flights \in 0 .. Flights /\ request \in Nat \ {0}
    <3>1. \A F \in Nat : F \in 0 .. F
      OBVIOUS
    <3>2. flights \in 0 .. Flights
      BY <1>1, <1>3, <3>1
    <3>3. toSend \in Seq(Wired)
      BY <1>2, <1>3
    <3> QED BY <1>1, <3>2, <3>3
  <2>2. \A S : <<>> \in Seq(S)
    BY EmptySeq
  <2>3. request <= Len(RequestLengths) => bytesWritten < RequestLengths[request]
    BY <1>1, <1>4
  <2> QED BY <1>1, <2>1, <2>2, <2>3 DEF TlsTypes
<1>6. Decrypted = 0 /\ Decrypted + Len(wbio) + Len(socket) = 0
  BY <1>1, <1>3 DEF Decrypted
<1>7. \A i \in 1 .. Len(toSend) : 0 + i = i
  BY <1>2, <1>3
<1>8. Piece(toSend, Wire, 0)
  BY <1>2, <1>7 DEF Piece
<1>9. WireInOrder
  BY <1>1, <1>2, <1>3, <1>6, <1>8 DEF WireInOrder, Piece
<1>10. SendInOrder /\ NothingLeft
  BY <1>1 DEF SendInOrder, NothingLeft
<1> QED BY <1>5, <1>9, <1>10 DEF TlsInv

LEMMA TlsInvInductive == TlsInv /\ [TlsNext]_tlsVars => TlsInv'
<1> SUFFICES ASSUME TlsInv, [TlsNext]_tlsVars PROVE TlsInv'
  OBVIOUS
<1>1. CASE StreamSend
  BY <1>1, StreamSendKeeps
<1>2. CASE Arrive
  BY <1>2, ArriveKeeps
<1>3. CASE StreamRecv
  BY <1>3, RecvActiveKeeps, RecvPlainKeeps
<1>4. CASE UNCHANGED tlsVars
  <2>1. UNCHANGED Receiving /\ UNCHANGED writing
    BY <1>4 DEF tlsVars, Receiving, OnTheWire, writing
  <2>2. WireInOrder' /\ NothingLeft'
    BY <2>1, ReceivingUnchanged DEF TlsInv
  <2>3. TlsTypes' /\ SendInOrder'
    BY <2>1 DEF TlsInv, TlsTypes, SendInOrder, Receiving, OnTheWire, writing, Flights
  <2> QED BY <2>2, <2>3 DEF TlsInv
<1>5. CASE StreamEnds
  <2>1. /\ UNCHANGED OnTheWire /\ UNCHANGED writing
        /\ bytesRead' = 0 /\ connectionAlive' = FALSE
    BY <1>5 DEF StreamEnds, OnTheWire, writing
  <2>2. WireInOrder' /\ NothingLeft'
    BY <2>1, WireUnchanged DEF TlsInv, NothingLeft
  <2>3. TlsTypes' /\ SendInOrder'
    BY <2>1 DEF TlsInv, TlsTypes, SendInOrder, OnTheWire, writing, Flights
  <2> QED BY <2>2, <2>3 DEF TlsInv
<1> QED BY <1>1, <1>2, <1>3, <1>4, <1>5 DEF TlsNext

LEMMA PrefixByElements ==
  ASSUME NEW S, NEW s \in Seq(S), NEW t \in Seq(S), Len(s) <= Len(t),
         \A i \in 1 .. Len(s) : s[i] = t[i]
  PROVE  IsPrefix(s, t)
<1>1. PICK n \in Nat : n = Len(s)
  OBVIOUS
<1>2. n <= Len(t) /\ \A i \in 1 .. n : t[i] \in S /\ t[i] = s[i]
  BY <1>1, ElementOfSeq
<1>3. PICK u : u = SubSeq(t, 1, n)
  OBVIOUS
<1>4. u \in Seq(S) /\ Len(u) = n /\ \A i \in 1 .. n : u[i] = s[i]
  <2>1. PICK m \in Int : m = 1
    OBVIOUS
  <2>2. /\ SubSeq(t, m, n) \in Seq(S)
        /\ Len(SubSeq(t, m, n)) = IF m <= n THEN n - m + 1 ELSE 0
        /\ \A i \in 1 .. n - m + 1 : SubSeq(t, m, n)[i] = t[m + i - 1]
    BY <1>2, <2>1, SubSeqProperties
  <2>3. n - m + 1 = n /\ (~(m <= n) => n = 0) /\ \A i \in 1 .. n : m + i - 1 = i
    BY <2>1
  <2>4. u = SubSeq(t, m, n)
    BY <1>3, <2>1
  <2>5. Len(u) = n /\ u \in Seq(S)
    BY <2>2, <2>3, <2>4
  <2>6. \A i \in 1 .. n : u[i] = t[i]
    BY <2>2, <2>3, <2>4
  <2> QED BY <1>2, <2>5, <2>6
<1>5. u = s
  BY <1>1, <1>4, SeqEqual
<1>6. SubSeq(s, 1, Len(s)) = s
  BY SubSeqFull
<1> QED BY <1>1, <1>3, <1>5, <1>6 DEF IsPrefix

LEMMA PrefixOfConcat ==
  ASSUME NEW S, NEW s \in Seq(S), NEW t \in Seq(S)
  PROVE  IsPrefix(s, s \o t)
<1>1. /\ Len(s) \in Nat /\ Len(t) \in Nat /\ s \o t \in Seq(S)
      /\ Len(s \o t) = Len(s) + Len(t)
      /\ \A i \in 1 .. Len(s) + Len(t) :
           (s \o t)[i] = IF i <= Len(s) THEN s[i] ELSE t[i - Len(s)]
  BY ConcatProperties
<1>2. \A i \in 1 .. Len(s) : s[i] = (s \o t)[i]
  BY <1>1
<1>3. PICK u : u = s \o t
  OBVIOUS
<1>4. u \in Seq(S) /\ Len(s) <= Len(u) /\ \A i \in 1 .. Len(s) : s[i] = u[i]
  BY <1>1, <1>2, <1>3
<1>5. IsPrefix(s, u)
  BY <1>4, PrefixByElements
<1> QED BY <1>3, <1>5

LEMMA ReceivedPrefix ==
  ASSUME TlsTypes, WireInOrder
  PROVE  IsPrefix(receivedBytes, ServerBytes)
<1>1. receivedBytes \in Seq(Nat) /\ active \in BOOLEAN
  BY DEF TlsTypes
<1>2. Len(Sent) \in Nat /\ Sent \in Seq(Cipher) /\ ServerBytes = [i \in 1 .. Len(Sent) |-> Sent[i].byte]
  BY TlsAssumption DEF ServerBytes
<1>3. ServerBytes \in Seq(Nat) /\ Len(ServerBytes) = Len(Sent)
  <2>1. \A i \in 1 .. Len(Sent) : Sent[i] \in Cipher
    BY <1>2, ElementOfSeq
  <2>2. \A c \in Cipher : c.byte \in Nat
    BY DEF Cipher
  <2>3. ServerBytes \in [1 .. Len(Sent) -> Nat]
    BY <1>2, <2>1, <2>2
  <2> QED BY <1>2, <2>3, SequenceOf
<1>4. Len(receivedBytes) <= Len(Sent)
  <2>1. PICK b \in Nat, s \in Nat, t \in Nat : b = Len(wbio) /\ s = Len(socket) /\ t = Len(toSend)
    BY DEF TlsTypes
  <2>2. Decrypted + b + s + t = Flights + Len(Sent)
    BY <2>1 DEF WireInOrder
  <2>3. PICK F \in Nat, f \in Nat, h \in Nat, p \in Nat :
          /\ F = Flights /\ f = flights /\ h = Len(receivedBytes) /\ p = Len(plain)
    BY DecryptedIs
  <2>4. f <= F /\ Decrypted = F - f + h + p /\ (f # 0 => h = 0)
    BY <2>3, DecryptedIs
  <2>5. F - f + h + p + b + s + t = F + Len(Sent)
    BY <2>2, <2>3, <2>4
  <2> QED BY <1>2, <2>3, <2>4, <2>5
<1>5. \A i \in 1 .. Len(receivedBytes) : receivedBytes[i] = ServerBytes[i]
  <2>1. Piece(receivedBytes, ServerBytes, 0)
    BY DEF WireInOrder
  <2>2. \A i \in 1 .. Len(receivedBytes) : 0 + i = i
    BY <1>1
  <2> QED BY <2>1, <2>2 DEF Piece
<1> QED BY <1>1, <1>3, <1>4, <1>5, PrefixByElements

LEMMA TlsInvIntact == TlsInv => TlsStreamIntact
<1> SUFFICES ASSUME TlsInv PROVE TlsStreamIntact
  OBVIOUS
<1>1. TlsTypes /\ SendInOrder /\ WireInOrder /\ NothingLeft
  BY DEF TlsInv
<1>2. /\ pendingWrites \in Seq(StreamByte) /\ givenToSend \in Seq(StreamByte)
      /\ atServer \in Seq(StreamByte) /\ receivedBytes \in Seq(Nat) /\ active \in BOOLEAN
  BY <1>1 DEF TlsTypes
<1>3. ASSUME ~cutShort PROVE IsPrefix(atServer, givenToSend) /\ (flights = 0 => atServer = givenToSend)
  <2>1. atServer \o pendingWrites = givenToSend
    BY <1>1, <1>3 DEF SendInOrder
  <2>2. IsPrefix(atServer, givenToSend)
    BY <1>2, <2>1, PrefixOfConcat
  <2>3. flights = 0 => atServer = givenToSend
    BY <1>1, <1>2, <2>1, ConcatEmptySeq DEF SendInOrder
  <2> QED BY <2>2, <2>3
<1>4. IsPrefix(receivedBytes, ServerBytes)
  BY <1>1, <1>2, ReceivedPrefix
<1>5. (connectionAlive /\ bytesRead = 0 /\ socket = <<>>) =>
        plain = <<>> /\ \A i \in DOMAIN wbio : ~wbio[i].last
  BY <1>1 DEF NothingLeft
<1> QED BY <1>3, <1>4, <1>5 DEF TlsStreamIntact

\* Requests of any lengths, and any records after a handshake of any number of
\* flights, pass through the filter (src/src/TlsFilter.cc) in order, through
\* buffers of any size, whatever part of them arrives at once and whichever
\* thread is first; and poll() never waits beside a record that could be read.
THEOREM TlsIntact == TlsSpec => []TlsStreamIntact
<1>1. TlsInit => TlsInv
  BY InitTlsInv
<1>2. TlsInv /\ [TlsNext]_tlsVars => TlsInv'
  BY TlsInvInductive
<1>3. TlsInv => TlsStreamIntact
  BY TlsInvIntact
<1> QED BY <1>1, <1>2, <1>3, PTL DEF TlsSpec

-----------------------------------------------------------------------------
(* Structures: what a call makes of the server's reply                       *)

FiniteFields == {D \in SUBSET HashFields : IsFiniteSet(D)}
Hashes == UNION {[D -> Nat] : D \in FiniteFields}
Contents == [hash : Hashes, set : FiniteFields]

LEMMA ContentsAre ==
  ASSUME NEW s \in Contents
  PROVE  /\ s.hash \in Hashes /\ s.set \in FiniteFields
         /\ s.hash \in [DOMAIN s.hash -> Nat] /\ DOMAIN s.hash \in FiniteFields
         /\ DOMAIN s.hash \subseteq HashFields /\ s.set \subseteq HashFields
         /\ IsFiniteSet(DOMAIN s.hash) /\ IsFiniteSet(s.set)
         /\ Cardinality(DOMAIN s.hash) \in Nat /\ Cardinality(s.set) \in Nat
<1>1. s.hash \in Hashes /\ s.set \in FiniteFields
  BY DEF Contents
<1>2. PICK D \in FiniteFields : s.hash \in [D -> Nat]
  BY <1>1 DEF Hashes
<1>3. DOMAIN s.hash = D
  BY <1>2
<1>4. IsFiniteSet(D) /\ IsFiniteSet(s.set) /\ D \subseteq HashFields /\ s.set \subseteq HashFields
  BY <1>1 DEF FiniteFields
<1>5. Cardinality(D) \in Nat /\ Cardinality(s.set) \in Nat
  BY <1>4, FS_CardinalityType
<1> QED BY <1>1, <1>2, <1>3, <1>4, <1>5

LEMMA WithHash ==
  ASSUME NEW s \in Contents, NEW h \in Hashes
  PROVE  /\ [s EXCEPT !.hash = h] \in Contents
         /\ [s EXCEPT !.hash = h].hash = h /\ [s EXCEPT !.hash = h].set = s.set
BY DEF Contents

LEMMA WithSet ==
  ASSUME NEW s \in Contents, NEW M \in FiniteFields
  PROVE  /\ [s EXCEPT !.set = M] \in Contents
         /\ [s EXCEPT !.set = M].set = M /\ [s EXCEPT !.set = M].hash = s.hash
BY DEF Contents

LEMMA Joined ==
  ASSUME NEW g \in Hashes, NEW h \in Hashes
  PROVE  /\ Merged(g, h) \in Hashes /\ DOMAIN Merged(g, h) = DOMAIN g \cup DOMAIN h
         /\ \A f \in DOMAIN g : Merged(g, h)[f] = g[f]
<1>1. PICK D \in FiniteFields, E \in FiniteFields : g \in [D -> Nat] /\ h \in [E -> Nat]
  BY DEF Hashes
<1>2. PICK k : k = Merged(g, h)
  OBVIOUS
<1>3. k = [f \in D \cup E |-> IF f \in D THEN g[f] ELSE h[f]]
  BY <1>1, <1>2 DEF Merged
<1>4. k \in [D \cup E -> Nat]
  BY <1>1, <1>3
<1>5. D \cup E \in FiniteFields
  BY FS_Union DEF FiniteFields
<1>6. k \in Hashes
  BY <1>4, <1>5 DEF Hashes
<1> QED BY <1>1, <1>2, <1>3, <1>6

LEMMA FieldIs ==
  ASSUME NEW f \in HashFields, NEW v \in Nat
  PROVE  Field(f, v) \in Hashes /\ DOMAIN Field(f, v) = {f} /\ Field(f, v)[f] = v
<1>1. {f} \in FiniteFields
  BY FS_Singleton DEF FiniteFields
<1>2. Field(f, v) \in [{f} -> Nat]
  BY DEF Field
<1> QED BY <1>1, <1>2 DEF Field, Hashes

LEMMA MembersListed ==
  ASSUME NEW M, IsFiniteSet(M)
  PROVE  ToSet(SetToSeq(M)) = M
<1>1. PICK n \in Nat : n = Cardinality(M) /\ ExistsBijection(1 .. n, M)
  BY FS_CardinalityType
<1>2. PICK g : g \in Injection(1 .. n, M)
  BY <1>1 DEF ExistsBijection, Bijection
<1>3. g \in [1 .. n -> M] /\ IsInjective(g)
  BY <1>2 DEF Injection
<1>4. SetToSeq(M) \in [1 .. n -> M] /\ IsInjective(SetToSeq(M))
  BY <1>1, <1>3 DEF SetToSeq
<1>5. PICK f : f = SetToSeq(M)
  OBVIOUS
<1>6. f \in Injection(1 .. n, M)
  BY <1>4, <1>5 DEF Injection
<1>7. Cardinality(1 .. n) = n
  BY FS_Interval
<1>8. f \in Surjection(1 .. n, M)
  BY <1>1, <1>6, <1>7, FS_Injection
<1>9. f \in [1 .. n -> M] /\ \A m \in M : \E i \in 1 .. n : f[i] = m
  BY <1>8 DEF Surjection
<1>10. ToSet(f) = M
  BY <1>9 DEF ToSet
<1> QED BY <1>5, <1>10

\* Calls that change nothing
ReadingCalls ==
  {<<"hget", "HGET">>, <<"hgetall", "HGETALL">>, <<"hexists", "HEXISTS">>,
   <<"hlen", "HLEN">>, <<"hkeys", "HKEYS">>, <<"hvals", "HVALS">>,
   <<"scard", "SCARD">>, <<"smembers", "SMEMBERS">>}

LEMMA ReadingMeans ==
  ASSUME NEW s \in Contents, NEW call, NEW c, <<call, c.name>> \in ReadingCalls
  PROVE  Updated(s, c) = s /\ Result(call, ServerReply(s, c)) = Meaning(call, c, s)
<1>1. CASE call = "hget" /\ c.name = "HGET"
  BY <1>1 DEF Updated, Result, ServerReply, Meaning, hget_result, Expecting, Type, HashHas
<1>2. CASE call = "hgetall" /\ c.name = "HGETALL"
  BY <1>2 DEF Updated, Result, ServerReply, Meaning, hgetall_result, AsList, Expecting, Type
<1>3. CASE call = "hexists" /\ c.name = "HEXISTS"
  <2>1. PICK n \in {0, 1} : n = 1 <=> HashHas(s, c.field)
    <3>1. CASE HashHas(s, c.field)
      BY <3>1
    <3>2. CASE ~HashHas(s, c.field)
      BY <3>2
    <3> QED BY <3>1, <3>2
  <2>2. Updated(s, c) = s
    BY <1>3 DEF Updated
  <2>3. ServerReply(s, c) = <<"integer", n>>
    BY <1>3, <2>1 DEF ServerReply, Integer
  <2>4. Result(call, <<"integer", n>>) = <<"bool", n = 1>>
    <3>1. hexists_result(<<"integer", n>>) = <<"bool", n = 1>>
      BY DEF hexists_result, Unchecked, IsOne, Expecting, Type, NoAnswer
    <3> QED BY <1>3, <3>1 DEF Result
  <2>5. Meaning(call, c, s) = <<"bool", HashHas(s, c.field)>>
    BY <1>3 DEF Meaning
  <2>6. (n = 1) = HashHas(s, c.field)
    BY <2>1 DEF HashHas
  <2> QED BY <2>2, <2>3, <2>4, <2>5, <2>6
<1>4. CASE call = "hlen" /\ c.name = "HLEN"
    BY <1>4 DEF Updated, Result, ServerReply, Meaning, hlen_result, Unchecked, AsNumber,
     Expecting, Type, Integer, NoAnswer
<1>5. CASE call = "hkeys" /\ c.name = "HKEYS"
  BY <1>5 DEF Updated, Result, ServerReply, Meaning, hkeys_result, AsList, Expecting, Type
<1>6. CASE call = "hvals" /\ c.name = "HVALS"
  BY <1>6 DEF Updated, Result, ServerReply, Meaning, hvals_result, AsList, Expecting, Type
<1>7. CASE call = "scard" /\ c.name = "SCARD"
  BY <1>7 DEF Updated, Result, ServerReply, Meaning, scard_result, AsNumber, Expecting, Type, Integer
<1>8. CASE call = "smembers" /\ c.name = "SMEMBERS"
  <2>1. ToSet(SetToSeq(s.set)) = s.set
    BY ContentsAre, MembersListed
  <2> QED BY <1>8, <2>1 DEF Updated, Result, ServerReply, Meaning, smembers_result, Expecting, Type
<1> QED BY <1>1, <1>2, <1>3, <1>4, <1>5, <1>6, <1>7, <1>8 DEF ReadingCalls

\* How many fields a command adds, and what it leaves
LEMMA HashGrows ==
  ASSUME NEW s \in Contents, NEW f \in HashFields
  PROVE  LET d == Cardinality(DOMAIN s.hash \cup {f}) - Cardinality(DOMAIN s.hash)
         IN  d = (IF HashHas(s, f) THEN 0 ELSE 1) /\ d \in Int
<1>1. IsFiniteSet(DOMAIN s.hash) /\ Cardinality(DOMAIN s.hash) \in Nat
  BY ContentsAre
<1>2. Cardinality(DOMAIN s.hash \cup {f}) =
        IF f \in DOMAIN s.hash THEN Cardinality(DOMAIN s.hash)
        ELSE Cardinality(DOMAIN s.hash) + 1
  BY <1>1, FS_AddElement
<1> QED BY <1>1, <1>2 DEF HashHas

LEMMA SetMeans ==
  ASSUME NEW s \in Contents, NEW f \in HashFields, NEW v \in Nat,
         NEW name \in {"HSET", "HSETNX"}, NEW c, c = Sets(name, f, v)
  PROVE  /\ Updated(s, c) \in Contents
         /\ ServerReply(s, c) = Integer(IF HashHas(s, f) THEN 0 ELSE 1)
         /\ c.field = f
<1>1. c.name = name /\ c.field = f /\ c.pairs = Field(f, v)
  BY DEF Sets
<1>2. c.pairs \in Hashes /\ DOMAIN c.pairs = {f} /\ s.hash \in Hashes
  BY <1>1, FieldIs, ContentsAre
<1>3. PICK h \in Hashes : DOMAIN h = DOMAIN s.hash \cup {f} /\ Updated(s, c) = [s EXCEPT !.hash = h]
  <2>1. CASE name = "HSET"
    <3>1. Merged(c.pairs, s.hash) \in Hashes
          /\ DOMAIN Merged(c.pairs, s.hash) = DOMAIN c.pairs \cup DOMAIN s.hash
      BY <1>2, Joined
    <3>2. Updated(s, c) = [s EXCEPT !.hash = Merged(c.pairs, s.hash)]
      BY <1>1, <2>1 DEF Updated
    <3> QED BY <1>2, <3>1, <3>2
  <2>2. CASE name = "HSETNX"
    <3>1. Merged(s.hash, c.pairs) \in Hashes
          /\ DOMAIN Merged(s.hash, c.pairs) = DOMAIN s.hash \cup DOMAIN c.pairs
      BY <1>2, Joined
    <3>2. Updated(s, c) = [s EXCEPT !.hash = Merged(s.hash, c.pairs)]
      BY <1>1, <2>2 DEF Updated
    <3> QED BY <1>2, <3>1, <3>2
  <2> QED BY <2>1, <2>2
<1>4. Updated(s, c) \in Contents /\ Updated(s, c).hash = h
  BY <1>3, WithHash
<1>5. Cardinality(DOMAIN h) - Cardinality(DOMAIN s.hash) = IF HashHas(s, f) THEN 0 ELSE 1
  BY <1>2, <1>3, HashGrows
<1>6. ServerReply(s, c) = Integer(Cardinality(DOMAIN h) - Cardinality(DOMAIN s.hash))
  BY <1>1, <1>4 DEF ServerReply
<1> QED BY <1>1, <1>4, <1>5, <1>6

LEMMA HmsetMeans ==
  ASSUME NEW s \in Contents, NEW F \in FiniteFields, NEW v \in Nat, NEW c, c = SetsEach(F, v)
  PROVE  Updated(s, c) \in Contents /\ ServerReply(s, c) = <<"status", "OK">>
<1>1. c.name = "HMSET" /\ c.pairs \in [F -> Nat]
  BY DEF SetsEach
<1>2. c.pairs \in Hashes
  BY <1>1 DEF Hashes
<1>3. Merged(c.pairs, s.hash) \in Hashes
  BY <1>2, Joined, ContentsAre
<1>4. Updated(s, c) = [s EXCEPT !.hash = Merged(c.pairs, s.hash)]
  BY <1>1 DEF Updated
<1> QED BY <1>1, <1>3, <1>4, WithHash DEF ServerReply

LEMMA HdelMeans ==
  ASSUME NEW s \in Contents, NEW f, NEW c, c = OnField("HDEL", f)
  PROVE  /\ Updated(s, c) \in Contents
         /\ ServerReply(s, c) = Integer(IF HashHas(s, f) THEN 1 ELSE 0)
         /\ c.field = f
<1>1. c.name = "HDEL" /\ c.field = f
  BY DEF OnField
<1>2. PICK h : h = [g \in DOMAIN s.hash \ {f} |-> s.hash[g]]
  OBVIOUS
<1>3. s.hash \in [DOMAIN s.hash -> Nat] /\ DOMAIN s.hash \in SUBSET HashFields
      /\ IsFiniteSet(DOMAIN s.hash) /\ Cardinality(DOMAIN s.hash) \in Nat
  BY ContentsAre
<1>4. DOMAIN h = DOMAIN s.hash \ {f} /\ h \in [DOMAIN s.hash \ {f} -> Nat]
  BY <1>2, <1>3
<1>5. /\ IsFiniteSet(DOMAIN s.hash \ {f})
      /\ Cardinality(DOMAIN s.hash \ {f}) =
           IF f \in DOMAIN s.hash THEN Cardinality(DOMAIN s.hash) - 1
           ELSE Cardinality(DOMAIN s.hash)
  BY <1>3, FS_RemoveElement
<1>6. h \in Hashes
  BY <1>3, <1>4, <1>5 DEF Hashes, FiniteFields
<1>7. Updated(s, c) = [s EXCEPT !.hash = h]
  BY <1>1, <1>2 DEF Updated
<1>8. Updated(s, c) \in Contents /\ Updated(s, c).hash = h
  BY <1>6, <1>7, WithHash
<1>9. ServerReply(s, c) = Integer(-(Cardinality(DOMAIN h) - Cardinality(DOMAIN s.hash)))
  BY <1>1, <1>8 DEF ServerReply
<1>10. -(Cardinality(DOMAIN h) - Cardinality(DOMAIN s.hash)) = IF HashHas(s, f) THEN 1 ELSE 0
  BY <1>3, <1>4, <1>5 DEF HashHas
<1> QED BY <1>1, <1>8, <1>9, <1>10

LEMMA HincrbyMeans ==
  ASSUME NEW s \in Contents, NEW f \in HashFields, NEW name \in {"HINCRBY", "HINCRBYFLOAT"},
         NEW c, c = OnField(name, f)
  PROVE  LET new == 1 + (IF HashHas(s, f) THEN s.hash[f] ELSE 0)
         IN  /\ Updated(s, c) \in Contents
             /\ ServerReply(s, c) = IF name = "HINCRBY" THEN Integer(new) ELSE <<"string", new>>
             /\ c.field = f /\ new \in Nat
             /\ new = (IF HashHas(s, f) THEN s.hash[f] ELSE 0) + 1
<1>1. c.name = name /\ c.field = f
  BY DEF OnField
<1>2. PICK new : new = 1 + (IF HashHas(s, f) THEN s.hash[f] ELSE 0)
  OBVIOUS
<1>3. new \in Nat /\ new = (IF HashHas(s, f) THEN s.hash[f] ELSE 0) + 1
  <2>1. HashHas(s, f) => s.hash[f] \in Nat
    BY ContentsAre DEF HashHas
  <2> QED BY <1>2, <2>1
<1>4. Field(f, new) \in Hashes /\ DOMAIN Field(f, new) = {f} /\ Field(f, new)[f] = new
  BY <1>3, FieldIs
<1>5. PICK h : h = Merged(Field(f, new), s.hash)
  OBVIOUS
<1>6. h \in Hashes /\ h[f] = new
  BY <1>4, <1>5, Joined, ContentsAre
<1>7. Updated(s, c) = [s EXCEPT !.hash = h]
  BY <1>1, <1>2, <1>5 DEF Updated
<1>8. Updated(s, c) \in Contents /\ Updated(s, c).hash = h
  BY <1>6, <1>7, WithHash
<1>9. ServerReply(s, c) = IF name = "HINCRBY" THEN Integer(new) ELSE <<"string", new>>
  BY <1>1, <1>6, <1>8 DEF ServerReply
<1> QED BY <1>1, <1>2, <1>3, <1>8, <1>9

LEMMA SaddMeans ==
  ASSUME NEW s \in Contents, NEW M \in FiniteFields, NEW c, c = OnMembers("SADD", M)
  PROVE  /\ Updated(s, c) \in Contents
         /\ ServerReply(s, c) = Integer(Cardinality(M \ s.set))
         /\ c.members = M
<1>1. c.name = "SADD" /\ c.members = M
  BY DEF OnMembers
<1>2. IsFiniteSet(s.set) /\ Cardinality(s.set) \in Nat /\ IsFiniteSet(M)
      /\ s.set \in SUBSET HashFields /\ M \in SUBSET HashFields
  BY ContentsAre DEF FiniteFields
<1>3. /\ IsFiniteSet(s.set \cup M)
      /\ Cardinality(s.set \cup M) = Cardinality(s.set) + Cardinality(M) - Cardinality(s.set \cap M)
  BY <1>2, FS_Union
<1>4. Cardinality(M \ s.set) = Cardinality(M) - Cardinality(M \cap s.set)
  BY <1>2, FS_Difference
<1>5. Cardinality(M \cap s.set) = Cardinality(s.set \cap M)
  <2>1. M \cap s.set = s.set \cap M
    OBVIOUS
  <2> QED BY <2>1
<1>6. IsFiniteSet(M \cap s.set)
  BY <1>2, FS_Intersection
<1>7. Cardinality(M \cap s.set) \in Nat /\ Cardinality(M) \in Nat
  BY <1>2, <1>6, FS_CardinalityType
<1>8. Cardinality(s.set \cup M) - Cardinality(s.set) = Cardinality(M \ s.set)
  BY <1>2, <1>3, <1>4, <1>5, <1>7
<1>9. s.set \cup M \in FiniteFields
  BY <1>2, <1>3 DEF FiniteFields
<1>10. Updated(s, c) = [s EXCEPT !.set = s.set \cup M]
  BY <1>1 DEF Updated
<1>11. Updated(s, c) \in Contents /\ Updated(s, c).set = s.set \cup M
  <2>1. PICK N \in FiniteFields : N = s.set \cup M
    BY <1>9
  <2>2. [s EXCEPT !.set = N] \in Contents /\ [s EXCEPT !.set = N].set = N
    BY WithSet
  <2> QED BY <1>10, <2>1, <2>2
<1>12. ServerReply(s, c) = Integer(Cardinality(s.set \cup M) - Cardinality(s.set))
  BY <1>1, <1>11 DEF ServerReply
<1> QED BY <1>1, <1>8, <1>11, <1>12

LEMMA SremMeans ==
  ASSUME NEW s \in Contents, NEW M \in FiniteFields, NEW c, c = OnMembers("SREM", M)
  PROVE  /\ Updated(s, c) \in Contents
         /\ ServerReply(s, c) = Integer(Cardinality(M \cap s.set))
         /\ c.members = M
<1>1. c.name = "SREM" /\ c.members = M
  BY DEF OnMembers
<1>2. IsFiniteSet(s.set) /\ Cardinality(s.set) \in Nat /\ IsFiniteSet(M) /\ s.set \in SUBSET HashFields
  BY ContentsAre DEF FiniteFields
<1>3. /\ IsFiniteSet(s.set \ M)
      /\ Cardinality(s.set \ M) = Cardinality(s.set) - Cardinality(s.set \cap M)
  BY <1>2, FS_Difference
<1>4. Cardinality(M \cap s.set) = Cardinality(s.set \cap M)
  <2>1. M \cap s.set = s.set \cap M
    OBVIOUS
  <2> QED BY <2>1
<1>5. IsFiniteSet(M \cap s.set)
  BY <1>2, FS_Intersection
<1>6. Cardinality(M \cap s.set) \in Nat
  BY <1>5, FS_CardinalityType
<1>7. Cardinality(s.set) - Cardinality(s.set \ M) = Cardinality(M \cap s.set)
  BY <1>2, <1>3, <1>4, <1>6
<1>8. s.set \ M \in FiniteFields
  BY <1>2, <1>3 DEF FiniteFields
<1>9. Updated(s, c) = [s EXCEPT !.set = s.set \ M]
  BY <1>1 DEF Updated
<1>10. Updated(s, c) \in Contents /\ Updated(s, c).set = s.set \ M
  <2>1. PICK N \in FiniteFields : N = s.set \ M
    BY <1>8
  <2>2. [s EXCEPT !.set = N] \in Contents /\ [s EXCEPT !.set = N].set = N
    BY WithSet
  <2> QED BY <1>9, <2>1, <2>2
<1>11. ServerReply(s, c) = Integer(Cardinality(s.set) - Cardinality(s.set \ M))
  BY <1>1, <1>10 DEF ServerReply
<1> QED BY <1>1, <1>7, <1>10, <1>11

\* Of one member: it is there or it is not.
LEMMA OneMember ==
  ASSUME NEW f \in HashFields, NEW S \in SUBSET HashFields
  PROVE  /\ {f} \in FiniteFields
         /\ Cardinality({f} \cap S) = IF f \in S THEN 1 ELSE 0
         /\ Cardinality({f} \ S) = IF f \in S THEN 0 ELSE 1
         /\ {f} \subseteq S <=> f \in S
         /\ {f} \cap S = {} <=> f \notin S
<1>1. {f} \in FiniteFields /\ Cardinality({f}) = 1
  BY FS_Singleton DEF FiniteFields
<1>2. CASE f \in S
  <2>1. {f} \cap S = {f} /\ {f} \ S = {}
    BY <1>2
  <2> QED BY <1>1, <1>2, <2>1, FS_EmptySet
<1>3. CASE f \notin S
  <2>1. {f} \cap S = {} /\ {f} \ S = {f}
    BY <1>3
  <2> QED BY <1>1, <1>3, <2>1, FS_EmptySet
<1> QED BY <1>2, <1>3

\* Which call makes which command
Commands(call) ==
  CASE call = "hget" -> {OnField("HGET", f) : f \in HashFields}
    [] call = "hset" -> {Sets("HSET", f, v) : f \in HashFields, v \in FieldValues}
    [] call = "hsetnx" -> {Sets("HSETNX", f, v) : f \in HashFields, v \in FieldValues}
    [] call = "hmset" -> {SetsEach(F, v) : F \in FiniteFields, v \in FieldValues}
    [] call = "hdel" -> {OnField("HDEL", f) : f \in HashFields}
    [] call = "hgetall" -> {OnField("HGETALL", AnyField)}
    [] call = "hexists" -> {OnField("HEXISTS", f) : f \in HashFields}
    [] call = "hlen" -> {OnField("HLEN", AnyField)}
    [] call = "hincrby" -> {OnField("HINCRBY", f) : f \in HashFields}
    [] call = "hincrbyfloat" -> {OnField("HINCRBYFLOAT", f) : f \in HashFields}
    [] call = "hkeys" -> {OnField("HKEYS", AnyField)}
    [] call = "hvals" -> {OnField("HVALS", AnyField)}
    [] call = "sadd" -> {OnMembers("SADD", {f}) : f \in HashFields}
    [] call = "sadd_list" -> {OnMembers("SADD", M) : M \in FiniteFields}
    [] call = "srem" -> {OnMembers("SREM", {f}) : f \in HashFields}
    [] call = "srem_list" -> {OnMembers("SREM", M) : M \in FiniteFields}
    [] call = "scard" -> {OnMembers("SCARD", {})}
    [] call = "sismember" -> {OnMembers("SISMEMBER", {f}) : f \in HashFields}
    [] call = "smembers" -> {OnMembers("SMEMBERS", {})}

\* Those that leave the reply to an AsyncHandler
Registered == {"hset", "hdel", "hlen", "hincrby", "sadd_list", "srem_list"}
CallNames == Registered \cup
  {"hget", "hsetnx", "hmset", "hgetall", "hexists", "hincrbyfloat", "hkeys", "hvals",
   "sadd", "srem", "scard", "sismember", "smembers"}

\* A command served at contents s gives its call what the call promises, also
\* through the list of responses.
ServedAsMeant(s, call, c) ==
  /\ Updated(s, c) \in Contents
  /\ ServerReply(s, c) # NoReply
  /\ Result(call, ServerReply(s, c)) = Due(call, c, s)
  /\ call \in Registered => /\ Fine(ServerReply(s, c))
                            /\ Response(ServerReply(s, c)) = AsResponse(Due(call, c, s))

LEMMA ReadingServed ==
  ASSUME NEW s \in Contents, NEW call \in {"hget", "hgetall", "hexists", "hlen", "hkeys",
                                           "hvals", "scard", "smembers"},
         NEW c \in Commands(call)
  PROVE  ServedAsMeant(s, call, c)
<1>1. <<call, c.name>> \in ReadingCalls
  BY DEF Commands, ReadingCalls, OnField, OnMembers
<1>2. Updated(s, c) = s /\ Result(call, ServerReply(s, c)) = Meaning(call, c, s)
      /\ Meaning(call, c, s) = Due(call, c, s)
  BY <1>1, ReadingMeans DEF Due
<1>3. ServerReply(s, c) # NoReply
  BY <1>1 DEF ReadingCalls, ServerReply, NoReply, Integer
<1>4. CASE call = "hlen"
  <2>1. c.name = "HLEN"
    BY <1>1, <1>4 DEF ReadingCalls
  <2>2. ServerReply(s, c) = Integer(Cardinality(DOMAIN s.hash))
    BY <2>1 DEF ServerReply
  <2>3. Meaning(call, c, s) = <<"number", Cardinality(DOMAIN s.hash)>>
    BY <1>4 DEF Meaning
  <2>4. Fine(ServerReply(s, c)) /\ Response(ServerReply(s, c)) = AsResponse(Due(call, c, s))
    BY <1>2, <2>2, <2>3 DEF Fine, Type, Integer, Response, AsResponse
  <2> QED BY <1>2, <1>3, <2>4 DEF ServedAsMeant
<1> QED BY <1>2, <1>3, <1>4 DEF ServedAsMeant, Registered

\* An integer 1 or 0 for whether a thing is so, and a number
LEMMA BoolReply ==
  ASSUME NEW b \in BOOLEAN, NEW r, r = Integer(IF b THEN 1 ELSE 0)
  PROVE  /\ r # NoReply /\ IsOne(r) = <<"bool", b>>
         /\ Fine(r) /\ Response(r) = AsResponse(<<"bool", b>>)
BY DEF Integer, NoReply, IsOne, Expecting, Type, Fine, Response, AsResponse

LEMMA NumberReply ==
  ASSUME NEW n, NEW r, r = Integer(n)
  PROVE  /\ r # NoReply /\ AsNumber(r) = <<"number", n>>
         /\ Fine(r) /\ Response(r) = AsResponse(<<"number", n>>)
BY DEF Integer, NoReply, AsNumber, Expecting, Type, Fine, Response, AsResponse

LEMMA HashServed ==
  ASSUME NEW s \in Contents,
         NEW call \in {"hset", "hsetnx", "hmset", "hdel", "hincrby", "hincrbyfloat"},
         NEW c \in Commands(call)
  PROVE  ServedAsMeant(s, call, c)
<1>1. FieldValues \subseteq Nat
  BY StructuresAssumption
<1>2. CASE call \in {"hset", "hsetnx"}
  <2>1. PICK f \in HashFields, v \in FieldValues : c = Sets(IF call = "hset" THEN "HSET" ELSE "HSETNX", f, v)
    BY <1>2 DEF Commands
  <2>2. Updated(s, c) \in Contents /\ c.field = f
        /\ ServerReply(s, c) = Integer(IF HashHas(s, f) THEN 0 ELSE 1)
    BY <1>1, <1>2, <2>1, SetMeans
  <2>3. Due(call, c, s) = <<"bool", ~HashHas(s, f)>>
    BY <1>2, <2>2 DEF Meaning, Due, HashHas
  <2>4. PICK b \in BOOLEAN : b = ~HashHas(s, f)
    BY DEF HashHas
  <2>5. PICK r : r = ServerReply(s, c)
    OBVIOUS
  <2>6. r = Integer(IF b THEN 1 ELSE 0) /\ Due(call, c, s) = <<"bool", b>>
    BY <2>2, <2>3, <2>4, <2>5
  <2>7. Result(call, r) = IsOne(r)
    BY <1>2 DEF Result, hset_result, hsetnx_result
  <2> QED BY <2>2, <2>5, <2>6, <2>7, BoolReply DEF ServedAsMeant
<1>3. CASE call = "hmset"
  <2>1. PICK F \in FiniteFields, v \in FieldValues : c = SetsEach(F, v)
    BY <1>3 DEF Commands
  <2>2. Updated(s, c) \in Contents /\ ServerReply(s, c) = <<"status", "OK">>
    BY <1>1, <2>1, HmsetMeans
  <2>3. Due(call, c, s) = <<"bool", TRUE>>
    BY <1>3 DEF Meaning, Due
  <2>4. PICK r : r = ServerReply(s, c)
    OBVIOUS
  <2>5. Type(r) = "status" /\ r # NoReply
    BY <2>2, <2>4 DEF Type, NoReply
  <2>6. hmset_result(r) = <<"bool", TRUE>>
    BY <2>5 DEF hmset_result, Expecting
  <2>7. Result(call, r) = hmset_result(r)
    BY <1>3 DEF Result
  <2>8. call \notin Registered
    BY <1>3 DEF Registered
  <2> QED BY <2>2, <2>3, <2>4, <2>5, <2>6, <2>7, <2>8 DEF ServedAsMeant
<1>4. CASE call = "hdel"
  <2>1. PICK f \in HashFields : c = OnField("HDEL", f)
    BY <1>4 DEF Commands
  <2>2. Updated(s, c) \in Contents /\ c.field = f
        /\ ServerReply(s, c) = Integer(IF HashHas(s, f) THEN 1 ELSE 0)
    BY <2>1, HdelMeans
  <2>3. Due(call, c, s) = <<"bool", HashHas(s, f)>>
    BY <1>4, <2>2 DEF Meaning, Due
  <2>4. PICK b \in BOOLEAN : b = HashHas(s, f)
    <3>1. HashHas(s, f) \in BOOLEAN
      BY DEF HashHas
    <3> QED BY <3>1
  <2>5. PICK r : r = ServerReply(s, c)
    OBVIOUS
  <2>6. r = Integer(IF b THEN 1 ELSE 0) /\ Due(call, c, s) = <<"bool", b>>
    BY <2>2, <2>3, <2>4, <2>5
  <2>7. Result(call, r) = IsOne(r)
    BY <1>4 DEF Result, hdel_result
  <2> QED BY <2>2, <2>5, <2>6, <2>7, BoolReply DEF ServedAsMeant
<1>5. CASE call \in {"hincrby", "hincrbyfloat"}
  <2>1. PICK f \in HashFields : c = OnField(IF call = "hincrby" THEN "HINCRBY" ELSE "HINCRBYFLOAT", f)
    BY <1>5 DEF Commands
  <2>2. PICK new : new = 1 + (IF HashHas(s, f) THEN s.hash[f] ELSE 0)
    OBVIOUS
  <2>3. /\ Updated(s, c) \in Contents /\ c.field = f
        /\ ServerReply(s, c) = IF call = "hincrby" THEN Integer(new) ELSE <<"string", new>>
        /\ new = (IF HashHas(s, f) THEN s.hash[f] ELSE 0) + 1
    BY <1>5, <2>1, <2>2, HincrbyMeans
  <2>4. Due(call, c, s) = <<"number", new>>
    BY <1>5, <2>3 DEF Meaning, Due
  <2>5. CASE call = "hincrby"
    <3>1. PICK r : r = ServerReply(s, c)
      OBVIOUS
    <3>2. Result(call, r) = AsNumber(r)
      BY <2>5 DEF Result, hincrby_result
    <3> QED BY <2>3, <2>4, <2>5, <3>1, <3>2, NumberReply DEF ServedAsMeant
  <2>6. CASE call = "hincrbyfloat"
    <3>1. Result(call, ServerReply(s, c)) = <<"number", new>>
      BY <2>3, <2>6 DEF Result, hincrbyfloat_result, Expecting, Type
    <3> QED BY <2>3, <2>4, <2>6, <3>1 DEF ServedAsMeant, NoReply, Registered
  <2> QED BY <1>5, <2>5, <2>6
<1> QED BY <1>2, <1>3, <1>4, <1>5

LEMMA SetServed ==
  ASSUME NEW s \in Contents,
         NEW call \in {"sadd", "sadd_list", "srem", "srem_list", "sismember"},
         NEW c \in Commands(call)
  PROVE  ServedAsMeant(s, call, c)
<1>1. s.set \in SUBSET HashFields
  BY ContentsAre
<1>2. CASE call \in {"sadd_list", "srem_list"}
  <2>1. PICK M \in FiniteFields : c = OnMembers(IF call = "sadd_list" THEN "SADD" ELSE "SREM", M)
    BY <1>2 DEF Commands
  <2>2. PICK n : n = IF call = "sadd_list" THEN Cardinality(M \ s.set)
                     ELSE Cardinality(M \cap s.set)
    OBVIOUS
  <2>3. Updated(s, c) \in Contents /\ c.members = M /\ ServerReply(s, c) = Integer(n)
    <3>1. CASE call = "sadd_list"
      BY <2>1, <2>2, <3>1, SaddMeans
    <3>2. CASE call = "srem_list"
      BY <2>1, <2>2, <3>2, SremMeans
    <3> QED BY <1>2, <3>1, <3>2
  <2>4. Due(call, c, s) = <<"number", n>>
    BY <1>2, <2>2, <2>3 DEF Meaning, Due
  <2>5. PICK r : r = ServerReply(s, c)
    OBVIOUS
  <2>6. Result(call, r) = AsNumber(r)
    BY <1>2 DEF Result, sadd_list_result, srem_list_result
  <2> QED BY <2>3, <2>4, <2>5, <2>6, NumberReply DEF ServedAsMeant
<1>3. CASE call \in {"sadd", "srem", "sismember"}
  <2>1. PICK f \in HashFields :
          c = OnMembers(IF call = "sadd" THEN "SADD" ELSE IF call = "srem" THEN "SREM"
                        ELSE "SISMEMBER", {f})
    <3>1. CASE call = "sadd"
      BY <3>1 DEF Commands
    <3>2. CASE call = "srem"
      BY <3>2 DEF Commands
    <3>3. CASE call = "sismember"
      BY <3>3 DEF Commands
    <3> QED BY <1>3, <3>1, <3>2, <3>3
  <2>2. /\ {f} \in FiniteFields
        /\ Cardinality({f} \cap s.set) = IF f \in s.set THEN 1 ELSE 0
        /\ Cardinality({f} \ s.set) = IF f \in s.set THEN 0 ELSE 1
        /\ {f} \subseteq s.set <=> f \in s.set
        /\ {f} \cap s.set = {} <=> f \notin s.set
    BY <1>1, OneMember
  <2>3. PICK b \in BOOLEAN : b <=> IF call = "sadd" THEN f \notin s.set ELSE f \in s.set
    OBVIOUS
  <2>4. Updated(s, c) \in Contents /\ c.members = {f} /\ ServerReply(s, c) = Integer(IF b THEN 1 ELSE 0)
    <3>1. CASE call = "sadd"
      <4>1. ServerReply(s, c) = Integer(Cardinality({f} \ s.set)) /\ Updated(s, c) \in Contents
            /\ c.members = {f}
        BY <2>1, <2>2, <3>1, SaddMeans
      <4> QED BY <2>2, <2>3, <3>1, <4>1
    <3>2. CASE call = "srem"
      <4>1. ServerReply(s, c) = Integer(Cardinality({f} \cap s.set)) /\ Updated(s, c) \in Contents
            /\ c.members = {f}
        BY <2>1, <2>2, <3>2, SremMeans
      <4> QED BY <2>2, <2>3, <3>2, <4>1
    <3>3. CASE call = "sismember"
      <4>1. c.name = "SISMEMBER" /\ c.members = {f}
        BY <2>1, <3>3 DEF OnMembers
      <4>2. Updated(s, c) = s
        BY <4>1 DEF Updated
      <4>3. ServerReply(s, c) = Integer(IF {f} \subseteq s.set THEN 1 ELSE 0)
        BY <4>1 DEF ServerReply
      <4> QED BY <2>2, <2>3, <3>3, <4>1, <4>2, <4>3
    <3> QED BY <1>3, <3>1, <3>2, <3>3
  <2>5. Due(call, c, s) = <<"bool", b>>
    <3>1. CASE call = "sadd"
      <4>1. Due(call, c, s) = <<"bool", {f} \cap s.set = {}>>
        BY <2>4, <3>1 DEF Meaning, Due
      <4>2. ({f} \cap s.set = {}) = b
        BY <2>2, <2>3, <3>1
      <4> QED BY <4>1, <4>2
    <3>2. CASE call \in {"srem", "sismember"}
      <4>1. Due(call, c, s) = <<"bool", {f} \subseteq s.set>>
        BY <2>4, <3>2 DEF Meaning, Due
      <4>2. ({f} \subseteq s.set) = b
        BY <2>2, <2>3, <3>2
      <4> QED BY <4>1, <4>2
    <3> QED BY <1>3, <3>1, <3>2
  <2>6. PICK r : r = ServerReply(s, c)
    OBVIOUS
  <2>7. Result(call, r) = IsOne(r)
    BY <1>3 DEF Result, sadd_result, srem_result, sismember_result
  <2> QED BY <2>4, <2>5, <2>6, <2>7, BoolReply DEF ServedAsMeant
<1> QED BY <1>2, <1>3

\* Every call, at any contents
LEMMA Served ==
  ASSUME NEW s \in Contents, NEW call \in CallNames, NEW c \in Commands(call)
  PROVE  ServedAsMeant(s, call, c)
BY ReadingServed, HashServed, SetServed DEF CallNames, Registered

\* Only hexists() and hlen() do not raise an exception for a null reply.
LEMMA NullServed ==
  ASSUME NEW call \in CallNames
  PROVE  /\ Result(call, NoAnswer) = Raised \/ call \in Unchecking
         /\ Response(NoAnswer) = -EINVAL
<1>1. PICK r : r = NoAnswer
  OBVIOUS
<1>2. Type(r) = "null"
  BY <1>1 DEF Type, NoAnswer
<1>3. Result(call, r) = Raised \/ call \in Unchecking
  BY <1>2 DEF CallNames, Registered, Unchecking, Result, Expecting, IsOne, AsNumber, AsList,
     hget_result, hset_result, hsetnx_result, hmset_result, hdel_result, hgetall_result,
     hincrby_result, hincrbyfloat_result, hkeys_result,
     hvals_result, sadd_result, sadd_list_result, srem_result, srem_list_result,
     scard_result, sismember_result, smembers_result
<1>4. Response(r) = -EINVAL
  BY <1>2 DEF Response
<1> QED BY <1>1, <1>3, <1>4

-----------------------------------------------------------------------------
(* Structures: the inductive invariant                                       *)

\* A call in flight: its command is its own, and all but one that waits are
\* registered with the AsyncHandler.
InFlight(f) ==
  f.call \in CallNames /\ f.command \in Commands(f.call) /\ "reply" \in DOMAIN f
FlightTypes ==
  /\ server \in Contents /\ direct \in Contents
  /\ calling \in BOOLEAN /\ lost \in BOOLEAN
  /\ Len(flight) \in Nat /\ DOMAIN flight = 1 .. Len(flight)
  /\ flight = [i \in 1 .. Len(flight) |-> flight[i]]
  /\ calling => flight # <<>>
  /\ \A i \in 1 .. Len(flight) :
       /\ InFlight(flight[i])
       /\ (calling /\ i = Len(flight)) \/ flight[i].call \in Registered

\* The reply is what the call's command gets at the contents its due result is for.
Answered(f) ==
  \E s \in Contents : /\ f.reply = ServerReply(s, f.command)
                      /\ f.due = Due(f.call, f.command, s)

\* The first k calls were served, and the others lead from the server's contents
\* to the direct ones.
Trail(k, trail) ==
  /\ trail[k] = server /\ trail[Len(flight)] = direct
  /\ \A i \in 1 .. k : Answered(flight[i])
  /\ \A i \in k + 1 .. Len(flight) :
       /\ flight[i].reply = NoReply
       /\ flight[i].due = Due(flight[i].call, flight[i].command, trail[i - 1])
       /\ trail[i] = Updated(trail[i - 1], flight[i].command)

ServedInOrder ==
  ~lost => \E k \in 0 .. Len(flight) : \E trail \in [0 .. Len(flight) -> Contents] :
             Trail(k, trail)

ResponsesInOrder ==
  \A i \in DOMAIN responses :
    /\ responses[i].null => responses[i].value = -EINVAL
    /\ ~lost => responses[i].value = responses[i].due

StructuresInv ==
  FlightTypes /\ ServedInOrder /\ ResponsesInOrder /\ AsIfDirect

LEMMA InitStructuresInv == StructuresInit => StructuresInv
<1> SUFFICES ASSUME StructuresInit PROVE StructuresInv
  OBVIOUS
<1>1. flight = <<>> /\ Len(flight) = 0 /\ responses = <<>> /\ ~lost /\ ~calling /\ lost \in BOOLEAN
      /\ calling \in BOOLEAN
  BY DEF StructuresInit
<1>2. {} \in FiniteFields
  BY FS_EmptySet DEF FiniteFields
<1>3. <<>> \in [{} -> Nat]
  OBVIOUS
<1>4. server \in Contents /\ direct = server
  BY <1>2, <1>3 DEF StructuresInit, Contents, Hashes
<1>5. FlightTypes
  BY <1>1, <1>4 DEF FlightTypes
<1>6. ServedInOrder
  <2>1. PICK trail : trail = [i \in 0 .. Len(flight) |-> server]
    OBVIOUS
  <2>2. trail \in [0 .. Len(flight) -> Contents]
    BY <1>4, <2>1
  <2>3. trail[0] = server
    BY <1>1, <2>1
  <2>4. Trail(0, trail)
    BY <1>1, <1>4, <2>3 DEF Trail
  <2> QED BY <1>1, <2>2, <2>4 DEF ServedInOrder
<1>7. ResponsesInOrder
  BY <1>1 DEF ResponsesInOrder
<1>8. AsIfDirect
  BY DEF StructuresInit, Nothing, AsIfDirect
<1> QED BY <1>5, <1>6, <1>7, <1>8 DEF StructuresInv

\* A set of naturals has a smallest element.
LEMMA SmallestNumber ==
  ASSUME NEW T, T \subseteq Nat, T # {}
  PROVE  \E x \in T : \A y \in T : x <= y
<1> DEFINE R == {ss \in Nat \X Nat : ss[1] < ss[2]}
<1>1. IsWellFoundedOn(R, Nat)
  BY NatLessThanWellFounded DEF OpToRel
<1>2. PICK x \in T : \A y \in T : ~ (<<y, x>> \in R)
  <2> HIDE DEF R
  <2> QED BY <1>1, WFMin
<1>3. ASSUME NEW y \in T PROVE x <= y
  <2>1. x \in Nat /\ y \in Nat
    OBVIOUS
  <2>2. ~(y < x)
    BY <1>2, <2>1
  <2> QED BY <2>1, <2>2
<1> QED BY <1>3

\* The calls in flight as a sequence over a set, for the facts about sequences
LEMMA FlightIsSeq ==
  ASSUME FlightTypes
  PROVE  \E S : flight \in Seq(S)
<1>1. PICK n \in Nat : n = Len(flight)
  BY DEF FlightTypes
<1>2. PICK S : S = {flight[i] : i \in 1 .. n}
  OBVIOUS
<1>3. flight = [i \in 1 .. n |-> flight[i]] /\ \A i \in 1 .. n : flight[i] \in S
  BY <1>1, <1>2 DEF FlightTypes
<1>4. flight \in [1 .. n -> S]
  BY <1>3
<1>5. flight \in Seq(S)
  BY <1>4
<1> QED BY <1>5

\* A new call is due what it would return at the direct contents.
LEMMA ExecuteStep ==
  ASSUME StructuresInv, NEW call \in CallNames, NEW c \in Commands(call), Execute(call, c),
         calling' = TRUE \/ (calling' = calling /\ call \in Registered),
         responses' = responses \/ responses' = <<>>
  PROVE  StructuresInv'
<1>1. FlightTypes /\ ServedInOrder /\ ResponsesInOrder
  BY DEF StructuresInv
<1>2. ~calling /\ ~lost /\ server' = server /\ direct' = Updated(direct, c) /\ returned' = Nothing
      /\ lost' = lost
  BY DEF Execute, Callable
<1>3. PICK e : e = [call |-> call, command |-> c, reply |-> NoReply,
                    due |-> Due(call, c, direct)]
  OBVIOUS
<1>4. flight' = Append(flight, e)
  BY <1>3 DEF Execute
<1>5. PICK n \in Nat : n = Len(flight) /\ DOMAIN flight = 1 .. n
  BY <1>1 DEF FlightTypes
<1>6. PICK S : flight \in Seq(S)
  BY <1>1, FlightIsSeq
<1>7. flight \in Seq(S \cup {e})
  BY <1>6
<1>8. /\ flight' \in Seq(S \cup {e}) /\ Len(flight') = n + 1 /\ flight' # <<>>
      /\ \A i \in 1 .. n : flight'[i] = flight[i]
      /\ flight'[n + 1] = e
  BY <1>4, <1>5, <1>7, AppendProperties
<1>9. /\ DOMAIN flight' = 1 .. n + 1 /\ flight' = [i \in 1 .. n + 1 |-> flight'[i]]
  BY <1>8, LenProperties
<1>10. server \in Contents /\ direct \in Contents
  BY <1>1 DEF FlightTypes
<1>11. Updated(direct, c) \in Contents
  BY <1>10, Served DEF ServedAsMeant
<1>12. \A i \in 1 .. n : InFlight(flight[i]) /\ flight[i].call \in Registered
  BY <1>1, <1>2, <1>5 DEF FlightTypes
<1>13. InFlight(e)
  BY <1>3 DEF InFlight
<1>14. FlightTypes'
  <2>1. calling' \in BOOLEAN /\ lost' \in BOOLEAN
    BY <1>1, <1>2 DEF FlightTypes
  <2>2. \A i \in 1 .. n + 1 :
          InFlight(flight'[i]) /\ ((calling' /\ i = n + 1) \/ flight'[i].call \in Registered)
    <3> SUFFICES ASSUME NEW i \in 1 .. n + 1
                 PROVE  InFlight(flight'[i])
                        /\ ((calling' /\ i = n + 1) \/ flight'[i].call \in Registered)
      OBVIOUS
    <3>1. CASE i \in 1 .. n
      BY <1>8, <1>12, <3>1
    <3>2. CASE i = n + 1
      BY <1>3, <1>8, <1>13, <3>2
    <3> QED BY <3>1, <3>2
  <2> QED BY <1>2, <1>8, <1>9, <1>10, <1>11, <2>1, <2>2 DEF FlightTypes
<1>15. ServedInOrder'
  <2>1. PICK k \in 0 .. n : \E trail \in [0 .. n -> Contents] : Trail(k, trail)
    BY <1>1, <1>2, <1>5 DEF ServedInOrder
  <2>2. PICK trail \in [0 .. n -> Contents] : Trail(k, trail)
    BY <2>1
  <2>3. /\ trail[k] = server /\ trail[n] = direct
        /\ \A i \in 1 .. k : Answered(flight[i])
        /\ \A i \in k + 1 .. n :
             /\ flight[i].reply = NoReply
             /\ flight[i].due = Due(flight[i].call, flight[i].command, trail[i - 1])
             /\ trail[i] = Updated(trail[i - 1], flight[i].command)
    BY <1>5, <2>2 DEF Trail
  <2>4. PICK longer : longer = [i \in 0 .. n + 1 |-> IF i = n + 1 THEN direct' ELSE trail[i]]
    OBVIOUS
  <2>5. longer \in [0 .. n + 1 -> Contents]
    BY <1>2, <1>11, <2>4
  <2>6. longer[n + 1] = direct' /\ \A i \in 0 .. n : longer[i] = trail[i]
    BY <2>4
  <2>7. longer[k] = server'
    BY <1>2, <2>3, <2>6
  <2>8. \A i \in 1 .. k : Answered(flight'[i])
    BY <1>8, <2>3
  <2>9. \A i \in k + 1 .. n + 1 :
          /\ flight'[i].reply = NoReply
          /\ flight'[i].due = Due(flight'[i].call, flight'[i].command, longer[i - 1])
          /\ longer[i] = Updated(longer[i - 1], flight'[i].command)
    <3> SUFFICES ASSUME NEW i \in k + 1 .. n + 1
                 PROVE
          /\ flight'[i].reply = NoReply
          /\ flight'[i].due = Due(flight'[i].call, flight'[i].command, longer[i - 1])
          /\ longer[i] = Updated(longer[i - 1], flight'[i].command)
      OBVIOUS
    <3>1. CASE i = n + 1
      <4>1. longer[i - 1] = direct /\ longer[i] = Updated(direct, c)
        BY <1>2, <2>3, <2>6, <3>1
      <4>2. flight'[i] = e
        BY <1>8, <3>1
      <4> QED BY <1>3, <4>1, <4>2
    <3>2. CASE i \in k + 1 .. n
      <4>1. i \in 1 .. n /\ i - 1 \in 0 .. n /\ i \in 0 .. n
        BY <3>2
      <4>2. flight'[i] = flight[i] /\ longer[i] = trail[i] /\ longer[i - 1] = trail[i - 1]
        BY <1>8, <2>6, <4>1
      <4> QED BY <2>3, <3>2, <4>2
    <3> QED BY <3>1, <3>2
  <2>10. Trail(k, longer)'
    BY <1>8, <2>6, <2>7, <2>8, <2>9 DEF Trail
  <2>11. k \in 0 .. n + 1
    OBVIOUS
  <2> QED BY <1>8, <2>5, <2>10, <2>11 DEF ServedInOrder
<1>16. ResponsesInOrder'
  BY <1>1, <1>2 DEF ResponsesInOrder
<1>17. AsIfDirect'
  <2>1. returned'.got = returned'.due /\ DOMAIN returned'.null = {}
    BY <1>2 DEF Nothing
  <2> QED BY <2>1 DEF AsIfDirect
<1> QED BY <1>14, <1>15, <1>16, <1>17 DEF StructuresInv

\* The server performs the command of the first call that has no reply.
LEMMA ServerAnswersStep ==
  ASSUME StructuresInv, ServerAnswers
  PROVE  StructuresInv'
<1>1. FlightTypes /\ ServedInOrder /\ ResponsesInOrder /\ AsIfDirect
  BY DEF StructuresInv
<1>2. PICK next : /\ next = CHOOSE i \in Unanswered : \A j \in Unanswered : i <= j
  OBVIOUS
<1>3. PICK c : c = flight[next].command
  OBVIOUS
<1>4. /\ Unanswered # {}
      /\ calling' = calling /\ responses' = responses /\ direct' = direct /\ returned' = returned
  BY DEF ServerAnswers
<1>5. \/ /\ server' = Updated(server, c)
         /\ flight' = [flight EXCEPT ![next].reply = ServerReply(server, c)]
         /\ lost' = lost
      \/ /\ server' \in {server, Updated(server, c)}
         /\ flight' = [flight EXCEPT ![next].reply = NoAnswer]
         /\ lost' = TRUE
  BY <1>2, <1>3 DEF ServerAnswers
<1>6. PICK n \in Nat : n = Len(flight) /\ DOMAIN flight = 1 .. n
  BY <1>1 DEF FlightTypes
<1>7. next \in Unanswered /\ \A j \in Unanswered : next <= j
  <2>1. Unanswered \in SUBSET Nat
    BY <1>6 DEF Unanswered
  <2>2. \E i \in Unanswered : \A j \in Unanswered : i <= j
    <3>1. PICK T : T = Unanswered
      OBVIOUS
    <3>2. T \subseteq Nat /\ T # {}
      BY <1>4, <2>1, <3>1
    <3>3. \E i \in T : \A j \in T : i <= j
      BY <3>2, SmallestNumber
    <3> QED BY <3>1, <3>3
  <2> QED BY <1>2, <2>2
<1>8. next \in 1 .. n /\ flight[next].reply = NoReply
  BY <1>6, <1>7 DEF Unanswered
<1>9. InFlight(flight[next]) /\ server \in Contents /\ direct \in Contents
  BY <1>1, <1>6, <1>8 DEF FlightTypes
<1>10. ServedAsMeant(server, flight[next].call, c)
  BY <1>3, <1>9, Served DEF InFlight
<1>11. PICK r : flight' = [flight EXCEPT ![next].reply = r]
                /\ (lost' # TRUE => r = ServerReply(server, c) /\ server' = Updated(server, c))
  BY <1>5
<1>12. PICK S : flight \in Seq(S)
  BY <1>1, FlightIsSeq
<1>13. PICK f : f = [flight[next] EXCEPT !.reply = r]
  OBVIOUS
<1>14. flight' = [flight EXCEPT ![next] = f]
  BY <1>11, <1>13
<1>15. /\ flight' \in Seq(S \cup {f}) /\ Len(flight') = n
       /\ flight'[next] = f /\ \A i \in 1 .. n : i # next => flight'[i] = flight[i]
  <2>1. flight \in Seq(S \cup {f})
    BY <1>12
  <2> QED BY <1>6, <1>8, <1>14, <2>1, ExceptSeq
<1>16. /\ DOMAIN flight' = 1 .. n /\ flight' = [i \in 1 .. n |-> flight'[i]]
  BY <1>15, LenProperties
<1>17. \A i \in 1 .. n : /\ flight'[i].call = flight[i].call
                         /\ flight'[i].command = flight[i].command
                         /\ flight'[i].due = flight[i].due
                         /\ DOMAIN flight'[i] = DOMAIN flight[i]
  <2>1. f.call = flight[next].call /\ f.command = flight[next].command /\ f.due = flight[next].due
        /\ DOMAIN f = DOMAIN flight[next]
    BY <1>13
  <2> QED BY <1>15, <2>1
<1>18. FlightTypes'
  <2>1. Updated(server, c) \in Contents
    BY <1>10 DEF ServedAsMeant
  <2>2. server' \in Contents /\ lost' \in BOOLEAN
    BY <1>1, <1>5, <1>9, <2>1 DEF FlightTypes
  <2>3. calling' \in BOOLEAN /\ (calling' => flight' # <<>>)
    <3>1. flight' # <<>>
      BY <1>8, <1>15
    <3> QED BY <1>1, <1>4, <3>1 DEF FlightTypes
  <2>4. \A i \in 1 .. n :
          InFlight(flight'[i]) /\ ((calling' /\ i = n) \/ flight'[i].call \in Registered)
    <3>1. \A i \in 1 .. n :
            InFlight(flight[i]) /\ ((calling /\ i = n) \/ flight[i].call \in Registered)
      BY <1>1, <1>6 DEF FlightTypes
    <3> QED BY <1>4, <1>17, <3>1 DEF InFlight
  <2> QED BY <1>4, <1>9, <1>15, <1>16, <2>2, <2>3, <2>4 DEF FlightTypes
<1>19. ServedInOrder'
  <2>1. SUFFICES ASSUME ~lost' PROVE ServedInOrder'
    BY DEF ServedInOrder
  <2>2. ~lost /\ r = ServerReply(server, c) /\ server' = Updated(server, c)
    BY <1>1, <1>5, <1>11, <2>1 DEF FlightTypes
  <2>3. PICK k \in 0 .. n : \E trail \in [0 .. n -> Contents] : Trail(k, trail)
    BY <1>1, <1>6, <2>2 DEF ServedInOrder
  <2>4. PICK trail \in [0 .. n -> Contents] : Trail(k, trail)
    BY <2>3
  <2>5. /\ trail[k] = server /\ trail[n] = direct
        /\ \A i \in 1 .. k : Answered(flight[i])
        /\ \A i \in k + 1 .. n :
             /\ flight[i].reply = NoReply
             /\ flight[i].due = Due(flight[i].call, flight[i].command, trail[i - 1])
             /\ trail[i] = Updated(trail[i - 1], flight[i].command)
    BY <1>6, <2>4 DEF Trail
  <2>6. \A i \in 1 .. k : flight[i].reply # NoReply
    <3> SUFFICES ASSUME NEW i \in 1 .. k PROVE flight[i].reply # NoReply
      OBVIOUS
    <3>1. PICK s \in Contents : flight[i].reply = ServerReply(s, flight[i].command)
      BY <2>5 DEF Answered
    <3>2. i \in 1 .. n
      OBVIOUS
    <3>3. InFlight(flight[i])
      BY <1>1, <1>6, <3>2 DEF FlightTypes
    <3>4. ServedAsMeant(s, flight[i].call, flight[i].command)
      BY <3>3, Served DEF InFlight
    <3> QED BY <3>1, <3>4 DEF ServedAsMeant
  <2>7. next = k + 1
    <3>1. next \in k + 1 .. n
      BY <1>8, <2>6
    <3>2. k + 1 \in 1 .. n /\ k + 1 \in k + 1 .. n
      BY <3>1
    <3>3. flight[k + 1].reply = NoReply
      BY <2>5, <3>2
    <3>4. k + 1 \in Unanswered
      BY <1>6, <3>2, <3>3 DEF Unanswered
    <3>5. next <= k + 1
      BY <1>7, <3>4
    <3> QED BY <3>1, <3>5
  <2>8. trail[k + 1] = server'
    BY <1>3, <1>8, <2>2, <2>5, <2>7
  <2>9. \A i \in 1 .. k + 1 : Answered(flight'[i])
    <3>1. Answered(f)
      <4>1. flight[next].due = Due(flight[next].call, flight[next].command, server)
        BY <1>8, <2>5, <2>7
      <4>2. f.reply = r
        BY <1>9, <1>13 DEF InFlight
      <4>3. f.call = flight[next].call /\ f.command = flight[next].command
            /\ f.due = flight[next].due
        BY <1>13
      <4> QED BY <1>3, <1>9, <2>2, <4>1, <4>2, <4>3 DEF Answered
    <3>2. ASSUME NEW i \in 1 .. k PROVE Answered(flight'[i])
      <4>1. i \in 1 .. n /\ i # next
        BY <1>8, <2>7
      <4> QED BY <1>15, <2>5, <4>1
    <3>3. Answered(flight'[k + 1])
      BY <1>15, <2>7, <3>1
    <3> QED BY <3>2, <3>3
  <2>10. \A i \in k + 2 .. n :
           /\ flight'[i].reply = NoReply
           /\ flight'[i].due = Due(flight'[i].call, flight'[i].command, trail[i - 1])
           /\ trail[i] = Updated(trail[i - 1], flight'[i].command)
    <3> SUFFICES ASSUME NEW i \in k + 2 .. n
                 PROVE
           /\ flight'[i].reply = NoReply
           /\ flight'[i].due = Due(flight'[i].call, flight'[i].command, trail[i - 1])
           /\ trail[i] = Updated(trail[i - 1], flight'[i].command)
      OBVIOUS
    <3>1. i \in 1 .. n /\ i # next /\ i \in k + 1 .. n
      BY <2>7
    <3>2. flight'[i] = flight[i]
      BY <1>15, <3>1
    <3> QED BY <2>5, <3>1, <3>2
  <2>11. k + 1 \in 0 .. n /\ (k + 1) + 1 = k + 2
    BY <1>8, <2>7
  <2>12. Trail(k + 1, trail)'
    BY <1>4, <1>15, <2>5, <2>8, <2>9, <2>10, <2>11 DEF Trail
  <2> QED BY <1>15, <2>11, <2>12 DEF ServedInOrder
<1>20. lost => lost'
  BY <1>1, <1>5 DEF FlightTypes
<1>21. ResponsesInOrder'
  BY <1>1, <1>4, <1>20 DEF ResponsesInOrder
<1>22. AsIfDirect'
  BY <1>1, <1>4, <1>20 DEF AsIfDirect
<1> QED BY <1>18, <1>19, <1>21, <1>22 DEF StructuresInv

\* The call that waits returns what it is due.
LEMMA ReturnStep ==
  ASSUME StructuresInv, Return
  PROVE  StructuresInv'
<1>1. FlightTypes /\ ServedInOrder /\ ResponsesInOrder
  BY DEF StructuresInv
<1>2. PICK n \in Nat : n = Len(flight) /\ DOMAIN flight = 1 .. n
  BY <1>1 DEF FlightTypes
<1>3. n >= 1
  BY <1>1, <1>2 DEF FlightTypes, Return
<1>4. PICK f : f = flight[n]
  OBVIOUS
<1>5. /\ calling /\ f.reply # NoReply
      /\ returned' = [call |-> f.call, got |-> Result(f.call, f.reply), due |-> f.due,
                      null |-> <<f.reply = NoAnswer>>]
      /\ calling' = FALSE /\ flight' = SubSeq(flight, 1, n - 1)
      /\ server' = server /\ responses' = responses /\ direct' = direct /\ lost' = lost
  BY <1>2, <1>4 DEF Return, Last, Front
<1>6. PICK S : flight \in Seq(S)
  BY <1>1, FlightIsSeq
<1>7. \A i \in 1 .. n - 1 : flight[i] \in S
  BY <1>2, <1>6, ElementOfSeq
<1>8. /\ flight' \in Seq(S) /\ Len(flight') = n - 1
      /\ \A i \in 1 .. n - 1 : flight'[i] = flight[i]
  <2>1. PICK m \in Int : m = n - 1
    OBVIOUS
  <2>2. flight' = SubSeq(flight, 1, m)
    BY <1>5, <2>1
  <2>3. \A i \in 1 .. m : flight[i] \in S
    BY <1>7, <2>1
  <2>4. /\ SubSeq(flight, 1, m) \in Seq(S)
        /\ Len(SubSeq(flight, 1, m)) = IF 1 <= m THEN m - 1 + 1 ELSE 0
        /\ \A i \in 1 .. m - 1 + 1 : SubSeq(flight, 1, m)[i] = flight[1 + i - 1]
    BY <2>3, SubSeqProperties
  <2> QED BY <1>3, <2>1, <2>2, <2>4
<1>9. /\ DOMAIN flight' = 1 .. n - 1 /\ flight' = [i \in 1 .. n - 1 |-> flight'[i]]
  BY <1>8, LenProperties
<1>10. InFlight(f) /\ server \in Contents /\ direct \in Contents
  BY <1>1, <1>2, <1>3, <1>4 DEF FlightTypes
<1>11. FlightTypes'
  <2>1. \A i \in 1 .. n - 1 : InFlight(flight'[i]) /\ flight'[i].call \in Registered
    <3> SUFFICES ASSUME NEW i \in 1 .. n - 1
                 PROVE  InFlight(flight'[i]) /\ flight'[i].call \in Registered
      OBVIOUS
    <3>1. i \in 1 .. n /\ i # n
      OBVIOUS
    <3> QED BY <1>1, <1>2, <1>8, <3>1 DEF FlightTypes
  <2>2. calling' \in BOOLEAN /\ lost' \in BOOLEAN /\ ~calling'
    BY <1>1, <1>5 DEF FlightTypes
  <2>3. Len(flight') \in Nat
    BY <1>3, <1>8
  <2> QED BY <1>5, <1>8, <1>9, <1>10, <2>1, <2>2, <2>3 DEF FlightTypes
<1>12. ~lost => server = direct /\ Answered(f) /\ \A i \in 1 .. n : Answered(flight[i])
  <2>1. SUFFICES ASSUME ~lost
                 PROVE  server = direct /\ Answered(f) /\ \A i \in 1 .. n : Answered(flight[i])
    OBVIOUS
  <2>2. PICK k \in 0 .. n : \E trail \in [0 .. n -> Contents] : Trail(k, trail)
    BY <1>1, <1>2, <2>1 DEF ServedInOrder
  <2>3. PICK trail \in [0 .. n -> Contents] : Trail(k, trail)
    BY <2>2
  <2>4. /\ trail[k] = server /\ trail[n] = direct
        /\ \A i \in 1 .. k : Answered(flight[i])
        /\ \A i \in k + 1 .. n : flight[i].reply = NoReply
    BY <1>2, <2>3 DEF Trail
  <2>5. k = n
    <3>1. CASE k < n
      <4>1. n \in k + 1 .. n
        BY <3>1
      <4> QED BY <1>4, <1>5, <2>4, <4>1
    <3> QED BY <3>1
  <2> QED BY <1>3, <1>4, <2>4, <2>5
<1>13. ServedInOrder'
  <2>1. SUFFICES ASSUME ~lost PROVE ServedInOrder'
    BY <1>5 DEF ServedInOrder
  <2>2. PICK trail : trail = [i \in 0 .. n - 1 |-> server]
    OBVIOUS
  <2>3. trail \in [0 .. n - 1 -> Contents] /\ trail[n - 1] = server
    BY <1>3, <1>10, <2>2
  <2>4. \A i \in 1 .. n - 1 : Answered(flight'[i])
    <3>1. \A i \in 1 .. n - 1 : i \in 1 .. n
      OBVIOUS
    <3> QED BY <1>8, <1>12, <2>1, <3>1
  <2>5. \A i \in n - 1 + 1 .. n - 1 : FALSE
    OBVIOUS
  <2>6. server' = server /\ direct' = server
    BY <1>5, <1>12, <2>1
  <2>7. Trail(n - 1, trail)'
    BY <1>8, <2>3, <2>4, <2>5, <2>6 DEF Trail
  <2>8. n - 1 \in 0 .. n - 1
    BY <1>3
  <2> QED BY <1>8, <2>3, <2>7, <2>8 DEF ServedInOrder
<1>14. ResponsesInOrder'
  BY <1>1, <1>5 DEF ResponsesInOrder
<1>15. AsIfDirect'
  <2>1. returned'.got = Result(f.call, f.reply) /\ returned'.due = f.due
        /\ returned'.call = f.call /\ returned'.null = <<f.reply = NoAnswer>>
    BY <1>5
  <2>2. ~lost' => returned'.got = returned'.due
    <3>1. SUFFICES ASSUME ~lost PROVE returned'.got = returned'.due
      BY <1>5
    <3>2. PICK s \in Contents : /\ f.reply = ServerReply(s, f.command)
                                /\ f.due = Due(f.call, f.command, s)
      BY <1>12, <3>1 DEF Answered
    <3>3. ServedAsMeant(s, f.call, f.command)
      BY <1>10, Served DEF InFlight
    <3> QED BY <2>1, <3>2, <3>3 DEF ServedAsMeant
  <2>3. /\ f.reply = NoAnswer => returned'.got = Raised \/ returned'.call \in Unchecking
        /\ returned'.call # "GetResponses"
    <3>1. f.call \in CallNames
      BY <1>10 DEF InFlight
    <3>2. f.call # "GetResponses"
      BY <3>1 DEF CallNames, Registered
    <3> QED BY <2>1, <3>1, <3>2, NullServed
  <2>4. \A i \in DOMAIN returned'.null : returned'.null[i] => f.reply = NoAnswer
    <3>1. PICK b : b = (f.reply = NoAnswer)
      OBVIOUS
    <3>2. \A i \in DOMAIN <<b>> : <<b>>[i] = b
      OBVIOUS
    <3> QED BY <2>1, <3>1, <3>2
  <2> QED BY <2>2, <2>3, <2>4 DEF AsIfDirect
<1> QED BY <1>11, <1>13, <1>14, <1>15 DEF StructuresInv

\* The list of responses has what each call is due at its own place.
LEMMA WaitStep ==
  ASSUME StructuresInv, Wait
  PROVE  StructuresInv'
<1>1. FlightTypes /\ ServedInOrder
  BY DEF StructuresInv
<1>2. PICK n \in Nat : n = Len(flight) /\ DOMAIN flight = 1 .. n
  BY <1>1 DEF FlightTypes
<1>3. /\ ~calling /\ Unanswered = {}
      /\ responses' = [i \in 1 .. n |-> Collected(flight[i])]
      /\ returned' = [call |-> "Wait",
                      got |-> <<"bool", \A i \in 1 .. n : Fine(flight[i].reply)>>,
                      due |-> <<"bool", TRUE>>, null |-> <<>>]
      /\ flight' = <<>>
      /\ server' = server /\ calling' = calling /\ direct' = direct /\ lost' = lost
  BY <1>2 DEF Wait, Waited
<1>4. Len(flight') = 0 /\ DOMAIN flight' = {}
  BY <1>3
<1>5. \A i \in 1 .. n : InFlight(flight[i]) /\ flight[i].call \in Registered
  BY <1>1, <1>2, <1>3 DEF FlightTypes
<1>6. ~lost => server = direct /\ \A i \in 1 .. n : Answered(flight[i])
  <2>1. SUFFICES ASSUME ~lost PROVE server = direct /\ \A i \in 1 .. n : Answered(flight[i])
    OBVIOUS
  <2>2. PICK k \in 0 .. n : \E trail \in [0 .. n -> Contents] : Trail(k, trail)
    BY <1>1, <1>2, <2>1 DEF ServedInOrder
  <2>3. PICK trail \in [0 .. n -> Contents] : Trail(k, trail)
    BY <2>2
  <2>4. /\ trail[k] = server /\ trail[n] = direct
        /\ \A i \in 1 .. k : Answered(flight[i])
        /\ \A i \in k + 1 .. n : flight[i].reply = NoReply
    BY <1>2, <2>3 DEF Trail
  <2>5. k = n
    <3>1. CASE k < n
      <4>1. n \in k + 1 .. n /\ n \in 1 .. n
        BY <3>1
      <4>2. n \in Unanswered
        BY <1>2, <2>4, <4>1 DEF Unanswered
      <4> QED BY <1>3, <4>2
    <3> QED BY <3>1
  <2> QED BY <2>4, <2>5
<1>7. ~lost => \A i \in 1 .. n : /\ Fine(flight[i].reply)
                                 /\ Response(flight[i].reply) = AsResponse(flight[i].due)
  <2>1. SUFFICES ASSUME ~lost, NEW i \in 1 .. n
                 PROVE  /\ Fine(flight[i].reply)
                        /\ Response(flight[i].reply) = AsResponse(flight[i].due)
    OBVIOUS
  <2>2. PICK s \in Contents :
          /\ flight[i].reply = ServerReply(s, flight[i].command)
          /\ flight[i].due = Due(flight[i].call, flight[i].command, s)
    BY <1>6, <2>1 DEF Answered
  <2>3. ServedAsMeant(s, flight[i].call, flight[i].command)
    BY <1>5, Served DEF InFlight
  <2> QED BY <1>5, <2>2, <2>3 DEF ServedAsMeant
<1>8. FlightTypes'
  <2>1. flight' = [i \in 1 .. 0 |-> flight'[i]]
    BY <1>3
  <2> QED BY <1>1, <1>3, <1>4, <2>1 DEF FlightTypes
<1>9. ServedInOrder'
  <2>1. SUFFICES ASSUME ~lost PROVE ServedInOrder'
    BY <1>3 DEF ServedInOrder
  <2>2. PICK trail : trail = [i \in 0 .. 0 |-> server]
    OBVIOUS
  <2>3. trail \in [0 .. 0 -> Contents] /\ trail[0] = server
    BY <1>1, <2>2 DEF FlightTypes
  <2>4. server' = server /\ direct' = server
    BY <1>3, <1>6, <2>1
  <2>5. Trail(0, trail)'
    BY <1>4, <2>3, <2>4 DEF Trail
  <2> QED BY <1>4, <2>3, <2>5 DEF ServedInOrder
<1>10. ResponsesInOrder'
  <2>1. DOMAIN responses' = 1 .. n
    BY <1>3
  <2> SUFFICES ASSUME NEW i \in 1 .. n
               PROVE  /\ responses'[i].null => responses'[i].value = -EINVAL
                      /\ ~lost' => responses'[i].value = responses'[i].due
    BY <2>1 DEF ResponsesInOrder
  <2>2. responses'[i] = Collected(flight[i])
    BY <1>3
  <2>3. /\ responses'[i].value = Response(flight[i].reply)
        /\ responses'[i].due = AsResponse(flight[i].due)
        /\ responses'[i].null = (flight[i].reply = NoAnswer)
    BY <2>2 DEF Collected
  <2>4. Response(NoAnswer) = -EINVAL
    BY <1>5, NullServed DEF InFlight
  <2> QED BY <1>3, <1>7, <2>3, <2>4
<1>11. AsIfDirect'
  <2>1. PICK b : b = (\A i \in 1 .. n : Fine(flight[i].reply))
    OBVIOUS
  <2>2. returned'.got = <<"bool", b>> /\ returned'.due = <<"bool", TRUE>> /\ returned'.null = <<>>
    BY <1>3, <2>1
  <2>3. ~lost => (\A i \in 1 .. n : Fine(flight[i].reply)) = TRUE
    BY <1>7
  <2>4. ~lost => returned'.got = returned'.due
    BY <2>1, <2>2, <2>3
  <2>5. DOMAIN returned'.null = {}
    BY <2>2
  <2> QED BY <1>3, <2>4, <2>5 DEF AsIfDirect
<1> QED BY <1>8, <1>9, <1>10, <1>11 DEF StructuresInv

LEMMA GetResponsesStep ==
  ASSUME StructuresInv, GetResponses
  PROVE  StructuresInv'
<1>1. /\ server' = server /\ flight' = flight /\ calling' = calling /\ responses' = responses
      /\ direct' = direct /\ lost' = lost
  BY DEF GetResponses
<1>2. FlightTypes /\ ServedInOrder /\ ResponsesInOrder
  BY DEF StructuresInv
<1>3. FlightTypes'
  BY <1>1, <1>2 DEF FlightTypes
<1>4. ServedInOrder'
  BY <1>1, <1>2 DEF ServedInOrder, Trail
<1>5. ResponsesInOrder'
  BY <1>1, <1>2 DEF ResponsesInOrder
<1>6. PICK got, due, null :
        /\ got = [i \in DOMAIN responses |-> responses[i].value]
        /\ due = [i \in DOMAIN responses |-> responses[i].due]
        /\ null = [i \in DOMAIN responses |-> responses[i].null]
  OBVIOUS
<1>7. returned'.call = "GetResponses"
      /\ returned'.got = <<"list", got>> /\ returned'.due = <<"list", due>> /\ returned'.null = null
  BY <1>6 DEF GetResponses
<1>8. ~lost => got = due
  BY <1>2, <1>6 DEF ResponsesInOrder
<1>9. \A i \in DOMAIN null : null[i] => got[i] = -EINVAL
  BY <1>2, <1>6 DEF ResponsesInOrder
<1>10. AsIfDirect'
  BY <1>1, <1>7, <1>8, <1>9 DEF AsIfDirect
<1> QED BY <1>3, <1>4, <1>5, <1>10 DEF StructuresInv

\* A step of a call that waits, or of one registered with the AsyncHandler
LEMMA CallStep ==
  ASSUME StructuresInv, NEW call \in CallNames, NEW c \in Commands(call),
         Sync(call, c) \/ (Register(call, c) /\ call \in Registered)
  PROVE  StructuresInv'
<1>1. Execute(call, c)
  BY DEF Sync, Register
<1>2. calling' = TRUE \/ (calling' = calling /\ call \in Registered)
  BY DEF Sync, Register
<1>3. responses' = responses \/ responses' = <<>>
  BY DEF Sync, Register
<1> QED BY <1>1, <1>2, <1>3, ExecuteStep

\* One of the calls of QHash and QSet is made.
SomeCall ==
  \E call \in CallNames : \E c \in Commands(call) :
    Sync(call, c) \/ (Register(call, c) /\ call \in Registered)

\* The commands of the calls, one fact for each
LEMMA CommandsMade ==
  /\ \A f \in HashFields : OnField("HGET", f) \in Commands("hget")
  /\ \A f \in HashFields, v \in FieldValues : Sets("HSET", f, v) \in Commands("hset")
  /\ \A f \in HashFields, v \in FieldValues : Sets("HSETNX", f, v) \in Commands("hsetnx")
  /\ \A F \in FiniteFields, v \in FieldValues : SetsEach(F, v) \in Commands("hmset")
  /\ \A f \in HashFields : OnField("HDEL", f) \in Commands("hdel")
  /\ OnField("HGETALL", AnyField) \in Commands("hgetall")
  /\ \A f \in HashFields : OnField("HEXISTS", f) \in Commands("hexists")
  /\ OnField("HLEN", AnyField) \in Commands("hlen")
  /\ \A f \in HashFields : OnField("HINCRBY", f) \in Commands("hincrby")
  /\ \A f \in HashFields : OnField("HINCRBYFLOAT", f) \in Commands("hincrbyfloat")
  /\ OnField("HKEYS", AnyField) \in Commands("hkeys")
  /\ OnField("HVALS", AnyField) \in Commands("hvals")
  /\ \A f \in HashFields : OnMembers("SADD", {f}) \in Commands("sadd")
  /\ \A M \in FiniteFields : OnMembers("SADD", M) \in Commands("sadd_list")
  /\ \A f \in HashFields : OnMembers("SREM", {f}) \in Commands("srem")
  /\ \A M \in FiniteFields : OnMembers("SREM", M) \in Commands("srem_list")
  /\ OnMembers("SCARD", {}) \in Commands("scard")
  /\ \A f \in HashFields : OnMembers("SISMEMBER", {f}) \in Commands("sismember")
  /\ OnMembers("SMEMBERS", {}) \in Commands("smembers")
<1>1. \A f \in HashFields : OnField("HGET", f) \in Commands("hget")
  BY DEF Commands
<1>2. \A f \in HashFields, v \in FieldValues : Sets("HSET", f, v) \in Commands("hset")
  BY DEF Commands
<1>3. \A f \in HashFields, v \in FieldValues : Sets("HSETNX", f, v) \in Commands("hsetnx")
  BY DEF Commands
<1>4. \A F \in FiniteFields, v \in FieldValues : SetsEach(F, v) \in Commands("hmset")
  BY DEF Commands
<1>5. \A f \in HashFields : OnField("HDEL", f) \in Commands("hdel")
  BY DEF Commands
<1>6. OnField("HGETALL", AnyField) \in Commands("hgetall")
  BY DEF Commands
<1>7. \A f \in HashFields : OnField("HEXISTS", f) \in Commands("hexists")
  BY DEF Commands
<1>8. OnField("HLEN", AnyField) \in Commands("hlen")
  BY DEF Commands
<1>9. \A f \in HashFields : OnField("HINCRBY", f) \in Commands("hincrby")
  BY DEF Commands
<1>10. \A f \in HashFields : OnField("HINCRBYFLOAT", f) \in Commands("hincrbyfloat")
  BY DEF Commands
<1>11. OnField("HKEYS", AnyField) \in Commands("hkeys")
  BY DEF Commands
<1>12. OnField("HVALS", AnyField) \in Commands("hvals")
  BY DEF Commands
<1>13. \A f \in HashFields : OnMembers("SADD", {f}) \in Commands("sadd")
  BY DEF Commands
<1>14. \A M \in FiniteFields : OnMembers("SADD", M) \in Commands("sadd_list")
  BY DEF Commands
<1>15. \A f \in HashFields : OnMembers("SREM", {f}) \in Commands("srem")
  BY DEF Commands
<1>16. \A M \in FiniteFields : OnMembers("SREM", M) \in Commands("srem_list")
  BY DEF Commands
<1>17. OnMembers("SCARD", {}) \in Commands("scard")
  BY DEF Commands
<1>18. \A f \in HashFields : OnMembers("SISMEMBER", {f}) \in Commands("sismember")
  BY DEF Commands
<1>19. OnMembers("SMEMBERS", {}) \in Commands("smembers")
  BY DEF Commands
<1> QED BY <1>1, <1>2, <1>3, <1>4, <1>5, <1>6, <1>7, <1>8, <1>9, <1>10, <1>11, <1>12,
           <1>13, <1>14, <1>15, <1>16, <1>17, <1>18, <1>19

LEMMA SomeFields ==
  /\ \A f \in HashFields : {f} \in FiniteFields
  /\ \A M \in Several : M \in FiniteFields
  /\ {} \in FiniteFields
BY FS_Singleton, FS_EmptySet DEF FiniteFields, Several

\* A step that is none of the four others is a call.
LEMMA CallMade ==
  ASSUME StructuresNext, ~ServerAnswers, ~Return, ~Wait, ~GetResponses
  PROVE  SomeCall
<1>0. CallNames = {"hget", "hset", "hsetnx", "hmset", "hdel", "hgetall", "hexists", "hlen",
                   "hincrby", "hincrbyfloat", "hkeys", "hvals", "sadd", "sadd_list", "srem",
                   "srem_list", "scard", "sismember", "smembers"}
  BY DEF CallNames, Registered
<1>1. CASE hget
  BY <1>0, <1>1, CommandsMade, SomeFields DEF hget, SomeCall, Registered
<1>2. CASE hset
  BY <1>0, <1>2, CommandsMade, SomeFields DEF hset, SomeCall, Registered
<1>3. CASE hset_async
  BY <1>0, <1>3, CommandsMade, SomeFields DEF hset_async, SomeCall, Registered
<1>4. CASE hsetnx
  BY <1>0, <1>4, CommandsMade, SomeFields DEF hsetnx, SomeCall, Registered
<1>5. CASE hmset
  BY <1>0, <1>5, CommandsMade, SomeFields DEF hmset, SomeCall, Registered
<1>6. CASE hdel
  BY <1>0, <1>6, CommandsMade, SomeFields DEF hdel, SomeCall, Registered
<1>7. CASE hdel_async
  BY <1>0, <1>7, CommandsMade, SomeFields DEF hdel_async, SomeCall, Registered
<1>8. CASE hgetall
  BY <1>0, <1>8, CommandsMade, SomeFields DEF hgetall, SomeCall, Registered
<1>9. CASE hexists
  BY <1>0, <1>9, CommandsMade, SomeFields DEF hexists, SomeCall, Registered
<1>10. CASE hlen
  BY <1>0, <1>10, CommandsMade, SomeFields DEF hlen, SomeCall, Registered
<1>11. CASE hlen_async
  BY <1>0, <1>11, CommandsMade, SomeFields DEF hlen_async, SomeCall, Registered
<1>12. CASE hincrby
  BY <1>0, <1>12, CommandsMade, SomeFields DEF hincrby, SomeCall, Registered
<1>13. CASE hincrby_async
  BY <1>0, <1>13, CommandsMade, SomeFields DEF hincrby_async, SomeCall, Registered
<1>14. CASE hincrbyfloat
  BY <1>0, <1>14, CommandsMade, SomeFields DEF hincrbyfloat, SomeCall, Registered
<1>15. CASE hkeys
  BY <1>0, <1>15, CommandsMade, SomeFields DEF hkeys, SomeCall, Registered
<1>16. CASE hvals
  BY <1>0, <1>16, CommandsMade, SomeFields DEF hvals, SomeCall, Registered
<1>17. CASE sadd
  BY <1>0, <1>17, CommandsMade, SomeFields DEF sadd, SomeCall, Registered
<1>18. CASE sadd_list
  BY <1>0, <1>18, CommandsMade, SomeFields DEF sadd_list, SomeCall, Registered
<1>19. CASE sadd_async
  BY <1>0, <1>19, CommandsMade, SomeFields DEF sadd_async, SomeCall, Registered
<1>20. CASE sadd_async_list
  BY <1>0, <1>20, CommandsMade, SomeFields DEF sadd_async_list, SomeCall, Registered
<1>21. CASE srem
  BY <1>0, <1>21, CommandsMade, SomeFields DEF srem, SomeCall, Registered
<1>22. CASE srem_list
  BY <1>0, <1>22, CommandsMade, SomeFields DEF srem_list, SomeCall, Registered
<1>23. CASE srem_async
  BY <1>0, <1>23, CommandsMade, SomeFields DEF srem_async, SomeCall, Registered
<1>24. CASE scard
  BY <1>0, <1>24, CommandsMade, SomeFields DEF scard, SomeCall, Registered
<1>25. CASE sismember
  BY <1>0, <1>25, CommandsMade, SomeFields DEF sismember, SomeCall, Registered
<1>26. CASE smembers
  BY <1>0, <1>26, CommandsMade, SomeFields DEF smembers, SomeCall, Registered
<1> QED BY <1>1, <1>2, <1>3, <1>4, <1>5, <1>6, <1>7, <1>8, <1>9, <1>10, <1>11, <1>12,
           <1>13, <1>14, <1>15, <1>16, <1>17, <1>18, <1>19, <1>20, <1>21, <1>22, <1>23,
           <1>24, <1>25, <1>26 DEF StructuresNext

LEMMA StructuresInvStep ==
  ASSUME StructuresInv, [StructuresNext]_structuresVars
  PROVE  StructuresInv'
<1>1. CASE UNCHANGED structuresVars
  <2>1. /\ server' = server /\ flight' = flight /\ calling' = calling /\ responses' = responses
        /\ direct' = direct /\ lost' = lost /\ returned' = returned
    BY <1>1 DEF structuresVars
  <2>2. FlightTypes' /\ ServedInOrder'
    BY <2>1 DEF StructuresInv, FlightTypes, ServedInOrder, Trail
  <2>3. ResponsesInOrder' /\ AsIfDirect'
    BY <2>1 DEF StructuresInv, ResponsesInOrder, AsIfDirect
  <2> QED BY <2>2, <2>3 DEF StructuresInv
<1>2. CASE ServerAnswers
  BY <1>2, ServerAnswersStep
<1>3. CASE Return
  BY <1>3, ReturnStep
<1>4. CASE Wait
  BY <1>4, WaitStep
<1>5. CASE GetResponses
  BY <1>5, GetResponsesStep
<1>6. CASE StructuresNext /\ ~ServerAnswers /\ ~Return /\ ~Wait /\ ~GetResponses
  <2>1. SomeCall
    BY <1>6, CallMade
  <2>2. PICK call \in CallNames : \E c \in Commands(call) :
          Sync(call, c) \/ (Register(call, c) /\ call \in Registered)
    BY <2>1 DEF SomeCall
  <2>3. PICK c \in Commands(call) :
          Sync(call, c) \/ (Register(call, c) /\ call \in Registered)
    BY <2>2
  <2> QED BY <2>3, CallStep
<1> QED BY <1>1, <1>2, <1>3, <1>4, <1>5, <1>6

\* Whatever mix of calls of QHash and QSet waits or is left to an AsyncHandler, for
\* any fields and values, any number of calls in flight and a connection that may give
\* up at any reply, they return what they would if each took effect when it was made;
\* a reply that was lost is an exception, or an error at its own place of the list, but
\* for the two calls that do not check it.
THEOREM StructuresAsIfDirect == StructuresSpec => []AsIfDirect
<1>1. StructuresInv => AsIfDirect
  BY DEF StructuresInv
<1>2. StructuresInv /\ [StructuresNext]_structuresVars => StructuresInv'
  BY StructuresInvStep
<1> QED BY <1>1, <1>2, InitStructuresInv, PTL DEF StructuresSpec
=============================================================================
