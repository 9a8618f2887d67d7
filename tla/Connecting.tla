------------------------------ MODULE Connecting ------------------------------
(***************************************************************************)
(* Where to connect next and how: EndpointDecider, HostResolver with           *)
(* GlobalInterceptor, AsyncConnector, and QClient::connectTCP(), all in the     *)
(* event loop's thread, while the network answers and another thread asks for   *)
(* shutdown.  An address is a pair of an endpoint and a number.                 *)
(***************************************************************************)
EXTENDS Integers, Sequences, FiniteSets, SequencesExt

CONSTANTS
  Members,          \* number of cluster members
  Redirect,         \* an endpoint outside the cluster, or a member
  AddressCounts,    \* how many addresses a name may have; 0 if resolution fails
  Intercepts        \* pairs of endpoints: what addIntercept() may be given
ASSUME ConnectingAssumption == Members \in Nat \ {0} /\ AddressCounts \subseteq Nat

VARIABLES
  nextMember, fullCircle, redirection, resolvedEndpoints,   \* EndpointDecider
  attempt,          \* of the loop of getNextEndpoint(), or NoLoop
  intercepts,       \* GlobalInterceptor: endpoints that stand for others
  connector,        \* AsyncConnector: fd, finished, localerrno; target, and
                    \* what the kernel makes of it
  loopPhase,            \* of the event loop: "connect", "block", "epoch"
  shutdown,         \* shutdownEventFD
  askedFor,         \* members asked for so far
  fate,             \* history: what became of each address that was looked up, kept
                    \* until the circle is full
  streamTo          \* target of the last stream that was made

deciderVars == <<nextMember, fullCircle, redirection, resolvedEndpoints, attempt, askedFor,
                 fate>>
connectingVars == <<deciderVars, intercepts, connector, loopPhase, shutdown, streamTo>>

NoLoop == -1
NoEndpoint == -1
NoConnector == [fd |-> FALSE, finished |-> FALSE, localerrno |-> FALSE,
                target |-> <<NoEndpoint, 0>>, kernel |-> "none"]

ConnectingInit ==
  /\ nextMember = 0 /\ fullCircle = FALSE /\ redirection = NoEndpoint
  /\ resolvedEndpoints = <<>> /\ attempt = NoLoop /\ askedFor = {}
  /\ fate = <<>>
  /\ intercepts = <<>>
  /\ connector = NoConnector
  /\ loopPhase = "connect" /\ shutdown = FALSE /\ streamTo = NoConnector.target

-----------------------------------------------------------------------------
(* Names and addresses *)

\* GlobalInterceptor::translate()
Translate(endpoint) ==
  IF endpoint \in DOMAIN intercepts THEN intercepts[endpoint] ELSE endpoint

\* HostResolver::resolve(): some number of addresses, none if the name has none or
\* resolution failed; it may be another at another time.
Resolve(endpoint) ==
  {[i \in 1 .. n |-> <<Translate(endpoint), i>>] : n \in AddressCounts}

\* GlobalInterceptor::addIntercept(), clearIntercepts()
AddIntercept ==
  /\ \E pair \in Intercepts :
       intercepts' = [e \in DOMAIN intercepts \cup {pair[1]} |->
                        IF e = pair[1] THEN pair[2] ELSE intercepts[e]]
  /\ UNCHANGED <<deciderVars, connector, loopPhase, shutdown, streamTo>>
ClearIntercepts ==
  /\ intercepts # <<>> /\ intercepts' = <<>>
  /\ UNCHANGED <<deciderVars, connector, loopPhase, shutdown, streamTo>>

-----------------------------------------------------------------------------
(* EndpointDecider *)

\* getNext()
GetNext ==
  IF redirection # NoEndpoint
  THEN [endpoint |-> redirection, nextMember |-> nextMember, asked |-> askedFor]
  ELSE [endpoint |-> nextMember, nextMember |-> (nextMember + 1) % Members,
        asked |-> askedFor \cup {nextMember}]

\* AsyncConnector's constructor: no socket, refused at once, connected at once,
\* or under way.
Construct(target) ==
  \E k \in {"none", "established", "connecting"} :
    connector' = [fd |-> k # "none", finished |-> k = "established",
                  localerrno |-> k = "none", target |-> target, kernel |-> k]

\* An address waits until it is handed out, or dropped.
Waiting(addresses) ==
  [a \in DOMAIN fate \cup ToSet(addresses) |-> IF a \in DOMAIN fate THEN fate[a] ELSE "waiting"]
HandedOut(addresses) ==
  fate' = IF fullCircle THEN <<>>
          ELSE [Waiting(addresses) EXCEPT ![Head(addresses)] = "tried"]
Dropped ==
  fate' = IF fullCircle THEN <<>>
          ELSE [a \in DOMAIN fate |-> IF fate[a] = "waiting" THEN "dropped" ELSE fate[a]]

\* fetchServiceEndpoint(), and the connector of connectTCP()
Fetch(addresses) ==
  /\ resolvedEndpoints' = Tail(addresses)
  /\ HandedOut(addresses)
  /\ attempt' = NoLoop
  /\ Construct(Head(addresses))
  /\ loopPhase' = "block"

\* getNextEndpoint(): an address is left, or the loop over members begins.
GetNextEndpoint ==
  /\ loopPhase = "connect" /\ attempt = NoLoop
  /\ fullCircle' = (fullCircle \/ (Len(resolvedEndpoints) = 1 /\ nextMember = 0))
  /\ IF resolvedEndpoints # <<>> THEN Fetch(resolvedEndpoints)
     ELSE attempt' = 0 /\ UNCHANGED <<resolvedEndpoints, fate, connector, loopPhase>>
  /\ UNCHANGED <<nextMember, redirection, askedFor, intercepts, shutdown, streamTo>>

\* Mutant: a single address counts as a circle whoever has it.
TryMemberAnyCircle ==
  /\ attempt # NoLoop
  /\ attempt < Members + (IF redirection # NoEndpoint THEN 1 ELSE 0)
  /\ LET next == GetNext IN
     /\ nextMember' = next.nextMember /\ askedFor' = next.asked
     /\ redirection' = NoEndpoint
     /\ \E addresses \in Resolve(next.endpoint) :
          /\ fullCircle' = (fullCircle \/ Len(addresses) = 1)
          /\ IF addresses # <<>> THEN Fetch(addresses)
             ELSE /\ attempt' = attempt + 1
                  /\ UNCHANGED <<resolvedEndpoints, fate, connector, loopPhase>>
  /\ UNCHANGED <<intercepts, shutdown, streamTo>>

\* One turn of its loop.  The bound is evaluated each time, also after the
\* redirection was taken.
TryMember ==
  /\ attempt # NoLoop
  /\ attempt < Members + (IF redirection # NoEndpoint THEN 1 ELSE 0)
  /\ LET next == GetNext IN
     /\ nextMember' = next.nextMember /\ askedFor' = next.asked
     /\ redirection' = NoEndpoint
     /\ \E addresses \in Resolve(next.endpoint) :
          /\ fullCircle' = (fullCircle \/ (Len(addresses) = 1 /\ next.nextMember = 0))
          /\ IF addresses # <<>> THEN Fetch(addresses)
             ELSE /\ attempt' = attempt + 1
                  /\ UNCHANGED <<resolvedEndpoints, fate, connector, loopPhase>>
  /\ UNCHANGED <<intercepts, shutdown, streamTo>>

\* Nothing resolves: connectTCP() returns without a stream.
NoMemberResolves ==
  /\ attempt # NoLoop
  /\ attempt >= Members + (IF redirection # NoEndpoint THEN 1 ELSE 0)
  /\ fullCircle' = TRUE /\ attempt' = NoLoop
  /\ UNCHANGED <<nextMember, redirection, resolvedEndpoints, askedFor, fate, intercepts,
                 connector, loopPhase, shutdown, streamTo>>

-----------------------------------------------------------------------------
(* AsyncConnector *)

\* The kernel finishes a connect(), well or not.
KernelAnswers ==
  /\ connector.kernel = "connecting"
  /\ \E k \in {"established", "refused"} : connector' = [connector EXCEPT !.kernel = k]
  /\ UNCHANGED <<deciderVars, intercepts, loopPhase, shutdown, streamTo>>

KnownReady == connector.finished \/ connector.localerrno \/ ~connector.fd
ConnectorOk(c) == c.fd /\ ~c.localerrno

\* connectTCP() goes on with a connector that is ready.
AfterBlock(c) ==
  IF ConnectorOk(c)
  THEN /\ streamTo' = c.target
       /\ loopPhase' = "epoch"
  ELSE loopPhase' = "connect" /\ UNCHANGED streamTo

\* blockUntilReady(): nothing to wait for
ReadyAlready ==
  /\ loopPhase = "block" /\ KnownReady
  /\ AfterBlock(connector)
  /\ UNCHANGED <<deciderVars, intercepts, connector, shutdown>>

\* poll() reports the socket: SO_ERROR tells how connect() ended.
SocketReady ==
  /\ loopPhase = "block" /\ ~KnownReady
  /\ connector.kernel \in {"established", "refused"}
  /\ connector' = [connector EXCEPT !.finished = TRUE,
                                    !.localerrno = connector.kernel = "refused"]
  /\ AfterBlock(connector')
  /\ UNCHANGED <<deciderVars, intercepts, shutdown>>

\* The deadline has passed, poll() fails, or shutdown is asked for and the socket
\* is not ready: the connector is destroyed.
StopBlocking ==
  /\ loopPhase = "block" /\ ~KnownReady
  /\ connector' = NoConnector /\ loopPhase' = "connect"
  /\ UNCHANGED <<deciderVars, intercepts, shutdown, streamTo>>

AskForShutdown ==
  /\ ~shutdown /\ shutdown' = TRUE
  /\ UNCHANGED <<deciderVars, intercepts, connector, loopPhase, streamTo>>

-----------------------------------------------------------------------------
(* The connection *)

\* QClient::feed() of "MOVED": registerRedirection(), and the connection ends.
Redirected ==
  /\ loopPhase = "epoch"
  /\ resolvedEndpoints' = <<>> /\ redirection' = Redirect
  /\ Dropped
  /\ loopPhase' = "connect" /\ connector' = NoConnector
  /\ UNCHANGED <<nextMember, fullCircle, attempt, askedFor, intercepts, shutdown, streamTo>>

ConnectionEnds ==
  /\ loopPhase = "epoch"
  /\ loopPhase' = IF shutdown THEN "stopped" ELSE "connect"
  /\ connector' = NoConnector
  /\ UNCHANGED <<deciderVars, intercepts, shutdown, streamTo>>

ConnectingNext ==
  \/ AddIntercept \/ ClearIntercepts \/ GetNextEndpoint \/ TryMember
  \/ NoMemberResolves \/ KernelAnswers \/ ReadyAlready \/ SocketReady \/ StopBlocking
  \/ AskForShutdown \/ Redirected \/ ConnectionEnds

ConnectingSpec == ConnectingInit /\ [][ConnectingNext]_connectingVars

-----------------------------------------------------------------------------
(* Properties *)

\* QClient gives up requests only when a circle was made.  It is not made before
\* every member was asked for, whatever redirections and failures of names there
\* were, and before every address that was looked up was tried, unless a
\* redirection dropped it: see CircleTriesAll.  A stream is made only of a socket
\* that is connected, and to the address that was handed out for it.
ConnectsInTurn ==
  /\ fullCircle => /\ askedFor = 0 .. Members - 1
                   /\ \A a \in DOMAIN fate : fate[a] # "waiting"
  /\ loopPhase = "epoch" =>
       /\ connector.kernel = "established"
       /\ streamTo = connector.target

\* madeFullCircle(): "have we tried all possible ServiceEndpoints at least once?
\* Including possible redirects." (EndpointDecider.cc:117, .hh:77).
CircleTriesAll == fullCircle => \A a \in DOMAIN fate : fate[a] = "tried"
=============================================================================
