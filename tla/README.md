# QClient: a verification project

QClient is a C++ client library for Redis and QuarkDB. A `QClient` object owns
one connection at a time, pipelines the requests of any number of user threads
over it, and keeps going when the connection, or the server behind it, goes
away. On top of it the library builds publish/subscribe, replicated data
structures (shared hashes and deques), request/reply over publish/subscribe, a
write-behind flusher, and wrappers and scanners for the server's data structures.

These modules model the library; TLC checks them on small instances, and TLAPS
proves part of what they say for every value of their constants. Paths below are
relative to the root of the repository, in which `src/` holds the library and
`include/qclient/` its headers.

Commands, in this directory:

    tlc -workers 2 -config core_calls.cfg      MCConnectionCore
    tlc -workers 2 -config qclient.cfg         MCRetryModes
    tlc -workers 2 -config qclient_live.cfg    MCQClient
    tlc -workers 2 -config threads.cfg         MCThreads
    tlc -workers 2 -config parts.cfg           MCParts

    tlc -workers 2 -config core_surplus.cfg    MCConnectionCore   # core_limit alike
    tlc -workers 2 -config qclient_drain.cfg   MCQClient
    tlc -workers 2 -config shared_stale.cfg    PersistentSharedHash
    tlc -workers 2 -config tls_send.cfg        MCTls
    tlc -workers 2 -config structures_null.cfg Structures
    tlc -workers 2 -config connecting_circle.cfg Connecting

    tlapm <module>_proofs.tla                                # section 5

The runs of the first group end without an error, those of the second with a
counterexample, which section 6 explains.

`PROJECT.json` lists every part of the library with its status, the runs, which
lines each definition models, the results proved, and under `hazards` the places of
this code that a test would hardly reach, with the property that would catch them
going wrong, or the reason why there is none.

## 1. Inventory

### 1.1 The client proper

| part | source | state | operations | what makes it correct |
|---|---|---|---|---|
| Connection core | `src/ConnectionCore.*` | request queue, handshake queue, two iterators, count of swallowed replies, `inHandshake` | `stage`, `consumeResponse`, `getNextToWrite`, `reconnection`, `clearAllPending`, `setBlockingMode` | every request is answered once, in order, with its own reply; nothing is lost |
| Request queue | `src/RequestQueue.hh` | a `WaitableQueue` with one hidden item at the front | `emplace_back`, `pop_front`, `begin`, `reset` | the writer's item outlives its acknowledgement |
| Backpressure | `src/BackpressureApplier.hh`, `include/qclient/Semaphore.hh` | free slots | `reserve`, `release` | no slot is lost; the limit holds |
| Callback executor, futures | `src/CallbackExecutorThread.*`, `src/FutureHandler.*` | pending callbacks, promises | `stage`, `handleResponse` | a future gets its own reply; nothing is dropped at shutdown |
| Writer thread | `src/WriterThread.*` | item in progress, bytes of it written | `activate`, `deactivate`, the loop | whole requests, in order, after the handshake; it ends when told to |
| Event loop, life cycle | `src/QClient.cc` | epoch, response builder, success flags | `connect`, `feed`, `cleanup`, `shouldPurgePendingRequests`, the destructor | retries as the strategy promises, no reply crosses connections |
| Choice of endpoint, connecting | `src/EndpointDecider.*`, `src/GlobalInterceptor.*`, `src/AsyncConnector.*`, `src/network/HostResolver.*` | members, redirection, resolved endpoints | `getNextEndpoint`, `registerRedirection`, `blockUntilReady` | every member and every address is tried before requests are given up |
| Streams and TLS | `src/network/NetworkStream.*`, `src/TlsFilter.*` | buffers of plain and cipher text | `send`, `recv` | nothing is lost, repeated or left behind |
| Handshakes | `src/Handshake.cc`, `src/Options.cc` | position in the exchange | `provideHandshake`, `validateResponse`, `restart` | a connection is used only after the whole exchange on that connection |
| Reply reader | `src/ResponseBuilder.*`, `src/reader/*` | buffer, stack of nested replies | `feed`, `pull` | replies are the ones that were encoded, however the stream is cut |

A request's life: a user thread *stages* it (taking a backpressure slot if it
comes with a callback, making a promise if it asks for a future); the writer
thread *takes* it from the queue and sends it; the event loop *reads* the reply
and *acknowledges* the oldest unacknowledged request; the callback executor
*delivers* the reply. The threads share the queues of the core: staging and the
callback queue are under mutexes, but the event loop pops from the front of the
request queue while the writer holds a pointer into it, and rewinds the iterators
the writer uses, which is safe only because it joins the writer first.

Hard behaviours: all interleavings of the four threads and the destructor; a
connection that dies anywhere (in a handshake, in the middle of a MULTI block,
with replies half read); rewinding and sending again; purging while users keep
staging; a shutdown that must unblock a poll, a queue and a callback queue.

### 1.2 What is built on it

| part | source | hard behaviour | what makes it correct |
|---|---|---|---|
| Queues | `include/qclient/queueing/*` | one producer and one consumer in the same memory block; wakeups; attaching a callback while items arrive | what was put in comes out once, in order, from allocated memory |
| Subscribers | `src/pubsub/*` | subscribing again after a reconnection; messages for a `Subscription` being destroyed | the server's subscriptions are the client's; no message is skipped or goes to a dead object |
| Communicator | `src/shared/Communicator*.cc`, `PendingRequestVault.cc` | retries, expiry and duplicates over lossy publish/subscribe | handled once, answered with its own answer, always resolved |
| Persistent shared hash | `src/shared/PersistentSharedHash.cc` | revisions with gaps, twice or during resilvering | contents are one revision's, and in the end the newest |
| Transient shared hash, subscriptions | `src/shared/TransientSharedHash.cc`, `SharedHash.cc`, `SharedHashSubscription.cc` | updates fed while subscriptions come and go | no update is fed to a dead object |
| Shared deque | `src/shared/SharedDeque.cc` | a cached size against invalidations | a valid cached size is the size |
| Background flusher | `src/BackgroundFlusher.cc`, `include/qclient/RocksDBPersistency.hh` | a crash between any two steps | the server meets the items in order and nothing is forgotten |
| Data structures, AsyncHandler | `src/structures/*`, `src/AsyncHandler.cc` | asynchronous calls mixed with waiting ones | the results are those of calls one after another |
| Scanners | `include/qclient/structures/*` | pages that change or fail under the walk | what was there all along is shown, nothing twice |
| Serialization | `src/shared/SharedSerialization.cc`, `BinarySerializer.cc` | damaged payloads | parsed to what was sent, or refused |
| Strings | `src/reader/sds.*` | header widths, capacities, conversions | each call does what its description says, inside its block |

## 2. How the project is laid out

The client proper is three modules that extend each other:

- **ConnectionCore**, the state shared by all threads, one action per operation,
  with callers that may do anything;
- **WriterThread**, which adds the writer's loop and the socket;
- **QClient**, which adds the event loop, the destructor, users and a server, and is
  shown to implement ConnectionCore's specification (`CoreContract`).

ConnectionCore assumes a queue by sequence numbers. **NumberedQueue** is that
queue, **ThreadSafeQueue** the list of memory blocks which is shown to implement
it (`ImplementsNumberedQueue`), and **CallbackExecutor** composes it with the wakeup
protocol of `WaitableQueue` and one of its consumers, and is shown to use it as its
class comment demands (`QueueContract`).

What is built on the client sees of it what the modules above show: commands
are executed in the order they were staged, answered in that order, sent again from
the first unanswered one with retries and given up without. **Communicator** is one
module with both ends and the network between them. **PersistentSharedHash**,
**SharedDeque**, **SharedHash**, **BackgroundFlusher** and the subscribers
(**BaseSubscriber**, extended by **Subscriber**, both with **AttachableQueue**) are
independent of each other, and so are the parts beside the core: **ReplyReader**,
**Sds**, **Serialization**, **Structures**, **Scanners**, **Tls**, **Connecting**,
**Handshakes**. MCParts lets TLC choose one of all these in the initial state and
keeps the variables of the others at one value, so that the states of the run are
the sum of theirs, not the product; its properties each speak of the variables of
one part. In the same way MCThreads chooses between CallbackExecutor and
Communicator, MCConnectionCore between a core for ordinary calls and one in
exclusive publish/subscribe mode, and MCRetryModes between a client with and one
without retries.

## 3. The modules

### ConnectionCore

`requestQueue` maps sequence numbers to requests: the numbers from
`frontSequence` to `nextSequence - 1` are in memory, and the first of them is the
hidden item of `RequestQueue` (a dummy, or the last request acknowledged). The
iterators `nextToWriteIterator` and `nextToAcknowledgeIterator` are their
sequence numbers. A request is its identity (in the order of staging), the kind
of its callback (`"user"`, `"none"` for `nullptr`, `"future"` for the
`FutureHandler`) and its `multiSize`. Handshakes are a number of rounds.

| action | code |
|---|---|
| `Reserve`, `StageCallback` | `stage(callback, ...)`: a slot first, then, under the mutex, the queue; another thread may come in between |
| `StageFuture` | `stage(...)` with a future: one critical section |
| `ConsumeUnavailable` ... `ConsumeReply` | the ways `consumeResponse` ends; `alive` is its result |
| `Reconnection`, `ClearAllPending` | of the same names |
| `FetchHandshake`, `FetchRequest` | the two halves of `getNextToWrite` |
| `ExecuteCallback` | one round of `CallbackExecutorThread::main`, and `FutureHandler::handleResponse` |

`ClearAllPending` is one step although users may stage while it runs: the loop
acknowledges until the queue is empty and `RequestQueue::reset` follows under the
mutex of `clearAllPending`, which `stage` takes too. The loop of
`discardPending` calls is `Discard(n)`. In `Spec` the event loop and the server may
do anything: consume any reply at any time, purge or rewind in any state. What
holds of `Spec` holds of every client of the core that calls it from one event loop.

### WriterThread

`writerPc` names the places of the loop; the thread is `"off"` when it is not
running or has left the loop. Requests travel as *units*: one per command, so a
MULTI block has `multiSize + 1` of them and can be cut anywhere between two. A cut
inside a command is a shorter prefix of the same unit sequence, since the server acts on
whole commands. `send()` may take any number of units the kernel has room for.
`WriterSent` is separate from `WriterSend` because that is where the hazard is:
between the two the reply may arrive and the event loop may free the request.

### QClient

`eventLoop` goes connect → join → dial → reading → backoff → connect; the destructor
has its own program counter and runs `cleanup` after the event loop's thread has
ended. `replies` are in the socket, `buffered` in the response builder. The
server answers in order; it may refuse a command ("unavailable", MOVED, an error),
push a message, or close the connection, losing commands and any suffix of the
replies. `executions` counts how often it has executed a request. The passage of time is a
choice: the retry timeout may or may not have expired, backoff takes any time, and whether all
endpoints were tried (`fullCircle`) may come true at any attempt (Connecting shows when
it does). `MaxFaults` bounds refusals, disconnections and failed attempts together.

### ThreadSafeQueue, NumberedQueue

A memory block is named by the sequence number of the first item it can hold:
`next` maps the allocated blocks to their next pointers, `contents` to their
cells. An `emplace_back()` is up to three steps (construct, allocate the next
block, number), a `pop_front()` too (destroy, `removeRoot()`, count), as each runs
under a mutex of its own and iterators read under none. `Spec` allows
all that the class comment allows: popping what is there and no iterator points to,
`begin()` not during a pop, `next()` past an item that has arrived.
`Numbered` maps an allocated queue to the abstract one: an item is gone once it
is destroyed and there once it is numbered.

### CallbackExecutor

`executor` names the places of `CallbackExecutorThread::main` and of
`getItemBlockOrNull()` below it: a look without the lock, one with it, sleep, a
last look. `mtx` is held by a producer during the whole of
`WaitableQueue::emplace_back()`. `Notify` moves a sleeping executor to where
it takes the lock again. The destructor stops, unblocks, joins.

### Communicator

Three parties: issuers (`IssueInserts` under the vault's mutex, then
`IssuePublishes` outside it), the background thread (`Background...`, with the
vault's condition variable and its spurious and timed wakeups), the destructor; a
listener with its cache of replies and the set of requests seen (`LastN`); and a
network whose messages are a set of which any member may be delivered, again or never.
`vault` keeps requests in the order of their last retry, as `PendingRequestVault` does, so
`Expire` and `EarliestRetry` look at its front only. Time is a counter; `Due` and
`Expired` compare with it as the code does.

### PersistentSharedHash, SharedDeque, SharedHash

PersistentSharedHash: `Change` is a command of any client at the server and publishes
it under the next revision; `history` keeps what the contents were at each. The
hash has its own `currentVersion` and `contents`, a future (`CheckFuture`, called by `Get` and by
`FeedRevision` alike) and a connection that may be lost at any moment. `NotifySubscriber`
and `NotifyHash` are the two reconnection listeners, in either order, since their
order is that of addresses.

SharedDeque: the threads are a modifier (`ModifierStarts`, the command, `ModifierFinishes`),
one in `size()` (`SizeCached`, `SizeAsks`, `SizeReturns`), the event loop
(`DequeReceives`, `DequeNotified`), and another client as three steps of each of its operations.

SharedHash: `SetTransient` publishes a batch, and every client applies it when it
comes back (`TransientReceives`). The two steps `FeedLocks` and `FeedNext` are
`SharedHashSubscriber::feedUpdate`: the event loop walks over the subscribed objects under a
mutex, which registering and destroying a subscription (`WatcherRegisters`, `WatcherDestroyed`) take too;
`WatcherDetaches` only drops a pointer, and a subscription destroyed after it ends the program
(`hashCrashed`).

### BackgroundFlusher

`db...` variables are the two counters and the items in RocksDB; they survive a `Crash`
or `Shutdown`, everything else does not. `Record` and `PushExecutes` are the two halves of
`pushRequest`: what is written to the database and what is handed to the
QClient; `Acknowledged` is the callback with its `pop`, `WaitReturns` is
`waitForIndex`. `Restart`, then `Replay`, is the constructor, which hands over what
it finds recorded. The QClient appears as a queue of unanswered
commands of which the server executes a prefix, sent again after `FlusherReconnects`.

### BaseSubscriber, Subscriber, AttachableQueue

`Subscribe` ... `PUnsubscribe` change the client's sets and stage a command;
`LinkLost`, `LinkEstablished` and `Resubscribe` are the QClient underneath with
`notifyConnectionEstablished`. Messages arrive as replies of known arity and
kind; `Parse` is `MessageParser`. In Subscriber, users create, attach, detach, read and
destroy `Subscription` objects (records with an AttachableQueue) while the event loop
delivers a message to one object after another (`Receives`, `DeliversToNext`) holding the
subscriber's mutex.

### ReplyReader, Sds

ReplyReader: `Encode` produces the bytes of a reply (or a stream with a malformed part),
`Feed` hands over a chunk of any size, and `GetReply` runs the reader as far as it gets.
`Task` and `MoveToNextTask` are the stack of nested replies, with its limited depth; the
buffer is trimmed (`Discard`) as in the code, at a smaller threshold; `string2ll` parses numbers, with
`LLONG_MAX` small enough to reach the overflow checks.

Sds: a string is its bytes, its length and capacity and the type of its header
(`RequiredType`, with few bits per header so that strings grow through
all of them). Every public call that changes or converts a string is an operator;
`described` is what the comments above the functions say of the result, written over
sequences without header or capacity, and `StringAsDescribed` compares the two.

### Serialization

Integers as bytes of `ByteBits` bits (two's complement, wrapping), strings behind
their length, and the deserializer, which consumes from a position and refuses to go past the end.
The state is one message and its payload, damaged up to `MaxDamage` times (cut short, a byte
changed or appended).

### Structures, Scanners

Structures: each call of QHash and QSet stages one command with its callback or
future; `ServerAnswers` executes the oldest and answers it, or the client gives up with a
null reply; the `_result` operators are the `switch`es over reply types. AsyncHandler's
`Register`, `Wait` and `GetResponses` are part of the state. `AsIfDirect` compares with
the same calls executed at once.

Scanners: the server's elements have places in order, a cursor is a place; `Receive`,
`ReceiveNull`, `ReceiveMalformed` are the ways a request for the next batch ends, `Advance` is
`next()`, and `OthersChange` adds and removes elements at any moment. `kind` chooses
among QScanner and the iterators of QHash, QSet and QLocalityHash.

### Tls

`StreamSend` is the writer's `send()` into the stream, `FilterSend` what the filter does with it,
`Push` what goes on to the socket; `SSLRead` and `StreamRecv` are the other direction, with the loop
over what is pending (`FlushesPending`). `active` tells whether TLS is on; without it the stream
goes straight to the socket. What waits or travels is kept as its bytes in order: where one buffer of `pendingWrites` ends and
the next begins makes no difference, since `handleTraffic()` writes them one after the other
until none is left or OpenSSL refuses. `Sent` is what the server sends, with the bytes that end a record marked. OpenSSL is external: before its handshake is over
SSL_write fails, and SSL_read returns plain text of one whole record.

### Connecting

The decider (`nextMember`, redirection, resolved endpoints, `fullCircle`), the resolver
with the interceptors (`AddIntercept`, `ClearIntercepts` by other threads), the connector
(`Construct`, `KernelAnswers`, `AfterBlock`, `SocketReady`) and `connectTCP()` around them
(`GetNextEndpoint`, `Fetch`), while `Redirected` and `AskForShutdown` come at any moment. An
address is a pair of a member and a number. The loop of the decider is one step per member
(`TryMember`, `NoMemberResolves`).

### Handshakes

A handshake is a chain of links of the five kinds. `ProvideHandshake` and `ValidateResponse` are the
virtual functions, `Kept` and `Restarted` what `restart()` leaves of a link's state.
The server may answer anything, including a challenge of an earlier connection; a
signature is the string it signs, and random bytes are a number never drawn twice.

## 4. The runs

| run | question | what it shows |
|---|---|---|
| `core_calls` | are requests answered once, in order, to their owner, whatever the callers of the core do? | two threads stage callbacks, futures and MULTI blocks while replies, purges and rewinds come at any time: answers come in order (`AnsweredInOrder`) and reach their owner (`AnsweredToOwner`), nothing is lost (`NoCallLost`), no slot of the semaphore is lost (`SlotsNeverLost`); in exclusive publish/subscribe mode at most the last request the writer took is kept (`TrimmedInPubSub`) |
| `qclient` | do replies find their requests, are connections well-formed, is freed memory left alone, is nothing executed twice without retries? | `EachItsOwnReply`, `StreamInOrder` (whole requests, in order, after the handshake), `WriterItemInMemory`, `IteratorsInsideQueue` (the writer's iterator is never behind the event loop's), `NeverTwiceWithoutRetries`; every step of the composition is a step of the core's specification (`CoreUsedAsAllowed`) |
| `qclient_live` | is every request answered in the end, and does the destructor always return? | both, under the fairness stated below |
| `threads` | does every callback run, once and in order, also when the executor goes to sleep or is told to stop meanwhile? Is a request of a Communicator handled once and its future resolved with its own answer over a network that loses, delays and repeats messages? | `RunInOrder`, `CallbacksRun`, `ExecutorStops`; producers and executor respect the queue's contract (`QueueContract`, `IteratorsReadWhatWasPushed`), and the blocks implement the numbered queue (`ImplementsNumberedQueue`); `HandledOnce` up to the size of the listener's cache, `ResolvedProperly`, and under fairness `RequestsResolved` |
| `parts` | do the parts beside the core, and the data and subscriptions built on it, do what their descriptions say over lost connections, crashes and objects that come and go? | seventeen properties, see below |
| `core_surplus`, `core_limit`, `qclient_drain`, `shared_stale`, `tls_send`, `structures_null`, `connecting_circle` | the disagreements of section 6 | a counterexample each |

`core_calls` does not check that the iterators stay inside the queue, since they do not when the server
sends what nobody asked for: that is `core_surplus`. In `qclient` the server answers
only what it was sent, and they do.

In `parts`, shared data and subscriptions: the persistent hash shows one revision, the one it reports, and feeds
revisions in order (`ContentsMatchVersion`); at rest it has the newest one, unless
a late answer lowered it, which is `shared_stale`, or VHGETALL went ahead of SUBSCRIBE on this connection
(`UpToDateAtRest`, with the histories `regressed` and `aheadOfSubscribe`).
A valid cached size is the size when all announcements have arrived, but for an
invalidation during `size()` and listeners called in the wrong order, which the histories `overtaken`
and `unannounced` record (`CachedSizeFreshAtRest`). Updates are fed to subscriptions that exist
(`FedToLiveOnly`). The server meets the flusher's items in the order of recording, whatever
crashes (`FlushedInOrder`), and what `waitForIndex` confirmed never again (`NeverRepeatedOnceConfirmed`). The server's
subscriptions are the client's when all is quiet (`SubscribedAtRest`), messages reach objects that
exist (`DeliversToLiveOnly`), and none is skipped or repeated within a connection
(`NoMessageSkipped`).

The parts beside the core: replies come out as they were encoded, numbers are accepted exactly when they are
the decimal form of a `long long`, a malformed stream is given up for good, an array inside a push ends the process
by the assertion in `createArrayObject` (`ReadAsEncoded`); a string is what
the calls describe and fits its block (`StringAsDescribed`); a payload is parsed to the message it was made of, a request or
reply is accepted only if it is, byte for byte, what that message is serialized to, and part of a batch is never taken for a
batch (`ParsedAsSerialized`); calls that wait and
calls that leave the reply to an AsyncHandler agree with direct execution
(`AsIfDirect`, where the promise of the headers is `Meaning`; `Due` differs from it for `hset()` on a field that is
there, and null replies to `hexists()` and `hlen()` are left to `structures_null`); a walk that ends well has shown what was there all along, and no walk shows anything twice (`ScansEverything`); with and
without TLS no byte is lost or repeated, and as long as the connection lives none is left inside the filter (`TlsStreamIntact`); requests are
given up only when every member was asked for and every address that was looked up was tried or dropped by a redirection,
and streams are made of
connected sockets (`ConnectsInTurn`); a connection leaves the handshake only after every
link had its exchange on that connection, with fresh random bytes (`AdmittedOnlyAfterAll`).

### Bounds

| run | instance |
|---|---|
| `core_calls` | 2 threads (symmetric), 3 requests of any kind, MULTI of 2 commands, 2 handshake rounds, limit 2, 1 message; exclusive mode: 4 requests with a callback, 1 handshake round |
| `qclient`, InfiniteRetries | 1 thread, 2 requests, with a callback or a future, MULTI of 2, limit 1, 1 handshake round, 2 faults, a wire of 2 units |
| `qclient`, NoRetries | the same with callbacks only, 1 fault and 1 pushed message |
| `qclient_live` | 2 requests (no MULTI block: cutting one is in `qclient`), limit 1, 1 message the server sends on its own, 1 fault, a wire of 1 unit, RetryWithTimeout, the destructor at any time |
| `threads`, executor | 2 producers, blocks of 2, 5 callbacks |
| `threads`, communicator | 2 requests, retry after 1 tick, deadline 2 ticks, time up to 3, the last request issued by tick 1, a cache of 1 reply, 3 requests handed over |
| `parts`, persistent hash | 2 fields, 3 revisions, 2 connections, 5 resilverings |
| deque | at most 2 items, 3 operations, 2 connections |
| transient hash | 2 clients, a batch of up to 2 keys, 2 subscriptions |
| flusher | 3 items, 2 crashes or shutdowns, 2 reconnections |
| subscribers | 2 channels, 1 pattern, 2 Subscription objects, 2 messages, 2 connections, 2 calls |
| reader | 2 replies out of 8 (nested, empty, null) or a number of up to 3 characters, malformed tails, a stack of 3 levels, chunks of any size |
| strings | headers that count up to 1, 3, 7 and 31 (the widest is never full), preallocation limited to 4, strings up to length 5 |
| serialization | bytes of 2 bits, integers of 3 bytes, damage in 2 places |
| structures, scanners | 2 fields, 2 commands in flight; 3 places, pages of 2, 2 changes by others, 1 failed page |
| TLS | requests of 2, 1 and 3 bytes, records of 3, 1 and 4 (`MCSent`), buffers of 2 (plain) and 5 (cipher) |
| connecting, handshakes | 2 members, names with 0, 1 or 2 addresses, redirections to a member or elsewhere, 2 pairs to intercept; chains of up to 3 links, 3 connections |

The violations use the smallest instances that have them: `core_surplus` that of
`core_calls`, `core_limit` one thread and a limit of 1, `connecting_circle` 2 members without
interceptors, `structures_null` one call.

Why they are enough: the hazards of the client involve at most two requests (one whose
reply is misplaced, one it is given to) and one disconnection with its retry; three
requests let one be acknowledged, one written and one staged; a MULTI block of
size 2 has a first, a middle and a last reply; two faults let a retry fail
as well; a limit of 1 makes callers block; a wire of one or two units makes the
writer see partial writes and a full socket. `executions` stops counting at
two, which is all that "at most once" can tell apart. Five items in blocks of two
fill two blocks and reach a third, so that a block is dropped between two others.
A cache of one reply with two requests makes the listener forget; three ticks let a request be
retried, expire, and an answer come late. Three revisions and two connections make a gap, a
late answer and a resilvering overlap. Two crashes let the recovery crash as well. The small widths of strings,
integers and numbers make signs and overflow checks be reached, every header type that `RequiredType` distinguishes up to the 32 bit one (a string
that needs the 64 bit one is out of reach), and both sides of `SDS_MAX_PREALLOC`; a stack of
three makes the reader refuse a nesting that is too deep.

`CHECK_DEADLOCK FALSE` stands wherever the system may stop: with its bounds used up an idle
client, a sleeping executor or a quiet subscriber is a normal state. Deadlock is
checked in `core_calls`.

### Fairness

`ClientFairness` says that the client's own threads run when they can
(weak fairness of the executor, the writer, the event loop, the destructor, and
of a user's call once begun): they are OS threads, and every wait of theirs is a
`poll` or a condition variable whose condition is the guard of the action, or
which is checked again after at most a second. Nothing is assumed of new calls
by users. `DestructionCompletes` needs
no more: the destructor must return with a silent server, too. `EveryRequestAnswered`
has the premise `ServerFairness`, that the server answers a command it has
received while the connection lasts; without it no client could promise an
answer. In `threads` each thread has its own fairness, and only while it is the one that runs: in CallbackExecutor, `Fairness` asks the executor, the
destructor and a producer that holds the mutex to go on; a spurious wakeup is
possible but never promised. `CommunicatorFairness` lets time pass and the background thread
and the destructor run; nothing is asked of network, listener or handler, since
a future must become ready without them. `PersistentFairness` lets the server
execute, both threads of the client run, and the user call `get()` again and again,
which is the most the comment on eventual consistency could presuppose.

## 5. What is proved

TLAPS checks 41 theorems, for every value of the constants that the assumptions admit. The
assumptions on the constants are named and stand in the module that declares them.

The leaves are small enough that each of the modules is also proved, from
nothing, with `tlapm --stretch 0.2`, a fifth of the provers' usual time limits:
a step that needs more is split, or gets a lemma, rather than a longer limit.

### ConnectionCore_proofs

For any number of threads and requests, any limit, any number of handshake rounds and any
replies: `TypeCorrect`; `AnswersComeInOrder`, hence no callback or future
is answered twice; `AnswersReachOwner`, although the `FutureHandler`
knows only the order of its promises; and `IInvHolds`, which they rest on.

Besides types, the assumptions are `ExclusiveAssumption`, the documented
restriction that in exclusive publish/subscribe mode nobody issues requests and
waits for their replies: trimmed requests are never answered, so a promise
behind them would be paired with the wrong request.

None of these is inductive alone. `IInv` adds that identities grow
along *delivered*, then *pending callbacks*, then the *unacknowledged* part of the queue,
up to the last one staged (`DeliveredInv`, `PendingInv`, `QueueInv`), so that
acknowledging moves a request from the front of one segment to the end of the
previous one; and that the requests with a future among the last two segments
and the promises still open are in one-to-one correspondence, in order
(`FutureInv`), so that the head of the promises belongs to the first future
among the pending callbacks. `NextIInv` has one lemma per action. The two actions
that acknowledge many requests or one, `ClearAllPending` and `ConsumeReply`, share
`AnsweredStep`.

On top of `IInv`: `WrittenTrimmed`; `NothingIsLost`, outside exclusive publish/subscribe mode, where
trimming does drop requests; `SlotsAreNeverLost`, with callbacks and futures in any mix: what is free, what callers
hold and what unacknowledged requests took is never less than the limit. It may be more, as a request with a future
gives back a slot it never took (`core_limit`, section 6). `DiscardGivesBack` is what an
acknowledgement or a trimming does to the count; `CallersAssumption` says that threads are finitely many.

That the write iterator is never behind what was answered is no theorem of the core, and false of it (`core_surplus`):
it takes a server that answers only what it was sent, so it is proved of the client.

### QClient_proofs

The client with all its threads and a server, for any number of users, requests, handshake rounds,
faults and replies under way, MULTI blocks of any size and a socket of any capacity:

- `UsesCoreAsAllowed`: every step is one ConnectionCore allows or leaves it alone, so that the theorems
  above hold of the client;
- `WriterItemStaysInMemory`, `StreamStaysInOrder`;
- `IteratorsStayInside`: neither iterator leaves the queue, and the writer's is never behind the event loop's;
- `RepliesReachTheirRequests`, for a client that is not being destroyed (`~MayDestroy`). For one
  that is, the property is false (`qclient_drain`, section 6);
- `ExecutedOnceWithoutRetries`, with `NoRetries` and at least one handshake round. Without a
  handshake the property is false (section 7).

`ServerAssumption` says that what the server sends is among the replies the core is ready for.

The inductive invariant is `QInv`. A *place* in the stream of commands is the identity of a request and an
index in its MULTI block, compared by `NotAfter`; so no lengths have to be added up. `StreamTypes` and
`StreamOrder` say that on one connection the units `received` or on the `wire` are the
handshake's and then follow each other from place to place; `StreamEnd` that they end at the place
where the writer is (`WriteId`, `WriteIndex`), which differs from its variables
between a `send()` and the step that notes what was accepted, and that what is acknowledged is
never beyond it, hence `WriterState`: the request the writer has in hands is in memory.
`AnswerState` holds a witness for what the code knows nowhere: which unit each reply under way belongs to
(`Pairing`; pushes belong to none), and that the first of them is for the place at which
the core is, `ignoredResponses` included (`Level`). A reply that breaks the connection may leave the core
behind, but never ahead. `HandshakeState` says that one round is
staged at a time and requests wait for the last; `MultiState` that swallowed replies are those of the block at
the front; `FreshState` that before a connection nothing of an old one is left, which is what the join
of the writer in `cleanup()` is for. `QNextQInv` has a lemma per
action of users, executor, writer, server, event loop and destructor.

Three smaller invariants stand on it. `TakenInv`, for `IteratorsStayInside`: what the server may have seen was taken
by the writer. While the writer runs this follows from its place in the stream; after it has ended, replies are still fed
until `cleanup()` rewinds, and it is what was sent, not the writer, that limits them. `MatchInv`: what waits for the executor and what was delivered fits to its request,
null only where a purge may be. `ExecInv`: what was executed is behind the writer, no
longer on the wire, and has left the queue once there is no connection; for that, nothing is executed before the
client knows of a success, so that the next `cleanup()` purges.

### ThreadSafeQueue_proofs

For any block size of at least one and any number of iterators and items: `TypeCorrect`,
`IteratorsAreSafe`, `FrontIsSafe` (`front()` and `pop_front()` find the oldest object),
`PushesAreSafe` (objects are constructed in allocated memory that holds none), `QueueInvHolds`.
`QueueInv` says that the allocated blocks form one chain from
`root` to `lastBlock` without overlap (`Chain`); that both ends agree with the
sequence numbers, whatever step of a push or a pop is under way (`Ends`); what
the cells between them hold (`Cells`); and that an iterator's place is the one
its sequence number names (`IteratorInv`). The two steps that need thought are
`PopRemoveRootStep` and `IteratorNextStep`: the block that is dropped or left is
never the last one, because the block after a full one is allocated before the
item that filled it has its number.

`QueueRefines`: the list of blocks implements NumberedQueue. `SeenAsNumbered` shows that what the
refinement mapping looks up in the blocks is the sequence of pushed items between two numbers, for which
`QueueInv` needs `Covered` (no gap between the blocks) and `PushedItems`; `StepSeen` then maps each
step to a put, a drop, a reset or a stutter.

### CallbackExecutor_proofs

For any number of producers and callbacks: `UsesQueueAsAllowed`, every step of producers,
executor and destructor is a step that ThreadSafeQueue allows; with it `ExecutorReadsSafely` and
`ExecutorQueueRefines` follow from the theorems above; `CallbacksInOrder`. `ExecutorInv` adds to
`QueueInv` that the iterator is at the front, except while its item is being popped
(`IteratorAtFront`), that nobody takes an item for arrived that is not (`ArrivedAreThere`), that what was run
is what was pushed (`RunSoFar`), and that the destructor frees the queue after the executor has
gone (`Gone`).

### Parts_proofs

Five components that share no state with each other.

Connecting: `ConnectingInTurn`, for clusters of any size, names with any number of addresses, and redirections at
any moment. The members asked for are always those before the next one, or all
(`MembersInOrder`); whatever has addresses left, connects, or follows a redirection comes after a
first member (`CircleIsFull`); an address that waits is among those left to hand out, and none waits once the circle is full
(`WaitingAreLeft`); in turn k of the loop k members were asked for, and only the first turn
takes a redirection (`LoopCounts`); what the connector knows of its socket is
true (`ConnectorKnows`).

Scanners: `ScansShowEverything`, for any number of places, any COUNT (`ScannersAssumption`: at least one), any changes by
others and any failed requests. `ScanInv`: what was shown, then what is left of the batch, is in the order of the places, none
beyond those asked for (`ShownInOrder`), and whatever was there all along at a place asked for was shown or is in the
batch, unless a malformed reply left an error (`NoneMissing`). `BatchIs` says what a reply holds; `Ranks`, that
counting the elements of a set of numbers from the least numbers them without gap.

Handshakes: `AdmittedAfterAll`, for chains of any length, any answers and any number of connections. `HandshakesInv`:
while the handshake goes on there is a link `At` which it is, with the exchanges of the links before it complete, those behind it
as new after `restart()`, and its own state in step with what was asked and accepted (`Asking`). Where in the
connection a link's exchange stands is `RequestsBefore`: two requests for each link that signs, one for each other.

Tls: `TlsIntact`, for requests and records of any lengths, a handshake of any number of flights, buffers of any size
(`TlsAssumption`: at least one byte), and any part of what was sent arriving at once. `TlsInv`: what the server has and
what OpenSSL did not take are together what `send()` was given (`SendInOrder`); received, decrypted,
encrypted, on the socket and not yet arrived are, in this order, the pieces of what the server sends (`WireInOrder`); and a
`recv()` that gave nothing, on a connection that lives, left nothing it could give (`NothingLeft`). `SSLReadIs` says which pieces one
SSL_read() makes of its input.

Structures: `StructuresAsIfDirect`, for any fields and values (`StructuresAssumption`: positive numbers), any number of
calls in flight and a connection that may give up at any reply. `Served`, the lemma it rests on, goes through the calls one
by one: at any finite contents the command a call makes gives it, through the reply, the `switch` over its type and the
list of responses, what the call is due; the cardinalities before and after the command are where this is more than a
comparison of definitions (`SetMeans`, `HdelMeans`, `SaddMeans`, `SremMeans`). `NullServed`: all calls but `hexists()` and `hlen()` take a null reply for an error.
`StructuresInv` then only has to keep the order: the first k calls were served, each at the contents its result is due
at, and the commands of the others lead from what the server has to what it would have if they had taken effect at once (`Trail`).

### SharedData_proofs

Three components that share no state with each other.

PersistentSharedHash, for any contents and any number of changes, resilverings and reconnections:
`ContentsAlwaysMatchVersion` and `UpToDateWhenAtRest`. `PersistentInv` has two parts. `ContentsInv`: every
reply and publication on its way says what is true of the server's history (`Messages`), the copy
is what the server had at its version (`Copy`), and a revision is published once, after
the earlier ones (`InOrder`). `CurrentInv`: the last VHGETALL, or its reply, is somewhere
between the client and the future (`Whereabouts`), and after it come all publications
newer than what it says (`Coming`). The second part holds only as long as no late
reply has lowered the version and VHGETALL did not go ahead of SUBSCRIBE; these are the exceptions
`UpToDateAtRest` states, so the proof says there is no third.

SharedDeque, for any commands of this client and others: `CachedSizeFollows`. `DequeInv` says that a thread waits
for one reply, which is in the pipeline or on its way (`Waiting`); and that a size, cached or in a reply, is the deque's unless
something that invalidates it is still to come (`Known`), in the two cases the property leaves in (`Calm`).

BackgroundFlusher: `FlushesInOrder` and `ConfirmedIsFinal`, for any number of items, crashes, shutdowns and
reconnections. `NoGap` says that replies, then commands in flight, then those not handed over
yet have consecutive indices from `startIndex` on; `CounterFollows` that the batch in the database is
one ahead of the counter exactly while an item is being popped; `ExecutedPrefix` that the server
has executed everything below `Reached`, with `dbStart <= Reached <= dbEnd`;
`RepliesToExecuted` that a reply which is not null is about something executed, so that a pop never
drops what was not; `ConfirmedGone` that confirmed items are below `dbStart`.

### PubSub_proofs

The subscribers, for any finite sets of channels and patterns (`ChannelsAssumption`), any objects, messages and
reconnections.

- `SubscribedWhenAtRest` and, for the subclass, `SubscriberSubscribedAtRest`. `SubscribedInv` looks at
  what the staged commands will leave the server with (`Effective`: the last command staged on a name
  decides, and where there is none, what the server has): nothing but what is wanted and, when the connection is up, all of it (`Agrees`).
- `DeliveredToLiveOnly`: registered objects live, once each (`Registered`), and while the mutex is held the
  rest of the objects to be served are among them (`Delivery`).
- `MessagesInOrder`. `DeliveryInv` follows a message from the wire to an object: messages on
  the wire are numbers of this connection, in order and without gap up to the last one published (`WireHolds`,
  `WireOrdered`); what an object got is older than what is to come (`Older`); and what was published on
  this connection after something it got is still to come to it, or was got (`NoneLost`), which is
  what the property needs when the next message arrives (`Unskipped`).
- `UpdatesFedToLiveOnly`, for the subscriptions of a shared hash (`WatchersAssumption`: finitely many): as long as
  `mMutex` is held, those left to feed are registered, and a destructor must wait for it (`FeedInv`).

### Communicator_proofs

`RequestsHandledOnce`, for any size of the cache and whatever network and issuers do. `Window`: the
listener's set of requests seen is the most recent part of what it handed over, full if it has forgotten anything.

`RequestsResolvedProperly`, for any number of requests (`CommunicatorAssumption`), retries and expirations. `VaultInv`: a request whose future waits
is in the vault, once, and no other is (`Vault`); every reply on its way, and every reply a future holds, was
produced by the listener for that very request (`Answered`).

### What is only model-checked

- Liveness (`EveryRequestAnswered`, `DestructionCompletes`, `CallbacksRun`, `ExecutorStops`,
  `RequestsResolved`): TLAPS cannot prove properties under fairness.
- `ReadAsEncoded` and `StringAsDescribed`: ReplyReader and Sds have `RECURSIVE` operators, for which TLAPS has no SMT
  backend.
- `ParsedAsSerialized`: it compares the model with what a recursive definition computes over the whole input
  (the numbers of Serialization), which needs induction over data.
- What the seven violation runs refute is false, so there is nothing to prove.

## 6. Where code and documentation disagree

- **Replies behind a broken one** (`qclient_drain`, `src/QClient.cc:351`). When a reply breaks the
  connection without acknowledging anything ("unavailable", a redirection) and
  the object is being destroyed, the event loop calls `feed(NULL, 0)`, which goes on with the
  replies that were read behind it: each answers the request before its own.
- **Old contents stay** (`shared_stale`, `src/shared/PersistentSharedHash.cc:328`). The
  answer to VHGETALL is looked at when `get()` or the next publication comes. When
  publications newer than the answer have been applied by then, `resilver()` goes back to the answer's
  revision, and nothing brings the hash forward until another change or reconnection. The header
  promises that it will be consistent eventually.
- **Parts of requests sent twice over TLS** (`tls_send`, `src/TlsFilter.cc:190`). `send()` returns 1
  whatever it was given, which the writer takes for the number of bytes written.
- **Answers to what was never sent** (`core_surplus`, `src/ConnectionCore.cc:268`). A reply counts as one too many if
  nothing is *staged*, not if nothing is *written*, although the comment speaks of requests that were sent. A surplus
  reply answers the next staged request, which is popped while the writer's iterator is still on it or before it;
  after two of them the iterator is behind the hidden item that protects it.
- **Futures and the limit** (`core_limit`, `src/ConnectionCore.cc:159`). A request with a future takes no backpressure
  slot (`:131`) but gives one back, so that every answered future raises the limit documented in `Options.hh` by one, for the
  requests with callbacks that do wait for slots.
- **A null reply looked into** (`structures_null`, `src/structures/QHash.cc:125`, `:141`). `hexists` and `hlen` read the type of
  a reply before they know there is one, unlike all their siblings; the exception they would raise says "Unexpected/null reply".
- **A circle that misses an address** (`connecting_circle`, `src/EndpointDecider.cc:88`). A redirection drops the addresses not
  handed out yet, and the bound of the loop is evaluated again after the redirection was taken, so that one member less is
  tried: member 0's second address is dropped, the redirection's name and member 1's do not resolve, member 0 is not
  asked again, and the circle is called full.

## 7. Observations that are not runs

Seen in the code while modelling it. Those that end in undefined behaviour are kept out of the models' inputs or, as `hashCrashed`, end them; no run checks them
but where one is named.

Client proper:
- `clearAllPending` returns 0, as it takes the size after emptying the queue (`:117`).
- `NoRetries` sends again, without a handshake, until some reply has arrived or every endpoint was
  tried (`src/QClient.cc:242`). The default options include a ping as handshake, with which
  `NeverTwiceWithoutRetries` holds.
- If the name of the last member does not resolve but an earlier one does, `fullCircle` is never
  set (`src/EndpointDecider.cc:100`), so requests are never given up for that reason. A redirection to a name with one
  address, when the first member is next, sets `fullCircle` although an address of the last may be untried.
- `AsyncConnector.hh:60` documents an unlimited wait; the default is two seconds.
- The filter ignores how much the socket took (`pushCiphertext`), so a short write loses
  cipher text; `TlsStreamIntact` excludes it by `cutShort`. Records left inside OpenSSL are lost when the peer
  closes or SSL_read fails (`src/TlsFilter.cc:211`, `:238`): `StreamEnds` models it, and `TlsStreamIntact` asks for them only while the
  connection lives.
- `ActivatePushTypesHandshake` dereferences its reply without a null check.

Replies and strings: an array inside a push reply fails an assertion (`src/reader/reader.cc:711`), which the default
build keeps: the model's reader is then `"aborted"`; `sdstrim` strips NUL bytes, too, as `strchr` finds the terminator of its set;
`sdscatfmt` with a format ending in `%` reads past it; `sdsrange` with both ends before
the start keeps the first byte.

Structures: `hscan`, `sscan`
and `scan` take elements of an error reply; `hset` is documented as true if successful (`include/qclient/structures/QHash.hh:136`) but is false when it
overwrites, which is why `Due` is not `Meaning` there; `QLocalityHash`'s `next()` after a malformed partial triple erases past the end; a
`Register` by another thread between `Wait` and `GetResponses` clears the responses.

Publish/subscribe and shared data: `Subscriber::unsubscribe` never unsubscribes at the server, and a
second `Subscription` on a channel is never acknowledged; the subscriber's mutex is held while
`execute` may block; the push check of `MessageParser` can never fail; reconnection listeners are called
in the order of their addresses, so VHGETALL may be sent ahead of SUBSCRIBE and a
deque may be told of a connection before its subscriber; `TransientSharedHash` never overwrites a
key (`src/shared/TransientSharedHash.cc:70`); a `SharedHashSubscription` that is detached and then
destroyed dereferences a null pointer; PersistentSharedHash destroys `mHashSubscriber` before its
subscription; the deque's cached size can stay stale as described in section 4.

## 8. What is not modelled

- The folly variants (`follyStage`, `FollyFuture`), compiled only with that library; the command
  wrappers `exists()`, `del()`, `checkConnection()`, which are one command each.
- In QClient, reconnection listeners: they are modelled where the library registers them, in
  BaseSubscriber and PersistentSharedHash. Their order over several epochs, and a user's
  listener that executes with a full semaphore, are hazards without a property; so are the
  value `clearAllPending` returns, which is only logged, and how long
  `cleanup()` may wait for a peer that does not read.
- Socket options, binding to a host, certificates and the shutdown of a TLS connection;
  `getaddrinfo`, OpenSSL, the kernel and the server are external and modelled from how they are used.
- The cache of fake DNS answers, fake messages and simulated responses, which only tests fill;
  fault injection, which is not connected to the client; the in-memory stub of the flusher.
- `RingBuffer` alone (its use in LastNSet and LastNMap is part of Communicator); `QDeque`
  (SharedDeque executes its own commands) and
  the setters of `QLocalityHash`, which translate one call to one command.
- The readable formatting of replies and the views of `ResponseParsing`; in sds, formatting
  through the C library and comparison; versions and UUIDs, which are values.
- The semaphore is a counter: its waiters look again every second, so a lost wakeup cannot be
  told from a slow one. Memory allocation and thread creation do not fail.
