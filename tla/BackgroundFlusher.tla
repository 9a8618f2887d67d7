--------------------------- MODULE BackgroundFlusher ---------------------------
(***************************************************************************)
(* A queue of commands that survives the process (src/src/BackgroundFlusher.cc, *)
(* src/include/qclient/RocksDBPersistency.hh): a command is recorded, then    *)
(* handed to a QClient with infinite retries, and removed when its reply      *)
(* comes.  A new process hands over everything it finds recorded.  The        *)
(* QClient appears as what QClient.tla shows of it: commands are executed in  *)
(* order, again from the first unanswered one after a reconnection, and are   *)
(* answered in order, with null only at its destruction.  A command is known  *)
(* by its index.                                                              *)
(***************************************************************************)
EXTENDS Integers, Sequences, FiniteSets

CONSTANTS
  MaxItems,        \* bound: commands pushed
  MaxCrashes,      \* bound: ends of the process, in whatever way
  MaxReconnects    \* bound: reconnections of the QClient

VARIABLES
  dbStart, dbEnd,         \* RocksDB: START-INDEX, END-INDEX; items between them
  startIndex, endIndex,   \* the process's copies
  pushing,                \* pushRequest() has recorded and not executed yet
  popping,                \* itemWasAcknowledged() has committed pop()'s batch
  replayed,               \* the constructor's loop index
  process,                \* "up", "shutdown", "down"
  inFlight,               \* QClient: unanswered commands, oldest first
  sent,                   \* how many of them this connection has executed
  replies,                \* in the callback executor
  executed,               \* history: the server's executions
  confirmed,              \* history: indices a waitForIndex() was told are done
  crashes, reconnects

dbVars == <<dbStart, dbEnd>>
memoryVars == <<startIndex, endIndex, pushing, popping, replayed>>
clientVars == <<inFlight, sent, replies>>
flusherBounds == <<crashes, reconnects>>
flusherVars == <<dbVars, memoryVars, process, clientVars, executed, confirmed,
                 flusherBounds>>

FlusherInit ==
  /\ dbStart = 0 /\ dbEnd = 0 /\ startIndex = 0 /\ endIndex = 0
  /\ pushing = FALSE /\ popping = FALSE /\ replayed = 0
  /\ process = "up"
  /\ inFlight = <<>> /\ sent = 0 /\ replies = <<>>
  /\ executed = <<>> /\ confirmed = {}
  /\ crashes = 0 /\ reconnects = 0

Running == process = "up"
Recovered == Running /\ replayed = dbEnd

-----------------------------------------------------------------------------
(* pushRequest(), under newEntriesMtx *)

\* record(): item and END-INDEX in one batch.
Record ==
  /\ Running /\ replayed >= endIndex /\ ~pushing /\ dbEnd < MaxItems
  /\ dbEnd' = dbEnd + 1 /\ endIndex' = dbEnd'
  /\ replayed' = dbEnd'
  /\ pushing' = TRUE
  /\ UNCHANGED <<dbStart, startIndex, popping, process, clientVars, executed,
                 confirmed, flusherBounds>>

PushExecutes ==
  /\ Running /\ pushing
  /\ pushing' = FALSE
  /\ inFlight' = Append(inFlight, endIndex - 1)
  /\ UNCHANGED <<dbVars, startIndex, endIndex, popping, replayed, process, sent,
                 replies, executed, confirmed, flusherBounds>>

-----------------------------------------------------------------------------
(* The QClient and the server *)

ServerExecutes ==
  /\ sent < Len(inFlight)
  /\ sent' = sent + 1
  /\ executed' = Append(executed, inFlight[sent + 1])
  /\ UNCHANGED <<dbVars, memoryVars, process, inFlight, replies, confirmed,
                 flusherBounds>>

ReplyArrives ==
  /\ sent > 0
  /\ \E reply \in {"ok", "error"} : replies' = Append(replies, reply)
  /\ inFlight' = Tail(inFlight) /\ sent' = sent - 1
  /\ UNCHANGED <<dbVars, memoryVars, process, executed, confirmed, flusherBounds>>

FlusherReconnects ==
  /\ reconnects < MaxReconnects
  /\ reconnects' = reconnects + 1
  /\ sent' = 0
  /\ UNCHANGED <<dbVars, memoryVars, process, inFlight, replies, executed,
                 confirmed, crashes>>

-----------------------------------------------------------------------------
(* handleResponse(), in the callback executor *)

\* Mutant: the counter is advanced before the batch is committed.
PopCounterFirst ==
  \/ /\ ~popping /\ popping' = TRUE
     /\ startIndex' = startIndex + 1 /\ UNCHANGED <<dbStart, replies>>
  \/ /\ popping /\ popping' = FALSE
     /\ dbStart' = dbStart + 1 /\ replies' = Tail(replies)
     /\ UNCHANGED startIndex

\* itemWasAcknowledged(), pop(): the batch, then the counter.
Pop ==
  \/ /\ ~popping /\ popping' = TRUE
     /\ dbStart' = dbStart + 1 /\ UNCHANGED <<startIndex, replies>>
  \/ /\ popping /\ popping' = FALSE
     /\ startIndex' = startIndex + 1 /\ replies' = Tail(replies)
     /\ UNCHANGED dbStart

Acknowledged ==
  /\ process # "down" /\ replies # <<>> /\ Head(replies) = "ok"
  /\ Pop
  /\ UNCHANGED <<dbEnd, endIndex, pushing, replayed, process, inFlight, sent,
                 executed, confirmed, flusherBounds>>

\* Mutant: a null reply counts as an acknowledgement.
NullReplyPops ==
  /\ process = "shutdown" /\ replies # <<>> /\ Head(replies) = "null"
  /\ replies' = Tail(replies)
  /\ dbStart' = dbStart + 1 /\ startIndex' = startIndex + 1
  /\ UNCHANGED <<dbEnd, endIndex, pushing, popping, replayed, process, inFlight,
                 sent, executed, confirmed, flusherBounds>>

\* A null reply, during the shutdown.
NullReply ==
  /\ process = "shutdown" /\ replies # <<>> /\ Head(replies) = "null"
  /\ replies' = Tail(replies)
  /\ UNCHANGED <<dbVars, memoryVars, process, inFlight, sent, executed,
                 confirmed, flusherBounds>>

\* waitForIndex() returns true.
WaitReturns(index) ==
  /\ process # "down" /\ index < startIndex
  /\ confirmed' = confirmed \cup {index}
  /\ UNCHANGED <<dbVars, memoryVars, process, clientVars, executed, flusherBounds>>

-----------------------------------------------------------------------------
(* The end of the process and a new one *)

Gone ==
  /\ process' = "down"
  /\ inFlight' = <<>> /\ sent' = 0 /\ replies' = <<>>
  /\ pushing' = FALSE /\ popping' = FALSE
  /\ UNCHANGED <<startIndex, endIndex, replayed>>

Crash ==
  /\ process # "down" /\ crashes < MaxCrashes
  /\ Gone
  /\ crashes' = crashes + 1
  /\ UNCHANGED <<dbVars, executed, confirmed, reconnects>>

\* handleResponse() terminates.
ErrorReply ==
  /\ replies # <<>> /\ Head(replies) = "error"
  /\ Crash

\* ~BackgroundFlusher(): inShutdown, then the QClient answers all with null.
Shutdown ==
  /\ Recovered /\ ~pushing /\ crashes < MaxCrashes
  /\ process' = "shutdown" /\ crashes' = crashes + 1
  /\ replies' = replies \o [i \in DOMAIN inFlight |-> "null"]
  /\ inFlight' = <<>> /\ sent' = 0
  /\ UNCHANGED <<dbVars, memoryVars, executed, confirmed, reconnects>>

ShutdownDone ==
  /\ process = "shutdown" /\ replies = <<>>
  /\ Gone
  /\ UNCHANGED <<dbVars, executed, confirmed, flusherBounds>>

\* The constructor, until its loop.
Restart ==
  /\ process = "down"
  /\ process' = "up"
  /\ startIndex' = dbStart /\ endIndex' = dbEnd /\ replayed' = dbStart
  /\ UNCHANGED <<dbVars, pushing, popping, clientVars, executed, confirmed,
                 flusherBounds>>

\* retrieve() and execute() of one item, while earlier ones may be popped.
Replay ==
  /\ Running /\ replayed < endIndex
  /\ inFlight' = Append(inFlight, replayed)
  /\ replayed' = replayed + 1
  /\ UNCHANGED <<dbVars, startIndex, endIndex, pushing, popping, process, sent,
                 replies, executed, confirmed, flusherBounds>>

FlusherNext ==
  \/ Record \/ PushExecutes
  \/ ServerExecutes \/ ReplyArrives \/ FlusherReconnects
  \/ Acknowledged \/ NullReply \/ ErrorReply
  \/ \E index \in 0 .. MaxItems - 1 : WaitReturns(index)
  \/ Crash \/ Shutdown \/ ShutdownDone \/ Restart \/ Replay

FlusherSpec == FlusherInit /\ [][FlusherNext]_flusherVars

-----------------------------------------------------------------------------
(* Properties *)

\* The server meets every command first in the order of recording, whatever
\* crashes; what is gone from the queue has been executed; the constructor finds
\* every item it looks for; and at rest the queue is empty.
AtFlusherRest == Recovered /\ ~pushing /\ ~popping /\ inFlight = <<>> /\ replies = <<>>

FlushedInOrder ==
  /\ \A k \in DOMAIN executed :
       executed[k] <= (IF k = 1 THEN 0 ELSE executed[k - 1] + 1)
  /\ Running /\ replayed < endIndex => replayed >= dbStart
  /\ \A index \in 0 .. dbStart - 1 : \E k \in DOMAIN executed : executed[k] = index
  /\ AtFlusherRest => startIndex = endIndex

\* What waitForIndex() reported as done is never executed again, also not by
\* a later process.
NeverRepeatedOnceConfirmed ==
  [][\A index \in confirmed :
       Len(executed') > Len(executed) => executed'[Len(executed')] # index]_flusherVars
=============================================================================
