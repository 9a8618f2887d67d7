--------------------------- MODULE CallbackExecutor ---------------------------
(***************************************************************************)
(* The thread that runs callbacks (src/src/CallbackExecutorThread.cc), the  *)
(* WaitableQueue it takes them from and the destructor that stops it.  The   *)
(* event loop, and whoever else stages callbacks, are the producers.         *)
(*                                                                           *)
(* The executor looks for a callback without a lock, then goes to sleep on a *)
(* condition variable; emplace_back() and setBlockingMode() wake it up.      *)
(***************************************************************************)
EXTENDS ThreadSafeQueue, Sequences

CONSTANTS
  Producers,  \* threads that stage callbacks
  Executor    \* the one reader

ASSUME ReadersAssumption == Readers = {Executor}
ASSUME ProducersAssumption == Executor \notin Producers

VARIABLES
  mtx,              \* who holds WaitableQueue::mtx, or "free"
  highestSequence,
  blockingMode,
  stopFlag,         \* assistant.terminationRequested()
  executor,         \* where the executor is in main()
  destructor,       \* where ~CallbackExecutorThread() is
  executed          \* history: the callbacks run, by sequence number

waitVars == <<mtx, highestSequence, blockingMode>>
vars == <<queueVars, waitVars, stopFlag, executor, destructor, executed>>

\* Mutant: one item too far.
ItemHasArrivedEarly == highestSequence + 1 >= iterator[Executor].seq

ItemHasArrived == highestSequence >= iterator[Executor].seq

ExecutorInit ==
  /\ Init
  /\ mtx = "free"
  /\ highestSequence = -1
  /\ blockingMode = TRUE
  /\ stopFlag = FALSE
  /\ executor = "begin"
  /\ destructor = "alive"
  /\ executed = <<>>

-----------------------------------------------------------------------------
(* Producers: WaitableQueue::emplace_back(), all of it under mtx             *)

\* cv.notify_one(): the only thread that may be waiting has to take mtx again.
Notify == executor' = IF executor = "asleep" THEN "lock" ELSE executor

StageLock(p) ==
  /\ destructor = "alive"
  /\ mtx = "free"
  /\ mtx' = p
  /\ MayPush
  /\ \E item \in Items : PushConstruct(item)
  /\ UNCHANGED <<highestSequence, blockingMode, stopFlag, executor, destructor,
                 executed>>

StageInside(p) ==
  /\ mtx = p
  /\ PushAllocate \/ PushNumber
  /\ UNCHANGED <<waitVars, stopFlag, executor, destructor, executed>>

\* Mutant: nobody is told.
StagePublishSilently(p) ==
  /\ mtx = p
  /\ pushing = "no"
  /\ highestSequence' = nextSequenceNumber - 1
  /\ mtx' = "free"
  /\ UNCHANGED <<queueVars, blockingMode, stopFlag, executor, destructor,
                 executed>>

StagePublish(p) ==
  /\ mtx = p
  /\ pushing = "no"
  /\ highestSequence' = nextSequenceNumber - 1
  /\ mtx' = "free"
  /\ Notify
  /\ UNCHANGED <<queueVars, blockingMode, stopFlag, destructor, executed>>

Producer(p) ==
  \/ StageLock(p)
  \/ StageInside(p)
  \/ StagePublish(p)

-----------------------------------------------------------------------------
(* The executor *)

Goto(from, to) ==
  /\ executor = from
  /\ executor' = to
  /\ UNCHANGED <<waitVars, stopFlag, destructor>>

ExecutorBegin ==
  /\ Goto("begin", "top")
  /\ Begin(Executor)
  /\ UNCHANGED executed

\* Termination is for when everything staged has run.
ExecutorTop ==
  /\ Goto("top", IF stopFlag /\ ~ItemHasArrived THEN "exited" ELSE "get")
  /\ UNCHANGED <<queueVars, executed>>

\* getItemBlockOrNull(): a first look without the lock ...
ExecutorGet ==
  /\ Goto("get", IF ItemHasArrived THEN "run" ELSE "lock")
  /\ UNCHANGED <<queueVars, executed>>

\* ... then, in blockUntilItemHasArrived(), one with it, falling asleep unless
\* there is an item or blocking mode is off ...
ExecutorLock ==
  /\ mtx = "free"
  /\ Goto("lock", IF blockingMode /\ ~ItemHasArrived THEN "asleep" ELSE "recheck")
  /\ UNCHANGED <<queueVars, executed>>

\* ... and perhaps waking up for no reason ...
ExecutorWakesSpuriously ==
  /\ Goto("asleep", "lock")
  /\ UNCHANGED <<queueVars, executed>>

\* ... and a last one, null standing for "there is none".
ExecutorRecheck ==
  /\ Goto("recheck", IF ItemHasArrived THEN "run" ELSE "top")
  /\ UNCHANGED <<queueVars, executed>>

\* The callback is run, read through the iterator.
ExecutorRun ==
  /\ Goto("run", "advance")
  /\ LET i == iterator[Executor] IN
     executed' = Append(executed, Object(i.block, i.pos))
  /\ UNCHANGED queueVars

\* Mutant: pop_front() before next(), when both refer to the same item.
ExecutorAdvanceLast ==
  /\ executor = "advance"
  /\ \/ popping = "no" /\ frontSequenceNumber = iterator[Executor].seq
        /\ PopDestroy /\ UNCHANGED executor
     \/ PopRemoveRoot /\ UNCHANGED executor
     \/ PopCount /\ UNCHANGED executor
     \/ /\ popping = "no" /\ frontSequenceNumber > iterator[Executor].seq
        /\ IteratorNext(Executor)
        /\ executor' = "top"
  /\ UNCHANGED <<waitVars, stopFlag, destructor, executed>>

\* frontier.next() ...
ExecutorAdvance ==
  /\ Goto("advance", "pop")
  /\ IteratorNext(Executor)
  /\ UNCHANGED executed

\* ... pop_front()
ExecutorPop ==
  /\ executor = "pop"
  /\ \/ PopDestroy /\ UNCHANGED executor
     \/ PopRemoveRoot /\ UNCHANGED executor
     \/ PopCount /\ executor' = "top"
  /\ UNCHANGED <<waitVars, stopFlag, destructor, executed>>

ExecutorThread ==
  \/ ExecutorBegin
  \/ ExecutorTop
  \/ ExecutorGet
  \/ ExecutorLock
  \/ ExecutorRecheck
  \/ ExecutorRun
  \/ ExecutorAdvance
  \/ ExecutorPop

-----------------------------------------------------------------------------
(* ~CallbackExecutorThread(): nobody stages any more.                        *)

DestructorStops ==
  /\ destructor = "alive"
  /\ mtx = "free"
  /\ destructor' = "stopped"
  /\ stopFlag' = TRUE
  /\ UNCHANGED <<queueVars, waitVars, executor, executed>>

\* Mutant: a sleeping executor is not told that blocking mode is off.
DestructorUnblocksSilently ==
  /\ destructor = "stopped"
  /\ mtx = "free"
  /\ blockingMode' = FALSE
  /\ destructor' = "join"
  /\ UNCHANGED <<queueVars, mtx, highestSequence, stopFlag, executor, executed>>

\* setBlockingMode(false)
DestructorUnblocks ==
  /\ destructor = "stopped"
  /\ mtx = "free"
  /\ blockingMode' = FALSE
  /\ Notify
  /\ destructor' = "join"
  /\ UNCHANGED <<queueVars, mtx, highestSequence, stopFlag, executed>>

DestructorJoins ==
  /\ destructor = "join"
  /\ executor = "exited"
  /\ destructor' = "returned"
  /\ UNCHANGED <<queueVars, waitVars, stopFlag, executor, executed>>

\* The members go: the queue resets itself once more.
DestructorFrees ==
  /\ destructor = "returned"
  /\ destructor' = "freed"
  /\ Reset
  /\ UNCHANGED <<waitVars, stopFlag, executor, executed>>

DestructorThread == DestructorUnblocks \/ DestructorJoins \/ DestructorFrees

ExecutorNext ==
  \/ \E p \in Producers : Producer(p)
  \/ ExecutorThread
  \/ ExecutorWakesSpuriously
  \/ DestructorStops
  \/ DestructorThread

\* Threads run when they can; spurious wakeups cannot be relied upon, and
\* nobody has to stage a callback or destroy the object.
Fairness ==
  /\ WF_vars(ExecutorThread)
  /\ WF_vars(DestructorThread)
  /\ \A p \in Producers : WF_vars(StageInside(p) \/ StagePublish(p))

ExecutorSpec == ExecutorInit /\ [][ExecutorNext]_vars /\ Fairness

-----------------------------------------------------------------------------
(* Properties *)

\* The executor and its producers use the queue as its class comment asks for:
\* whatever is proved of ThreadSafeQueue holds here.
QueueContract == Spec

\* Callbacks run in the order they were staged, each once, and the one about to
\* run is not memory that was never written or has been destroyed.
RunInOrder ==
  /\ destructor # "freed" =>
       \A i \in 1 .. Len(executed) :
         i - 1 \in DOMAIN pushed /\ executed[i] = pushed[i - 1]
  /\ executor = "run" => Len(executed) = iterator[Executor].seq

\* Every callback that was staged runs, though nobody stages another one: the
\* executor catches up, as MaxItems bounds what is staged.
EveryCallbackRuns == []<>(Len(executed) >= nextSequenceNumber)

\* The destructor returns, wherever the executor was when it was called.
DestructorReturns == destructor = "stopped" ~> destructor = "returned"
=============================================================================
