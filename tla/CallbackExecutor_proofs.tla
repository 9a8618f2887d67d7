----------------------- MODULE CallbackExecutor_proofs -----------------------
(***************************************************************************)
(* The callback executor uses its queue the way ThreadSafeQueue asks for, so  *)
(* what is proved there holds of it, and it runs callbacks in the order they  *)
(* were staged: for any number of producers, callbacks and any block size.    *)
(***************************************************************************)
EXTENDS CallbackExecutor, ThreadSafeQueue_proofs

-----------------------------------------------------------------------------
(* The inductive invariant                                                   *)

Seq1 == iterator[Executor].seq

ExecutorPlaces == {"begin", "top", "get", "lock", "asleep", "recheck", "run",
                   "advance", "pop", "exited"}

\* The queue is reset, and nothing else touches it, after the executor has gone.
Gone == destructor \in {"returned", "freed"} => executor = "exited"

\* The iterator is at the front but while its item is being popped.
IteratorAtFront ==
  executor # "begin" =>
    /\ iterator[Executor] # Unused
    /\ executor = "pop" => Seq1 = frontSequenceNumber + 1
    /\ executor # "pop" => Seq1 = frontSequenceNumber

\* Nobody believes an item has arrived that has not.
ArrivedAreThere ==
  /\ highestSequence \in Int /\ highestSequence < nextSequenceNumber
  /\ executor \in {"run", "advance"} => Seq1 < nextSequenceNumber
  /\ executor = "pop" => frontSequenceNumber < nextSequenceNumber

\* What has been run is what was put in, up to the front.
RunSoFar ==
  /\ executed \in Seq(Items \cup {Raw})
  /\ executor \in {"advance", "pop"} => Len(executed) = frontSequenceNumber + 1
  /\ executor \notin {"advance", "pop"} => Len(executed) = frontSequenceNumber
  /\ Len(executed) <= nextSequenceNumber
  /\ \A i \in 1 .. Len(executed) : executed[i] = pushed[i - 1]

ExecutorInv ==
  /\ QueueInv
  /\ executor \in ExecutorPlaces
  /\ Gone
  /\ destructor # "freed" =>
       /\ popping # "no" => executor = "pop"
       /\ IteratorAtFront
       /\ ArrivedAreThere
       /\ RunSoFar

-----------------------------------------------------------------------------
LEMMA InitExecutorInv == ExecutorInit => ExecutorInv
<1> SUFFICES ASSUME ExecutorInit PROVE ExecutorInv
  OBVIOUS
<1>1. Init /\ QueueInv
  BY InitQueueInv DEF ExecutorInit
<1>2. executed = <<>> /\ Len(executed) = 0 /\ executed \in Seq(Items \cup {Raw})
  BY DEF ExecutorInit
<1> QED BY <1>1, <1>2
        DEF ExecutorInit, Init, ExecutorInv, ExecutorPlaces, Gone, IteratorAtFront,
            ArrivedAreThere, RunSoFar

\* Types of what the steps count with.
LEMMA ExecutorTypes ==
  ASSUME QueueInv
  PROVE  /\ nextSequenceNumber \in Nat /\ frontSequenceNumber \in Nat
         /\ iterator \in [Readers -> [block : Int, pos : Nat, seq : Nat]]
         /\ Executor \in Readers /\ Readers = {Executor}
         /\ Seq1 \in Nat /\ root \in Nat
BY ReadersAssumption DEF QueueInv, TypeOK, Seq1

\* A step of the executor or of a producer is one the queue allows.
LEMMA StepIsQueueStep ==
  ASSUME ExecutorInv, [ExecutorNext]_vars
  PROVE  [Next]_queueVars
<1>1. CASE UNCHANGED vars
  BY <1>1 DEF vars
<1>2. ASSUME NEW p \in Producers, Producer(p) PROVE [Next]_queueVars
  BY <1>2 DEF Producer, StageLock, StageInside, StagePublish, Next, Push
<1>3. CASE ExecutorThread \/ ExecutorWakesSpuriously
  <2>1. Executor \in Readers
    BY ReadersAssumption
  <2>2. CASE ExecutorBegin
    BY <2>1, <2>2 DEF ExecutorBegin, Next, Read
  <2>3. CASE ExecutorAdvance
    BY <2>1, <2>3 DEF ExecutorAdvance, Next, Read
  <2>4. CASE ExecutorTop \/ ExecutorGet \/ ExecutorLock \/ ExecutorRecheck
             \/ ExecutorRun \/ ExecutorWakesSpuriously
    BY <2>4 DEF ExecutorTop, ExecutorGet, ExecutorLock, ExecutorRecheck, ExecutorRun,
                ExecutorWakesSpuriously
  <2>5. CASE ExecutorPop
    <3>1. executor = "pop" /\ destructor # "freed"
      BY <2>5 DEF ExecutorPop, ExecutorInv, Gone
    <3>2. MayPop
      BY <3>1, ExecutorTypes
      DEF MayPop, ExecutorInv, IteratorAtFront, ArrivedAreThere, Seq1
    <3> QED BY <2>5, <3>2 DEF ExecutorPop, Next, Pop
  <2> QED BY <1>3, <2>2, <2>3, <2>4, <2>5 DEF ExecutorThread
<1>4. CASE DestructorStops \/ DestructorThread
  BY <1>4 DEF DestructorStops, DestructorThread, DestructorUnblocks, DestructorJoins,
              DestructorFrees, Next
<1> QED BY <1>1, <1>2, <1>3, <1>4 DEF ExecutorNext

\* Putting in another callback disturbs nothing that was run.
LEMMA ProducerKeeps ==
  ASSUME ExecutorInv, QueueInv', NEW p \in Producers, Producer(p)
  PROVE  ExecutorInv'
<1>1. /\ UNCHANGED <<executed, destructor, iterator, frontSequenceNumber, popping>>
      /\ executor' = executor \/ (executor = "asleep" /\ executor' = "lock")
      /\ nextSequenceNumber' \in {nextSequenceNumber, nextSequenceNumber + 1}
      /\ highestSequence' \in {highestSequence, nextSequenceNumber' - 1}
  <2>1. CASE StageLock(p)
    BY <2>1, Zenon DEF StageLock, PushConstruct, popVars
  <2>2. CASE StageInside(p)
    BY <2>2 DEF StageInside, PushAllocate, PushNumber, popVars, waitVars
  <2>3. CASE StagePublish(p)
    BY <2>3 DEF StagePublish, Notify, queueVars, pushVars, popVars
  <2> QED BY <2>1, <2>2, <2>3 DEF Producer
<1>2. /\ nextSequenceNumber \in Nat /\ frontSequenceNumber \in Nat /\ Seq1 \in Nat
      /\ nextSequenceNumber' \in Nat /\ nextSequenceNumber <= nextSequenceNumber'
      /\ Seq1' = Seq1
  BY <1>1, ExecutorTypes DEF ExecutorInv, Seq1
<1>3. executor' \in ExecutorPlaces /\ Gone'
  BY <1>1 DEF ExecutorInv, Gone, ExecutorPlaces
<1>4. ASSUME destructor # "freed"
      PROVE  /\ popping' # "no" => executor' = "pop"
             /\ IteratorAtFront' /\ ArrivedAreThere'
  <2>1. highestSequence' \in Int /\ highestSequence' < nextSequenceNumber'
    BY <1>1, <1>2, <1>4 DEF ExecutorInv, ArrivedAreThere
  <2> QED BY <1>1, <1>2, <1>4, <2>1 DEF ExecutorInv, IteratorAtFront, ArrivedAreThere
<1>5. ASSUME destructor # "freed" PROVE RunSoFar'
  <2>1. /\ executed \in Seq(Items \cup {Raw}) /\ Len(executed) \in Nat
        /\ Len(executed) <= nextSequenceNumber
        /\ \A i \in 1 .. Len(executed) : executed[i] = pushed[i - 1]
    BY <1>5 DEF ExecutorInv, RunSoFar
  <2>2. ASSUME NEW i \in 1 .. Len(executed) PROVE pushed'[i - 1] = pushed[i - 1]
    <3>1. i - 1 \in Nat /\ i - 1 # nextSequenceNumber /\ i - 1 < nextSequenceNumber
      BY <1>2, <2>1
    <3>2. i - 1 \in DOMAIN pushed
      BY <1>2, <3>1 DEF ExecutorInv, QueueInv, Ends, FirstRaw
    <3>3. CASE UNCHANGED pushed
      BY <3>3
    <3>4. CASE \E item \in Items :
                 pushed' = [s \in DOMAIN pushed \cup {nextSequenceNumber} |->
                              IF s = nextSequenceNumber THEN item ELSE pushed[s]]
      BY <3>1, <3>2, <3>4
    <3> QED BY <3>3, <3>4
            DEF Producer, StageLock, StageInside, StagePublish, PushConstruct,
                PushAllocate, PushNumber, queueVars, pushVars
  <2>3. Len(executed) <= nextSequenceNumber'
    BY <1>2, <2>1
  <2> QED BY <1>1, <1>5, <2>1, <2>2, <2>3 DEF ExecutorInv, RunSoFar
<1> QED BY <1>1, <1>3, <1>4, <1>5 DEF ExecutorInv

\* The executor looks, sleeps, wakes up, and leaves.
LEMMA LookingKeeps ==
  ASSUME ExecutorInv, ExecutorTop \/ ExecutorGet \/ ExecutorLock \/ ExecutorRecheck
                      \/ ExecutorWakesSpuriously
  PROVE  ExecutorInv'
<1>1. /\ UNCHANGED <<queueVars, waitVars, stopFlag, destructor, executed>>
      /\ executor \in {"top", "get", "lock", "recheck", "asleep"}
      /\ executor' \in {"top", "get", "lock", "recheck", "asleep", "run", "exited"}
      /\ executor' = "run" => ItemHasArrived
  BY DEF ExecutorTop, ExecutorGet, ExecutorLock, ExecutorRecheck,
         ExecutorWakesSpuriously, Goto
<1>2. QueueInv' /\ Seq1' = Seq1
  <2>1. [Next]_queueVars
    BY <1>1
  <2> QED BY <1>1, <2>1, NextQueueInv DEF ExecutorInv, queueVars, Seq1
<1>3. executor' \in ExecutorPlaces /\ Gone'
  BY <1>1 DEF ExecutorInv, ExecutorPlaces, Gone
<1>4. ASSUME destructor # "freed"
      PROVE  /\ popping' # "no" => executor' = "pop"
             /\ IteratorAtFront' /\ ArrivedAreThere' /\ RunSoFar'
  <2>1. /\ popping = "no" /\ IteratorAtFront /\ ArrivedAreThere /\ RunSoFar
    BY <1>1, <1>4 DEF ExecutorInv
  <2>2. executor' = "run" => Seq1 < nextSequenceNumber
    BY <1>1, <2>1, ExecutorTypes DEF ExecutorInv, ItemHasArrived, ArrivedAreThere, Seq1
  <2>3. /\ UNCHANGED <<iterator, frontSequenceNumber, nextSequenceNumber, pushed, popping,
                       executed, highestSequence>>
    BY <1>1 DEF queueVars, pushVars, popVars, waitVars
  <2>4. executor \notin {"begin", "pop", "run", "advance"}
        /\ executor' \notin {"begin", "pop", "advance"}
    BY <1>1
  <2>5. IteratorAtFront' /\ ArrivedAreThere'
    BY <1>2, <2>1, <2>2, <2>3, <2>4 DEF IteratorAtFront, ArrivedAreThere
  <2>6. RunSoFar'
    BY <2>1, <2>3, <2>4 DEF RunSoFar
  <2> QED BY <2>1, <2>3, <2>5, <2>6
<1> QED BY <1>1, <1>2, <1>3, <1>4 DEF ExecutorInv

-----------------------------------------------------------------------------
(* The executor runs, advances and pops                                      *)

\* The callback read through the iterator is the one put in under its number.
LEMMA RunKeeps == ASSUME ExecutorInv, ExecutorRun, QueueInv' PROVE ExecutorInv'
<1>1. /\ executor = "run" /\ executor' = "advance"
      /\ UNCHANGED <<queueVars, waitVars, stopFlag, destructor>>
      /\ executed' = Append(executed, Object(iterator[Executor].block,
                                             iterator[Executor].pos))
  BY DEF ExecutorRun, Goto
<1>2. destructor # "freed" /\ destructor # "returned"
  BY <1>1 DEF ExecutorInv, Gone
<1>3. /\ IteratorAtFront /\ ArrivedAreThere /\ RunSoFar /\ popping = "no"
  BY <1>1, <1>2 DEF ExecutorInv
<1>4. /\ iterator[Executor] # Unused
      /\ Seq1 = frontSequenceNumber /\ Seq1 < nextSequenceNumber
      /\ Seq1 \in Nat /\ nextSequenceNumber \in Nat /\ frontSequenceNumber \in Nat
  BY <1>1, <1>3, ExecutorTypes DEF ExecutorInv, IteratorAtFront, ArrivedAreThere
<1>5. /\ iterator[Executor].block \in Blocks /\ iterator[Executor].pos \in Positions
      /\ Seq1 = iterator[Executor].block + iterator[Executor].pos
      /\ FirstAlive <= Seq1 /\ Seq1 < FirstRaw
  BY <1>4, ExecutorTypes DEF ExecutorInv, QueueInv, IteratorInv, Seq1, FirstRaw
<1> DEFINE object == Object(iterator[Executor].block, iterator[Executor].pos)
<1>6. object = pushed[Seq1] /\ object \in Items \cup {Raw}
  <2>1. object = pushed[Seq1]
    BY <1>5 DEF ExecutorInv, QueueInv, Cells
  <2>2. object \in Items \cup {Raw}
    <3>1. contents \in [Blocks -> [Positions -> Items \cup {Raw}]]
      BY DEF ExecutorInv, QueueInv, TypeOK
    <3> QED BY <1>5, <3>1, Zenon DEF Object
  <2> QED BY <2>1, <2>2
<1>7. /\ executed' \in Seq(Items \cup {Raw})
      /\ Len(executed') = Len(executed) + 1
      /\ \A i \in 1 .. Len(executed) : executed'[i] = executed[i]
      /\ executed'[Len(executed) + 1] = object
  <2> HIDE DEF object
  <2>1. executed' = Append(executed, object)
    BY <1>1 DEF object
  <2> QED BY <1>3, <1>6, <2>1 DEF RunSoFar
<1>8. UNCHANGED <<iterator, frontSequenceNumber, nextSequenceNumber, pushed, popping,
                  highestSequence>>
  BY <1>1 DEF queueVars, pushVars, popVars, waitVars
<1>9. RunSoFar'
  <2>1. Len(executed) = Seq1
    BY <1>1, <1>3, <1>4 DEF RunSoFar
  <2>2. Len(executed') = frontSequenceNumber + 1
    BY <1>4, <1>7, <2>1
  <2>3. ASSUME NEW i \in 1 .. Len(executed') PROVE executed'[i] = pushed[i - 1]
    <3>1. CASE i \in 1 .. Len(executed)
      BY <1>3, <1>7, <3>1 DEF RunSoFar
    <3>2. CASE i = Len(executed) + 1
      <4>1. i - 1 = Seq1
        BY <1>4, <2>1, <3>2
      <4> QED BY <1>6, <1>7, <3>2, <4>1
    <3> QED BY <1>4, <1>7, <2>1, <3>1, <3>2
  <2> QED BY <1>1, <1>4, <1>7, <1>8, <2>2, <2>3 DEF RunSoFar
<1>10. IteratorAtFront' /\ ArrivedAreThere'
  BY <1>1, <1>3, <1>4, <1>8 DEF IteratorAtFront, ArrivedAreThere, Seq1
<1>11. executor' \in ExecutorPlaces /\ Gone' /\ destructor' # "freed"
  BY <1>1, <1>2 DEF ExecutorPlaces, Gone
<1> QED BY <1>3, <1>8, <1>9, <1>10, <1>11 DEF ExecutorInv

\* The iterator leaves the callback that ran behind, at the front.
LEMMA AdvanceKeeps ==
  ASSUME ExecutorInv, ExecutorBegin \/ ExecutorAdvance, QueueInv'
  PROVE  ExecutorInv'
<1>1. /\ executor \in {"begin", "advance"}
      /\ UNCHANGED <<waitVars, stopFlag, destructor, executed, blockVars, pushVars, popVars>>
  BY DEF ExecutorBegin, ExecutorAdvance, Goto, Begin, IteratorNext
<1>2. destructor # "freed" /\ destructor # "returned"
  BY <1>1 DEF ExecutorInv, Gone
<1>3. /\ IteratorAtFront /\ ArrivedAreThere /\ RunSoFar /\ popping = "no"
  BY <1>1, <1>2 DEF ExecutorInv
<1>4. UNCHANGED <<frontSequenceNumber, nextSequenceNumber, pushed, popping,
                  executed, highestSequence>>
  BY <1>1 DEF pushVars, popVars, waitVars
<1>5. /\ nextSequenceNumber \in Nat /\ frontSequenceNumber \in Nat
      /\ iterator \in [Readers -> [block : Int, pos : Nat, seq : Nat]]
      /\ Executor \in Readers /\ Seq1 \in Nat /\ root \in Nat
  BY ExecutorTypes DEF ExecutorInv
<1>6. CASE ExecutorBegin
  <2>1. executor = "begin" /\ executor' = "top"
    BY <1>6 DEF ExecutorBegin, Goto
  <2>2. iterator'[Executor] = [block |-> root, pos |-> firstBlockNextToPop,
                               seq |-> frontSequenceNumber]
    BY <1>5, <1>6 DEF ExecutorBegin, Begin
  <2>3. iterator'[Executor] # Unused
    BY <1>5, <2>2 DEF Unused, NullBlock
  <2>4. Seq1' = frontSequenceNumber
    BY <2>2 DEF Seq1
  <2>5. IteratorAtFront' /\ ArrivedAreThere' /\ RunSoFar'
    BY <1>3, <1>4, <2>1, <2>3, <2>4 DEF IteratorAtFront, ArrivedAreThere, RunSoFar
  <2> QED BY <1>1, <1>2, <1>3, <1>4, <2>1, <2>5 DEF ExecutorInv, ExecutorPlaces, Gone
<1>7. CASE ExecutorAdvance
  <2>1. executor = "advance" /\ executor' = "pop"
    BY <1>7 DEF ExecutorAdvance, Goto
  <2>2. iterator'[Executor].seq = Seq1 + 1
    BY <1>5, <1>7 DEF ExecutorAdvance, IteratorNext, Seq1
  <2>3. iterator'[Executor] # Unused
    BY <1>5, <2>2 DEF Unused
  <2>4. Seq1 = frontSequenceNumber /\ Seq1 < nextSequenceNumber
    BY <1>3, <2>1 DEF IteratorAtFront, ArrivedAreThere
  <2>5. Seq1' = frontSequenceNumber + 1
    BY <2>2, <2>4 DEF Seq1
  <2>6. IteratorAtFront' /\ ArrivedAreThere' /\ RunSoFar'
    BY <1>3, <1>4, <2>1, <2>3, <2>4, <2>5 DEF IteratorAtFront, ArrivedAreThere, RunSoFar
  <2> QED BY <1>1, <1>2, <1>3, <1>4, <2>1, <2>6 DEF ExecutorInv, ExecutorPlaces, Gone
<1> QED BY <1>6, <1>7

\* ... and the front follows.
LEMMA PopKeeps == ASSUME ExecutorInv, ExecutorPop, QueueInv' PROVE ExecutorInv'
<1>1. /\ executor = "pop"
      /\ UNCHANGED <<waitVars, stopFlag, destructor, executed, pushVars, iterator>>
      /\ \/ executor' = "pop" /\ frontSequenceNumber' = frontSequenceNumber
         \/ /\ executor' = "top" /\ frontSequenceNumber' = frontSequenceNumber + 1
            /\ popping' = "no"
  BY DEF ExecutorPop, PopDestroy, PopRemoveRoot, PopCount, pushVars
<1>2. destructor # "freed" /\ destructor # "returned"
  BY <1>1 DEF ExecutorInv, Gone
<1>3. IteratorAtFront /\ ArrivedAreThere /\ RunSoFar
  BY <1>1, <1>2 DEF ExecutorInv
<1>4. /\ UNCHANGED <<iterator, nextSequenceNumber, pushed, executed, highestSequence>>
      /\ Seq1' = Seq1
  BY <1>1 DEF pushVars, waitVars, Seq1
<1>5. nextSequenceNumber \in Nat /\ frontSequenceNumber \in Nat
  BY ExecutorTypes DEF ExecutorInv
<1>6. IteratorAtFront' /\ ArrivedAreThere'
  BY <1>1, <1>3, <1>4, <1>5 DEF IteratorAtFront, ArrivedAreThere
<1>7. RunSoFar'
  BY <1>1, <1>3, <1>4, <1>5 DEF RunSoFar
<1> QED BY <1>1, <1>2, <1>6, <1>7 DEF ExecutorInv, ExecutorPlaces, Gone

LEMMA DestructorKeeps ==
  ASSUME ExecutorInv, DestructorStops \/ DestructorThread, QueueInv'
  PROVE  ExecutorInv'
<1>1. CASE DestructorFrees
  BY <1>1 DEF DestructorFrees, ExecutorInv, Gone
<1>2. CASE ~DestructorFrees
  <2>1. /\ UNCHANGED <<queueVars, highestSequence, executed>>
        /\ executor' = executor \/ (executor = "asleep" /\ executor' = "lock")
        /\ destructor # "freed" /\ destructor' # "freed"
        /\ destructor' = "returned" => executor' = "exited"
    <3>1. CASE DestructorStops
      BY <3>1 DEF DestructorStops, waitVars
    <3>2. CASE DestructorUnblocks
      BY <3>2 DEF DestructorUnblocks, Notify
    <3>3. CASE DestructorJoins
      BY <3>3 DEF DestructorJoins, waitVars
    <3> QED BY <1>2, <3>1, <3>2, <3>3 DEF DestructorThread
  <2>2. /\ UNCHANGED <<iterator, frontSequenceNumber, nextSequenceNumber, pushed, popping>>
        /\ Seq1' = Seq1
    BY <2>1 DEF queueVars, pushVars, popVars, Seq1
  <2>3. executor' \in ExecutorPlaces /\ Gone'
    BY <2>1 DEF ExecutorInv, ExecutorPlaces, Gone
  <2>4. (popping' # "no" => executor' = "pop") /\ IteratorAtFront' /\ ArrivedAreThere'
    BY <2>1, <2>2 DEF ExecutorInv, IteratorAtFront, ArrivedAreThere
  <2>5. RunSoFar'
    BY <2>1, <2>2 DEF ExecutorInv, RunSoFar
  <2> QED BY <2>3, <2>4, <2>5 DEF ExecutorInv
<1> QED BY <1>1, <1>2

-----------------------------------------------------------------------------
LEMMA NextExecutorInv == ExecutorInv /\ [ExecutorNext]_vars => ExecutorInv'
<1> SUFFICES ASSUME ExecutorInv, [ExecutorNext]_vars PROVE ExecutorInv'
  OBVIOUS
<1>1. QueueInv'
  BY StepIsQueueStep, NextQueueInv DEF ExecutorInv
<1>2. CASE UNCHANGED vars
  <2>1. UNCHANGED <<executor, destructor, executed, iterator, frontSequenceNumber,
                    nextSequenceNumber, pushed, popping, highestSequence>>
    BY <1>2 DEF vars, queueVars, pushVars, popVars, waitVars
  <2> QED BY <1>1, <2>1 DEF ExecutorInv, Gone, IteratorAtFront, ArrivedAreThere, RunSoFar, Seq1
<1> QED BY <1>1, <1>2, ProducerKeeps, LookingKeeps, RunKeeps, AdvanceKeeps, PopKeeps,
           DestructorKeeps
        DEF ExecutorNext, ExecutorThread

LEMMA ExecutorInvHolds == ExecutorSpec => []ExecutorInv
BY InitExecutorInv, NextExecutorInv, PTL DEF ExecutorSpec

\* The producers, the executor (CallbackExecutorThread::main()) and the destructor
\* use the queue as its class comment asks for: what the executor pops has been
\* put in and read, and the queue is reset when nobody uses it.
THEOREM UsesQueueAsAllowed == ExecutorSpec => QueueContract
<1>1. ExecutorInit => Init
  BY DEF ExecutorInit
<1>2. ExecutorInv /\ [ExecutorNext]_vars => [Next]_queueVars
  BY StepIsQueueStep
<1> QED BY <1>1, <1>2, ExecutorInvHolds, PTL DEF ExecutorSpec, QueueContract, Spec

\* The executor never follows its iterator into memory that was freed, and reads
\* what was put in.
THEOREM ExecutorReadsSafely == ExecutorSpec => []IteratorsReadWhatWasPushed
BY UsesQueueAsAllowed, IteratorsAreSafe, PTL DEF QueueContract

\* To producers and executor the blocks are a queue of numbered callbacks.
THEOREM ExecutorQueueRefines == ExecutorSpec => ImplementsNumberedQueue
BY UsesQueueAsAllowed, QueueRefines, PTL DEF QueueContract

\* Callbacks run once each, in the order they were staged.
THEOREM CallbacksInOrder == ExecutorSpec => []RunInOrder
<1>1. ExecutorInv => RunInOrder
  <2> SUFFICES ASSUME ExecutorInv PROVE RunInOrder
    OBVIOUS
  <2>1. ASSUME destructor # "freed", NEW i \in 1 .. Len(executed)
        PROVE  i - 1 \in DOMAIN pushed /\ executed[i] = pushed[i - 1]
    <3>1. RunSoFar /\ nextSequenceNumber \in Nat
      BY <2>1, ExecutorTypes DEF ExecutorInv
    <3>2. i - 1 \in 0 .. nextSequenceNumber - 1
      BY <3>1 DEF RunSoFar
    <3> QED BY <3>1, <3>2 DEF RunSoFar, ExecutorInv, QueueInv, Ends, FirstRaw
  <2>2. executor = "run" => Len(executed) = Seq1
    BY DEF ExecutorInv, Gone, RunSoFar, IteratorAtFront
  <2> QED BY <2>1, <2>2 DEF RunInOrder, Seq1
<1> QED BY <1>1, ExecutorInvHolds, PTL
=============================================================================
