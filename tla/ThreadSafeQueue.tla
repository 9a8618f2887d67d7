--------------------------- MODULE ThreadSafeQueue ---------------------------
(***************************************************************************)
(* ThreadSafeQueue (src/include/qclient/queueing/ThreadSafeQueue.hh): a     *)
(* singly-linked list of memory blocks.  emplace_back() and pop_front() run *)
(* under different mutexes, hence at the same time; iterators read without   *)
(* any lock.  Next lets them run in any order the class allows: it "does no  *)
(* error checking that it is being used correctly", so the guards of         *)
(* PopDestroy, IteratorNext, Begin and Reset state what its users must        *)
(* respect.                                                                  *)
(*                                                                           *)
(* A block is named by the sequence number of the first item it can hold.    *)
(***************************************************************************)
EXTENDS Integers

CONSTANTS
  Items,      \* what is put into the queue
  Raw,        \* memory that holds no object
  BlockSize,  \* objects per block
  Readers,    \* holders of an iterator
  MaxItems    \* bound: items put in between two resets

ASSUME BlockSizeAssumption == BlockSize \in Nat \ {0}
ASSUME RawAssumption == Raw \notin Items
ASSUME MaxItemsAssumption == MaxItems \in Nat

VARIABLES
  next,                \* block |-> its next pointer; the blocks allocated
  contents,            \* block |-> position |-> object or Raw
  root, lastBlock,
  firstBlockNextToPop, lastBlockNextPos,
  nextSequenceNumber, frontSequenceNumber,
  pushing,             \* where the holder of pushMutex is
  popping,             \* where the holder of popMutex is
  iterator,            \* reader |-> its iterator, or Unused
  pushed               \* history: sequence number |-> item put in

blockVars == <<next, contents>>
pushVars == <<lastBlock, lastBlockNextPos, nextSequenceNumber, pushing, pushed>>
popVars == <<root, firstBlockNextToPop, frontSequenceNumber, popping>>
queueVars == <<blockVars, pushVars, popVars, iterator>>

NullBlock == -1
Unused == [block |-> NullBlock, pos |-> 0, seq |-> 0]
RawBlock == [p \in 0 .. BlockSize - 1 |-> Raw]

-----------------------------------------------------------------------------
Init ==
  /\ next = [b \in {0} |-> NullBlock]
  /\ contents = [b \in {0} |-> RawBlock]
  /\ root = 0 /\ lastBlock = 0
  /\ firstBlockNextToPop = 0 /\ lastBlockNextPos = 0
  /\ nextSequenceNumber = 0 /\ frontSequenceNumber = 0
  /\ pushing = "no" /\ popping = "no"
  /\ iterator = [r \in Readers |-> Unused]
  /\ pushed = [s \in {} |-> Raw]

-----------------------------------------------------------------------------
(* emplace_back(), under pushMutex: construct the object ...                 *)

\* Mutant: the next block is allocated when the next object needs it.
PushConstructLazily(item) ==
  /\ pushing = "no"
  /\ contents' = [contents EXCEPT ![lastBlock][lastBlockNextPos] = item]
  /\ lastBlockNextPos' = lastBlockNextPos + 1
  /\ pushing' = "number"
  /\ pushed' = [s \in DOMAIN pushed \cup {nextSequenceNumber} |->
                  IF s = nextSequenceNumber THEN item ELSE pushed[s]]
  /\ UNCHANGED <<next, lastBlock, nextSequenceNumber, popVars, iterator>>

PushConstruct(item) ==
  /\ pushing = "no"
  /\ contents' = [contents EXCEPT ![lastBlock][lastBlockNextPos] = item]
  /\ lastBlockNextPos' = lastBlockNextPos + 1
  /\ pushing' = IF lastBlockNextPos + 1 = BlockSize THEN "allocate" ELSE "number"
  /\ pushed' = [s \in DOMAIN pushed \cup {nextSequenceNumber} |->
                  IF s = nextSequenceNumber THEN item ELSE pushed[s]]
  /\ UNCHANGED <<next, lastBlock, nextSequenceNumber, popVars, iterator>>

\* Mutant: the position in the last block is not reset.
PushAllocateKeepsPosition ==
  /\ pushing = "allocate"
  /\ LET fresh == lastBlock + BlockSize IN
     /\ next' = [b \in DOMAIN next \cup {fresh} |->
                   CASE b = fresh -> NullBlock
                     [] b = lastBlock -> fresh
                     [] OTHER -> next[b]]
     /\ contents' = [b \in DOMAIN next \cup {fresh} |->
                       IF b = fresh THEN RawBlock ELSE contents[b]]
     /\ lastBlock' = fresh
  /\ pushing' = "number"
  /\ UNCHANGED <<lastBlockNextPos, nextSequenceNumber, pushed, popVars, iterator>>

\* ... allocate the block the next object goes to ...
PushAllocate ==
  /\ pushing = "allocate"
  /\ LET fresh == lastBlock + BlockSize IN
     /\ next' = [b \in DOMAIN next \cup {fresh} |->
                   CASE b = fresh -> NullBlock
                     [] b = lastBlock -> fresh
                     [] OTHER -> next[b]]
     /\ contents' = [b \in DOMAIN next \cup {fresh} |->
                       IF b = fresh THEN RawBlock ELSE contents[b]]
     /\ lastBlock' = fresh
  /\ lastBlockNextPos' = 0
  /\ pushing' = "number"
  /\ UNCHANGED <<nextSequenceNumber, pushed, popVars, iterator>>

\* ... and number it; the caller learns the number.
PushNumber ==
  /\ pushing = "number"
  /\ nextSequenceNumber' = nextSequenceNumber + 1
  /\ pushing' = "no"
  /\ UNCHANGED <<blockVars, lastBlock, lastBlockNextPos, pushed, popVars,
                 iterator>>

-----------------------------------------------------------------------------
(* pop_front(), under popMutex: destroy the object, drop the block when it   *)
(* was its last one, count.                                                  *)

\* Callers pop only what has been put in, and what no iterator points to.
MayPop ==
  /\ frontSequenceNumber < nextSequenceNumber
  /\ \A r \in Readers :
       iterator[r] # Unused => iterator[r].seq > frontSequenceNumber

PopDestroy ==
  /\ popping = "no"
  /\ contents' = [contents EXCEPT ![root][firstBlockNextToPop] = Raw]
  /\ firstBlockNextToPop' = firstBlockNextToPop + 1
  /\ popping' = IF firstBlockNextToPop + 1 = BlockSize THEN "remove" ELSE "count"
  /\ UNCHANGED <<next, pushVars, root, frontSequenceNumber, iterator>>

\* removeRoot()
PopRemoveRoot ==
  /\ popping = "remove"
  /\ root' = next[root]
  /\ next' = [b \in DOMAIN next \ {root} |-> next[b]]
  /\ contents' = [b \in DOMAIN contents \ {root} |-> contents[b]]
  /\ firstBlockNextToPop' = 0
  /\ popping' = "count"
  /\ UNCHANGED <<pushVars, frontSequenceNumber, iterator>>

PopCount ==
  /\ popping = "count"
  /\ frontSequenceNumber' = frontSequenceNumber + 1
  /\ popping' = "no"
  /\ UNCHANGED <<blockVars, pushVars, root, firstBlockNextToPop, iterator>>

-----------------------------------------------------------------------------
(* Iterators *)

\* begin(), not concurrently with a pop.
Begin(r) ==
  /\ popping = "no"
  /\ iterator' = [iterator EXCEPT ![r] = [block |-> root,
                                          pos |-> firstBlockNextToPop,
                                          seq |-> frontSequenceNumber]]
  /\ UNCHANGED <<blockVars, pushVars, popVars>>

Arrived(r) == iterator[r] # Unused /\ iterator[r].seq < nextSequenceNumber

\* next(), when there is an item to leave behind.
IteratorNext(r) ==
  /\ Arrived(r)
  /\ LET i == iterator[r] IN
     iterator' = [iterator EXCEPT ![r] =
       IF i.pos + 1 = BlockSize
       THEN [block |-> next[i.block], pos |-> 0, seq |-> i.seq + 1]
       ELSE [block |-> i.block, pos |-> i.pos + 1, seq |-> i.seq + 1]]
  /\ UNCHANGED <<blockVars, pushVars, popVars>>

\* reset(), when nobody else uses the queue: destroys the objects one by one,
\* then everything is as after construction.  Iterators are lost.
Reset ==
  /\ pushing = "no" /\ popping = "no"
  /\ next' = [b \in {0} |-> NullBlock]
  /\ contents' = [b \in {0} |-> RawBlock]
  /\ root' = 0 /\ lastBlock' = 0
  /\ firstBlockNextToPop' = 0 /\ lastBlockNextPos' = 0
  /\ nextSequenceNumber' = 0 /\ frontSequenceNumber' = 0
  /\ iterator' = [r \in Readers |-> Unused]
  /\ pushed' = [s \in {} |-> Raw]
  /\ UNCHANGED <<pushing, popping>>

-----------------------------------------------------------------------------
MayPush == nextSequenceNumber < MaxItems

Push ==
  \/ MayPush /\ \E item \in Items : PushConstruct(item)
  \/ PushAllocate
  \/ PushNumber

Pop ==
  \/ MayPop /\ PopDestroy
  \/ PopRemoveRoot
  \/ PopCount

Read(r) ==
  \/ Begin(r)
  \/ IteratorNext(r)

Next ==
  \/ Push
  \/ Pop
  \/ \E r \in Readers : Read(r)
  \/ Reset

Spec == Init /\ [][Next]_queueVars

-----------------------------------------------------------------------------
(* Properties *)

Blocks == DOMAIN next
Positions == 0 .. BlockSize - 1
Object(block, pos) == contents[block][pos]

\* The first sequence number whose object has not been destroyed.
FirstAlive == frontSequenceNumber + (IF popping = "no" THEN 0 ELSE 1)

TypeOK ==
  /\ Blocks \subseteq Nat
  /\ next \in [Blocks -> Int]
  /\ contents \in [Blocks -> [Positions -> Items \cup {Raw}]]
  /\ root \in Nat /\ lastBlock \in Nat
  /\ firstBlockNextToPop \in Nat /\ lastBlockNextPos \in Nat
  /\ nextSequenceNumber \in Nat /\ frontSequenceNumber \in Nat
  /\ pushing \in {"no", "allocate", "number"}
  /\ popping \in {"no", "remove", "count"}
  /\ iterator \in [Readers -> [block : Int, pos : Nat, seq : Nat]]
  /\ DOMAIN pushed \subseteq Nat

\* An iterator points into allocated memory, and once its item has arrived, to
\* the object that was put in under its sequence number.
IteratorsReadWhatWasPushed ==
  \A r \in Readers : iterator[r] # Unused =>
    LET i == iterator[r] IN
    /\ i.block \in Blocks /\ i.pos \in Positions
    /\ i.seq < nextSequenceNumber => Object(i.block, i.pos) = pushed[i.seq]

\* So does the front, for pop_front() and front().
FrontIsOldest ==
  (popping = "no" /\ frontSequenceNumber < nextSequenceNumber) =>
    /\ root \in Blocks /\ firstBlockNextToPop \in Positions
    /\ Object(root, firstBlockNextToPop) = pushed[frontSequenceNumber]

\* The place for the next object is allocated memory that holds none.
PushesIntoRawMemory ==
  pushing = "no" =>
    /\ lastBlock \in Blocks /\ lastBlockNextPos \in Positions
    /\ Object(lastBlock, lastBlockNextPos) = Raw

-----------------------------------------------------------------------------
(* What users of the queue may think it is: a queue by sequence numbers. An  *)
(* object is gone as soon as it has been destroyed.                          *)

BlockOf(s) == CHOOSE b \in Blocks : s \in b .. b + BlockSize - 1

Numbered ==
  INSTANCE NumberedQueue WITH
    queue <- [s \in FirstAlive .. nextSequenceNumber - 1 |->
                Object(BlockOf(s), s - BlockOf(s))],
    front <- FirstAlive,
    nextNumber <- nextSequenceNumber

ImplementsNumberedQueue == Numbered!Spec
=============================================================================
