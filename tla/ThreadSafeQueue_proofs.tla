------------------------ MODULE ThreadSafeQueue_proofs ------------------------
(***************************************************************************)
(* ThreadSafeQueue is safe for any block size, any number of iterators and  *)
(* items: iterators and the front never leave allocated memory and read     *)
(* what was put in, and objects are constructed in memory that holds none.  *)
(***************************************************************************)
EXTENDS ThreadSafeQueue, TLAPS

\* Sequence number of the next object to construct.
FirstRaw == nextSequenceNumber + (IF pushing = "no" THEN 0 ELSE 1)

\* The blocks form one chain from root to lastBlock and do not overlap.
Chain ==
  /\ root \in Blocks /\ lastBlock \in Blocks
  /\ \A b \in Blocks :
       /\ root <= b /\ b <= lastBlock
       /\ b = lastBlock => next[b] = NullBlock
       /\ b # lastBlock => next[b] = b + BlockSize /\ b + BlockSize \in Blocks
  /\ \A b, c \in Blocks : b < c => b + BlockSize <= c

\* Both ends agree with the sequence numbers.
Ends ==
  /\ root + firstBlockNextToPop = FirstAlive
  /\ firstBlockNextToPop <= BlockSize
  /\ firstBlockNextToPop = BlockSize <=> popping = "remove"
  /\ lastBlock + lastBlockNextPos = FirstRaw
  /\ lastBlockNextPos <= BlockSize
  /\ lastBlockNextPos = BlockSize <=> pushing = "allocate"
  /\ FirstAlive <= nextSequenceNumber
  /\ DOMAIN pushed = 0 .. FirstRaw - 1

\* What lies between the ends has been constructed and not yet destroyed.
Cells ==
  \A b \in Blocks, p \in Positions :
    /\ FirstAlive <= b + p /\ b + p < FirstRaw => Object(b, p) = pushed[b + p]
    /\ b + p >= FirstRaw => Object(b, p) = Raw

\* The place an iterator points to is the one its sequence number names.
IteratorInv(r) ==
  iterator[r] # Unused =>
    /\ iterator[r].block \in Blocks
    /\ iterator[r].pos \in Positions
    /\ iterator[r].seq = iterator[r].block + iterator[r].pos
    /\ FirstAlive <= iterator[r].seq
    /\ iterator[r].seq <= nextSequenceNumber

QueueInv == TypeOK /\ Chain /\ Ends /\ Cells /\ \A r \in Readers : IteratorInv(r)

-----------------------------------------------------------------------------
USE DEF Blocks, Positions, Object, NullBlock

\* The queue is safe when it has been constructed.
LEMMA InitQueueInv == Init => QueueInv
BY BlockSizeAssumption
DEF Init, QueueInv, TypeOK, Chain, Ends, Cells, IteratorInv, FirstAlive,
    FirstRaw, RawBlock, Unused

\* ... and after reset().
LEMMA ResetStep == ASSUME QueueInv, Reset PROVE QueueInv'
BY BlockSizeAssumption
DEF Reset, QueueInv, TypeOK, Chain, Ends, Cells, IteratorInv, FirstAlive,
    FirstRaw, RawBlock, Unused

\* Constructing an object fills the first raw cell.
LEMMA PushConstructStep ==
  ASSUME QueueInv, NEW item \in Items, PushConstruct(item)
  PROVE  QueueInv'
<1>1. /\ TypeOK /\ Chain /\ Ends /\ Cells /\ \A r \in Readers : IteratorInv(r)
      /\ BlockSize \in Nat \ {0}
  BY BlockSizeAssumption DEF QueueInv
<1>2. /\ lastBlock \in Nat
      /\ lastBlockNextPos \in Nat /\ lastBlockNextPos < BlockSize
      /\ nextSequenceNumber \in Nat /\ frontSequenceNumber \in Nat
      /\ lastBlock + lastBlockNextPos = nextSequenceNumber
      /\ FirstAlive \in Nat /\ FirstAlive <= nextSequenceNumber
      /\ FirstRaw = nextSequenceNumber
  <2>1. pushing = "no" /\ FirstRaw = nextSequenceNumber + 0
    BY DEF PushConstruct, FirstRaw
  <2>2. FirstAlive \in Nat
    BY <1>1 DEF TypeOK, FirstAlive
  <2>3. lastBlockNextPos # BlockSize
    BY <2>1, <1>1 DEF Ends
  <2> QED BY <2>1, <2>2, <2>3, <1>1 DEF TypeOK, Ends
<1>3. /\ UNCHANGED <<lastBlock, nextSequenceNumber, iterator, root,
                     firstBlockNextToPop, frontSequenceNumber, popping>>
      /\ lastBlockNextPos' = lastBlockNextPos + 1
      /\ pushing' \in {"allocate", "number"}
      /\ pushing' = "allocate" <=> lastBlockNextPos' = BlockSize
      /\ FirstRaw' = nextSequenceNumber + 1
      /\ FirstAlive' = FirstAlive
  <2>1. /\ UNCHANGED <<lastBlock, nextSequenceNumber, iterator, root,
                       firstBlockNextToPop, frontSequenceNumber, popping>>
        /\ lastBlockNextPos' = lastBlockNextPos + 1
        /\ pushing' = IF lastBlockNextPos + 1 = BlockSize
                      THEN "allocate" ELSE "number"
    BY DEF PushConstruct, popVars
  <2> QED BY <2>1 DEF FirstRaw, FirstAlive
<1>4. /\ lastBlock \in Blocks /\ lastBlockNextPos \in Positions
      /\ Blocks \subseteq Nat
      /\ contents \in [Blocks -> [Positions -> Items \cup {Raw}]]
      /\ DOMAIN pushed = 0 .. nextSequenceNumber - 1
  BY <1>1, <1>2 DEF TypeOK, Chain, Ends
<1>5. /\ next' = next /\ Blocks' = Blocks
      /\ contents' = [contents EXCEPT ![lastBlock][lastBlockNextPos] = item]
      /\ pushed' = [s \in 0 .. nextSequenceNumber |->
                      IF s = nextSequenceNumber THEN item ELSE pushed[s]]
  <2>1. DOMAIN pushed \cup {nextSequenceNumber} = 0 .. nextSequenceNumber
    BY <1>2, <1>4
  <2> QED BY <2>1 DEF PushConstruct
<1>6. TypeOK'
  <2>1. contents' \in [Blocks' -> [Positions -> Items \cup {Raw}]]
    BY <1>4, <1>5
  <2>2. DOMAIN pushed' = 0 .. nextSequenceNumber
    BY <1>5
  <2>3. DOMAIN pushed' \subseteq Nat
    BY <2>2, <1>2
  <2>4. lastBlockNextPos' \in Nat
    BY <1>2, <1>3
  <2> QED BY <2>1, <2>3, <2>4, <1>1, <1>3, <1>5 DEF TypeOK
<1>7. Chain'
  BY <1>1, <1>3, <1>5 DEF Chain
<1>8. Ends'
  <2>1. DOMAIN pushed' = 0 .. FirstRaw' - 1
    <3>1. FirstRaw' - 1 = nextSequenceNumber
      BY <1>2, <1>3
    <3> QED BY <3>1, <1>5
  <2> QED BY <2>1, <1>1, <1>2, <1>3 DEF Ends
<1>9. Cells'
  <2>1. ASSUME NEW b \in Blocks, NEW p \in Positions
        PROVE  /\ FirstAlive <= b + p /\ b + p < nextSequenceNumber + 1 =>
                    contents'[b][p] = pushed'[b + p]
               /\ b + p >= nextSequenceNumber + 1 => contents'[b][p] = Raw
    <3>1. CASE b = lastBlock /\ p = lastBlockNextPos
      <4>1. contents'[b][p] = item /\ b + p = nextSequenceNumber
        BY <3>1, <1>2, <1>4, <1>5
      <4>2. pushed'[nextSequenceNumber] = item
        BY <1>2, <1>5
      <4> QED BY <4>1, <4>2, <1>2
    <3>2. CASE ~(b = lastBlock /\ p = lastBlockNextPos)
      <4>1. b + p # nextSequenceNumber
        <5>1. b # lastBlock => b + BlockSize <= lastBlock
          BY <1>1, <1>4 DEF Chain
        <5>2. b \in Nat /\ p \in Nat /\ p < BlockSize
          BY <1>1, <1>4
        <5> QED BY <5>1, <5>2, <3>2, <1>1, <1>2
      <4>2. contents'[b][p] = contents[b][p]
        BY <3>2, <1>4, <1>5
      <4>3. /\ FirstAlive <= b + p /\ b + p < nextSequenceNumber =>
                 contents[b][p] = pushed[b + p]
            /\ b + p >= nextSequenceNumber => contents[b][p] = Raw
        BY <1>1, <1>2 DEF Cells
      <4>4. b + p \in Nat
        BY <1>1, <1>4
      <4>5. FirstAlive <= b + p /\ b + p < nextSequenceNumber + 1 =>
              /\ b + p < nextSequenceNumber
              /\ pushed'[b + p] = pushed[b + p]
        BY <4>1, <4>4, <1>2, <1>5
      <4> QED BY <4>2, <4>3, <4>4, <4>5, <1>2
    <3> QED BY <3>1, <3>2
  <2> QED BY <2>1, <1>3, <1>5 DEF Cells
<1>10. ASSUME NEW r \in Readers PROVE IteratorInv(r)'
  BY <1>1, <1>3, <1>5 DEF IteratorInv
<1> QED BY <1>6, <1>7, <1>8, <1>9, <1>10 DEF QueueInv

\* A new block extends the chain.
LEMMA PushAllocateStep == ASSUME QueueInv, PushAllocate PROVE QueueInv'
<1> DEFINE fresh == lastBlock + BlockSize
<1>1. /\ TypeOK /\ Chain /\ Ends /\ Cells /\ \A r \in Readers : IteratorInv(r)
      /\ BlockSize \in Nat \ {0}
  BY BlockSizeAssumption DEF QueueInv
<1>2. /\ lastBlock \in Nat /\ nextSequenceNumber \in Nat
      /\ fresh \in Nat /\ fresh > lastBlock
      /\ fresh = FirstRaw
  BY <1>1 DEF TypeOK, Ends, PushAllocate
<1>3. /\ UNCHANGED <<nextSequenceNumber, pushed, iterator, root,
                     firstBlockNextToPop, frontSequenceNumber, popping>>
      /\ lastBlock' = fresh /\ lastBlockNextPos' = 0
      /\ pushing' = "number"
      /\ FirstRaw' = FirstRaw /\ FirstAlive' = FirstAlive
  BY DEF PushAllocate, popVars, FirstRaw, FirstAlive
<1>4. /\ Blocks \subseteq Nat /\ fresh \notin Blocks
      /\ lastBlock \in Blocks /\ root \in Blocks
      /\ \A b \in Blocks : b \in Nat /\ root <= b /\ b <= lastBlock
  BY <1>1, <1>2 DEF TypeOK, Chain
<1>5. /\ next' = [b \in Blocks \cup {fresh} |->
                    CASE b = fresh -> NullBlock
                      [] b = lastBlock -> fresh
                      [] OTHER -> next[b]]
      /\ contents' = [b \in Blocks \cup {fresh} |->
                        IF b = fresh THEN RawBlock ELSE contents[b]]
      /\ Blocks' = Blocks \cup {fresh}
  BY DEF PushAllocate
<1>6. TypeOK'
  <2>1. contents' \in [Blocks' -> [Positions -> Items \cup {Raw}]]
    BY <1>1, <1>5 DEF TypeOK, RawBlock
  <2>2. next' \in [Blocks' -> Int]
    BY <1>1, <1>2, <1>5 DEF TypeOK
  <2>3. Blocks' \subseteq Nat
    BY <1>2, <1>4, <1>5
  <2> QED BY <2>1, <2>2, <2>3, <1>1, <1>2, <1>3 DEF TypeOK
<1>7. Chain'
  <2>1. root \in Blocks' /\ fresh \in Blocks'
    BY <1>4, <1>5
  <2>2. ASSUME NEW b \in Blocks'
        PROVE  /\ root <= b /\ b <= fresh
               /\ b = fresh => next'[b] = NullBlock
               /\ b # fresh => next'[b] = b + BlockSize /\ b + BlockSize \in Blocks'
    <3>1. CASE b = fresh
      BY <3>1, <1>2, <1>4, <1>5
    <3>2. CASE b = lastBlock
      BY <3>2, <1>2, <1>4, <1>5
    <3>3. CASE b \in Blocks /\ b # lastBlock
      <4>1. next'[b] = next[b] /\ b # fresh
        BY <3>3, <1>4, <1>5
      <4>2. next[b] = b + BlockSize /\ b + BlockSize \in Blocks
        BY <3>3, <1>1 DEF Chain
      <4>3. root <= b /\ b <= fresh
        BY <3>3, <1>2, <1>4
      <4> QED BY <4>1, <4>2, <4>3, <1>5
    <3> QED BY <3>1, <3>2, <3>3, <1>5
  <2>3. ASSUME NEW b \in Blocks', NEW c \in Blocks', b < c
        PROVE  b + BlockSize <= c
    <3>1. CASE c = fresh
      <4>1. b # fresh
        BY <3>1, <2>3, <1>2
      <4>2. b \in Nat /\ b <= lastBlock
        BY <4>1, <1>4, <1>5
      <4> QED BY <3>1, <4>2, <1>1, <1>2
    <3>2. CASE c # fresh
      <4>1. c \in Blocks /\ c \in Nat /\ c <= lastBlock
        BY <3>2, <1>4, <1>5
      <4>2. b # fresh
        BY <4>1, <2>3, <1>2
      <4>3. b \in Blocks
        BY <4>2, <1>5
      <4> QED BY <4>1, <4>3, <2>3, <1>1 DEF Chain
    <3> QED BY <3>1, <3>2
  <2> QED BY <2>1, <2>2, <2>3, <1>3 DEF Chain
<1>8. Ends'
  BY <1>1, <1>2, <1>3 DEF Ends
<1>9. Cells'
  <2>1. ASSUME NEW b \in Blocks', NEW p \in Positions
        PROVE  /\ FirstAlive <= b + p /\ b + p < FirstRaw =>
                    contents'[b][p] = pushed[b + p]
               /\ b + p >= FirstRaw => contents'[b][p] = Raw
    <3>1. CASE b = fresh
      <4>1. contents'[b][p] = Raw
        BY <3>1, <1>5 DEF RawBlock
      <4>2. b + p >= FirstRaw
        BY <3>1, <1>1, <1>2
      <4> QED BY <4>1, <4>2, <3>1, <1>1, <1>2
    <3>2. CASE b # fresh
      <4>1. b \in Blocks /\ contents'[b][p] = contents[b][p]
        BY <3>2, <1>5
      <4> QED BY <4>1, <1>1 DEF Cells
    <3> QED BY <3>1, <3>2
  <2> QED BY <2>1, <1>3 DEF Cells
<1>10. ASSUME NEW r \in Readers PROVE IteratorInv(r)'
  BY <1>1, <1>3, <1>5 DEF IteratorInv
<1> QED BY <1>6, <1>7, <1>8, <1>9, <1>10 DEF QueueInv

\* Numbering moves no object.
LEMMA PushNumberStep == ASSUME QueueInv, PushNumber PROVE QueueInv'
<1>1. /\ TypeOK /\ Chain /\ Ends /\ Cells /\ \A r \in Readers : IteratorInv(r)
  BY DEF QueueInv
<1>2. /\ UNCHANGED <<next, contents, lastBlock, lastBlockNextPos, pushed, root,
                     firstBlockNextToPop, frontSequenceNumber, popping,
                     iterator>>
      /\ nextSequenceNumber' = nextSequenceNumber + 1
      /\ pushing = "number" /\ pushing' = "no"
      /\ FirstAlive' = FirstAlive
  BY DEF PushNumber, blockVars, popVars, FirstAlive
<1>3. /\ nextSequenceNumber \in Nat /\ frontSequenceNumber \in Nat
      /\ FirstRaw' = FirstRaw /\ FirstAlive \in Nat
  BY <1>1, <1>2 DEF TypeOK, FirstRaw, FirstAlive
<1>4. TypeOK'
  BY <1>1, <1>2, <1>3 DEF TypeOK
<1>5. Chain'
  BY <1>1, <1>2 DEF Chain
<1>6. Ends'
  BY <1>1, <1>2, <1>3 DEF Ends
<1>7. Cells'
  BY <1>1, <1>2, <1>3 DEF Cells
<1>8. ASSUME NEW r \in Readers PROVE IteratorInv(r)'
  <2>1. iterator[r].seq <= nextSequenceNumber =>
          iterator[r].seq <= nextSequenceNumber + 1
    BY <1>1, <1>3 DEF TypeOK
  <2> QED BY <2>1, <1>1, <1>2, <1>3 DEF IteratorInv
<1> QED BY <1>4, <1>5, <1>6, <1>7, <1>8 DEF QueueInv

\* Destroying the front object leaves the others where they are.
LEMMA PopDestroyStep == ASSUME QueueInv, MayPop, PopDestroy PROVE QueueInv'
<1>1. /\ TypeOK /\ Chain /\ Ends /\ Cells /\ \A r \in Readers : IteratorInv(r)
      /\ BlockSize \in Nat \ {0}
  BY BlockSizeAssumption DEF QueueInv
<1>2. /\ root \in Nat /\ frontSequenceNumber \in Nat
      /\ nextSequenceNumber \in Nat
      /\ firstBlockNextToPop \in Nat /\ firstBlockNextToPop < BlockSize
      /\ root + firstBlockNextToPop = frontSequenceNumber
      /\ FirstAlive = frontSequenceNumber
      /\ frontSequenceNumber < nextSequenceNumber
  <2>1. popping = "no" /\ frontSequenceNumber < nextSequenceNumber
    BY DEF PopDestroy, MayPop
  <2>2. firstBlockNextToPop # BlockSize
    BY <2>1, <1>1 DEF Ends
  <2> QED BY <2>1, <2>2, <1>1 DEF TypeOK, Ends, FirstAlive
<1>3. /\ UNCHANGED <<next, lastBlock, lastBlockNextPos, nextSequenceNumber,
                     pushing, pushed, root, frontSequenceNumber, iterator>>
      /\ firstBlockNextToPop' = firstBlockNextToPop + 1
      /\ popping' \in {"remove", "count"}
      /\ popping' = "remove" <=> firstBlockNextToPop' = BlockSize
      /\ FirstRaw' = FirstRaw
      /\ FirstAlive' = frontSequenceNumber + 1
  <2>1. /\ UNCHANGED <<next, lastBlock, lastBlockNextPos, nextSequenceNumber,
                       pushing, pushed, root, frontSequenceNumber, iterator>>
        /\ firstBlockNextToPop' = firstBlockNextToPop + 1
        /\ popping' = IF firstBlockNextToPop + 1 = BlockSize
                      THEN "remove" ELSE "count"
    BY DEF PopDestroy, pushVars
  <2> QED BY <2>1 DEF FirstRaw, FirstAlive
<1>4. /\ root \in Blocks /\ firstBlockNextToPop \in Positions
      /\ Blocks \subseteq Nat
      /\ contents \in [Blocks -> [Positions -> Items \cup {Raw}]]
      /\ contents' = [contents EXCEPT ![root][firstBlockNextToPop] = Raw]
  BY <1>1, <1>2 DEF TypeOK, Chain, PopDestroy
<1>5. TypeOK'
  <2>1. contents' \in [Blocks -> [Positions -> Items \cup {Raw}]]
    BY <1>4
  <2>2. firstBlockNextToPop' \in Nat
    BY <1>2, <1>3
  <2> QED BY <2>1, <2>2, <1>1, <1>3 DEF TypeOK
<1>6. Chain'
  BY <1>1, <1>3 DEF Chain
<1>7. Ends'
  BY <1>1, <1>2, <1>3 DEF Ends
<1>8. Cells'
  <2>1. ASSUME NEW b \in Blocks, NEW p \in Positions
        PROVE  /\ frontSequenceNumber + 1 <= b + p /\ b + p < FirstRaw =>
                    contents'[b][p] = pushed[b + p]
               /\ b + p >= FirstRaw => contents'[b][p] = Raw
    <3>1. CASE b = root /\ p = firstBlockNextToPop
      <4>1. contents'[b][p] = Raw /\ b + p = frontSequenceNumber
        BY <3>1, <1>2, <1>4
      <4> QED BY <4>1, <1>2
    <3>2. CASE ~(b = root /\ p = firstBlockNextToPop)
      <4>1. contents'[b][p] = contents[b][p]
        BY <3>2, <1>4
      <4>2. /\ frontSequenceNumber <= b + p /\ b + p < FirstRaw =>
                 contents[b][p] = pushed[b + p]
            /\ b + p >= FirstRaw => contents[b][p] = Raw
        BY <1>1, <1>2 DEF Cells
      <4>3. b + p \in Nat
        BY <1>1, <1>4
      <4> QED BY <4>1, <4>2, <4>3, <1>2
    <3> QED BY <3>1, <3>2
  <2> QED BY <2>1, <1>3 DEF Cells
<1>9. ASSUME NEW r \in Readers PROVE IteratorInv(r)'
  <2>1. iterator[r] # Unused =>
          iterator[r].seq > frontSequenceNumber /\ iterator[r].seq \in Nat
    BY <1>1 DEF MayPop, TypeOK
  <2>2. iterator[r] # Unused => frontSequenceNumber + 1 <= iterator[r].seq
    BY <2>1, <1>2
  <2> QED BY <2>2, <1>1, <1>3 DEF IteratorInv
<1> QED BY <1>5, <1>6, <1>7, <1>8, <1>9 DEF QueueInv

\* The block that is dropped is used up, is not the last one, and no iterator
\* points into it.
LEMMA PopRemoveRootStep == ASSUME QueueInv, PopRemoveRoot PROVE QueueInv'
<1>1. /\ TypeOK /\ Chain /\ Ends /\ Cells /\ \A r \in Readers : IteratorInv(r)
      /\ BlockSize \in Nat \ {0}
  BY BlockSizeAssumption DEF QueueInv
<1>2. /\ root \in Nat /\ lastBlock \in Nat /\ lastBlockNextPos \in Nat
      /\ nextSequenceNumber \in Nat /\ frontSequenceNumber \in Nat
      /\ FirstAlive = root + BlockSize
      /\ root + BlockSize <= nextSequenceNumber
  <2>1. popping = "remove" /\ firstBlockNextToPop = BlockSize
    BY <1>1 DEF PopRemoveRoot, Ends
  <2> QED BY <2>1, <1>1 DEF TypeOK, Ends
<1>3. root # lastBlock
  <2>1. CASE pushing = "allocate"
    <3>1. lastBlock + BlockSize = nextSequenceNumber + 1
      BY <2>1, <1>1 DEF Ends, FirstRaw
    <3> QED BY <3>1, <1>1, <1>2
  <2>2. CASE pushing # "allocate"
    <3>1. FirstRaw \in Nat /\ FirstRaw >= nextSequenceNumber
      BY <1>2 DEF FirstRaw
    <3>2. /\ lastBlockNextPos # BlockSize /\ lastBlockNextPos <= BlockSize
          /\ lastBlock + lastBlockNextPos = FirstRaw
      BY <2>2, <1>1 DEF Ends
    <3> QED BY <3>1, <3>2, <1>1, <1>2
  <2> QED BY <2>1, <2>2
<1>4. /\ root' = root + BlockSize
      /\ root + BlockSize \in Blocks
      /\ root + BlockSize # root
  BY <1>1, <1>2, <1>3 DEF PopRemoveRoot, Chain
<1>5. /\ UNCHANGED <<lastBlock, lastBlockNextPos, nextSequenceNumber, pushing,
                     pushed, frontSequenceNumber, iterator>>
      /\ firstBlockNextToPop' = 0 /\ popping' = "count"
      /\ FirstRaw' = FirstRaw /\ FirstAlive' = FirstAlive
  BY DEF PopRemoveRoot, pushVars, FirstRaw, FirstAlive
<1>6. /\ Blocks' = Blocks \ {root}
      /\ next' = [b \in Blocks \ {root} |-> next[b]]
      /\ contents' = [b \in Blocks \ {root} |-> contents[b]]
  BY <1>1 DEF PopRemoveRoot, TypeOK
<1>7. TypeOK'
  <2>1. contents' \in [Blocks' -> [Positions -> Items \cup {Raw}]]
    BY <1>1, <1>6 DEF TypeOK
  <2>2. next' \in [Blocks' -> Int] /\ Blocks' \subseteq Nat
    BY <1>1, <1>6 DEF TypeOK
  <2>3. root' \in Nat
    BY <1>1, <1>2, <1>4
  <2> QED BY <2>1, <2>2, <2>3, <1>1, <1>5 DEF TypeOK
<1>8. Chain'
  <2>1. root' \in Blocks' /\ lastBlock \in Blocks'
    BY <1>1, <1>3, <1>4, <1>6 DEF Chain
  <2>2. ASSUME NEW b \in Blocks'
        PROVE  /\ root' <= b /\ b <= lastBlock
               /\ b = lastBlock => next'[b] = NullBlock
               /\ b # lastBlock => next'[b] = b + BlockSize /\ b + BlockSize \in Blocks'
    <3>1. b \in Blocks /\ b # root /\ next'[b] = next[b] /\ b \in Nat
      BY <1>1, <1>6 DEF TypeOK
    <3>2. root \in Blocks /\ root <= b /\ b <= lastBlock
      BY <3>1, <1>1 DEF Chain
    <3>3. root < b
      BY <3>1, <3>2, <1>2
    <3>4. root + BlockSize <= b
      BY <3>1, <3>2, <3>3, <1>1 DEF Chain
    <3>5. b = lastBlock => next[b] = NullBlock
      BY <3>1, <1>1 DEF Chain
    <3>6. b # lastBlock => next[b] = b + BlockSize /\ b + BlockSize \in Blocks
      BY <3>1, <1>1 DEF Chain
    <3>7. b + BlockSize # root
      BY <3>1, <3>3, <1>1, <1>2
    <3> QED BY <3>1, <3>2, <3>4, <3>5, <3>6, <3>7, <1>4, <1>6
  <2>3. ASSUME NEW b \in Blocks', NEW c \in Blocks', b < c
        PROVE  b + BlockSize <= c
    BY <2>3, <1>1, <1>6 DEF Chain
  <2> QED BY <2>1, <2>2, <2>3, <1>5 DEF Chain
<1>9. Ends'
  <2>1. root' + 0 = FirstAlive
    BY <1>1, <1>2, <1>4
  <2> QED BY <2>1, <1>1, <1>5 DEF Ends
<1>10. Cells'
  <2>1. ASSUME NEW b \in Blocks' PROVE b \in Blocks /\ contents'[b] = contents[b]
    BY <1>6
  <2> QED BY <2>1, <1>1, <1>5 DEF Cells
<1>11. ASSUME NEW r \in Readers, iterator[r] # Unused
       PROVE  iterator[r].block \in Blocks'
  <2>1. /\ iterator[r].block \in Blocks /\ iterator[r].pos \in Positions
        /\ iterator[r].seq = iterator[r].block + iterator[r].pos
        /\ FirstAlive <= iterator[r].seq
    BY <1>1, <1>11 DEF IteratorInv
  <2>2. iterator[r].block # root
    BY <2>1, <1>1, <1>2
  <2> QED BY <2>1, <2>2, <1>6
<1>12. ASSUME NEW r \in Readers PROVE IteratorInv(r)'
  BY <1>1, <1>5, <1>11 DEF IteratorInv
<1> QED BY <1>7, <1>8, <1>9, <1>10, <1>12 DEF QueueInv

\* Counting destroys no object.
LEMMA PopCountStep == ASSUME QueueInv, PopCount PROVE QueueInv'
<1>1. /\ TypeOK /\ Chain /\ Ends /\ Cells /\ \A r \in Readers : IteratorInv(r)
  BY DEF QueueInv
<1>2. /\ UNCHANGED <<next, contents, lastBlock, lastBlockNextPos,
                     nextSequenceNumber, pushing, pushed, root,
                     firstBlockNextToPop, iterator>>
      /\ frontSequenceNumber' = frontSequenceNumber + 1
      /\ popping = "count" /\ popping' = "no"
      /\ FirstRaw' = FirstRaw
  BY DEF PopCount, blockVars, pushVars, FirstRaw
<1>3. frontSequenceNumber' \in Nat /\ FirstAlive' = FirstAlive
  BY <1>1, <1>2 DEF TypeOK, FirstAlive
<1>4. TypeOK'
  BY <1>1, <1>2, <1>3 DEF TypeOK
<1>5. Chain'
  BY <1>1, <1>2 DEF Chain
<1>6. Ends'
  BY <1>1, <1>2, <1>3 DEF Ends
<1>7. Cells'
  BY <1>1, <1>2, <1>3 DEF Cells
<1>8. ASSUME NEW r \in Readers PROVE IteratorInv(r)'
  BY <1>1, <1>2, <1>3 DEF IteratorInv
<1> QED BY <1>4, <1>5, <1>6, <1>7, <1>8 DEF QueueInv

\* An iterator starts at the front, which is allocated.
LEMMA BeginStep ==
  ASSUME QueueInv, NEW q \in Readers, Begin(q)
  PROVE  QueueInv'
<1>1. /\ TypeOK /\ Chain /\ Ends /\ Cells /\ \A r \in Readers : IteratorInv(r)
      /\ BlockSize \in Nat \ {0}
  BY BlockSizeAssumption DEF QueueInv
<1>2. /\ UNCHANGED <<next, contents, lastBlock, lastBlockNextPos,
                     nextSequenceNumber, pushing, pushed, root,
                     firstBlockNextToPop, frontSequenceNumber, popping>>
      /\ FirstRaw' = FirstRaw /\ FirstAlive' = FirstAlive
  BY DEF Begin, blockVars, pushVars, popVars, FirstRaw, FirstAlive
<1>3. /\ iterator \in [Readers -> [block : Int, pos : Nat, seq : Nat]]
      /\ iterator' = [iterator EXCEPT ![q] = [block |-> root,
                                              pos |-> firstBlockNextToPop,
                                              seq |-> frontSequenceNumber]]
  BY <1>1 DEF Begin, TypeOK
<1>4. /\ root \in Blocks /\ root \in Nat
      /\ firstBlockNextToPop \in Nat /\ firstBlockNextToPop < BlockSize
      /\ frontSequenceNumber \in Nat
      /\ frontSequenceNumber = root + firstBlockNextToPop
      /\ FirstAlive = frontSequenceNumber
      /\ frontSequenceNumber <= nextSequenceNumber
  <2>1. popping = "no"
    BY DEF Begin
  <2>2. firstBlockNextToPop # BlockSize
    BY <2>1, <1>1 DEF Ends
  <2> QED BY <2>1, <2>2, <1>1 DEF TypeOK, Chain, Ends, FirstAlive
<1>5. TypeOK'
  <2>1. iterator' \in [Readers -> [block : Int, pos : Nat, seq : Nat]]
    BY <1>3, <1>4
  <2> QED BY <2>1, <1>1, <1>2 DEF TypeOK
<1>6. Chain' /\ Ends' /\ Cells'
  BY <1>1, <1>2 DEF Chain, Ends, Cells
<1>7. ASSUME NEW r \in Readers PROVE IteratorInv(r)'
  <2>1. CASE r = q
    <3>1. /\ iterator'[r].block = root
          /\ iterator'[r].pos = firstBlockNextToPop
          /\ iterator'[r].seq = frontSequenceNumber
      BY <2>1, <1>3
    <3>2. firstBlockNextToPop \in Positions
      BY <1>1, <1>4
    <3> QED BY <3>1, <3>2, <1>2, <1>4 DEF IteratorInv
  <2>2. CASE r # q
    <3>1. iterator'[r] = iterator[r]
      BY <2>2, <1>3
    <3> QED BY <3>1, <1>1, <1>2 DEF IteratorInv
  <2> QED BY <2>1, <2>2
<1> QED BY <1>5, <1>6, <1>7 DEF QueueInv

\* An iterator that leaves an item behind finds the next block in place: by the
\* time an item has its number, the block after its own has been allocated.
LEMMA IteratorNextStep ==
  ASSUME QueueInv, NEW q \in Readers, IteratorNext(q)
  PROVE  QueueInv'
<1> DEFINE i == iterator[q]
<1>1. /\ TypeOK /\ Chain /\ Ends /\ Cells /\ \A r \in Readers : IteratorInv(r)
      /\ BlockSize \in Nat \ {0}
  BY BlockSizeAssumption DEF QueueInv
<1>2. /\ UNCHANGED <<next, contents, lastBlock, lastBlockNextPos,
                     nextSequenceNumber, pushing, pushed, root,
                     firstBlockNextToPop, frontSequenceNumber, popping>>
      /\ FirstRaw' = FirstRaw /\ FirstAlive' = FirstAlive
  BY DEF IteratorNext, blockVars, pushVars, popVars, FirstRaw, FirstAlive
<1>3. /\ i.block \in Blocks /\ i.block \in Nat
      /\ i.pos \in Nat /\ i.pos < BlockSize
      /\ i.seq = i.block + i.pos
      /\ i.seq \in Nat /\ i.seq < nextSequenceNumber
      /\ FirstAlive <= i.seq
  <2>1. i # Unused /\ i.seq < nextSequenceNumber
    BY DEF IteratorNext, Arrived
  <2> QED BY <2>1, <1>1 DEF TypeOK, IteratorInv
<1>4. /\ nextSequenceNumber \in Nat /\ FirstAlive \in Nat
      /\ lastBlock \in Nat /\ lastBlockNextPos \in Nat
  BY <1>1 DEF TypeOK, FirstAlive
<1>5. i.pos + 1 = BlockSize => i.block # lastBlock
  <2>1. CASE pushing = "allocate"
    <3>1. lastBlock + BlockSize = nextSequenceNumber + 1
      BY <2>1, <1>1 DEF Ends, FirstRaw
    <3>2. i.pos + 1 = BlockSize => i.block + BlockSize = i.seq + 1
      BY <1>3
    <3> QED BY <3>1, <3>2, <1>1, <1>3, <1>4
  <2>2. CASE pushing # "allocate"
    <3>1. FirstRaw \in Nat /\ FirstRaw >= nextSequenceNumber
      BY <1>4 DEF FirstRaw
    <3>2. /\ lastBlockNextPos # BlockSize /\ lastBlockNextPos <= BlockSize
          /\ lastBlock + lastBlockNextPos = FirstRaw
      BY <2>2, <1>1 DEF Ends
    <3> QED BY <3>1, <3>2, <1>1, <1>3, <1>4
  <2> QED BY <2>1, <2>2
<1>6. PICK j \in [block : Int, pos : Nat, seq : Nat] :
        /\ iterator' = [iterator EXCEPT ![q] = j]
        /\ j.block \in Blocks /\ j.pos \in Positions
        /\ j.seq = i.seq + 1 /\ j.seq = j.block + j.pos
  <2>1. CASE i.pos + 1 = BlockSize
    <3> DEFINE j == [block |-> next[i.block], pos |-> 0, seq |-> i.seq + 1]
    <3>1. iterator' = [iterator EXCEPT ![q] = j]
      BY <2>1 DEF IteratorNext
    <3>2. next[i.block] = i.block + BlockSize /\ i.block + BlockSize \in Blocks
      BY <2>1, <1>1, <1>3, <1>5 DEF Chain
    <3>3. j.block = i.block + BlockSize /\ j.pos = 0 /\ j.seq = i.seq + 1
      BY <3>2
    <3>4. i.seq + 1 = i.block + BlockSize
      BY <2>1, <1>3
    <3>5. 0 \in Positions
      BY <1>1
    <3>6. j \in [block : Int, pos : Nat, seq : Nat]
      BY <3>2, <1>1, <1>3
    <3>7. j.seq = j.block + j.pos
      BY <3>3, <3>4, <1>1, <1>3
    <3> QED BY <3>1, <3>2, <3>3, <3>5, <3>6, <3>7
  <2>2. CASE i.pos + 1 # BlockSize
    <3> DEFINE j == [block |-> i.block, pos |-> i.pos + 1, seq |-> i.seq + 1]
    <3>1. iterator' = [iterator EXCEPT ![q] = j]
      BY <2>2 DEF IteratorNext
    <3>2. j.block = i.block /\ j.pos = i.pos + 1 /\ j.seq = i.seq + 1
      OBVIOUS
    <3>3. i.pos + 1 \in Positions
      BY <2>2, <1>1, <1>3
    <3>4. j \in [block : Int, pos : Nat, seq : Nat]
      BY <1>3
    <3>5. j.seq = j.block + j.pos
      BY <3>2, <1>3
    <3> QED BY <3>1, <3>2, <3>3, <3>4, <3>5, <1>3
  <2> QED BY <2>1, <2>2
<1>7. iterator \in [Readers -> [block : Int, pos : Nat, seq : Nat]]
  BY <1>1 DEF TypeOK
<1>8. TypeOK'
  <2>1. iterator' \in [Readers -> [block : Int, pos : Nat, seq : Nat]]
    BY <1>6, <1>7
  <2> QED BY <2>1, <1>1, <1>2 DEF TypeOK
<1>9. Chain' /\ Ends' /\ Cells'
  BY <1>1, <1>2 DEF Chain, Ends, Cells
<1>10. ASSUME NEW r \in Readers PROVE IteratorInv(r)'
  <2>1. CASE r = q
    <3>1. iterator'[r] = j
      BY <2>1, <1>6, <1>7
    <3>2. FirstAlive <= j.seq /\ j.seq <= nextSequenceNumber
      BY <1>3, <1>4, <1>6
    <3> QED BY <3>1, <3>2, <1>2, <1>6 DEF IteratorInv
  <2>2. CASE r # q
    <3>1. iterator'[r] = iterator[r]
      BY <2>2, <1>6, <1>7
    <3> QED BY <3>1, <1>1, <1>2 DEF IteratorInv
  <2> QED BY <2>1, <2>2
<1> QED BY <1>8, <1>9, <1>10 DEF QueueInv

\* QueueInv is inductive.
LEMMA NextQueueInv == QueueInv /\ [Next]_queueVars => QueueInv'
<1> SUFFICES ASSUME QueueInv, [Next]_queueVars PROVE QueueInv'
  OBVIOUS
<1>1. CASE Push
  BY <1>1, PushConstructStep, PushAllocateStep, PushNumberStep DEF Push
<1>2. CASE Pop
  BY <1>2, PopDestroyStep, PopRemoveRootStep, PopCountStep DEF Pop
<1>3. CASE \E r \in Readers : Read(r)
  BY <1>3, BeginStep, IteratorNextStep DEF Read
<1>4. CASE Reset
  BY <1>4, ResetStep
<1>5. CASE UNCHANGED queueVars
  BY <1>5
  DEF queueVars, blockVars, pushVars, popVars, QueueInv, TypeOK, Chain, Ends,
      Cells, IteratorInv, FirstAlive, FirstRaw
<1> QED BY <1>1, <1>2, <1>3, <1>4, <1>5 DEF Next

\* QueueInv always holds, whatever threads do within the class's contract.
THEOREM QueueInvHolds == Spec => []QueueInv
BY InitQueueInv, NextQueueInv, PTL DEF Spec

-----------------------------------------------------------------------------
(* What follows for users of the queue *)

\* Pointers, positions and counters of the queue (constructor, emplace_back(),
\* pop_front(), begin(), next(), reset()) keep their types.
THEOREM TypeCorrect == Spec => []TypeOK
<1>1. QueueInv => TypeOK
  BY DEF QueueInv
<1> QED BY <1>1, QueueInvHolds, PTL

\* Iterator::next() and item() stay in allocated memory, and an iterator whose
\* item has arrived reads the object emplace_back() put in under its number.
THEOREM IteratorsAreSafe == Spec => []IteratorsReadWhatWasPushed
<1>1. QueueInv => IteratorsReadWhatWasPushed
  <2> SUFFICES ASSUME QueueInv, NEW r \in Readers, iterator[r] # Unused
               PROVE  /\ iterator[r].block \in Blocks
                      /\ iterator[r].pos \in Positions
                      /\ iterator[r].seq < nextSequenceNumber =>
                           Object(iterator[r].block, iterator[r].pos)
                             = pushed[iterator[r].seq]
    BY DEF IteratorsReadWhatWasPushed
  <2>1. /\ iterator[r].block \in Blocks
        /\ iterator[r].pos \in Positions
        /\ iterator[r].seq = iterator[r].block + iterator[r].pos
        /\ FirstAlive <= iterator[r].seq
    BY DEF QueueInv, IteratorInv
  <2>2. iterator[r].seq \in Nat /\ nextSequenceNumber \in Nat
    BY DEF QueueInv, TypeOK
  <2>3. iterator[r].seq < nextSequenceNumber => iterator[r].seq < FirstRaw
    BY <2>2 DEF FirstRaw
  <2> QED BY <2>1, <2>3 DEF QueueInv, Cells
<1> QED BY <1>1, QueueInvHolds, PTL

\* front() and pop_front() find the oldest object that has not been popped.
THEOREM FrontIsSafe == Spec => []FrontIsOldest
<1>1. QueueInv => FrontIsOldest
  <2> SUFFICES ASSUME QueueInv, popping = "no",
                      frontSequenceNumber < nextSequenceNumber
               PROVE  /\ root \in Blocks /\ firstBlockNextToPop \in Positions
                      /\ Object(root, firstBlockNextToPop)
                           = pushed[frontSequenceNumber]
    BY DEF FrontIsOldest
  <2>1. /\ frontSequenceNumber \in Nat /\ nextSequenceNumber \in Nat
        /\ root \in Blocks /\ root \in Nat
        /\ firstBlockNextToPop \in Nat
    BY DEF QueueInv, TypeOK, Chain
  <2>2. /\ FirstAlive = frontSequenceNumber
        /\ root + firstBlockNextToPop = frontSequenceNumber
        /\ firstBlockNextToPop <= BlockSize /\ firstBlockNextToPop # BlockSize
    BY <2>1 DEF QueueInv, Ends, FirstAlive
  <2>3. frontSequenceNumber < FirstRaw
    BY <2>1 DEF FirstRaw
  <2>4. firstBlockNextToPop \in Positions
    BY <2>1, <2>2, BlockSizeAssumption
  <2>5. Object(root, firstBlockNextToPop) = pushed[root + firstBlockNextToPop]
    BY <2>1, <2>2, <2>3, <2>4 DEF QueueInv, Cells
  <2> QED BY <2>1, <2>2, <2>4, <2>5
<1> QED BY <1>1, QueueInvHolds, PTL

\* emplace_back() constructs each object in allocated memory that holds none.
THEOREM PushesAreSafe == Spec => []PushesIntoRawMemory
<1>1. QueueInv => PushesIntoRawMemory
  <2> SUFFICES ASSUME QueueInv, pushing = "no"
               PROVE  /\ lastBlock \in Blocks /\ lastBlockNextPos \in Positions
                      /\ Object(lastBlock, lastBlockNextPos) = Raw
    BY DEF PushesIntoRawMemory
  <2>1. /\ lastBlock \in Blocks /\ lastBlock \in Nat
        /\ lastBlockNextPos \in Nat /\ nextSequenceNumber \in Nat
    BY DEF QueueInv, TypeOK, Chain
  <2>2. /\ lastBlock + lastBlockNextPos = FirstRaw
        /\ lastBlockNextPos <= BlockSize /\ lastBlockNextPos # BlockSize
    BY DEF QueueInv, Ends
  <2>3. lastBlockNextPos \in Positions
    BY <2>1, <2>2, BlockSizeAssumption
  <2>4. lastBlock + lastBlockNextPos >= FirstRaw
    BY <2>1, <2>2
  <2> QED BY <2>1, <2>3, <2>4 DEF QueueInv, Cells
<1> QED BY <1>1, QueueInvHolds, PTL
-----------------------------------------------------------------------------
(* The queue implements NumberedQueue: with blocks of any size, pushes and    *)
(* pops under way at the same time, and any number of iterators, its users    *)
(* see items numbered in the order they were put in, the oldest leaving first. *)
(* Two facts QueueInv does not have:                                           *)

\* No number between the first block and the end of the last one is in no block.
Covered ==
  \A s \in root .. lastBlock + BlockSize - 1 :
    \E b \in Blocks : s \in b .. b + BlockSize - 1

\* What has been put in were items.
PushedItems == \A s \in DOMAIN pushed : pushed[s] \in Items

RefinementInv == QueueInv /\ Covered /\ PushedItems

LEMMA Bounds ==
  ASSUME QueueInv
  PROVE  /\ BlockSize \in Nat /\ BlockSize >= 1
         /\ root \in Nat /\ lastBlock \in Nat /\ root <= lastBlock
         /\ nextSequenceNumber \in Nat /\ frontSequenceNumber \in Nat
         /\ FirstAlive \in Nat /\ FirstAlive <= nextSequenceNumber
         /\ root <= FirstAlive
         /\ FirstRaw \in Nat /\ FirstRaw <= lastBlock + BlockSize
         /\ nextSequenceNumber <= FirstRaw
         /\ DOMAIN pushed = 0 .. FirstRaw - 1
<1>1. /\ BlockSize \in Nat /\ BlockSize >= 1
      /\ root \in Nat /\ lastBlock \in Nat
      /\ nextSequenceNumber \in Nat /\ frontSequenceNumber \in Nat
      /\ firstBlockNextToPop \in Nat /\ lastBlockNextPos \in Nat
  BY BlockSizeAssumption DEF QueueInv, TypeOK
<1>2. root <= lastBlock
  BY DEF QueueInv, Chain
<1> QED BY <1>1, <1>2 DEF QueueInv, Ends, FirstAlive, FirstRaw

LEMMA InitRefinementInv == Init => RefinementInv
<1> SUFFICES ASSUME Init PROVE RefinementInv
  OBVIOUS
<1>1. QueueInv
  BY InitQueueInv
<1>2. Covered /\ PushedItems
  BY BlockSizeAssumption DEF Init, Covered, PushedItems, Blocks
<1> QED BY <1>1, <1>2 DEF RefinementInv

LEMMA NextRefinementInv == RefinementInv /\ [Next]_queueVars => RefinementInv'
<1> SUFFICES ASSUME RefinementInv, [Next]_queueVars PROVE RefinementInv'
  OBVIOUS
<1>1. QueueInv' /\ QueueInv /\ Covered /\ PushedItems
  BY NextQueueInv DEF RefinementInv
<1>2. BlockSize \in Nat /\ BlockSize >= 1 /\ root \in Nat /\ lastBlock \in Nat
  BY <1>1, Bounds
<1>3. CASE UNCHANGED <<next, root, lastBlock, pushed>>
  BY <1>1, <1>3 DEF RefinementInv, Covered, PushedItems, Blocks
<1>4. ASSUME NEW item \in Items, PushConstruct(item) PROVE RefinementInv'
  <2>1. UNCHANGED <<next, root, lastBlock>>
    BY <1>4 DEF PushConstruct, popVars
  <2>2. pushed' = [s \in DOMAIN pushed \cup {nextSequenceNumber} |->
                     IF s = nextSequenceNumber THEN item ELSE pushed[s]]
    BY <1>4 DEF PushConstruct
  <2>3. PushedItems'
    BY <1>1, <2>2 DEF PushedItems
  <2> QED BY <1>1, <2>1, <2>3 DEF RefinementInv, Covered, Blocks
<1>5. CASE PushAllocate
  <2>1. /\ Blocks' = Blocks \cup {lastBlock + BlockSize}
        /\ lastBlock' = lastBlock + BlockSize
        /\ UNCHANGED <<root, pushed>>
    BY <1>5 DEF PushAllocate, Blocks, popVars
  <2>2. ASSUME NEW s \in root' .. lastBlock' + BlockSize - 1
        PROVE  \E b \in Blocks' : s \in b .. b + BlockSize - 1
    <3>1. CASE s < lastBlock + BlockSize
      <4>1. s \in root .. lastBlock + BlockSize - 1
        BY <1>2, <2>1, <3>1
      <4> QED BY <1>1, <2>1, <4>1 DEF Covered
    <3>2. CASE ~(s < lastBlock + BlockSize)
      <4>1. s \in lastBlock' .. lastBlock' + BlockSize - 1
        BY <1>2, <2>1, <3>2
      <4> QED BY <2>1, <4>1
    <3> QED BY <3>1, <3>2
  <2> QED BY <1>1, <2>1, <2>2 DEF RefinementInv, Covered, PushedItems
<1>6. CASE PopRemoveRoot
  <2>1. /\ Blocks' = Blocks \ {root} /\ root' = next[root]
        /\ UNCHANGED <<lastBlock, pushed>>
    BY <1>6 DEF PopRemoveRoot, Blocks, pushVars
  <2>2. root' \in Nat
    BY <1>1 DEF QueueInv, TypeOK
  <2>3. root' = root + BlockSize
    BY <1>1, <1>2, <2>1, <2>2 DEF QueueInv, Chain, NullBlock
  <2>4. ASSUME NEW s \in root' .. lastBlock' + BlockSize - 1
        PROVE  \E b \in Blocks' : s \in b .. b + BlockSize - 1
    <3>1. s \in root .. lastBlock + BlockSize - 1 /\ s >= root + BlockSize
      BY <1>2, <2>1, <2>3
    <3>2. PICK b \in Blocks : s \in b .. b + BlockSize - 1
      BY <1>1, <3>1 DEF Covered
    <3>3. b # root
      BY <1>2, <3>1, <3>2
    <3> QED BY <2>1, <3>2, <3>3
  <2> QED BY <1>1, <2>1, <2>4 DEF RefinementInv, Covered, PushedItems
<1>7. CASE Reset
  BY <1>1, <1>7, BlockSizeAssumption
  DEF Reset, RefinementInv, Covered, PushedItems, Blocks
<1>8. CASE PushNumber \/ PopDestroy \/ PopCount \/ UNCHANGED queueVars
  BY <1>3, <1>8 DEF PushNumber, PopDestroy, PopCount, queueVars, blockVars, pushVars, popVars
<1>9. CASE \E r \in Readers : Read(r)
  BY <1>3, <1>9 DEF Read, Begin, IteratorNext, blockVars, pushVars, popVars
<1> QED BY <1>4, <1>5, <1>6, <1>7, <1>8, <1>9 DEF Next, Push, Pop

-----------------------------------------------------------------------------
(* What users see                                                            *)

Seen == [s \in FirstAlive .. nextSequenceNumber - 1 |->
           Object(BlockOf(s), s - BlockOf(s))]

Numbers == [s \in FirstAlive .. nextSequenceNumber - 1 |-> pushed[s]]

\* The object found in the block of a number is the one put in under it.
LEMMA SeenAsNumbered == RefinementInv => Seen = Numbers
<1> SUFFICES ASSUME RefinementInv, NEW s \in FirstAlive .. nextSequenceNumber - 1
             PROVE  Object(BlockOf(s), s - BlockOf(s)) = pushed[s]
  BY DEF Seen, Numbers
<1>1. QueueInv /\ Covered
  BY DEF RefinementInv
<1>2. /\ s \in Int /\ FirstAlive <= s /\ s < FirstRaw
      /\ s \in root .. lastBlock + BlockSize - 1
  BY <1>1, Bounds
<1>3. \E b \in Blocks : s \in b .. b + BlockSize - 1
  BY <1>1, <1>2 DEF Covered
<1>4. BlockOf(s) \in Blocks /\ s \in BlockOf(s) .. BlockOf(s) + BlockSize - 1
  BY <1>3 DEF BlockOf
<1> DEFINE b == BlockOf(s)
<1> HIDE DEF b
<1>5. b \in Blocks /\ s \in b .. b + BlockSize - 1
  BY <1>4 DEF b
<1>6. b \in Nat /\ BlockSize \in Nat
  BY <1>1, <1>5, Bounds DEF QueueInv, TypeOK
<1>7. s - b \in Positions /\ b + (s - b) = s
  BY <1>2, <1>5, <1>6 DEF Positions
<1>8. Object(b, s - b) = pushed[b + (s - b)]
  BY <1>1, <1>2, <1>5, <1>7 DEF QueueInv, Cells
<1> QED BY <1>7, <1>8 DEF b

\* Three ways a step can look to users, besides that nothing happened.
Puts(item) ==
  /\ Numbers' = [n \in DOMAIN Numbers \cup {nextSequenceNumber} |->
                   IF n = nextSequenceNumber THEN item ELSE Numbers[n]]
  /\ nextSequenceNumber' = nextSequenceNumber + 1 /\ FirstAlive' = FirstAlive
Drops ==
  /\ FirstAlive < nextSequenceNumber
  /\ Numbers' = [n \in DOMAIN Numbers \ {FirstAlive} |-> Numbers[n]]
  /\ FirstAlive' = FirstAlive + 1 /\ nextSequenceNumber' = nextSequenceNumber
Clears == Numbers' = [n \in {} |-> 0] /\ FirstAlive' = 0 /\ nextSequenceNumber' = 0
Stutters == UNCHANGED <<Numbers, FirstAlive, nextSequenceNumber>>

LEMMA StepSeen ==
  ASSUME RefinementInv, [Next]_queueVars
  PROVE  (\E item \in Items : Puts(item)) \/ Drops \/ Clears \/ Stutters
<1>1. /\ QueueInv /\ PushedItems
      /\ nextSequenceNumber \in Nat /\ frontSequenceNumber \in Nat
      /\ FirstAlive \in Nat /\ FirstAlive <= nextSequenceNumber
      /\ DOMAIN pushed = 0 .. FirstRaw - 1
  BY Bounds DEF RefinementInv
<1>2. CASE UNCHANGED <<pushed, frontSequenceNumber, popping, nextSequenceNumber>>
  BY <1>2 DEF Stutters, Numbers, FirstAlive
<1>3. ASSUME NEW item \in Items, PushConstruct(item) PROVE Stutters
  <2>1. /\ UNCHANGED <<nextSequenceNumber, frontSequenceNumber, popping>>
        /\ pushed' = [s \in DOMAIN pushed \cup {nextSequenceNumber} |->
                        IF s = nextSequenceNumber THEN item ELSE pushed[s]]
        /\ FirstRaw = nextSequenceNumber
    BY <1>1, <1>3 DEF PushConstruct, popVars, FirstRaw
  <2>2. FirstAlive' = FirstAlive
    BY <2>1 DEF FirstAlive
  <2>3. \A s \in FirstAlive .. nextSequenceNumber - 1 : pushed'[s] = pushed[s]
    <3> SUFFICES ASSUME NEW s \in FirstAlive .. nextSequenceNumber - 1
                 PROVE  pushed'[s] = pushed[s]
      OBVIOUS
    <3>1. s \in DOMAIN pushed /\ s # nextSequenceNumber
      BY <1>1, <2>1
    <3> QED BY <2>1, <3>1
  <2> QED BY <2>1, <2>2, <2>3 DEF Stutters, Numbers
<1>4. CASE PushNumber
  <2>1. /\ UNCHANGED <<pushed, frontSequenceNumber, popping>>
        /\ nextSequenceNumber' = nextSequenceNumber + 1
        /\ FirstRaw = nextSequenceNumber + 1
    BY <1>4 DEF PushNumber, popVars, FirstRaw
  <2>2. FirstAlive' = FirstAlive
    BY <2>1 DEF FirstAlive
  <2>3. nextSequenceNumber \in DOMAIN pushed
    BY <1>1, <2>1
  <2>4. pushed[nextSequenceNumber] \in Items
    BY <1>1, <2>3 DEF PushedItems
  <2>5. FirstAlive .. nextSequenceNumber
          = (FirstAlive .. nextSequenceNumber - 1) \cup {nextSequenceNumber}
    BY <1>1
  <2>6. nextSequenceNumber' - 1 = nextSequenceNumber
    BY <1>1, <2>1
  <2>7. Numbers' = [s \in FirstAlive .. nextSequenceNumber |-> pushed[s]]
    BY <2>1, <2>2, <2>6 DEF Numbers
  <2>8. Puts(pushed[nextSequenceNumber])
    BY <2>1, <2>2, <2>5, <2>7 DEF Puts, Numbers
  <2> QED BY <2>4, <2>8
<1>5. CASE MayPop /\ PopDestroy
  <2>1. /\ UNCHANGED <<pushed, frontSequenceNumber, nextSequenceNumber>>
        /\ popping = "no" /\ popping' # "no"
        /\ frontSequenceNumber < nextSequenceNumber
    BY <1>5 DEF MayPop, PopDestroy, pushVars
  <2>2. FirstAlive = frontSequenceNumber /\ FirstAlive' = FirstAlive + 1
    BY <1>1, <2>1 DEF FirstAlive
  <2>3. FirstAlive + 1 .. nextSequenceNumber - 1
          = (FirstAlive .. nextSequenceNumber - 1) \ {FirstAlive}
    BY <1>1
  <2>4. Numbers' = [s \in FirstAlive + 1 .. nextSequenceNumber - 1 |-> pushed[s]]
    BY <2>1, <2>2 DEF Numbers
  <2>5. Drops
    BY <2>1, <2>2, <2>3, <2>4 DEF Drops, Numbers
  <2> QED BY <2>5
<1>6. CASE PopRemoveRoot
  <2>1. /\ UNCHANGED <<pushed, frontSequenceNumber, nextSequenceNumber>>
        /\ popping = "remove" /\ popping' = "count"
    BY <1>6 DEF PopRemoveRoot, pushVars
  <2> QED BY <2>1 DEF Stutters, Numbers, FirstAlive
<1>7. CASE PopCount
  <2>1. /\ UNCHANGED <<pushed, nextSequenceNumber>>
        /\ frontSequenceNumber' = frontSequenceNumber + 1
        /\ popping = "count" /\ popping' = "no"
    BY <1>7 DEF PopCount, pushVars
  <2>2. FirstAlive' = FirstAlive
    BY <1>1, <2>1 DEF FirstAlive
  <2> QED BY <2>1, <2>2 DEF Stutters, Numbers
<1>8. CASE Reset
  <2>1. /\ nextSequenceNumber' = 0 /\ frontSequenceNumber' = 0 /\ popping' = "no"
    BY <1>8 DEF Reset
  <2>2. FirstAlive' = 0
    BY <2>1 DEF FirstAlive
  <2>3. Numbers' = [n \in {} |-> 0]
    BY <2>1, <2>2 DEF Numbers
  <2> QED BY <2>1, <2>2, <2>3 DEF Clears
<1>9. CASE PushAllocate \/ (\E r \in Readers : Read(r)) \/ UNCHANGED queueVars
  BY <1>2, <1>9 DEF PushAllocate, Read, Begin, IteratorNext, queueVars, pushVars, popVars
<1> QED BY <1>3, <1>4, <1>5, <1>6, <1>7, <1>8, <1>9 DEF Next, Push, Pop

-----------------------------------------------------------------------------
LEMMA InitRefines == Init => Numbered!Init
<1> SUFFICES ASSUME Init PROVE Numbered!Init
  OBVIOUS
<1>1. Seen = Numbers
  BY InitRefinementInv, SeenAsNumbered
<1>2. FirstAlive = 0 /\ nextSequenceNumber = 0
  BY DEF Init, FirstAlive
<1>3. Numbers = [n \in {} |-> 0]
  BY <1>2 DEF Numbers
<1> QED BY <1>1, <1>2, <1>3 DEF Numbered!Init, Seen

LEMMA NextRefines ==
  ASSUME RefinementInv, [Next]_queueVars, Seen' = Numbers'
  PROVE  [Numbered!Next]_<<Seen, FirstAlive, nextSequenceNumber>>
<1>1. Seen = Numbers
  BY SeenAsNumbered
<1>2. ASSUME NEW item \in Items, Puts(item) PROVE Numbered!Next
  BY <1>1, <1>2 DEF Numbered!Next, Numbered!Put, Puts, Seen
<1>3. CASE Drops
  BY <1>1, <1>3 DEF Numbered!Next, Numbered!Drop, Drops, Seen
<1>4. CASE Clears
  BY <1>4 DEF Numbered!Next, Numbered!Clear, Clears, Seen
<1>5. CASE Stutters
  BY <1>1, <1>5 DEF Stutters
<1> QED BY <1>2, <1>3, <1>4, <1>5, StepSeen

\* emplace_back(), pop_front(), begin(), next() and reset() together are a queue
\* of numbered items: every step of the list of blocks puts in one item, removes
\* the oldest one, clears the queue, or cannot be seen.
THEOREM QueueRefines == Spec => ImplementsNumberedQueue
<1>1. Spec => []RefinementInv
  BY InitRefinementInv, NextRefinementInv, PTL DEF Spec
<1>2. [](RefinementInv => Seen = Numbers)
  BY SeenAsNumbered, PTL
<1>3. RefinementInv /\ (Seen = Numbers)' /\ [Next]_queueVars
        => [Numbered!Next]_<<Seen, FirstAlive, nextSequenceNumber>>
  BY NextRefines
<1>4. Spec => Numbered!Init /\ [][Numbered!Next]_<<Seen, FirstAlive, nextSequenceNumber>>
  BY <1>1, <1>2, <1>3, InitRefines, PTL DEF Spec
<1> QED BY <1>4, PTL DEF ImplementsNumberedQueue, Numbered!Spec, Seen
=============================================================================
