---------------------------- MODULE NumberedQueue ----------------------------
(***************************************************************************)
(* What ThreadSafeQueue promises: items are numbered in the order they are *)
(* put in; the oldest is removed first; those in between can be looked up   *)
(* by their number.  ConnectionCore.tla describes RequestQueue that way.     *)
(***************************************************************************)
EXTENDS Integers

CONSTANT Items
VARIABLES queue, front, nextNumber

Init == queue = [n \in {} |-> 0] /\ front = 0 /\ nextNumber = 0

Put(item) ==
  /\ queue' = [n \in DOMAIN queue \cup {nextNumber} |->
                 IF n = nextNumber THEN item ELSE queue[n]]
  /\ nextNumber' = nextNumber + 1
  /\ UNCHANGED front

Drop ==
  /\ front < nextNumber
  /\ queue' = [n \in DOMAIN queue \ {front} |-> queue[n]]
  /\ front' = front + 1
  /\ UNCHANGED nextNumber

Clear ==
  /\ queue' = [n \in {} |-> 0]
  /\ front' = 0
  /\ nextNumber' = 0

Next == (\E item \in Items : Put(item)) \/ Drop \/ Clear

Spec == Init /\ [][Next]_<<queue, front, nextNumber>>
=============================================================================
