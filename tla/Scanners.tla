------------------------------- MODULE Scanners -------------------------------
(***************************************************************************)
(* Walking over what the server holds, a batch at a time, while others change  *)
(* it: QScanner, QHash::Iterator, QSet::Iterator, QLocalityHash::Iterator      *)
(* (src/include/qclient/structures, src/src/structures).  The server keeps its *)
(* elements at places in order; a cursor is the first place not read yet.      *)
(***************************************************************************)
EXTENDS Integers, Sequences, FiniteSets, SequencesExt

CONSTANTS
  Places,         \* number of places at the server, some of them empty
  ScanValues,
  ScanCount,      \* COUNT of a request: the places one batch looks at
  MaxChanges,     \* bound on what others change meanwhile
  MaxTrouble      \* bound on null and malformed replies
ASSUME ScannersAssumption == Places \in Nat /\ ScanCount \in Nat \ {0}

VARIABLES
  kind,           \* which of the four
  held,           \* place -> value, or Absent
  iterator,       \* cursor, reachedEnd, results, it, mError
  filling,        \* fillFromBackend() waits for a reply
  visited,        \* elements the caller was shown
  always, ever,   \* elements there all the time, and at some time
  changes, trouble

scannerVars == <<kind, held, iterator, filling, visited, always, ever, changes, trouble>>

NotThere == 0
Kinds == {"QScanner", "QHash", "QSet", "QLocalityHash"}
End == 0                      \* the cursor "0": the start of a scan, and its end
Element(p) == <<p, held[p]>>
Elements == {Element(p) : p \in {p \in 1 .. Places : held[p] # NotThere}}

ScannerInit ==
  /\ kind \in Kinds
  /\ held \in [1 .. Places -> ScanValues \cup {NotThere}]
  /\ iterator = [cursor |-> End, reachedEnd |-> FALSE, results |-> <<>>, it |-> 0,
                 mError |-> FALSE, usable |-> TRUE]
  /\ filling = TRUE           \* the constructor fills from the backend
  /\ visited = <<>> /\ always = Elements /\ ever = Elements
  /\ changes = 0 /\ trouble = 0

-----------------------------------------------------------------------------
(* The iterators.  QSet::Iterator keeps its batch and a place in it; the others *)
(* take elements off the batch.                                                *)

Exhausted(i) == i.it = Len(i.results)
Current(i) == i.results[i.it + 1]
NeedsMore(i) == ~i.reachedEnd /\ ~i.mError /\ Exhausted(i)

ScannerValid == ~iterator.mError /\ ~Exhausted(iterator)

\* The loop of fillFromBackend()
Filled(i) == /\ iterator' = i
             /\ filling' = NeedsMore(i)

Batch ==
  LET first == iterator.cursor + 1
      last == IF first + ScanCount - 1 > Places THEN Places ELSE first + ScanCount - 1
      there == {p \in first .. last : held[p] # NotThere}
  IN [elements |-> [n \in 1 .. Cardinality(there) |->
                      Element(CHOOSE p \in there :
                        Cardinality({q \in there : q <= p}) = n)],
      next |-> IF last = Places THEN End ELSE last]

\* Mutant: a batch without elements is taken for the last.
ReceiveStopsWhenEmpty ==
  /\ filling
  /\ Filled([iterator EXCEPT !.results = Batch.elements, !.it = 0,
               !.cursor = Batch.next,
               !.reachedEnd = Batch.next = End \/ Batch.elements = <<>>])
  /\ UNCHANGED <<kind, held, visited, always, ever, changes, trouble>>

Receive ==
  /\ filling
  /\ Filled([iterator EXCEPT !.results = Batch.elements, !.it = 0,
               !.cursor = Batch.next, !.reachedEnd = Batch.next = End])
  /\ UNCHANGED <<kind, held, visited, always, ever, changes, trouble>>

\* A null reply raises an exception, in the constructor too: then there is no
\* iterator.  QLocalityHash keeps the error instead.
ReceiveNull ==
  /\ filling /\ trouble < MaxTrouble
  /\ trouble' = trouble + 1
  /\ filling' = FALSE
  /\ iterator' = IF kind = "QLocalityHash" THEN [iterator EXCEPT !.mError = TRUE]
                 ELSE [iterator EXCEPT !.usable = visited # <<>>]
  /\ UNCHANGED <<kind, held, visited, always, ever, changes>>

\* Only QLocalityHash looks at the types of a reply; the cursor may be taken
\* before the fault is found, and some of the elements.
ReceiveMalformed ==
  /\ kind = "QLocalityHash" /\ filling /\ trouble < MaxTrouble
  /\ trouble' = trouble + 1
  /\ \/ Filled([iterator EXCEPT !.mError = TRUE])
     \/ \E n \in 0 .. Len(Batch.elements) :
          Filled([iterator EXCEPT !.mError = TRUE, !.cursor = Batch.next,
                    !.reachedEnd = Batch.next = End, !.it = 0,
                    !.results = SubSeq(Batch.elements, 1, n)])
  /\ UNCHANGED <<kind, held, visited, always, ever, changes>>

\* The caller looks at the element and calls next().
Advance ==
  /\ ScannerValid /\ ~filling
  /\ visited' = Append(visited, Current(iterator))
  /\ Filled(IF kind = "QSet" THEN [iterator EXCEPT !.it = @ + 1]
            ELSE [iterator EXCEPT !.results = Tail(@)])
  /\ UNCHANGED <<kind, held, always, ever, changes, trouble>>

\* next() after an exception, an error, or at the end.  That a malformed reply may
\* leave part of a triple, which next() then runs over, is left out.
AdvanceExhausted ==
  /\ iterator.usable /\ ~ScannerValid /\ ~filling
  /\ Filled(CASE kind = "QSet" /\ iterator.reachedEnd ->
                   [iterator EXCEPT !.results = <<>>, !.it = 0]
              [] kind # "QSet" /\ iterator.results # <<>> ->
                   [iterator EXCEPT !.results = Tail(@)]
              [] OTHER -> iterator)
  /\ UNCHANGED <<kind, held, visited, always, ever, changes, trouble>>

\* Another client sets or deletes an element.
OthersChange ==
  /\ changes < MaxChanges
  /\ \E p \in 1 .. Places, v \in ScanValues \cup {NotThere} :
       held' = [held EXCEPT ![p] = v]
  /\ changes' = changes + 1
  /\ always' = always \cap Elements'
  /\ ever' = ever \cup Elements'
  /\ UNCHANGED <<kind, iterator, filling, visited, trouble>>

ScannerNext ==
  \/ Receive \/ ReceiveNull \/ ReceiveMalformed \/ Advance \/ AdvanceExhausted
  \/ OthersChange

ScannerSpec == ScannerInit /\ [][ScannerNext]_scannerVars

-----------------------------------------------------------------------------
(* Properties *)

\* A walk that ends without an error has shown every element that was there all
\* along, though batches may be empty and a request may have failed and been
\* tried again; and whatever happens nothing is shown twice or made up.
ScansEverything ==
  /\ \A p, q \in DOMAIN visited : visited[p][1] = visited[q][1] => p = q
  /\ ToSet(visited) \subseteq ever
  /\ (iterator.reachedEnd /\ ~iterator.mError /\ Exhausted(iterator)) =>
       always \subseteq ToSet(visited)
=============================================================================
