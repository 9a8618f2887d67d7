--------------------------- MODULE AttachableQueue ---------------------------
(***************************************************************************)
(* A queue that forwards its items to a callback while one is attached        *)
(* (src/include/qclient/queueing/AttachableQueue.hh), as part of a record:     *)
(* attached, items, and the history seen of what its user has got, from the    *)
(* callback or from the queue.  A new one is empty and not attached.            *)
(***************************************************************************)
EXTENDS Sequences

\* emplace_back()
Emplace(object, item) ==
  IF object.attached THEN [object EXCEPT !.seen = Append(@, item)]
  ELSE [object EXCEPT !.items = Append(@, item)]

\* Mutant: what is queued is not handed to the callback.
AttachDropsQueue(object) == [object EXCEPT !.attached = TRUE, !.items = <<>>]

\* attach(): the queue goes to the callback and is destroyed.
Attach(object) ==
  [object EXCEPT !.attached = TRUE, !.seen = @ \o object.items, !.items = <<>>]

\* detach(): a new queue.
Detach(object) == [object EXCEPT !.attached = FALSE]

\* front() and pop_front(), size(): only for a queue that is not attached.
CanPop(object) == ~object.attached /\ object.items # <<>>
PopFront(object) ==
  [object EXCEPT !.seen = Append(@, Head(object.items)), !.items = Tail(@)]
=============================================================================
