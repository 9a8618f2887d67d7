--------------------------- MODULE MCConnectionCore ---------------------------
(* ConnectionCore on small instances: a server that may send any reply.  The  *)
(* mode is that of the object: ordinary calls, or exclusive pub/sub, in which *)
(* every reply goes to the listener and nobody may use futures.               *)
EXTENDS ConnectionCore, TLC

CONSTANT Modes  \* SUBSET {"calls", "exclusive"}

VARIABLE mode   \* what the object was made for; it never changes

AllKinds == CallbackKinds
CallbackOnly == {"user", "none"}
Single == {0}
SingleOrMulti == {0, 2}

\* Replies, whether or not it answers anything; in this model the final reply of a
\* request may be of any kind, so "ok" stands for "value" and "error" too.
AnyReply == [kind : {"ok", "queued", "unavailable", "badpush"}, of : {0}]
MessagesOnly == [kind : {"ok", "push", "message", "value"}, of : {0}]

Exclusive ==
  INSTANCE ConnectionCore
    WITH ExclusivePubsub <- TRUE, Kinds <- CallbackOnly, MultiSizes <- Single,
         HandshakeRounds <- 1, Replies <- MessagesOnly, MaxStaged <- 4

MCInit ==
  /\ mode \in Modes
  /\ \/ mode = "calls" /\ Init
     \/ mode = "exclusive" /\ Exclusive!Init

MCNext ==
  /\ UNCHANGED mode
  /\ \/ mode = "calls" /\ Next
     \/ mode = "exclusive" /\ Exclusive!Next

MCSpec == MCInit /\ [][MCNext]_<<mode, coreVars>>

CallerSymmetry == Permutations(Callers)

\* NothingLost is about ordinary calls (ConnectionCore.cc, acknowledgePending
\* and clearAllPending): nothing staged is dropped by replies, purges and rewinds.
NoCallLost == mode = "calls" => NothingLost

\* In exclusive pub/sub mode all but the last request the writer took are trimmed
\* (ConnectionCore.cc, getNextToWrite).
TrimmedInPubSub == mode = "exclusive" => Exclusive!WrittenAreTrimmed
===============================================================================
