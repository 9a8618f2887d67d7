------------------------------- MODULE MCQClient -------------------------------
(* QClient on small instances: one user thread, two or three requests.         *)
EXTENDS QClient

CallbackAndFuture == {"user", "future"}
OnlyUser == {"user"}
Single == {0}
SingleOrMulti == {0, 2}
EveryReply == [kind : ReplyKinds, of : 0 .. MaxStaged]
================================================================================
