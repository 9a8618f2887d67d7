------------------------------ MODULE MCRetryModes ------------------------------
(* QClient without retries, as the cfg says, and with infinite retries, under   *)
(* one more fault and with futures, too: a client is made with one mode.        *)
EXTENDS MCQClient

VARIABLE mode  \* the RetryStrategy the object was made with; it never changes

Retries ==
  INSTANCE QClient
    WITH RetryMode <- "InfiniteRetries", MaxFaults <- 2, MaxMessages <- 0,
         Kinds <- CallbackAndFuture

MCInit ==
  \/ mode = RetryMode /\ QInit
  \/ mode = "InfiniteRetries" /\ Retries!QInit

MCNext ==
  /\ UNCHANGED mode
  /\ \/ mode = RetryMode /\ QNext
     \/ mode = "InfiniteRetries" /\ Retries!QNext

MCSpec == MCInit /\ [][MCNext]_<<mode, vars>>

\* Every reply reaches its own request; only without retries may it be null
\* (QClient.cc, feed and shouldPurgePendingRequests).
EachItsOwnReply ==
  IF mode = "InfiniteRetries" THEN Retries!RepliesMatch ELSE RepliesMatch

\* Without retries no request is executed twice: cleanup() purges what was
\* written, once a reply has come on that connection.
NeverTwiceWithoutRetries == mode = "NoRetries" => ExecutedAtMostOnce

\* Threads, event loop and destructor take only the steps the core's contract
\* allows (CoreContract, checked where all replies and purges happen).
CoreUsedAsAllowed == [][mode = "NoRetries" => Next]_coreVars
==================================================================================
