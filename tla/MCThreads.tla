------------------------------ MODULE MCThreads ------------------------------
\* The two background threads of the client, one of them running: the executor of
\* callbacks, and the one of a Communicator.  The variables of the other keep one
\* value.
EXTENDS CallbackExecutor, Communicator

VARIABLE thread

ThreadsInit ==
  /\ thread \in {"executor", "communicator"}
  /\ ExecutorInit /\ CommunicatorInit

ThreadsNext ==
  /\ UNCHANGED thread
  /\ \/ thread = "executor" /\ ExecutorNext /\ UNCHANGED comVars
     \/ thread = "communicator" /\ CommunicatorNext /\ UNCHANGED vars

\* Fairness and CommunicatorFairness, each of the thread that runs
ThreadsFairness ==
  /\ WF_vars(thread = "executor" /\ ExecutorThread)
  /\ WF_vars(thread = "executor" /\ DestructorThread)
  /\ \A p \in Producers : WF_vars(thread = "executor" /\ (StageInside(p) \/ StagePublish(p)))
  /\ WF_comVars(thread = "communicator" /\ Tick)
  /\ WF_comVars(thread = "communicator" /\ BackgroundThread)
  /\ WF_comVars(thread = "communicator" /\ CloseJoins)

ThreadsSpec ==
  ThreadsInit /\ [][ThreadsNext]_<<thread, vars, comVars>> /\ ThreadsFairness

-----------------------------------------------------------------------------
(* Liveness of the thread that runs *)

\* CallbackExecutorThread::main(): see EveryCallbackRuns.
CallbacksRun == thread = "executor" => EveryCallbackRuns

\* ~CallbackExecutorThread(): see DestructorReturns.
ExecutorStops == thread = "executor" => DestructorReturns

\* Communicator::backgroundThread() and PendingRequestVault::expire(): see
\* EveryRequestResolved.
RequestsResolved == thread = "communicator" => EveryRequestResolved
=============================================================================
