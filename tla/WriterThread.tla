---------------------------- MODULE WriterThread ----------------------------
(***************************************************************************)
(* The writer thread (src/src/WriterThread.cc): takes the next request from *)
(* the connection core and pushes it into the socket, in as many pieces as  *)
(* the kernel wants.  It runs concurrently with the event loop, which may   *)
(* acknowledge, and thereby free, a request the writer has only just given  *)
(* to the kernel.                                                           *)
(*                                                                          *)
(* The unit of transmission is one command: a single request is one unit, a *)
(* MULTI block one unit per command, so a block may be cut anywhere between *)
(* its commands.                                                            *)
(***************************************************************************)
EXTENDS ConnectionCore

CONSTANT WireCapacity  \* units the kernel buffers before send() would block
ASSUME WireAssumption == WireCapacity \in Nat \ {0}

VARIABLES
  writerPc,      \* where the thread is in eventLoop(); "off": not running
  writerStop,    \* assistant.terminationRequested()
  writing,       \* beingProcessed
  bytesWritten,  \* units of it the kernel has accepted
  accepted,      \* what the last send() returned
  canWrite,
  streamOk,      \* networkStream->ok()
  wire,          \* units on their way to the server
  peerClosed,    \* the server has closed or reset the connection
  shutdownFD     \* shutdownEventFD has been notified

writerLocals == <<writing, bytesWritten, accepted, canWrite>>
writerVars == <<writerPc, writerStop, writerLocals>>
streamVars == <<streamOk, wire, peerClosed>>

Nothing == [kind |-> "nothing", sequence |-> 0]
-----------------------------------------------------------------------------
LengthOf(item) ==
  IF item.kind = "handshake" THEN 1
  ELSE LET size == requestQueue[item.sequence].multiSize
       IN IF size = 0 THEN 1 ELSE size + 1

UnitOf(item, index) ==
  [kind |-> item.kind,
   id |-> IF item.kind = "handshake" THEN item.sequence
          ELSE requestQueue[item.sequence].id,
   index |-> index,
   last |-> LengthOf(item) - 1]

WriterInit ==
  /\ writerPc = "off"
  /\ writerStop = FALSE
  /\ writing = Nothing
  /\ bytesWritten = 0
  /\ accepted = 0
  /\ canWrite = TRUE
  /\ streamOk = FALSE
  /\ wire = <<>>
  /\ peerClosed = FALSE
  /\ shutdownFD = FALSE

-----------------------------------------------------------------------------
\* The loop condition and what to do in this round.
WriterLoop ==
  /\ writerPc = "loop"
  /\ writerPc' =
       CASE writerStop \/ ~streamOk -> "off"
         [] ~writerStop /\ streamOk /\ ~canWrite -> "poll"
         [] ~writerStop /\ streamOk /\ canWrite /\ writing # Nothing -> "send"
         [] ~writerStop /\ streamOk /\ canWrite /\ writing = Nothing ->
              IF inHandshake THEN "handshake" ELSE "request"
  /\ bytesWritten' = IF writing = Nothing THEN 0 ELSE bytesWritten
  /\ UNCHANGED <<coreVars, writerStop, writing, accepted, canWrite,
                 streamVars, shutdownFD>>

\* poll(polls, 2, -1): until the socket is writable or broken, or shutdown.
WriterPoll ==
  /\ writerPc = "poll"
  /\ Len(wire) < WireCapacity \/ peerClosed \/ ~streamOk \/ shutdownFD
  /\ canWrite' = TRUE
  /\ writerPc' = "send"
  /\ UNCHANGED <<coreVars, writerStop, writing, bytesWritten, accepted,
                 streamVars, shutdownFD>>

\* getNextToWrite(), blocked in one of its two queues.
WriterTake ==
  \E found \in BOOLEAN :
    /\ \/ /\ writerPc = "handshake"
          /\ FetchHandshake(found)
          /\ writing' = IF found THEN [kind |-> "handshake",
                                       sequence |-> handshakeIterator]
                        ELSE Nothing
       \/ /\ writerPc = "request"
          /\ FetchRequest(found)
          /\ writing' = IF found THEN [kind |-> "request",
                                       sequence |-> nextToWrite]
                        ELSE Nothing
    /\ writerPc' = IF found THEN "send" ELSE "loop"
    /\ UNCHANGED <<writerStop, bytesWritten, accepted, canWrite, streamVars,
                   shutdownFD>>

\* networkStream->send() accepts n more units ...
WriterSend ==
  /\ writerPc = "send"
  /\ streamOk
  /\ \E n \in 1 .. LengthOf(writing) - bytesWritten :
       /\ peerClosed \/ Len(wire) + n <= WireCapacity
       /\ accepted' = n
       /\ wire' = IF peerClosed THEN wire
                  ELSE wire \o [i \in 1 .. n |->
                                  UnitOf(writing, bytesWritten + i - 1)]
  /\ writerPc' = "sent"
  /\ UNCHANGED <<coreVars, writerStop, writing, bytesWritten, canWrite,
                 streamOk, peerClosed, shutdownFD>>

\* ... or EWOULDBLOCK ...
WriterWouldBlock ==
  /\ writerPc = "send"
  /\ ~peerClosed /\ streamOk /\ Len(wire) = WireCapacity
  /\ canWrite' = FALSE
  /\ writerPc' = "loop"
  /\ UNCHANGED <<coreVars, writerStop, writing, bytesWritten, accepted,
                 streamVars, shutdownFD>>

\* ... or an error that breaks the connection and ends the thread.
WriterSendFails ==
  /\ writerPc = "send"
  /\ peerClosed \/ ~streamOk
  /\ streamOk' = FALSE
  /\ writerPc' = "off"
  /\ UNCHANGED <<coreVars, writerStop, writerLocals, wire, peerClosed,
                 shutdownFD>>

\* After send() the request is looked at once more, for its length.
WriterSent ==
  /\ writerPc = "sent"
  /\ LET total == bytesWritten + accepted IN
     /\ bytesWritten' = total
     /\ IF total = LengthOf(writing)
        THEN /\ writing' = Nothing
             /\ UNCHANGED canWrite
        ELSE /\ canWrite' = FALSE
             /\ UNCHANGED writing
  /\ writerPc' = "loop"
  /\ UNCHANGED <<coreVars, writerStop, accepted, streamVars, shutdownFD>>

WriterThreadStep ==
  \/ WriterLoop
  \/ WriterPoll
  \/ WriterTake
  \/ WriterSend
  \/ WriterWouldBlock
  \/ WriterSendFails
  \/ WriterSent

-----------------------------------------------------------------------------
(* Called by the event loop *)

\* Mutant: a request cut by the disconnection is resumed where it was.
ActivateResuming ==
  /\ SetBlockingMode(TRUE)
  /\ writerPc' = "loop"
  /\ writerStop' = FALSE
  /\ accepted' = 0
  /\ canWrite' = TRUE
  /\ UNCHANGED <<writing, bytesWritten>>

\* activate(stream), for a stream that has just been connected.
Activate ==
  /\ SetBlockingMode(TRUE)
  /\ writerPc' = "loop"
  /\ writerStop' = FALSE
  /\ writing' = Nothing
  /\ bytesWritten' = 0
  /\ accepted' = 0
  /\ canWrite' = TRUE

\* Mutant: a writer blocked in a queue is not woken up.
RequestDeactivationSilently ==
  /\ writerStop' = TRUE
  /\ UNCHANGED <<coreVars, writerPc, writerLocals>>

\* deactivate(), up to the point where it waits for the thread.
RequestDeactivation ==
  /\ SetBlockingMode(FALSE)
  /\ writerStop' = TRUE
  /\ UNCHANGED <<writerPc, writerLocals>>

Joined == writerPc = "off"
=============================================================================
