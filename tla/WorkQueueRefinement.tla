------------------------- MODULE WorkQueueRefinement -------------------------
(***************************************************************************)
(* WorkQueueClients implements WorkQueueService.  The service is open when *)
(* ok() holds; a worker is live from its creation to its workerExit().     *)
(***************************************************************************)
EXTENDS WorkQueueClients

liveBar == {w \in Worker : pc[w] \notin {"unborn", "gone"}}
opBar == [c \in Client |-> pc[c]]

Service == INSTANCE WorkQueueService WITH
  open <- ok, pending <- m_queue, live <- liveBar, op <- opBar

\* Every step of the code is a step of the promise or invisible: tasks come out
\* in the order they went in, each to one worker, none is lost except to
\* flushprevious; put, waitIdle and setTerminateAndWait return true only when
\* what they promise holds, and false only on a dead queue.
ImplementsService == Service!Spec
=============================================================================
