-------------------------- MODULE WorkQueueClients ---------------------------
(***************************************************************************)
(* A WorkQueue with the threads its header allows: any number of clients   *)
(* that start the workers, put tasks, wait for the queue to be idle and    *)
(* terminate the workers, and the workers, each in the loop that every     *)
(* worker of the program runs (alsawriter and audioEater of                *)
(* src/sc2src/alsadirect.cpp, audioEater of src/sc2src/httpgate.cpp):      *)
(* wait for a minimum size or not, take a task, work on it, and            *)
(* workerExit() when the queue is dead or the work fails.                  *)
(***************************************************************************)
EXTENDS WorkQueue

CONSTANTS
  Client, Worker,   \* the threads
  Putter,           \* the clients that put tasks,
  Idler,            \* that call waitIdle,
  Controller,       \* that call start and setTerminateAndWait
  Flushes,          \* the values of put's flushprevious that are used
  MinSz,            \* what workers pass to waitminsz; 0: they do not call it
  Fallible,         \* the workers whose work may fail
  MaxStarts,        \* bound: how often start is called
  Tasks,            \* bound: the tasks that are put, in this order
  NoTask

ASSUME ClientsAssumption ==
  /\ Thread = Client \cup Worker
  /\ Client \cap Worker = {}
  /\ Putter \subseteq Client /\ Idler \subseteq Client
  /\ Controller \subseteq Client
  /\ Flushes \subseteq BOOLEAN
  /\ Fallible \subseteq Worker
  /\ MinSz \in Nat
  /\ MaxStarts \in Nat
  /\ Tasks \in Seq(Task)
  /\ NoTask \notin Task

VARIABLES
  pc,       \* where each thread is
  arg,      \* the arguments of the put a client is in
  ret,      \* what a client's last call returned, "none" while it is in a call
  hand,     \* the task a worker works on
  given,    \* how many of Tasks were put so far
  starts    \* calls of start so far

clientVars == <<pc, arg, ret, hand, given, starts>>
vars == <<queueVars, clientVars>>

ClientPC == {"idle", "put", "waitIdle", "terminate"}
WorkerPC == {"unborn", "minsz", "passed", "take", "busy", "exit", "gone"}

\* alsawriter calls waitminsz at first and whenever it is not playing, the
\* eaters never do.
LoopTop == IF MinSz > 0 THEN "minsz" ELSE "take"

NoArg == [task |-> NoTask, flush |-> FALSE]

TypeOK ==
  /\ QueueTypeOK
  /\ pc \in [Thread -> ClientPC \cup WorkerPC]
  /\ \A c \in Client : pc[c] \in ClientPC
  /\ \A w \in Worker : pc[w] \in WorkerPC
  /\ arg \in [Client -> [task : Task \cup {NoTask}, flush : BOOLEAN]]
  /\ ret \in [Client -> {"none", "true", "false"}]
  /\ hand \in [Worker -> Task \cup {NoTask}]
  /\ \A c \in Client : pc[c] = "put" => arg[c].task \in Task
  /\ given \in 0 .. Len(Tasks)
  /\ starts \in 0 .. MaxStarts

Init ==
  /\ QueueInit
  /\ pc = [t \in Thread |-> IF t \in Client THEN "idle" ELSE "unborn"]
  /\ arg = [c \in Client |-> NoArg]
  /\ ret = [c \in Client |-> "none"]
  /\ hand = [w \in Worker |-> NoTask]
  /\ given = 0
  /\ starts = 0

-----------------------------------------------------------------------------
(* Clients.                                                                *)

Call(c, method) ==
  /\ pc[c] = "idle"
  /\ pc' = [pc EXCEPT ![c] = method]
  /\ ret' = [ret EXCEPT ![c] = "none"]
  /\ UNCHANGED <<queueVars, hand, starts>>

CallPut(c, flush) ==
  /\ c \in Putter
  /\ given < Len(Tasks)
  /\ Call(c, "put")
  /\ arg' = [arg EXCEPT ![c] = [task |-> Tasks[given + 1], flush |-> flush]]
  /\ given' = given + 1
CallWaitIdle(c) ==
  c \in Idler /\ Call(c, "waitIdle") /\ UNCHANGED <<arg, given>>
CallTerminate(c) ==
  c \in Controller /\ Call(c, "terminate") /\ UNCHANGED <<arg, given>>

\* The end of a critical section of c's call: back asleep, or return.
Returns(c, out) ==
  /\ IF out = "wait"
       THEN UNCHANGED <<pc, arg, ret>>
       ELSE /\ pc' = [pc EXCEPT ![c] = "idle"]
            /\ arg' = [arg EXCEPT ![c] = NoArg]
            /\ ret' = [ret EXCEPT ![c] = out]
  /\ UNCHANGED <<hand, given, starts>>

InPut(c, out) ==
  pc[c] = "put" /\ Put(c, arg[c].task, arg[c].flush, out) /\ Returns(c, out)
InWaitIdle(c, out) ==
  pc[c] = "waitIdle" /\ WaitIdle(c, out) /\ Returns(c, out)
InTerminate(c, out) ==
  pc[c] = "terminate" /\ SetTerminateAndWait(c, out) /\ Returns(c, out)

\* start is called when no worker thread runs (as the program does, once).
StartWorkers(c, created) ==
  /\ c \in Controller
  /\ pc[c] = "idle"
  /\ starts < MaxStarts
  /\ m_worker_threads = {}
  /\ \A w \in created : pc[w] \in {"unborn", "gone"}
  /\ Start(created)
  /\ starts' = starts + 1
  /\ pc' = [t \in Thread |-> IF t \in created THEN LoopTop ELSE pc[t]]
  /\ UNCHANGED <<arg, ret, hand, given>>

ClientStep(c) ==
  \E out \in Outcome : InPut(c, out) \/ InWaitIdle(c, out) \/ InTerminate(c, out)

-----------------------------------------------------------------------------
(* Workers.                                                                *)

InWaitMinSz(w, out) ==
  /\ pc[w] = "minsz"
  /\ WaitMinSz(w, MinSz, out)
  /\ pc' = CASE out = "wait"  -> pc
             [] out = "true"  -> [pc EXCEPT ![w] = "passed"]
             [] out = "false" -> [pc EXCEPT ![w] = "exit"]
  /\ UNCHANGED <<arg, ret, hand, given, starts>>

InTake(w, out) ==
  /\ pc[w] \in {"passed", "take"}
  /\ Take(w, out)
  /\ CASE out = "wait"  -> pc' = [pc EXCEPT ![w] = "take"] /\ UNCHANGED hand
       [] out = "true"  -> /\ pc' = [pc EXCEPT ![w] = "busy"]
                           /\ hand' = [hand EXCEPT ![w] = Head(m_queue)]
       [] out = "false" -> /\ pc' = [pc EXCEPT ![w] = "exit"]
                           /\ UNCHANGED hand
  /\ UNCHANGED <<arg, ret, given, starts>>

Work(w) ==
  /\ pc[w] = "busy"
  /\ \/ \E top \in {LoopTop, "take"} : pc' = [pc EXCEPT ![w] = top]
     \/ w \in Fallible /\ pc' = [pc EXCEPT ![w] = "exit"]
  /\ hand' = [hand EXCEPT ![w] = NoTask]
  /\ UNCHANGED <<queueVars, arg, ret, given, starts>>

Exit(w) ==
  /\ pc[w] = "exit"
  /\ WorkerExit(w)
  /\ pc' = [pc EXCEPT ![w] = "gone"]
  /\ UNCHANGED <<arg, ret, hand, given, starts>>

WorkerStep(w) ==
  \/ \E out \in Outcome : InWaitMinSz(w, out) \/ InTake(w, out)
  \/ Work(w)
  \/ Exit(w)

Spurious(t) == SpuriousWakeup(t) /\ UNCHANGED clientVars

Next ==
  \/ \E c \in Client :
       \/ \E flush \in Flushes : CallPut(c, flush)
       \/ CallWaitIdle(c)
       \/ CallTerminate(c)
       \/ \E created \in SUBSET Worker : StartWorkers(c, created)
       \/ ClientStep(c)
  \/ \E w \in Worker : WorkerStep(w)
  \/ \E t \in Thread : Spurious(t)

Spec == Init /\ [][Next]_vars

\* The scheduler runs every thread that is not asleep and hands it the mutex.
\* Nothing obliges a client to make another call, or a sleeper to wake unasked.
Fairness ==
  /\ \A c \in Client : WF_vars(ClientStep(c))
  /\ \A w \in Worker : WF_vars(WorkerStep(w))

FairSpec == Spec /\ Fairness

-----------------------------------------------------------------------------
(* Safety.                                                                 *)

InTerminateCall(c) == pc[c] = "terminate"
WokenWorkers == m_wcond \cap woken
WokenClients == m_ccond \cap woken

\* In well-typed states (no counter wraps) the counters of workers are exact.
\* m_workers_waiting counts the workers inside the waits ("Client/Worker threads
\* currently waiting for a job", workqueue.h:333): put() signals only when it is
\* positive and waitIdle() compares it with the number of threads. m_workers_exited
\* counts those that left, so that setTerminateAndWait() joins only threads that
\* return at once.
WorkersWaitingExact == m_workers_waiting = Cardinality(m_wcond)
ExitedExact ==
  m_workers_exited = Cardinality({w \in m_worker_threads : pc[w] = "gone"})
WorkersCounted == TypeOK /\ WorkersWaitingExact /\ ExitedExact

\* No lost wakeup for workers: while the queue is live, a worker sleeps only if
\* the tasks on the queue are too few, or as many workers are on their way to them
\* as there are tasks above that. put() wakes one worker for one task, the woken
\* worker may find its task taken by another, and spurious wakeups happen.
OnTheWay == WokenWorkers \cup {w \in Worker : pc[w] = "passed"}
NoLostWorkerWakeup ==
  ok /\ MinSz =< Low /\ Asleep(m_wcond) # {} =>
    Len(m_queue) < Low + Cardinality(OnTheWay)

\* Until the queue is first terminated m_clients_waiting is exact: take() and
\* WorkerSleeps go by it. setTerminateAndWait() zeroes it while others may still be
\* on their way out of put(), and their decrement then wraps.
ClientsWaitingExact ==
  ok /\ starts =< 1 => m_clients_waiting = Cardinality(m_ccond)

\* Clients blocked in put() sleep only if the queue is full, counting the room that
\* woken clients are on their way to fill. take() wakes one client whatever it
\* waits for, so this needs clients that only put. A put that flushes makes room
\* and wakes no client; a task or a woken client is left to wake the others.
KeptFull == IF TRUE \in Flushes THEN 1 ELSE High
NoLostClientWakeup ==
  /\ ok /\ starts =< 1
  /\ \A c \in m_ccond : pc[c] = "put"
  /\ Asleep(m_ccond) # {}
  => Len(m_queue) + Cardinality(WokenClients) >= KeptFull

\* The thread in setTerminateAndWait() is woken when the last worker leaves, and
\* until then no worker sleeps under a dead queue. (Two threads may call it, unless
\* the queue is started again while the second is on its way out: m_ok is TRUE then.)
TerminatorNotStranded ==
  starts =< 1 =>
    \A c \in Asleep(m_ccond) : InTerminateCall(c) =>
      ~AllExited /\ Asleep(m_wcond) = {}

\* No client sleeps on m_ccond uncounted or without a reason, although put(),
\* waitIdle() and setTerminateAndWait() share it and take() signals only one.
ClientsServed == ClientsWaitingExact /\ NoLostClientWakeup /\ TerminatorNotStranded

\* waitIdle() returns true only when nothing is queued and no worker has a task
\* in hand (workqueue.h:134: "until the task queue is empty and the workers are
\* all back sleeping"), even though workers are woken behind its back.
WaitIdleMeansIdle ==
  [][\A c \in Client :
       InWaitIdle(c, "true") =>
         m_queue = <<>> /\ \A w \in m_worker_threads : w \in m_wcond]_vars

\* setTerminateAndWait() returns only when every worker it started has left, so
\* that the queue can be destroyed or started again.
TerminateMeansGone ==
  [][\A c \in Client :
       InTerminate(c, "true") =>
         \A w \in Worker : pc[w] \in {"unborn", "gone"}]_vars

-----------------------------------------------------------------------------
(* What makes the counters inductive: who may wait where.                  *)

Discipline ==
  /\ \A c \in m_ccond : c \in Client /\ pc[c] # "idle"
  /\ \A w \in m_wcond : w \in Worker /\ pc[w] \in {"minsz", "take"}
  /\ \A w \in Worker : pc[w] \notin {"unborn", "gone"} => w \in m_worker_threads
  /\ \A w \in m_worker_threads : w \in Worker /\ pc[w] # "unborn"

CountingInv == TypeOK /\ Discipline /\ ExitedExact /\ WorkersWaitingExact

\* The inductive invariant of WorkQueueProofs.
InductiveInv == CountingInv /\ NoLostWorkerWakeup

\* What else ClientsServed rests on: nobody waits before the first start; whoever
\* terminates has closed the queue; workers that all sleep on an empty queue have
\* woken the clients blocked in put().
ClientsCounted ==
  /\ starts = 0 => m_worker_threads = {} /\ m_ccond = {}
  /\ starts =< 1 /\ (starts = 0 \/ m_worker_threads # {}) =>
       m_clients_waiting = Cardinality(m_ccond)
TerminatorCloses ==
  starts =< 1 => \A c \in m_ccond :
    InTerminateCall(c) => ~m_ok \/ m_worker_threads = {}
IdleWakesPutters ==
  ok /\ starts =< 1 /\ m_queue = <<>> /\ m_worker_threads \subseteq m_wcond =>
    \A c \in Asleep(m_ccond) : pc[c] # "put"
FlushesUsed == \A c \in Client : pc[c] = "put" => arg[c].flush \in Flushes

ClientsInv ==
  /\ CountingInv
  /\ ClientsCounted /\ TerminatorCloses /\ IdleWakesPutters /\ FlushesUsed
  /\ NoLostClientWakeup /\ TerminatorNotStranded

-----------------------------------------------------------------------------
(* Liveness, under FairSpec.                                               *)

\* Every call returns (a client is idle again and again), and every queued task is
\* taken, unless the queue dies first.
\* A blocked put() gets room, or the queue dies and it fails; waitIdle() and
\* setTerminateAndWait() return whatever the workers were doing.
CallsReturn == \A c \in Client : []<>(pc[c] = "idle")
Queued(x) == \E i \in DOMAIN m_queue : m_queue[i] = x
TasksTaken == \A x \in Task : []<>(~ok \/ ~Queued(x))
NobodyWaitsForever == CallsReturn /\ TasksTaken
=============================================================================
