------------------------------ MODULE WorkQueue ------------------------------
(***************************************************************************)
(* The bounded task queue of src/sc2src/workqueue.h: client threads put    *)
(* tasks, worker threads take them, one mutex and two condition variables  *)
(* synchronise them.                                                       *)
(*                                                                         *)
(* This module has the queue's state and one operator per method, no Next: *)
(* the modules that use a queue (WorkQueueClients, AlsaDirect, HttpGate)   *)
(* supply the threads.  An operator stands for one critical section: from  *)
(* the lock, or from the return of pthread_cond_wait, to the next wait or  *)
(* to the return.  Its last argument is how the section ends: "wait",      *)
(* "true" or "false".  A method that waits is a sequence of such sections  *)
(* of the same thread, so the mutex itself needs no variable; in           *)
(* setTerminateAndWait pthread_join runs under the lock, but only on       *)
(* threads that have called workerExit, which never lock it again.         *)
(*                                                                         *)
(* Left out: the statistics counters, m_name, and failures of the pthread  *)
(* primitives on valid objects (pthread_create may fail, see start).       *)
(***************************************************************************)
EXTENDS Integers, Sequences, FiniteSets

CONSTANTS
  Thread,    \* every thread that ever touches the queue
  Task,      \* what can be queued
  High,      \* m_high: tasks on the queue before clients block, 0 for no limit
  Low,       \* m_low: tasks on the queue before a worker starts
  UIntMax    \* the largest unsigned value (of unsigned int for the counters, of
             \* size_t for High): one bound stands for both

\* High and Low are size_t (the program uses High = 4 and 100, Low = 1; Low = 0
\* would let take read the front of an empty queue). The counters are unsigned
\* int and one per thread must fit.
ASSUME WorkQueueAssumption ==
  /\ IsFiniteSet(Thread)
  /\ High \in Nat
  /\ Low \in Nat \ {0}
  /\ UIntMax \in Nat
  /\ Cardinality(Thread) =< UIntMax

VARIABLES
  m_queue,            \* the tasks, oldest first
  m_ok,               \* FALSE once terminated or abandoned by a worker
  m_worker_threads,   \* the workers start() created and nobody joined yet
  m_workers_exited,   \* number of workers that called workerExit()
  m_clients_waiting,  \* the code's count of threads waiting on m_ccond
  m_workers_waiting,  \* the code's count of threads waiting on m_wcond
  m_ccond,            \* the threads inside pthread_cond_wait(&m_ccond)
  m_wcond,            \* the threads inside pthread_cond_wait(&m_wcond)
  woken               \* those of both that were woken and must get the mutex back

queueVars == <<m_queue, m_ok, m_worker_threads, m_workers_exited,
               m_clients_waiting, m_workers_waiting, m_ccond, m_wcond, woken>>

Outcome == {"wait", "true", "false"}

QueueTypeOK ==
  /\ m_queue \in Seq(Task)
  /\ m_ok \in BOOLEAN
  /\ m_worker_threads \subseteq Thread
  /\ m_workers_exited \in 0 .. UIntMax
  /\ m_clients_waiting \in 0 .. UIntMax
  /\ m_workers_waiting \in 0 .. UIntMax
  /\ m_ccond \subseteq Thread
  /\ m_wcond \subseteq Thread
  /\ woken \subseteq m_ccond \cup m_wcond

QueueInit ==
  /\ m_queue = <<>>
  /\ m_ok = TRUE
  /\ m_worker_threads = {}
  /\ m_workers_exited = 0
  /\ m_clients_waiting = 0
  /\ m_workers_waiting = 0
  /\ m_ccond = {}
  /\ m_wcond = {}
  /\ woken = {}

-----------------------------------------------------------------------------
(* Counters, guards and condition variables.                               *)

\* ++ and -- on an unsigned int.
Inc(n) == IF n = UIntMax THEN 0 ELSE n + 1
Dec(n) == IF n = 0 THEN UIntMax ELSE n - 1

ok == m_ok /\ m_workers_exited = 0 /\ m_worker_threads # {}

\* put() waits while this holds.
Full == High > 0 /\ Len(m_queue) >= High

\* take() and waitminsz() wait while the queue is shorter than this.
Short(sz) == Len(m_queue) < sz

\* What waitIdle() waits for.
IdleIgnoringWorkers == m_queue = <<>>
Idle == m_queue = <<>> /\ m_workers_waiting = Cardinality(m_worker_threads)

\* What setTerminateAndWait() waits for.
OneExited == m_workers_exited >= 1
AllExited == m_workers_exited >= Cardinality(m_worker_threads)

\* A thread can run a method unless it is asleep on a condition variable.
Asleep(cond) == cond \ woken
Runs(t) == t \notin Asleep(m_ccond) /\ t \notin Asleep(m_wcond)

\* pthread_cond_signal wakes one sleeper if there is one; the sets it may wake.
\* (Waking more than one is a signal and a SpuriousWakeup.)
Signal(cond) ==
  IF Asleep(cond) = {} THEN {{}} ELSE {{t} : t \in Asleep(cond)}

\* The effect of one section on who waits on m_ccond: the counter goes down when
\* pthread_cond_wait returned to t, and up when t is about to wait (again).
ClientsAfterWaitForgotten(t) == m_clients_waiting
ClientsAfterWait(t) ==
  IF t \in m_ccond THEN Dec(m_clients_waiting) ELSE m_clients_waiting
LeaveClients(t) ==
  /\ m_ccond' = m_ccond \ {t}
  /\ m_clients_waiting' = ClientsAfterWait(t)
SleepClients(t) ==
  /\ m_ccond' = m_ccond \cup {t}
  /\ m_clients_waiting' = Inc(ClientsAfterWait(t))

\* The same for m_wcond.
WorkersAfterWait(t) ==
  IF t \in m_wcond THEN Dec(m_workers_waiting) ELSE m_workers_waiting
LeaveWorkers(t) ==
  /\ m_wcond' = m_wcond \ {t}
  /\ m_workers_waiting' = WorkersAfterWait(t)
SleepWorkers(t) ==
  /\ m_wcond' = m_wcond \cup {t}
  /\ m_workers_waiting' = Inc(WorkersAfterWait(t))

-----------------------------------------------------------------------------
(* The methods called by clients.                                          *)

\* start(): pthread_create succeeded for the threads of created; it may have
\* failed before the number asked for was reached.
Start(created) ==
  /\ m_worker_threads' = m_worker_threads \cup created
  /\ UNCHANGED <<m_queue, m_ok, m_workers_exited, m_clients_waiting,
                 m_workers_waiting, m_ccond, m_wcond, woken>>

\* put(x, flush). Both ok() tests, before the loop and after the wait, end the
\* call in the same way.
PutFails(t) ==
  /\ ~ok
  /\ LeaveClients(t)
  /\ woken' = woken \ {t}
  /\ UNCHANGED m_queue
PutSleeps(t) ==
  /\ ok
  /\ Full
  /\ SleepClients(t)
  /\ woken' = woken \ {t}
  /\ UNCHANGED m_queue
PutPushesOffByOne(t, x, flush) ==
  /\ ok
  /\ ~Full
  /\ LeaveClients(t)
  /\ m_queue' = IF flush THEN <<x>> ELSE Append(m_queue, x)
  /\ \E ws \in IF m_workers_waiting > 1 THEN Signal(m_wcond) ELSE {{}} :
       woken' = (woken \ {t}) \cup ws
PutPushes(t, x, flush) ==
  /\ ok
  /\ ~Full
  /\ LeaveClients(t)
  /\ m_queue' = IF flush THEN <<x>> ELSE Append(m_queue, x)
  /\ \E ws \in IF m_workers_waiting > 0 THEN Signal(m_wcond) ELSE {{}} :
       woken' = (woken \ {t}) \cup ws
Put(t, x, flush, out) ==
  /\ Runs(t)
  /\ \/ out = "false" /\ PutFails(t)
     \/ out = "wait" /\ PutSleeps(t)
     \/ out = "true" /\ PutPushes(t, x, flush)
  /\ UNCHANGED <<m_ok, m_worker_threads, m_workers_exited, m_workers_waiting,
                 m_wcond>>

\* waitIdle()
WaitIdle(t, out) ==
  /\ Runs(t)
  /\ \/ out = "false" /\ ~ok /\ LeaveClients(t)
     \/ out = "wait" /\ ok /\ ~Idle /\ SleepClients(t)
     \/ out = "true" /\ ok /\ Idle /\ LeaveClients(t)
  /\ woken' = woken \ {t}
  /\ UNCHANGED <<m_queue, m_ok, m_worker_threads, m_workers_exited,
                 m_workers_waiting, m_wcond>>

\* setTerminateAndWait(). The test of m_worker_threads and m_ok = false come
\* before the loop, so a thread that resumes skips them.
TerminateFindsNobody(t) ==
  /\ t \notin m_ccond
  /\ m_worker_threads = {}
  /\ UNCHANGED queueVars
TerminateSleeps(t) ==
  /\ t \notin m_ccond => m_worker_threads # {}
  /\ ~AllExited
  /\ m_ok' = IF t \in m_ccond THEN m_ok ELSE FALSE
  /\ SleepClients(t)
  /\ woken' = (woken \ {t}) \cup m_wcond
  /\ UNCHANGED <<m_queue, m_worker_threads, m_workers_exited,
                 m_workers_waiting, m_wcond>>
ResetWaitersOnly ==
  /\ m_workers_exited' = m_workers_exited
  /\ m_clients_waiting' = 0
  /\ m_workers_waiting' = 0
ResetCounters ==
  /\ m_workers_exited' = 0
  /\ m_clients_waiting' = 0
  /\ m_workers_waiting' = 0
TerminateJoins(t) ==
  /\ t \notin m_ccond => m_worker_threads # {}
  /\ AllExited
  /\ m_ok' = TRUE
  /\ m_worker_threads' = {}
  /\ ResetCounters
  /\ m_ccond' = m_ccond \ {t}
  /\ woken' = woken \ {t}
  /\ UNCHANGED <<m_queue, m_wcond>>
SetTerminateAndWait(t, out) ==
  /\ Runs(t)
  /\ \/ out = "false" /\ TerminateFindsNobody(t)
     \/ out = "wait" /\ TerminateSleeps(t)
     \/ out = "true" /\ TerminateJoins(t)

-----------------------------------------------------------------------------
(* The methods called by workers.                                          *)

\* The loop that take() and waitminsz() share: fail, or sleep until sz tasks.
\* A worker that goes to sleep on an empty queue wakes every client.
WorkerFails(t) ==
  /\ ~ok
  /\ LeaveWorkers(t)
  /\ woken' = woken \ {t}
WorkerSleepsQuietly(t, sz) ==
  /\ ok
  /\ Short(sz)
  /\ SleepWorkers(t)
  /\ woken' = woken \ {t}
WorkerSleeps(t, sz) ==
  /\ ok
  /\ Short(sz)
  /\ SleepWorkers(t)
  /\ woken' = (woken \ {t}) \cup (IF m_queue = <<>> THEN m_ccond ELSE {})

\* take(): the task taken is Head(m_queue).
TakePeeks(t) ==
  /\ ok
  /\ ~Short(Low)
  /\ LeaveWorkers(t)
  /\ m_queue' = m_queue
  /\ woken' = woken \ {t}
TakePops(t) ==
  /\ ok
  /\ ~Short(Low)
  /\ LeaveWorkers(t)
  /\ m_queue' = Tail(m_queue)
  /\ \E ws \in IF m_clients_waiting > 0 THEN Signal(m_ccond) ELSE {{}} :
       woken' = (woken \ {t}) \cup ws
Take(t, out) ==
  /\ Runs(t)
  /\ \/ out = "false" /\ WorkerFails(t) /\ UNCHANGED m_queue
     \/ out = "wait" /\ WorkerSleeps(t, Low) /\ UNCHANGED m_queue
     \/ out = "true" /\ TakePops(t)
  /\ UNCHANGED <<m_ok, m_worker_threads, m_workers_exited, m_clients_waiting,
                 m_ccond>>

\* waitminsz(sz)
WaitMinSz(t, sz, out) ==
  /\ Runs(t)
  /\ \/ out = "false" /\ WorkerFails(t)
     \/ out = "wait" /\ WorkerSleeps(t, sz)
     \/ out = "true" /\ ok /\ ~Short(sz) /\ LeaveWorkers(t) /\ woken' = woken \ {t}
  /\ UNCHANGED <<m_queue, m_ok, m_worker_threads, m_workers_exited,
                 m_clients_waiting, m_ccond>>

\* workerExit()
WorkerExitSilent(t) ==
  /\ m_workers_exited' = Inc(m_workers_exited)
  /\ m_ok' = FALSE
  /\ UNCHANGED <<m_queue, m_worker_threads, m_clients_waiting,
                 m_workers_waiting, m_ccond, m_wcond, woken>>
WorkerExit(t) ==
  /\ m_workers_exited' = Inc(m_workers_exited)
  /\ m_ok' = FALSE
  /\ woken' = woken \cup m_ccond
  /\ UNCHANGED <<m_queue, m_worker_threads, m_clients_waiting,
                 m_workers_waiting, m_ccond, m_wcond>>

\* POSIX lets pthread_cond_wait return without a signal.
SpuriousWakeup(t) ==
  /\ t \in Asleep(m_ccond) \cup Asleep(m_wcond)
  /\ woken' = woken \cup {t}
  /\ UNCHANGED <<m_queue, m_ok, m_worker_threads, m_workers_exited,
                 m_clients_waiting, m_workers_waiting, m_ccond, m_wcond>>
=============================================================================
