--------------------------- MODULE WorkQueueProofs ---------------------------
(***************************************************************************)
(* Proofs about WorkQueueClients, for any numbers of clients, workers and  *)
(* tasks and any High and Low: its invariants, and that it implements      *)
(* WorkQueueService.                                                       *)
(***************************************************************************)
EXTENDS WorkQueueRefinement, FiniteSetTheorems, TLAPS

-----------------------------------------------------------------------------
(* Type correctness, one lemma per method.                                 *)

\* The counters stay unsigned ints.
LEMMA CounterType ==
  ASSUME NEW n \in 0 .. UIntMax
  PROVE  Inc(n) \in 0 .. UIntMax /\ Dec(n) \in 0 .. UIntMax
  BY WorkQueueAssumption DEF Inc, Dec

\* Signalling a condition variable wakes only threads that wait on it.
LEMMA SignalType ==
  ASSUME NEW cond, NEW ws \in Signal(cond)
  PROVE  ws \subseteq cond
  BY DEF Signal, Asleep

\* put() keeps the queue well typed.
LEMMA PutType ==
  ASSUME QueueTypeOK, NEW t \in Thread, NEW x \in Task, NEW flush, NEW out,
         Put(t, x, flush, out)
  PROVE  QueueTypeOK'
<1>1. CASE PutFails(t)
  BY <1>1, CounterType DEF QueueTypeOK, Put, PutFails, LeaveClients, ClientsAfterWait
<1>2. CASE PutSleeps(t)
  BY <1>2, CounterType DEF QueueTypeOK, Put, PutSleeps, SleepClients, ClientsAfterWait
<1>3. CASE PutPushes(t, x, flush)
  <2>1. PICK ws \in IF m_workers_waiting > 0 THEN Signal(m_wcond) ELSE {{}} :
          woken' = (woken \ {t}) \cup ws
    BY <1>3 DEF PutPushes
  <2>2. ws \subseteq m_wcond
    BY <2>1, SignalType
  <2>3. m_queue' \in Seq(Task)
    BY <1>3 DEF PutPushes, QueueTypeOK
  <2>4. m_clients_waiting' \in 0 .. UIntMax /\ m_ccond' \subseteq Thread
    BY <1>3, CounterType DEF PutPushes, LeaveClients, ClientsAfterWait, QueueTypeOK
  <2>5. woken' \subseteq m_ccond' \cup m_wcond'
    BY <1>3, <2>1, <2>2 DEF PutPushes, LeaveClients, QueueTypeOK, Put
  <2> QED
    BY <2>3, <2>4, <2>5 DEF QueueTypeOK, Put
<1> QED
  BY <1>1, <1>2, <1>3 DEF Put

\* waitIdle() keeps the queue well typed.
LEMMA WaitIdleType ==
  ASSUME QueueTypeOK, NEW t \in Thread, NEW out, WaitIdle(t, out)
  PROVE  QueueTypeOK'
  BY CounterType DEF QueueTypeOK, WaitIdle, LeaveClients, SleepClients, ClientsAfterWait

\* setTerminateAndWait() keeps the queue well typed.
LEMMA TerminateType ==
  ASSUME QueueTypeOK, NEW t \in Thread, NEW out, SetTerminateAndWait(t, out)
  PROVE  QueueTypeOK'
<1>1. CASE TerminateFindsNobody(t)
  BY <1>1 DEF QueueTypeOK, TerminateFindsNobody, queueVars
<1>2. CASE TerminateSleeps(t)
  BY <1>2, CounterType
  DEF QueueTypeOK, TerminateSleeps, SleepClients, ClientsAfterWait
<1>3. CASE TerminateJoins(t)
  BY <1>3, WorkQueueAssumption DEF QueueTypeOK, TerminateJoins, ResetCounters
<1> QED
  BY <1>1, <1>2, <1>3 DEF SetTerminateAndWait

\* take() keeps the queue well typed.
LEMMA TakeType ==
  ASSUME QueueTypeOK, NEW t \in Thread, NEW out, Take(t, out)
  PROVE  /\ QueueTypeOK'
         /\ TakePops(t) => Head(m_queue) \in Task
<1>1. CASE WorkerFails(t) /\ UNCHANGED m_queue /\ ~TakePops(t)
  BY <1>1, CounterType
  DEF QueueTypeOK, Take, WorkerFails, LeaveWorkers, WorkersAfterWait
<1>2. CASE WorkerSleeps(t, Low) /\ UNCHANGED m_queue /\ ~TakePops(t)
  BY <1>2, CounterType
  DEF QueueTypeOK, Take, WorkerSleeps, SleepWorkers, WorkersAfterWait
<1>3. CASE TakePops(t)
  <2>1. PICK ws \in IF m_clients_waiting > 0 THEN Signal(m_ccond) ELSE {{}} :
          woken' = (woken \ {t}) \cup ws
    BY <1>3 DEF TakePops
  <2>2. ws \subseteq m_ccond
    BY <2>1, SignalType
  <2>3. m_queue # <<>>
    BY <1>3, WorkQueueAssumption DEF TakePops, Short, QueueTypeOK
  <2>4. Head(m_queue) \in Task /\ m_queue' \in Seq(Task)
    BY <1>3, <2>3 DEF TakePops, QueueTypeOK
  <2>5. m_workers_waiting' \in 0 .. UIntMax /\ m_wcond' \subseteq Thread
    BY <1>3, CounterType DEF TakePops, LeaveWorkers, WorkersAfterWait, QueueTypeOK
  <2>6. woken' \subseteq m_ccond' \cup m_wcond'
    BY <1>3, <2>1, <2>2 DEF TakePops, LeaveWorkers, QueueTypeOK, Take
  <2> QED
    BY <2>4, <2>5, <2>6 DEF QueueTypeOK, Take
<1> QED
  BY <1>1, <1>2, <1>3 DEF Take, TakePops, WorkerFails, WorkerSleeps

\* waitminsz() keeps the queue well typed.
LEMMA WaitMinSzType ==
  ASSUME QueueTypeOK, NEW t \in Thread, NEW sz, NEW out, WaitMinSz(t, sz, out)
  PROVE  QueueTypeOK'
<1>1. CASE WorkerFails(t)
  BY <1>1, CounterType
  DEF QueueTypeOK, WaitMinSz, WorkerFails, LeaveWorkers, WorkersAfterWait
<1>2. CASE WorkerSleeps(t, sz)
  BY <1>2, CounterType
  DEF QueueTypeOK, WaitMinSz, WorkerSleeps, SleepWorkers, WorkersAfterWait
<1>3. CASE LeaveWorkers(t) /\ woken' = woken \ {t}
  BY <1>3, CounterType DEF QueueTypeOK, WaitMinSz, LeaveWorkers, WorkersAfterWait
<1> QED
  BY <1>1, <1>2, <1>3 DEF WaitMinSz

\* workerExit() keeps the queue well typed.
LEMMA WorkerExitType ==
  ASSUME QueueTypeOK, NEW t \in Thread, WorkerExit(t)
  PROVE  QueueTypeOK'
  BY CounterType DEF QueueTypeOK, WorkerExit

\* Every reachable state is well typed.
LEMMA TypeInit == Init => TypeOK
  BY WorkQueueAssumption, ClientsAssumption
  DEF Init, QueueInit, TypeOK, QueueTypeOK, ClientPC, WorkerPC, NoArg

LEMMA TypeStep == TypeOK /\ [Next]_vars => TypeOK'
<1> SUFFICES ASSUME TypeOK, [Next]_vars
             PROVE  TypeOK'
  OBVIOUS
<1> USE ClientsAssumption
<1>1. ASSUME NEW c \in Client, NEW flush \in Flushes, CallPut(c, flush)
      PROVE  TypeOK'
  BY <1>1 DEF TypeOK, CallPut, Call, queueVars, QueueTypeOK, ClientPC, WorkerPC
<1>2. ASSUME NEW c \in Client, CallWaitIdle(c) \/ CallTerminate(c)
      PROVE  TypeOK'
  <2>1. PICK method \in {"waitIdle", "terminate"} :
          Call(c, method) /\ UNCHANGED <<arg, given>>
    BY <1>2 DEF CallWaitIdle, CallTerminate
  <2>2. QueueTypeOK'
    BY <2>1 DEF TypeOK, QueueTypeOK, Call, queueVars
  <2> QED
    BY <2>1, <2>2 DEF TypeOK, Call, ClientPC, WorkerPC
<1>3. ASSUME NEW c \in Client, NEW created \in SUBSET Worker,
             StartWorkers(c, created)
      PROVE  TypeOK'
  <2>1. QueueTypeOK'
    BY <1>3 DEF TypeOK, StartWorkers, Start, QueueTypeOK
  <2> QED
    BY <1>3, <2>1 DEF TypeOK, StartWorkers, ClientPC, WorkerPC, LoopTop
<1>4. ASSUME NEW c \in Client, NEW out \in Outcome,
             InPut(c, out) \/ InWaitIdle(c, out) \/ InTerminate(c, out)
      PROVE  TypeOK'
  <2>1. QueueTypeOK'
    BY <1>4, PutType, WaitIdleType, TerminateType
    DEF TypeOK, InPut, InWaitIdle, InTerminate
  <2>2. Returns(c, out)
    BY <1>4 DEF InPut, InWaitIdle, InTerminate
  <2>3. CASE out = "wait"
    BY <2>1, <2>2, <2>3 DEF TypeOK, Returns
  <2>4. CASE out # "wait"
    <3>1. /\ pc' = [pc EXCEPT ![c] = "idle"]
          /\ arg' = [arg EXCEPT ![c] = NoArg]
          /\ ret' = [ret EXCEPT ![c] = out]
          /\ UNCHANGED <<hand, given, starts>>
      BY <2>2, <2>4 DEF Returns
    <3>2. arg' \in [Client -> [task : Task \cup {NoTask}, flush : BOOLEAN]]
      BY <3>1 DEF TypeOK, NoArg
    <3>3. ret' \in [Client -> {"none", "true", "false"}]
      BY <3>1, <2>4 DEF TypeOK, Outcome
    <3>4. /\ pc' \in [Thread -> ClientPC \cup WorkerPC]
          /\ \A d \in Client : pc'[d] = IF d = c THEN "idle" ELSE pc[d]
          /\ \A w \in Worker : pc'[w] = pc[w]
      BY <3>1 DEF TypeOK, ClientPC
    <3>5. \A d \in Client : pc'[d] \in ClientPC
      BY <3>4 DEF TypeOK, ClientPC
    <3>6. \A d \in Client : pc'[d] = "put" => arg'[d].task \in Task
      BY <3>1, <3>4 DEF TypeOK
    <3> QED
      BY <2>1, <3>1, <3>2, <3>3, <3>4, <3>5, <3>6 DEF TypeOK
  <2> QED
    BY <2>3, <2>4
<1>5. ASSUME NEW w \in Worker, NEW out \in Outcome, InWaitMinSz(w, out)
      PROVE  TypeOK'
  <2>1. QueueTypeOK'
    BY <1>5, WaitMinSzType DEF TypeOK, InWaitMinSz
  <2>2. PICK next \in WorkerPC : pc' = pc \/ pc' = [pc EXCEPT ![w] = next]
    BY <1>5 DEF InWaitMinSz, Outcome, WorkerPC
  <2>3. UNCHANGED <<arg, ret, hand, given, starts>>
    BY <1>5 DEF InWaitMinSz
  <2> QED
    BY <2>1, <2>2, <2>3 DEF TypeOK
<1>6. ASSUME NEW w \in Worker, NEW out \in Outcome, InTake(w, out)
      PROVE  TypeOK'
  <2>1. QueueTypeOK' /\ (TakePops(w) => Head(m_queue) \in Task)
    BY <1>6, TakeType DEF TypeOK, InTake
  <2>2. CASE out = "wait"
    <3>1. pc' = [pc EXCEPT ![w] = "take"] /\ UNCHANGED <<hand, arg, ret, given, starts>>
      BY <1>6, <2>2 DEF InTake
    <3> QED
      BY <2>1, <3>1 DEF TypeOK, ClientPC, WorkerPC
  <2>3. CASE out = "true"
    <3>1. /\ pc' = [pc EXCEPT ![w] = "busy"]
          /\ hand' = [hand EXCEPT ![w] = Head(m_queue)]
          /\ UNCHANGED <<arg, ret, given, starts>>
      BY <1>6, <2>3 DEF InTake
    <3>2. Head(m_queue) \in Task
      BY <1>6, <2>1, <2>3 DEF InTake, Take
    <3> QED
      BY <2>1, <3>1, <3>2 DEF TypeOK, ClientPC, WorkerPC
  <2>4. CASE out = "false"
    <3>1. pc' = [pc EXCEPT ![w] = "exit"] /\ UNCHANGED <<arg, ret, hand, given, starts>>
      BY <1>6, <2>4 DEF InTake
    <3> QED
      BY <2>1, <3>1 DEF TypeOK, ClientPC, WorkerPC
  <2> QED
    BY <2>2, <2>3, <2>4 DEF Outcome
<1>7. ASSUME NEW w \in Worker, Work(w)
      PROVE  TypeOK'
  BY <1>7 DEF TypeOK, Work, queueVars, QueueTypeOK, ClientPC, WorkerPC, LoopTop
<1>8. ASSUME NEW w \in Worker, Exit(w)
      PROVE  TypeOK'
  <2>1. QueueTypeOK'
    BY <1>8, WorkerExitType DEF TypeOK, Exit
  <2> QED
    BY <1>8, <2>1 DEF TypeOK, Exit, ClientPC, WorkerPC
<1>9. ASSUME NEW t \in Thread, Spurious(t)
      PROVE  TypeOK'
  BY <1>9 DEF TypeOK, Spurious, SpuriousWakeup, QueueTypeOK, clientVars, Asleep
<1>10. CASE UNCHANGED vars
  BY <1>10 DEF TypeOK, QueueTypeOK, vars, queueVars, clientVars
<1> QED
  BY <1>1, <1>2, <1>3, <1>4, <1>5, <1>6, <1>7, <1>8, <1>9, <1>10
  DEF Next, ClientStep, WorkerStep

\* Every variable has its type in every reachable state.
THEOREM TypeCorrect == Spec => []TypeOK
  BY TypeInit, TypeStep, PTL DEF Spec

-----------------------------------------------------------------------------
(* The counters are exact.                                                 *)

\* Counting up and down by one member keeps a counter exact: it never wraps,
\* there being at most UIntMax threads.
LEMMA CountMember ==
  ASSUME NEW S \in SUBSET Thread, NEW t \in Thread
  PROVE  /\ IsFiniteSet(S)
         /\ Cardinality(S) \in 0 .. UIntMax
         /\ t \notin S => Cardinality(S \cup {t}) = Inc(Cardinality(S))
         /\ t \in S => Cardinality(S \ {t}) = Dec(Cardinality(S))
         /\ t \in S => Inc(Dec(Cardinality(S))) = Cardinality(S)
<1>1. /\ IsFiniteSet(S) /\ Cardinality(S) \in Nat
      /\ Cardinality(S \cup {t}) \in Nat
      /\ Cardinality(S) =< UIntMax
      /\ Cardinality(S \cup {t}) =< UIntMax
  <2>1. IsFiniteSet(Thread) /\ Cardinality(Thread) \in Nat
        /\ Cardinality(Thread) =< UIntMax /\ UIntMax \in Nat
    BY WorkQueueAssumption, FS_CardinalityType
  <2>2. S \cup {t} \in SUBSET Thread
    OBVIOUS
  <2>3. /\ IsFiniteSet(S) /\ IsFiniteSet(S \cup {t})
        /\ Cardinality(S) =< Cardinality(Thread)
        /\ Cardinality(S \cup {t}) =< Cardinality(Thread)
    BY <2>1, <2>2, FS_Subset
  <2>4. Cardinality(S) \in Nat /\ Cardinality(S \cup {t}) \in Nat
    BY <2>3, FS_CardinalityType
  <2> QED
    BY <2>1, <2>3, <2>4
<1>2. /\ t \notin S => Cardinality(S \cup {t}) = Cardinality(S) + 1
      /\ t \in S => Cardinality(S \ {t}) = Cardinality(S) - 1
  BY <1>1, FS_AddElement, FS_RemoveElement
<1>3. t \in S => Cardinality(S) # 0
  BY <1>1, FS_EmptySet
<1> QED
  BY <1>1, <1>2, <1>3, WorkQueueAssumption DEF Inc, Dec

\* Going to sleep on m_wcond and leaving it keep m_workers_waiting exact.
LEMMA WaitersCounted ==
  ASSUME QueueTypeOK, WorkersWaitingExact, NEW t \in Thread,
         SleepWorkers(t) \/ LeaveWorkers(t)
  PROVE  WorkersWaitingExact'
<1>1. m_wcond \in SUBSET Thread
  BY DEF QueueTypeOK
<1>2. CASE SleepWorkers(t)
  <2>1. CASE t \in m_wcond
    <3>1. m_wcond' = m_wcond
      BY <1>2, <2>1 DEF SleepWorkers
    <3> QED
      BY <1>1, <1>2, <2>1, <3>1, CountMember
      DEF SleepWorkers, WorkersAfterWait, WorkersWaitingExact
  <2>2. CASE t \notin m_wcond
    BY <1>1, <1>2, <2>2, CountMember
    DEF SleepWorkers, WorkersAfterWait, WorkersWaitingExact
  <2> QED
    BY <2>1, <2>2
<1>3. CASE LeaveWorkers(t)
  <2>1. CASE t \in m_wcond
    BY <1>1, <1>3, <2>1, CountMember
    DEF LeaveWorkers, WorkersAfterWait, WorkersWaitingExact
  <2>2. CASE t \notin m_wcond
    <3>1. m_wcond' = m_wcond
      BY <1>3, <2>2 DEF LeaveWorkers
    <3> QED
      BY <1>3, <2>2, <3>1 DEF LeaveWorkers, WorkersAfterWait, WorkersWaitingExact
  <2> QED
    BY <2>1, <2>2
<1> QED
  BY <1>2, <1>3

\* When setTerminateAndWait() leaves its loop, every registered worker is gone,
\* none waits on m_wcond, and no unregistered worker runs.
LEMMA AllExitedMeansGone ==
  ASSUME CountingInv, AllExited
  PROVE  /\ \A w \in m_worker_threads : pc[w] = "gone"
         /\ \A w \in Worker : pc[w] \in {"unborn", "gone"}
         /\ m_wcond = {}
<1> DEFINE Gone == {w \in m_worker_threads : pc[w] = "gone"}
<1>1. IsFiniteSet(m_worker_threads)
  BY WorkQueueAssumption, FS_Subset DEF CountingInv, TypeOK, QueueTypeOK
<1>2. Gone \in SUBSET m_worker_threads
  OBVIOUS
<1>3. Cardinality(Gone) =< Cardinality(m_worker_threads)
      /\ (Cardinality(m_worker_threads) = Cardinality(Gone) =>
           m_worker_threads = Gone)
      /\ IsFiniteSet(Gone)
  BY <1>1, <1>2, FS_Subset
<1>4. Cardinality(Gone) \in Nat /\ Cardinality(m_worker_threads) \in Nat
  BY <1>1, <1>3, FS_CardinalityType
<1>5. Cardinality(Gone) >= Cardinality(m_worker_threads)
  BY DEF CountingInv, ExitedExact, AllExited
<1>6. m_worker_threads = Gone
  BY <1>3, <1>4, <1>5
<1>7. \A w \in m_worker_threads : pc[w] = "gone"
  BY <1>6
<1>8. \A w \in Worker : pc[w] \in {"unborn", "gone"}
  BY <1>7 DEF CountingInv, Discipline
<1>9. m_wcond = {}
  BY <1>8 DEF CountingInv, Discipline
<1> QED
  BY <1>7, <1>8, <1>9

LEMMA CountingInit == Init => CountingInv
<1> SUFFICES ASSUME Init PROVE CountingInv
  OBVIOUS
<1>1. TypeOK
  BY TypeInit
<1>2. Discipline
  BY ClientsAssumption DEF Init, QueueInit, Discipline
<1>3. {w \in m_worker_threads : pc[w] = "gone"} = {}
  BY DEF Init, QueueInit
<1> QED
  BY <1>1, <1>2, <1>3, FS_EmptySet
  DEF CountingInv, Init, QueueInit, ExitedExact, WorkersWaitingExact

\* A client's section moves no worker and no registration.
LEMMA ClientSectionCounts ==
  ASSUME CountingInv, TypeOK', NEW c \in Client, NEW out \in Outcome,
         InPut(c, out) \/ InWaitIdle(c, out)
  PROVE  CountingInv'
<1> USE ClientsAssumption
<1>1. Returns(c, out)
  BY DEF InPut, InWaitIdle
<1>2. /\ UNCHANGED <<m_worker_threads, m_workers_exited, m_workers_waiting, m_wcond>>
      /\ \/ m_ccond' = m_ccond \ {c}
         \/ m_ccond' = m_ccond \cup {c} /\ out = "wait"
  BY DEF InPut, InWaitIdle, Put, PutFails, PutSleeps, PutPushes, WaitIdle,
         LeaveClients, SleepClients
<1>3. pc[c] # "idle"
  BY DEF InPut, InWaitIdle
<1>4. /\ \A t \in Thread : t # c => pc'[t] = pc[t]
      /\ out = "wait" => pc' = pc
  BY <1>1 DEF Returns, CountingInv, TypeOK
<1>5. \A w \in Worker : pc'[w] = pc[w]
  BY <1>4
<1>6. Discipline'
  BY <1>2, <1>3, <1>4, <1>5 DEF CountingInv, Discipline
<1>7. {w \in m_worker_threads' : pc'[w] = "gone"} =
      {w \in m_worker_threads : pc[w] = "gone"}
  BY <1>2, <1>5 DEF CountingInv, Discipline
<1> QED
  BY <1>2, <1>6, <1>7 DEF CountingInv, ExitedExact, WorkersWaitingExact

\* Terminating keeps the counters exact: they are reset when all is still.
LEMMA TerminateCounts ==
  ASSUME CountingInv, TypeOK', NEW c \in Client, NEW out \in Outcome,
         InTerminate(c, out)
  PROVE  CountingInv'
<1> USE ClientsAssumption
<1>1. Returns(c, out) /\ pc[c] = "terminate"
  BY DEF InTerminate
<1>2. /\ \A t \in Thread : t # c => pc'[t] = pc[t]
      /\ out = "wait" => pc' = pc
  BY <1>1 DEF Returns, CountingInv, TypeOK
<1>3. \A w \in Worker : pc'[w] = pc[w]
  BY <1>2
<1>4. CASE TerminateFindsNobody(c) \/ (out = "wait" /\ TerminateSleeps(c))
  <2>1. UNCHANGED <<m_worker_threads, m_workers_exited, m_workers_waiting, m_wcond>>
    BY <1>4 DEF TerminateFindsNobody, TerminateSleeps, queueVars
  <2>2. \/ m_ccond' = m_ccond /\ c \notin m_ccond
        \/ m_ccond' = m_ccond \cup {c} /\ out = "wait"
    BY <1>4 DEF TerminateFindsNobody, TerminateSleeps, SleepClients, queueVars
  <2>3. Discipline'
    BY <1>1, <1>2, <1>3, <2>1, <2>2 DEF CountingInv, Discipline
  <2>4. {w \in m_worker_threads' : pc'[w] = "gone"} =
        {w \in m_worker_threads : pc[w] = "gone"}
    BY <2>1, <1>3 DEF CountingInv, Discipline
  <2> QED
    BY <2>1, <2>3, <2>4 DEF CountingInv, ExitedExact, WorkersWaitingExact
<1>5. CASE TerminateJoins(c)
  <2>1. /\ \A w \in Worker : pc[w] \in {"unborn", "gone"}
        /\ m_wcond = {}
    BY <1>5, AllExitedMeansGone DEF TerminateJoins
  <2>2. /\ m_worker_threads' = {} /\ m_wcond' = {}
        /\ m_workers_exited' = 0 /\ m_workers_waiting' = 0
        /\ m_ccond' = m_ccond \ {c}
    BY <1>5, <2>1 DEF TerminateJoins, ResetCounters
  <2>3. Discipline'
    BY <1>2, <1>3, <2>1, <2>2 DEF CountingInv, Discipline
  <2>4. {w \in m_worker_threads' : pc'[w] = "gone"} = {}
    BY <2>2
  <2> QED
    BY <2>2, <2>3, <2>4, FS_EmptySet DEF CountingInv, ExitedExact, WorkersWaitingExact
<1> QED
  BY <1>4, <1>5 DEF InTerminate, SetTerminateAndWait

\* A worker's take() or waitminsz() keeps them exact.
LEMMA WorkerSectionCounts ==
  ASSUME CountingInv, TypeOK', NEW w \in Worker, NEW out \in Outcome,
         InTake(w, out) \/ InWaitMinSz(w, out)
  PROVE  CountingInv'
<1> USE ClientsAssumption
<1>1. /\ UNCHANGED <<m_worker_threads, m_workers_exited, m_ccond>>
      /\ (SleepWorkers(w) /\ out = "wait") \/ LeaveWorkers(w)
  BY DEF InTake, InWaitMinSz, Take, WaitMinSz, WorkerFails, WorkerSleeps, TakePops
<1>2. /\ pc[w] \in {"minsz", "passed", "take"}
      /\ \E next \in {"passed", "take", "busy", "exit"} :
            pc' = pc \/ pc' = [pc EXCEPT ![w] = next]
      /\ out = "wait" =>
           (pc[w] = "minsz" /\ pc' = pc) \/ pc' = [pc EXCEPT ![w] = "take"]
  BY DEF InTake, InWaitMinSz, Outcome
<1>3. /\ \A t \in Thread : t # w => pc'[t] = pc[t]
      /\ pc'[w] \in {pc[w], "passed", "take", "busy", "exit"}
      /\ out = "wait" => pc'[w] \in {"minsz", "take"}
  BY <1>2 DEF CountingInv, TypeOK
<1>4. WorkersWaitingExact'
  BY <1>1, WaitersCounted DEF CountingInv, TypeOK
<1>5. Discipline'
  <2>1. \A c \in m_ccond' : c \in Client /\ pc'[c] # "idle"
    BY <1>1, <1>3 DEF CountingInv, Discipline
  <2>2. \A v \in m_wcond' : v \in Worker /\ pc'[v] \in {"minsz", "take"}
    BY <1>1, <1>2, <1>3 DEF CountingInv, Discipline, SleepWorkers, LeaveWorkers
  <2>3. \A v \in Worker : pc'[v] \notin {"unborn", "gone"} => v \in m_worker_threads'
    BY <1>1, <1>2, <1>3 DEF CountingInv, Discipline
  <2>4. \A v \in m_worker_threads' : v \in Worker /\ pc'[v] # "unborn"
    BY <1>1, <1>2, <1>3 DEF CountingInv, Discipline
  <2> QED
    BY <2>1, <2>2, <2>3, <2>4 DEF Discipline
<1>6. {v \in m_worker_threads' : pc'[v] = "gone"} =
      {v \in m_worker_threads : pc[v] = "gone"}
  BY <1>1, <1>2, <1>3 DEF CountingInv, Discipline
<1> QED
  BY <1>1, <1>4, <1>5, <1>6 DEF CountingInv, ExitedExact

\* A worker that leaves is counted once.
LEMMA ExitCounts ==
  ASSUME CountingInv, TypeOK', NEW w \in Worker, Exit(w)
  PROVE  CountingInv'
<1> USE ClientsAssumption
<1> DEFINE Gone == {v \in m_worker_threads : pc[v] = "gone"}
<1>1. /\ UNCHANGED <<m_worker_threads, m_workers_waiting, m_ccond, m_wcond>>
      /\ m_workers_exited' = Inc(m_workers_exited)
      /\ pc[w] = "exit" /\ pc' = [pc EXCEPT ![w] = "gone"]
  BY DEF Exit, WorkerExit
<1>2. \A t \in Thread : pc'[t] = IF t = w THEN "gone" ELSE pc[t]
  BY <1>1 DEF CountingInv, TypeOK
<1>3. Discipline'
  BY <1>1, <1>2 DEF CountingInv, Discipline
<1>4. w \in m_worker_threads /\ w \notin Gone /\ Gone \in SUBSET Thread
  BY <1>1 DEF CountingInv, Discipline, TypeOK, QueueTypeOK
<1>5. {v \in m_worker_threads' : pc'[v] = "gone"} = Gone \cup {w}
  BY <1>1, <1>2, <1>4 DEF CountingInv, Discipline
<1>6. Cardinality(Gone \cup {w}) = Inc(Cardinality(Gone))
  BY <1>4, CountMember
<1> QED
  BY <1>1, <1>3, <1>5, <1>6 DEF CountingInv, ExitedExact, WorkersWaitingExact

LEMMA CountingStep == CountingInv /\ [Next]_vars => CountingInv'
<1> SUFFICES ASSUME CountingInv, [Next]_vars
             PROVE  CountingInv'
  OBVIOUS
<1> USE ClientsAssumption
<1>t. TypeOK'
  BY TypeStep DEF CountingInv
<1>1. ASSUME NEW c \in Client,
             \/ \E flush \in Flushes : CallPut(c, flush)
             \/ CallWaitIdle(c)
             \/ CallTerminate(c)
      PROVE  CountingInv'
  <2>1. PICK method \in {"put", "waitIdle", "terminate"} : Call(c, method)
    BY <1>1 DEF CallPut, CallWaitIdle, CallTerminate
  <2>2. UNCHANGED queueVars /\ \A t \in Thread : t # c => pc'[t] = pc[t]
    BY <2>1 DEF Call, CountingInv, TypeOK
  <2>3. pc'[c] # "idle"
    BY <2>1 DEF Call, CountingInv, TypeOK
  <2>4. {w \in m_worker_threads' : pc'[w] = "gone"} =
        {w \in m_worker_threads : pc[w] = "gone"}
    BY <2>2 DEF queueVars, CountingInv, Discipline
  <2>5. Discipline'
    BY <2>2, <2>3 DEF queueVars, CountingInv, Discipline
  <2> QED
    BY <1>t, <2>2, <2>4, <2>5
    DEF CountingInv, queueVars, ExitedExact, WorkersWaitingExact
<1>2. ASSUME NEW c \in Client, NEW created \in SUBSET Worker,
             StartWorkers(c, created)
      PROVE  CountingInv'
  <2>1. /\ m_worker_threads = {} /\ m_worker_threads' = created
        /\ UNCHANGED <<m_workers_exited, m_workers_waiting, m_ccond, m_wcond>>
        /\ \A t \in Thread : pc'[t] = IF t \in created THEN LoopTop ELSE pc[t]
    BY <1>2 DEF StartWorkers, Start
  <2>2. m_wcond = {} /\ \A w \in Worker : pc[w] \in {"unborn", "gone"}
    BY <2>1 DEF CountingInv, Discipline
  <2>3. Discipline'
    BY <2>1, <2>2 DEF CountingInv, Discipline, LoopTop
  <2>4. {w \in m_worker_threads' : pc'[w] = "gone"} =
        {w \in m_worker_threads : pc[w] = "gone"}
    BY <2>1 DEF LoopTop
  <2> QED
    BY <1>t, <2>1, <2>3, <2>4 DEF CountingInv, ExitedExact, WorkersWaitingExact
<1>3. ASSUME NEW w \in Worker, Work(w)
      PROVE  CountingInv'
  <2>1. UNCHANGED queueVars /\ pc[w] = "busy"
    BY <1>3 DEF Work
  <2>2. /\ \A t \in Thread : t # w => pc'[t] = pc[t]
        /\ pc'[w] \in {LoopTop, "take", "exit"}
    BY <1>3 DEF Work, CountingInv, TypeOK
  <2>3. Discipline'
    BY <2>1, <2>2 DEF queueVars, CountingInv, Discipline, LoopTop
  <2>4. {v \in m_worker_threads' : pc'[v] = "gone"} =
        {v \in m_worker_threads : pc[v] = "gone"}
    BY <2>1, <2>2 DEF queueVars, LoopTop, CountingInv, Discipline
  <2> QED
    BY <1>t, <2>1, <2>3, <2>4
    DEF CountingInv, queueVars, ExitedExact, WorkersWaitingExact
<1>4. ASSUME NEW t \in Thread, Spurious(t)
      PROVE  CountingInv'
  BY <1>4, <1>t DEF Spurious, SpuriousWakeup, clientVars, CountingInv, Discipline,
                    ExitedExact, WorkersWaitingExact
<1>5. CASE UNCHANGED vars
  BY <1>5, <1>t DEF vars, queueVars, clientVars, CountingInv, Discipline,
                    ExitedExact, WorkersWaitingExact
<1> QED
  BY <1>t, <1>1, <1>2, <1>3, <1>4, <1>5, ClientSectionCounts, TerminateCounts,
     WorkerSectionCounts, ExitCounts
  DEF Next, ClientStep, WorkerStep

\* m_workers_waiting is the number of workers inside pthread_cond_wait, and
\* m_workers_exited the number of registered workers that left, in every
\* reachable state.
THEOREM CountersExact == Spec => []WorkersCounted
<1>1. Spec => []CountingInv
  BY CountingInit, CountingStep, PTL DEF Spec
<1>2. CountingInv => WorkersCounted
  BY DEF CountingInv, WorkersCounted
<1> QED
  BY <1>1, <1>2, PTL

-----------------------------------------------------------------------------
(* What the two waiting calls of a client mean when they return.           *)

\* As many workers waiting as there are registered: all of them wait.
LEMMA AllWaiting ==
  ASSUME CountingInv, Idle
  PROVE  m_queue = <<>> /\ \A w \in m_worker_threads : w \in m_wcond
<1>1. Cardinality(m_wcond) = Cardinality(m_worker_threads)
  BY DEF Idle, CountingInv, WorkersWaitingExact
<1>2. m_wcond \in SUBSET m_worker_threads
  BY DEF CountingInv, Discipline
<1>3. IsFiniteSet(m_worker_threads)
  BY WorkQueueAssumption, FS_Subset DEF CountingInv, TypeOK, QueueTypeOK
<1>4. m_wcond = m_worker_threads
  BY <1>1, <1>2, <1>3, FS_Subset
<1> QED
  BY <1>4 DEF Idle

\* When waitIdle() returns true, the queue is empty and every registered worker
\* is inside the wait of take() or waitminsz().
THEOREM WaitIdleCorrect == Spec => WaitIdleMeansIdle
<1>1. ASSUME CountingInv, NEW c \in Client, InWaitIdle(c, "true")
      PROVE  m_queue = <<>> /\ \A w \in m_worker_threads : w \in m_wcond
  BY <1>1, AllWaiting DEF InWaitIdle, WaitIdle
<1>2. Spec => []CountingInv
  BY CountingInit, CountingStep, PTL DEF Spec
<1>3. CountingInv /\ [Next]_vars =>
        [\A c \in Client :
           InWaitIdle(c, "true") =>
             m_queue = <<>> /\ \A w \in m_worker_threads : w \in m_wcond]_vars
  BY <1>1
<1> QED
  BY <1>2, <1>3, PTL DEF Spec, WaitIdleMeansIdle

\* When setTerminateAndWait() returns, no worker of the queue runs.
THEOREM TerminateCorrect == Spec => TerminateMeansGone
<1>1. ASSUME CountingInv, NEW c \in Client, InTerminate(c, "true")
      PROVE  \A w \in Worker : pc[w] \in {"unborn", "gone"}
  BY <1>1, AllExitedMeansGone DEF InTerminate, SetTerminateAndWait, TerminateJoins
<1>2. Spec => []CountingInv
  BY CountingInit, CountingStep, PTL DEF Spec
<1>3. CountingInv /\ [Next]_vars =>
        [\A c \in Client :
           InTerminate(c, "true") =>
             \A w \in Worker : pc[w] \in {"unborn", "gone"}]_vars
  BY <1>1
<1> QED
  BY <1>2, <1>3, PTL DEF Spec, TerminateMeansGone

-----------------------------------------------------------------------------
(* No lost wakeup for workers.                                             *)

\* A set of threads is finite.
LEMMA ThreadsFinite ==
  ASSUME NEW S \in SUBSET Thread
  PROVE  IsFiniteSet(S) /\ Cardinality(S) \in Nat
  BY WorkQueueAssumption, FS_Subset, FS_CardinalityType

\* What is needed of the threads around one step: while the queue is live after
\* it and a worker still sleeps, the queue grew no more than those on their way.
LEMMA BalanceKept ==
  ASSUME InductiveInv, TypeOK', NEW grown \in Int,
         ok' /\ MinSz =< Low /\ Asleep(m_wcond)' # {} =>
           /\ ok
           /\ Asleep(m_wcond) # {}
           /\ Len(m_queue') =< Len(m_queue) + grown
           /\ Cardinality(OnTheWay') >= Cardinality(OnTheWay) + grown
  PROVE  NoLostWorkerWakeup'
<1>1. OnTheWay \in SUBSET Thread /\ Len(m_queue) \in Nat
  BY ClientsAssumption, SMTT(20)
  DEF InductiveInv, CountingInv, TypeOK, QueueTypeOK, OnTheWay, WokenWorkers
<1>2. OnTheWay' \in SUBSET Thread /\ Len(m_queue') \in Nat
  BY ClientsAssumption DEF TypeOK, QueueTypeOK, OnTheWay, WokenWorkers
<1>3. Cardinality(OnTheWay) \in Nat /\ Cardinality(OnTheWay') \in Nat
  BY <1>1, <1>2, ThreadsFinite
<1> QED
  BY <1>1, <1>2, <1>3, WorkQueueAssumption DEF InductiveInv, NoLostWorkerWakeup

\* put() adds one task and wakes one sleeper.
LEMMA PutBalance ==
  ASSUME InductiveInv, TypeOK', NEW c \in Client, NEW out \in Outcome,
         InPut(c, out)
  PROVE  NoLostWorkerWakeup'
<1> USE ClientsAssumption
<1> DEFINE Passed == {w \in Worker : pc[w] = "passed"}
<1>1. c \notin m_wcond /\ UNCHANGED <<ok, m_wcond>> /\ Passed' = Passed
  <2>1. \A w \in Worker : pc'[w] = pc[w]
    BY DEF InPut, Returns, InductiveInv, CountingInv, TypeOK
  <2>2. Passed' = Passed
    BY <2>1
  <2> QED
    BY <2>2 DEF InPut, Put, InductiveInv, CountingInv, Discipline, ok
<1>2. CASE woken' = woken \ {c} /\ UNCHANGED m_queue
  <2>1. OnTheWay' = OnTheWay /\ Asleep(m_wcond)' = Asleep(m_wcond)
    BY <1>1, <1>2 DEF OnTheWay, WokenWorkers, Asleep
  <2> QED
    BY <1>1, <1>2, <2>1 DEF InductiveInv, NoLostWorkerWakeup
<1>3. CASE PutPushes(c, arg[c].task, arg[c].flush)
  <2> SUFFICES ASSUME ok', MinSz =< Low, Asleep(m_wcond)' # {}
               PROVE  /\ ok
                      /\ Asleep(m_wcond) # {}
                      /\ Len(m_queue') =< Len(m_queue) + 1
                      /\ Cardinality(OnTheWay') >= Cardinality(OnTheWay) + 1
    BY BalanceKept
  <2>1. PICK ws \in IF m_workers_waiting > 0 THEN Signal(m_wcond) ELSE {{}} :
          woken' = (woken \ {c}) \cup ws
    BY <1>3 DEF PutPushes
  <2>2. Asleep(m_wcond)' \subseteq Asleep(m_wcond)
    BY <1>1, <2>1 DEF Asleep
  <2>3. m_wcond \in SUBSET Thread /\ OnTheWay \in SUBSET Thread
    BY DEF InductiveInv, CountingInv, TypeOK, QueueTypeOK, OnTheWay, WokenWorkers
  <2>4. m_workers_waiting > 0
    <3>1. IsFiniteSet(m_wcond) /\ m_wcond # {}
      BY <2>2, <2>3, ThreadsFinite DEF Asleep
    <3>2. Cardinality(m_wcond) # 0 /\ Cardinality(m_wcond) \in Nat
      BY <3>1, FS_EmptySet, FS_CardinalityType
    <3> QED
      BY <3>2 DEF InductiveInv, CountingInv, WorkersWaitingExact
  <2>5. PICK t \in Asleep(m_wcond) : ws = {t}
    BY <2>1, <2>2, <2>4 DEF Signal
  <2>6. OnTheWay' = OnTheWay \cup {t} /\ t \notin OnTheWay
    BY <1>1, <2>1, <2>5
    DEF OnTheWay, WokenWorkers, Asleep, InductiveInv, CountingInv, Discipline
  <2>7. IsFiniteSet(OnTheWay) /\ Cardinality(OnTheWay) \in Nat
    BY <2>3, ThreadsFinite
  <2>8. Cardinality(OnTheWay') = Cardinality(OnTheWay) + 1
    BY <2>6, <2>7, FS_AddElement
  <2>9. Len(m_queue') =< Len(m_queue) + 1
    BY <1>3, SMTT(20) DEF PutPushes, InductiveInv, CountingInv, TypeOK, QueueTypeOK
  <2> QED
    BY <1>1, <2>2, <2>7, <2>8, <2>9
<1> QED
  BY <1>2, <1>3 DEF InPut, Put, PutFails, PutSleeps

\* A worker that goes back to sleep has found too few tasks.
LEMMA SleepBalance ==
  ASSUME InductiveInv, TypeOK', Len(m_queue') < Low
  PROVE  NoLostWorkerWakeup'
<1>1. OnTheWay' \in SUBSET Thread /\ Len(m_queue') \in Nat
  BY ClientsAssumption DEF TypeOK, QueueTypeOK, OnTheWay, WokenWorkers
<1>2. Cardinality(OnTheWay') \in Nat
  BY <1>1, ThreadsFinite
<1> QED
  BY <1>1, <1>2, WorkQueueAssumption DEF NoLostWorkerWakeup

\* take() removes one task for each worker on its way that it uses up.
LEMMA TakeBalance ==
  ASSUME InductiveInv, TypeOK', NEW w \in Worker, NEW out \in Outcome,
         InTake(w, out)
  PROVE  NoLostWorkerWakeup'
<1> USE ClientsAssumption
<1>1. UNCHANGED ok
  BY DEF InTake, Take, ok
<1>2. CASE WorkerFails(w)
  BY <1>1, <1>2 DEF WorkerFails, NoLostWorkerWakeup
<1>3. CASE WorkerSleeps(w, Low) /\ UNCHANGED m_queue
  BY <1>3, SleepBalance DEF WorkerSleeps, Short
<1>4. CASE TakePops(w) /\ out = "true"
  <2> SUFFICES ASSUME ok', MinSz =< Low, Asleep(m_wcond)' # {}
               PROVE  /\ ok
                      /\ Asleep(m_wcond) # {}
                      /\ Len(m_queue') =< Len(m_queue) + (-1)
                      /\ Cardinality(OnTheWay') >= Cardinality(OnTheWay) + (-1)
    <3> -1 \in Int
      OBVIOUS
    <3> QED
      BY BalanceKept
  <2>1. PICK ws \in IF m_clients_waiting > 0 THEN Signal(m_ccond) ELSE {{}} :
          woken' = (woken \ {w}) \cup ws
    BY <1>4 DEF TakePops
  <2>2. ws \cap m_wcond = {}
    <3>1. ws \subseteq m_ccond
      BY <2>1, SignalType
    <3> QED
      BY <3>1 DEF InductiveInv, CountingInv, Discipline
  <2>3. /\ m_wcond' = m_wcond \ {w}
        /\ \A v \in Worker : pc'[v] = "passed" <=> pc[v] = "passed" /\ v # w
    BY <1>4 DEF TakePops, LeaveWorkers, InTake, InductiveInv, CountingInv, TypeOK
  <2>4. OnTheWay' = OnTheWay \ {w} /\ Asleep(m_wcond)' \subseteq Asleep(m_wcond)
    BY <2>1, <2>2, <2>3 DEF OnTheWay, WokenWorkers, Asleep
  <2>5. IsFiniteSet(OnTheWay) /\ Cardinality(OnTheWay) \in Nat
    <3>1. OnTheWay \in SUBSET Thread
      BY DEF InductiveInv, CountingInv, TypeOK, QueueTypeOK, OnTheWay, WokenWorkers
    <3> QED
      BY <3>1, ThreadsFinite
  <2>6. Cardinality(OnTheWay') >= Cardinality(OnTheWay) + (-1)
    <3>1. \/ Cardinality(OnTheWay \ {w}) = Cardinality(OnTheWay) - 1
          \/ Cardinality(OnTheWay \ {w}) = Cardinality(OnTheWay)
      BY <2>5, FS_RemoveElement
    <3> QED
      BY <2>4, <2>5, <3>1
  <2>7. Len(m_queue') = Len(m_queue) - 1
    BY <1>4, WorkQueueAssumption
    DEF TakePops, Short, InductiveInv, CountingInv, TypeOK, QueueTypeOK
  <2>8. Len(m_queue) \in Nat
    BY DEF InductiveInv, CountingInv, TypeOK, QueueTypeOK
  <2>9. Len(m_queue') =< Len(m_queue) + (-1)
    BY <2>7, <2>8
  <2>10. ok /\ Asleep(m_wcond) # {}
    BY <1>1, <2>4
  <2> QED
    BY <2>6, <2>9, <2>10
<1> QED
  BY <1>2, <1>3, <1>4 DEF InTake, Take

\* waitminsz() sends a worker on its way, or back to sleep before few tasks.
LEMMA WaitMinSzBalance ==
  ASSUME InductiveInv, TypeOK', NEW w \in Worker, NEW out \in Outcome,
         InWaitMinSz(w, out)
  PROVE  NoLostWorkerWakeup'
<1> USE ClientsAssumption
<1>1. UNCHANGED <<ok, m_queue>>
  BY DEF InWaitMinSz, WaitMinSz, ok
<1>2. CASE WorkerFails(w)
  BY <1>1, <1>2 DEF WorkerFails, NoLostWorkerWakeup
<1>3. CASE WorkerSleeps(w, MinSz)
  <2>1. CASE MinSz =< Low
    <3>1. Len(m_queue') \in Nat /\ Len(m_queue') < MinSz
      BY <1>1, <1>3 DEF WorkerSleeps, Short, TypeOK, QueueTypeOK
    <3>2. Len(m_queue') < Low
      BY <2>1, <3>1, WorkQueueAssumption
    <3> QED
      BY <3>2, SleepBalance
  <2>2. CASE ~(MinSz =< Low)
    BY <2>2 DEF NoLostWorkerWakeup
  <2> QED
    BY <2>1, <2>2
<1>4. CASE out = "true" /\ LeaveWorkers(w) /\ woken' = woken \ {w}
  <2>1. /\ pc' = [pc EXCEPT ![w] = "passed"]
        /\ pc[w] = "minsz"
        /\ w \notin Asleep(m_wcond)
        /\ m_wcond' = m_wcond \ {w}
    BY <1>4 DEF InWaitMinSz, WaitMinSz, Runs, LeaveWorkers
  <2>2. Asleep(m_wcond)' = Asleep(m_wcond)
    BY <1>4, <2>1 DEF Asleep
  <2>3. \A v \in Worker : pc'[v] = IF v = w THEN "passed" ELSE pc[v]
    BY <2>1 DEF InductiveInv, CountingInv, TypeOK
  <2>4. OnTheWay \in SUBSET OnTheWay'
    BY <1>4, <2>1, <2>3 DEF OnTheWay, WokenWorkers
  <2>5. OnTheWay' \in SUBSET Thread
    BY DEF TypeOK, QueueTypeOK, OnTheWay, WokenWorkers
  <2>6. /\ Cardinality(OnTheWay) =< Cardinality(OnTheWay')
        /\ Cardinality(OnTheWay) \in Nat /\ Cardinality(OnTheWay') \in Nat
    BY <2>4, <2>5, ThreadsFinite, FS_Subset
  <2>7. Len(m_queue) \in Nat
    BY DEF InductiveInv, CountingInv, TypeOK, QueueTypeOK
  <2> QED
    BY <1>1, <2>2, <2>6, <2>7, WorkQueueAssumption DEF InductiveInv, NoLostWorkerWakeup
<1> QED
  BY <1>2, <1>3, <1>4 DEF InWaitMinSz, WaitMinSz

\* Steps that move no task and no worker to or from its way keep the balance.
LEMMA StillBalance ==
  ASSUME InductiveInv, TypeOK',
         ok' => ok /\ UNCHANGED <<m_queue, m_wcond>>,
         OnTheWay \subseteq OnTheWay', Asleep(m_wcond)' \subseteq Asleep(m_wcond)
  PROVE  NoLostWorkerWakeup'
<1>1. OnTheWay \in SUBSET OnTheWay' /\ OnTheWay' \in SUBSET Thread
  BY ClientsAssumption DEF TypeOK, QueueTypeOK, OnTheWay, WokenWorkers
<1>2. /\ Cardinality(OnTheWay) =< Cardinality(OnTheWay')
      /\ Cardinality(OnTheWay) \in Nat /\ Cardinality(OnTheWay') \in Nat
  BY <1>1, ThreadsFinite, FS_Subset
<1>3. Len(m_queue) \in Nat
  BY DEF InductiveInv, CountingInv, TypeOK, QueueTypeOK
<1> QED
  BY <1>2, <1>3, WorkQueueAssumption DEF InductiveInv, NoLostWorkerWakeup

\* Every other step leaves the tasks and the sleepers alone, or wakes more of
\* them, or is a step of a dead queue.
LEMMA NoLostWakeupStep == InductiveInv /\ [Next]_vars => NoLostWorkerWakeup'
<1> SUFFICES ASSUME InductiveInv, [Next]_vars
             PROVE  NoLostWorkerWakeup'
  OBVIOUS
<1> USE ClientsAssumption
<1>t. TypeOK'
  BY TypeStep DEF InductiveInv, CountingInv
<1>1. CASE UNCHANGED queueVars /\ \A w \in Worker : pc[w] = "passed" => pc'[w] = "passed"
  BY <1>t, <1>1, StillBalance DEF queueVars, ok, Asleep, OnTheWay, WokenWorkers
<1>2. ASSUME NEW c \in Client, NEW method, Call(c, method)
      PROVE  NoLostWorkerWakeup'
  <2>1. UNCHANGED queueVars /\ \A w \in Worker : pc'[w] = pc[w]
    BY <1>2 DEF Call, InductiveInv, CountingInv, TypeOK
  <2> QED
    BY <1>1, <2>1
<1>3. ASSUME NEW c \in Client, NEW created \in SUBSET Worker,
             StartWorkers(c, created)
      PROVE  NoLostWorkerWakeup'
  <2>1. m_wcond = {} /\ m_wcond' = m_wcond
    BY <1>3 DEF StartWorkers, Start, InductiveInv, CountingInv, Discipline
  <2> QED
    BY <2>1 DEF NoLostWorkerWakeup, Asleep
<1>4. ASSUME NEW c \in Client, NEW out \in Outcome, InWaitIdle(c, out)
      PROVE  NoLostWorkerWakeup'
  <2>1. c \notin m_wcond /\ \A w \in Worker : pc'[w] = pc[w]
    BY <1>4 DEF InWaitIdle, Returns, InductiveInv, CountingInv, Discipline, TypeOK
  <2>2. UNCHANGED <<ok, m_queue, m_wcond>> /\ woken' = woken \ {c}
    BY <1>4 DEF InWaitIdle, WaitIdle, ok
  <2>3. OnTheWay' = OnTheWay /\ Asleep(m_wcond)' = Asleep(m_wcond)
    BY <2>1, <2>2 DEF OnTheWay, WokenWorkers, Asleep
  <2> QED
    BY <1>t, <2>2, <2>3, StillBalance
<1>5. ASSUME NEW c \in Client, NEW out \in Outcome, InTerminate(c, out)
      PROVE  NoLostWorkerWakeup'
  <2>1. CASE TerminateFindsNobody(c)
    <3>1. \A w \in Worker : pc'[w] = pc[w]
      BY <1>5 DEF InTerminate, Returns, InductiveInv, CountingInv, TypeOK
    <3> QED
      BY <1>1, <2>1, <3>1 DEF TerminateFindsNobody
  <2>2. CASE TerminateSleeps(c)
    <3>1. c \notin m_wcond /\ m_wcond' = m_wcond
          /\ woken' = (woken \ {c}) \cup m_wcond
      BY <1>5, <2>2
      DEF TerminateSleeps, InTerminate, InductiveInv, CountingInv, Discipline
    <3>2. Asleep(m_wcond)' = {}
      BY <3>1 DEF Asleep
    <3> QED
      BY <3>2 DEF NoLostWorkerWakeup
  <2>3. CASE TerminateJoins(c)
    BY <2>3 DEF TerminateJoins, NoLostWorkerWakeup, ok
  <2> QED
    BY <1>5, <2>1, <2>2, <2>3 DEF InTerminate, SetTerminateAndWait
<1>6. ASSUME NEW w \in Worker, Work(w)
      PROVE  NoLostWorkerWakeup'
  BY <1>1, <1>6 DEF Work, InductiveInv, CountingInv, TypeOK
<1>7. ASSUME NEW w \in Worker, Exit(w)
      PROVE  NoLostWorkerWakeup'
  BY <1>7 DEF Exit, WorkerExit, NoLostWorkerWakeup, ok
<1>8. ASSUME NEW t \in Thread, Spurious(t)
      PROVE  NoLostWorkerWakeup'
  BY <1>t, <1>8, StillBalance
  DEF Spurious, SpuriousWakeup, clientVars, ok, OnTheWay, WokenWorkers, Asleep
<1>9. CASE UNCHANGED vars
  BY <1>1, <1>9 DEF vars, clientVars
<1> QED
  BY <1>t, <1>2, <1>3, <1>4, <1>5, <1>6, <1>7, <1>8, <1>9, PutBalance, TakeBalance,
     WaitMinSzBalance
  DEF Next, ClientStep, WorkerStep, CallPut, CallWaitIdle, CallTerminate

\* While the queue is live, a worker stays asleep only if the queue is shorter
\* than Low or enough workers are on their way to take what exceeds it: put()
\* waking one worker per task loses no wakeup, for any number of workers.
THEOREM NoWorkerWakeupLost == Spec => []NoLostWorkerWakeup
<1>1. Init => InductiveInv
  BY CountingInit DEF InductiveInv, Init, QueueInit, NoLostWorkerWakeup, Asleep
<1>2. InductiveInv /\ [Next]_vars => InductiveInv'
  BY CountingStep, NoLostWakeupStep DEF InductiveInv
<1>3. InductiveInv => NoLostWorkerWakeup
  BY DEF InductiveInv
<1> QED
  BY <1>1, <1>2, <1>3, PTL DEF Spec

-----------------------------------------------------------------------------
(* The clients: put(), waitIdle() and setTerminateAndWait() share one       *)
(* condition variable, and take() signals one of them only.                *)

\* Going to sleep on m_ccond and leaving it keep m_clients_waiting exact.
LEMMA ClientsSleepCounted ==
  ASSUME QueueTypeOK, m_clients_waiting = Cardinality(m_ccond), NEW t \in Thread,
         SleepClients(t) \/ LeaveClients(t)
  PROVE  m_clients_waiting' = Cardinality(m_ccond')
<1>1. m_ccond \in SUBSET Thread
  BY DEF QueueTypeOK
<1>2. CASE t \in m_ccond
  <2>1. m_ccond \cup {t} = m_ccond
    BY <1>2
  <2>2. CASE SleepClients(t)
    BY <1>1, <1>2, <2>1, <2>2, CountMember DEF SleepClients, ClientsAfterWait
  <2>3. CASE LeaveClients(t)
    BY <1>1, <1>2, <2>3, CountMember DEF LeaveClients, ClientsAfterWait
  <2>4. QED
    BY <2>2, <2>3
<1>3. CASE t \notin m_ccond
  <2>1. m_ccond \ {t} = m_ccond
    BY <1>3
  <2>2. QED
    BY <1>1, <1>3, <2>1, CountMember DEF SleepClients, LeaveClients, ClientsAfterWait
<1>4. QED
  BY <1>2, <1>3

\* What a section of put() or waitIdle() does to the clients that wait.
LEMMA SectionFacts ==
  ASSUME ClientsInv, NEW c \in Client, NEW out \in Outcome,
         InPut(c, out) \/ InWaitIdle(c, out)
  PROVE  /\ UNCHANGED <<m_ok, m_worker_threads, m_workers_exited, m_wcond, starts>>
         /\ ok' = ok
         /\ out # "false" <=> ok
         /\ c \notin m_wcond /\ c \notin Asleep(m_ccond)
         /\ \/ SleepClients(c) /\ out = "wait" /\ m_ccond' = m_ccond \cup {c}
            \/ LeaveClients(c) /\ out # "wait" /\ m_ccond' = m_ccond \ {c}
         /\ \A d \in Client : d # c => pc'[d] = pc[d]
         /\ out = "wait" => pc' = pc /\ arg' = arg
         /\ \A d \in Client : pc'[d] = "put" => pc[d] = "put" /\ arg'[d] = arg[d]
         /\ pc[c] \in {"put", "waitIdle"}
<1>1. Returns(c, out)
  BY DEF InPut, InWaitIdle
<1>2. /\ UNCHANGED <<m_ok, m_worker_threads, m_workers_exited, m_wcond>>
      /\ Runs(c) /\ pc[c] \in {"put", "waitIdle"}
      /\ \/ SleepClients(c) /\ out = "wait"
         \/ LeaveClients(c) /\ out # "wait"
      /\ out # "false" <=> ok
  BY DEF InPut, InWaitIdle, Put, WaitIdle, PutFails, PutSleeps, PutPushes
<1>3. c \notin m_wcond
  BY ClientsAssumption DEF ClientsInv, CountingInv, Discipline
<1>4. /\ starts' = starts
      /\ \A d \in Client : d # c => pc'[d] = pc[d] /\ arg'[d] = arg[d]
      /\ out = "wait" => pc' = pc /\ arg' = arg
      /\ out # "wait" => pc'[c] = "idle"
  BY <1>1, ClientsAssumption DEF Returns, ClientsInv, CountingInv, TypeOK
<1>5. QED
  BY <1>2, <1>3, <1>4 DEF Runs, ok, SleepClients, LeaveClients

-----------------------------------------------------------------------------
(* The lemmas of the last conjunct: the room in the queue and the clients  *)
(* on their way to it balance.                                             *)

LEMMA ClientBalanceKept ==
  ASSUME ClientsInv, TypeOK', NEW grown \in Int,
         ok' /\ starts' =< 1 /\ (\A d \in m_ccond' : pc'[d] = "put")
             /\ Asleep(m_ccond)' # {} =>
           /\ ok /\ starts =< 1
           /\ \A d \in m_ccond : pc[d] = "put"
           /\ Asleep(m_ccond) # {}
           /\ Len(m_queue') >= Len(m_queue) + grown
           /\ Cardinality(WokenClients') + grown >= Cardinality(WokenClients)
  PROVE  NoLostClientWakeup'
<1>1. WokenClients \in SUBSET Thread /\ WokenClients' \in SUBSET Thread
  BY DEF ClientsInv, CountingInv, TypeOK, QueueTypeOK, WokenClients
<1>2. Cardinality(WokenClients) \in Nat /\ Cardinality(WokenClients') \in Nat
  BY <1>1, ThreadsFinite
<1>3. Len(m_queue) \in Nat /\ Len(m_queue') \in Nat
  BY SMTT(20) DEF ClientsInv, CountingInv, TypeOK, QueueTypeOK
<1>4. KeptFull \in Nat
  BY WorkQueueAssumption DEF KeptFull
<1>5. QED
  BY <1>2, <1>3, <1>4 DEF ClientsInv, NoLostClientWakeup

\* Steps that take no task from the queue and only wake clients.
LEMMA StillClientBalance ==
  ASSUME ClientsInv, TypeOK', ok' => ok,
         UNCHANGED <<m_queue, m_ccond, starts>>,
         Asleep(m_ccond)' \subseteq Asleep(m_ccond), WokenClients \subseteq WokenClients',
         \A d \in m_ccond : pc'[d] = pc[d]
  PROVE  NoLostClientWakeup'
<1>1. WokenClients \in SUBSET WokenClients' /\ WokenClients' \in SUBSET Thread
  BY DEF TypeOK, QueueTypeOK, WokenClients
<1>2. /\ Cardinality(WokenClients) =< Cardinality(WokenClients')
      /\ Cardinality(WokenClients) \in Nat /\ Cardinality(WokenClients') \in Nat
  BY <1>1, ThreadsFinite, FS_Subset
<1>3. Len(m_queue) \in Nat
  BY DEF ClientsInv, CountingInv, TypeOK, QueueTypeOK
<1>k. KeptFull \in Nat
  BY WorkQueueAssumption DEF KeptFull
<1>4. QED
  BY <1>2, <1>3, <1>k DEF ClientsInv, NoLostClientWakeup

\* A put that pushes fills the room it was woken for.
LEMMA PutClientBalance ==
  ASSUME ClientsInv, TypeOK', NEW c \in Client, NEW out \in Outcome, InPut(c, out)
  PROVE  NoLostClientWakeup'
<1> USE ClientsAssumption
<1>0. /\ TypeOK
      /\ c \notin m_wcond /\ c \notin Asleep(m_ccond) /\ starts' = starts
      /\ \A d \in Client : d # c => pc'[d] = pc[d]
      /\ ok' = ok /\ (out # "false" <=> ok) /\ pc[c] = "put"
  BY SectionFacts DEF ClientsInv, CountingInv, InPut
<1>1. CASE PutFails(c)
  BY <1>0, <1>1 DEF PutFails, NoLostClientWakeup
<1>2. CASE PutSleeps(c)
  <2> HIDE DEF KeptFull
  <2>0. KeptFull = 1 \/ KeptFull = High
    BY Zenon DEF KeptFull
  <2>1. Len(m_queue') >= KeptFull /\ Len(m_queue') \in Nat /\ KeptFull \in Nat
    BY <1>0, <1>2, <2>0, WorkQueueAssumption DEF PutSleeps, Full, TypeOK, QueueTypeOK
  <2>2. Cardinality(WokenClients') \in Nat
    BY ThreadsFinite DEF TypeOK, QueueTypeOK, WokenClients
  <2>3. QED
    BY <2>1, <2>2 DEF NoLostClientWakeup
<1>3. CASE PutPushes(c, arg[c].task, arg[c].flush)
  <2>1. PICK ws \in IF m_workers_waiting > 0 THEN Signal(m_wcond) ELSE {{}} :
          woken' = (woken \ {c}) \cup ws
    BY <1>3 DEF PutPushes
  <2>2. ws \cap m_ccond = {}
    <3>1. ws \subseteq m_wcond
      BY <2>1, SignalType
    <3>2. QED
      BY <3>1 DEF ClientsInv, CountingInv, Discipline
  <2>3. m_ccond' = m_ccond \ {c}
    BY <1>3 DEF PutPushes, LeaveClients
  <2>4. WokenClients' = WokenClients \ {c} /\ Asleep(m_ccond)' = Asleep(m_ccond)
    BY <1>0, <2>1, <2>2, <2>3 DEF WokenClients, Asleep
  <2>5. IsFiniteSet(WokenClients) /\ Cardinality(WokenClients) \in Nat
        /\ Cardinality(WokenClients') \in Nat
    <3>1. WokenClients \in SUBSET Thread /\ WokenClients' \in SUBSET Thread
      BY <1>0 DEF TypeOK, QueueTypeOK, WokenClients
    <3>2. QED
      BY <3>1, ThreadsFinite
  <2>6. Len(m_queue) \in Nat /\ Len(m_queue') \in Nat
    BY <1>0 DEF TypeOK, QueueTypeOK
  <2>7. CASE arg[c].flush
    <3>1. KeptFull = 1
      <4>1. arg[c].flush \in Flushes
        BY <1>0 DEF ClientsInv, FlushesUsed
      <4>2. arg[c].flush = TRUE
        BY <2>7, <4>1
      <4>3. QED
        BY <4>1, <4>2, Zenon DEF KeptFull
    <3>2. Len(m_queue') = 1
      BY <1>3, <2>7 DEF PutPushes
    <3>3. QED
      BY <2>5, <3>1, <3>2 DEF NoLostClientWakeup
  <2>8. CASE ~arg[c].flush
    <3>1. Len(m_queue') = Len(m_queue) + 1
      <4>1. m_queue' = Append(m_queue, arg[c].task)
        BY <1>3, <2>8 DEF PutPushes
      <4>2. QED
        BY <1>0, <4>1 DEF TypeOK, QueueTypeOK
    <3>2. Cardinality(WokenClients') + 1 >= Cardinality(WokenClients)
      <4>1. \/ Cardinality(WokenClients \ {c}) = Cardinality(WokenClients) - 1
            \/ Cardinality(WokenClients \ {c}) = Cardinality(WokenClients)
        BY <2>5, FS_RemoveElement
      <4>2. QED
        BY <2>4, <2>5, <4>1
    <3>3. (\A d \in m_ccond' : pc'[d] = "put") => \A d \in m_ccond : pc[d] = "put"
      BY <1>0, <2>3 DEF ClientsInv, CountingInv, Discipline
    <3>4. Len(m_queue') >= Len(m_queue) + 1
      BY <2>6, <3>1
    <3>5. ASSUME ok', starts' =< 1, \A d \in m_ccond' : pc'[d] = "put",
                 Asleep(m_ccond)' # {}
          PROVE  /\ ok /\ starts =< 1 /\ Asleep(m_ccond) # {}
                 /\ \A d \in m_ccond : pc[d] = "put"
      BY <1>0, <2>4, <3>3, <3>5
    <3>6. 1 \in Int
      OBVIOUS
    <3>7. QED
      BY <3>2, <3>4, <3>5, <3>6, ClientBalanceKept
  <2>9. QED
    BY <2>7, <2>8
<1>4. QED
  BY <1>1, <1>2, <1>3 DEF InPut, Put

\* The task that take() removes makes room for the client it wakes.
LEMMA TakeClientBalance ==
  ASSUME ClientsInv, TypeOK', NEW w \in Worker, NEW out \in Outcome, InTake(w, out)
  PROVE  NoLostClientWakeup'
<1> USE ClientsAssumption
<1>0. /\ TypeOK
      /\ UNCHANGED <<m_ok, m_worker_threads, m_workers_exited, m_ccond, starts, ok>>
      /\ \A d \in Client : pc'[d] = pc[d]
      /\ w \notin m_ccond
      /\ \A d \in m_ccond : d \in Client
  <2>1. TypeOK /\ w \notin m_ccond /\ \A d \in m_ccond : d \in Client
    BY DEF ClientsInv, CountingInv, Discipline
  <2>2. UNCHANGED <<m_ok, m_worker_threads, m_workers_exited, m_ccond, starts>>
    BY DEF InTake, Take
  <2>3. PICK next \in WorkerPC : pc' = [pc EXCEPT ![w] = next]
    BY DEF InTake, Outcome, WorkerPC
  <2>4. QED
    BY <2>1, <2>2, <2>3 DEF ok, TypeOK
<1>1. IsFiniteSet(WokenClients) /\ Cardinality(WokenClients) \in Nat
      /\ Cardinality(WokenClients') \in Nat /\ IsFiniteSet(WokenClients')
  <2>1. WokenClients \in SUBSET Thread /\ WokenClients' \in SUBSET Thread
    BY <1>0 DEF TypeOK, QueueTypeOK, WokenClients
  <2>2. QED
    BY <2>1, ThreadsFinite
<1>2. Len(m_queue) \in Nat /\ Len(m_queue') \in Nat
  BY <1>0 DEF TypeOK, QueueTypeOK
<1>3. CASE UNCHANGED m_queue /\ woken \ {w} \subseteq woken'
  <2>1. WokenClients \subseteq WokenClients' /\ Asleep(m_ccond)' \subseteq Asleep(m_ccond)
    BY <1>0, <1>3 DEF WokenClients, Asleep
  <2>2. Cardinality(WokenClients) =< Cardinality(WokenClients')
    BY <1>1, <2>1, FS_Subset
  <2>3. QED
    BY <1>0, <1>1, <1>2, <1>3, <2>1, <2>2, ClientBalanceKept
<1>4. CASE TakePops(w)
  <2>1. PICK cs \in IF m_clients_waiting > 0 THEN Signal(m_ccond) ELSE {{}} :
          woken' = (woken \ {w}) \cup cs
    BY <1>4 DEF TakePops
  <2>2. Asleep(m_ccond)' \subseteq Asleep(m_ccond)
    BY <1>0, <2>1 DEF Asleep
  <2> SUFFICES ASSUME ok', starts' =< 1, \A d \in m_ccond' : pc'[d] = "put",
                      Asleep(m_ccond)' # {}
               PROVE  /\ \A d \in m_ccond : pc[d] = "put"
                      /\ Asleep(m_ccond) # {}
                      /\ Len(m_queue') >= Len(m_queue) + (-1)
                      /\ Cardinality(WokenClients') + (-1) >= Cardinality(WokenClients)
    <3> -1 \in Int
      OBVIOUS
    <3> QED
      BY <1>0, ClientBalanceKept
  <2>3. m_clients_waiting > 0
    <3>1. m_ccond # {} /\ m_ccond \in SUBSET Thread
      BY <1>0, <2>2 DEF Asleep, TypeOK, QueueTypeOK
    <3>2. IsFiniteSet(m_ccond) /\ Cardinality(m_ccond) \in Nat /\ Cardinality(m_ccond) # 0
      BY <3>1, ThreadsFinite, FS_EmptySet
    <3>3. m_clients_waiting = Cardinality(m_ccond)
      BY <1>0 DEF ClientsInv, ClientsCounted, ok
    <3>4. QED
      BY <3>2, <3>3
  <2>4. PICK t \in Asleep(m_ccond) : cs = {t}
    BY <2>1, <2>2, <2>3 DEF Signal
  <2>5. WokenClients' = WokenClients \cup {t} /\ t \notin WokenClients
    BY <1>0, <2>1, <2>4 DEF WokenClients, Asleep
  <2>6. Cardinality(WokenClients') = Cardinality(WokenClients) + 1
    BY <1>1, <2>5, FS_AddElement
  <2>7. Len(m_queue') = Len(m_queue) - 1
    BY <1>0, <1>4, WorkQueueAssumption DEF TakePops, Short, TypeOK, QueueTypeOK
  <2>8. QED
    BY <1>0, <1>1, <1>2, <2>2, <2>6, <2>7
<1>5. QED
  BY <1>3, <1>4 DEF InTake, Take, WorkerFails, WorkerSleeps

-----------------------------------------------------------------------------
(* One lemma per kind of step.                                             *)

\* A section of put() or waitIdle().
LEMMA SectionKeepsClients ==
  ASSUME ClientsInv, CountingInv', NEW c \in Client, NEW out \in Outcome,
         InPut(c, out) \/ InWaitIdle(c, out)
  PROVE  ClientsInv'
<1> USE ClientsAssumption
<1>1. /\ UNCHANGED <<m_ok, m_worker_threads, m_workers_exited, m_wcond, starts>>
      /\ ok' = ok
      /\ out # "false" <=> ok
      /\ c \notin m_wcond /\ c \notin Asleep(m_ccond)
      /\ \/ SleepClients(c) /\ out = "wait" /\ m_ccond' = m_ccond \cup {c}
         \/ LeaveClients(c) /\ out # "wait" /\ m_ccond' = m_ccond \ {c}
      /\ \A d \in Client : d # c => pc'[d] = pc[d]
      /\ out = "wait" => pc' = pc /\ arg' = arg
      /\ \A d \in Client : pc'[d] = "put" => pc[d] = "put" /\ arg'[d] = arg[d]
      /\ pc[c] \in {"put", "waitIdle"}
  BY SectionFacts
<1>2. TypeOK /\ TypeOK' /\ \A d \in m_ccond : d \in Client
  BY DEF ClientsInv, CountingInv, Discipline
<1>3. ClientsCounted'
  <2>1. starts = 0 => m_worker_threads = {} /\ m_ccond' = {}
    BY <1>1 DEF ClientsInv, ClientsCounted, ok
  <2>2. m_clients_waiting = Cardinality(m_ccond) =>
          m_clients_waiting' = Cardinality(m_ccond')
    BY <1>1, <1>2, ClientsSleepCounted DEF TypeOK
  <2>3. QED
    BY <1>1, <2>1, <2>2 DEF ClientsInv, ClientsCounted
<1>4. TerminatorCloses'
  BY <1>1, <1>2 DEF ClientsInv, TerminatorCloses, InTerminateCall
<1>5. FlushesUsed'
  BY <1>1 DEF ClientsInv, FlushesUsed
<1>6. /\ Asleep(m_wcond)' \subseteq Asleep(m_wcond)
      /\ Asleep(m_ccond)' \subseteq Asleep(m_ccond) \cup {c}
      /\ ~(out = "wait") => Asleep(m_ccond)' \subseteq Asleep(m_ccond)
  <2>1. CASE woken' = woken \ {c}
    BY <1>1, <2>1 DEF Asleep
  <2>2. ASSUME NEW ws \in SUBSET m_wcond, woken' = (woken \ {c}) \cup ws
        PROVE  <1>6!:
    BY <1>1, <2>2 DEF Asleep
  <2>3. CASE PutPushes(c, arg[c].task, arg[c].flush)
    <3>1. PICK ws \in IF m_workers_waiting > 0 THEN Signal(m_wcond) ELSE {{}} :
            woken' = (woken \ {c}) \cup ws
      BY <2>3 DEF PutPushes
    <3>2. ws \in SUBSET m_wcond
      BY <3>1, SignalType
    <3>3. QED
      BY <2>2, <3>1, <3>2
  <2>4. woken' = woken \ {c} \/ PutPushes(c, arg[c].task, arg[c].flush)
    BY DEF InPut, Put, PutFails, PutSleeps, InWaitIdle, WaitIdle
  <2>5. QED
    BY <2>1, <2>3, <2>4
<1>7. IdleWakesPutters'
  <2>1. CASE InWaitIdle(c, out)
    BY <1>1, <1>2, <1>6, <2>1
    DEF InWaitIdle, WaitIdle, ClientsInv, IdleWakesPutters, Asleep
  <2>2. CASE InPut(c, out)
    <3>1. CASE PutFails(c)
      BY <1>1, <3>1 DEF PutFails, IdleWakesPutters
    <3>2. CASE PutSleeps(c)
      BY <1>2, <3>2, WorkQueueAssumption DEF PutSleeps, Full, IdleWakesPutters, TypeOK, QueueTypeOK
    <3>3. CASE PutPushes(c, arg[c].task, arg[c].flush)
      <4>1. m_queue' # <<>>
        <5>1. CASE arg[c].flush
          BY <3>3, <5>1 DEF PutPushes
        <5>2. CASE ~arg[c].flush
          BY <1>2, <3>3, <5>2, SMTT(20) DEF PutPushes, TypeOK, QueueTypeOK
        <5>3. QED
          BY <5>1, <5>2
      <4>2. QED
        BY <4>1 DEF IdleWakesPutters
    <3>4. QED
      BY <2>2, <3>1, <3>2, <3>3 DEF InPut, Put
  <2>3. QED
    BY <2>1, <2>2
<1>8. TerminatorNotStranded'
  BY <1>1, <1>2, <1>6
  DEF ClientsInv, TerminatorNotStranded, InTerminateCall, AllExited, Asleep
<1>9. NoLostClientWakeup'
  <2>1. CASE InPut(c, out)
    BY <1>2, <2>1, PutClientBalance
  <2>2. CASE InWaitIdle(c, out)
    <3>1. CASE out = "wait"
      <4>1. c \in m_ccond' /\ pc'[c] # "put"
        BY <1>1, <2>2, <3>1 DEF InWaitIdle
      <4>2. QED
        BY <4>1 DEF NoLostClientWakeup
    <3>2. CASE out = "false"
      BY <1>1, <3>2 DEF NoLostClientWakeup
    <3>3. CASE out = "true"
      <4>1. m_queue = <<>> /\ m_worker_threads \subseteq m_wcond
        BY <2>2, <3>3, AllWaiting DEF InWaitIdle, WaitIdle, ClientsInv
      <4>2. ok /\ starts =< 1 => \A d \in Asleep(m_ccond) : pc[d] # "put"
        BY <4>1 DEF ClientsInv, IdleWakesPutters
      <4>3. \A d \in Asleep(m_ccond)' :
              d \in Asleep(m_ccond) /\ d \in m_ccond' /\ d # c /\ pc'[d] = pc[d]
        BY <1>1, <1>2, <1>6, <3>3 DEF Asleep
      <4>4. QED
        BY <1>1, <4>2, <4>3 DEF NoLostClientWakeup
    <3>4. QED
      BY <3>1, <3>2, <3>3 DEF Outcome
  <2>3. QED
    BY <2>1, <2>2
<1>10. QED
  BY <1>3, <1>4, <1>5, <1>7, <1>8, <1>9 DEF ClientsInv

\* A section of setTerminateAndWait().
LEMMA TerminateKeepsClients ==
  ASSUME ClientsInv, CountingInv', NEW c \in Client, NEW out \in Outcome,
         InTerminate(c, out)
  PROVE  ClientsInv'
<1> USE ClientsAssumption
<1>1. /\ starts' = starts /\ m_queue' = m_queue /\ m_wcond' = m_wcond
      /\ pc[c] = "terminate" /\ Runs(c)
      /\ \A d \in Client : d # c => pc'[d] = pc[d]
      /\ \A d \in Client : pc'[d] = "put" => pc[d] = "put" /\ arg'[d] = arg[d]
  <2>1. /\ pc[c] = "terminate" /\ Runs(c) /\ m_queue' = m_queue /\ m_wcond' = m_wcond
    BY DEF InTerminate, SetTerminateAndWait, TerminateFindsNobody, TerminateSleeps,
       TerminateJoins, queueVars
  <2>2. /\ starts' = starts
        /\ \A d \in Client : d # c => pc'[d] = pc[d] /\ arg'[d] = arg[d]
        /\ pc'[c] \in {"terminate", "idle"}
    BY <2>1 DEF InTerminate, Returns, ClientsInv, CountingInv, TypeOK
  <2>3. QED
    BY <2>1, <2>2
<1>2. TypeOK /\ TypeOK' /\ \A d \in m_ccond : d \in Client
  BY DEF ClientsInv, CountingInv, Discipline
<1>3. FlushesUsed'
  BY <1>1 DEF ClientsInv, FlushesUsed
<1>4. CASE TerminateFindsNobody(c)
  <2>1. \A d \in m_ccond : pc'[d] = pc[d]
    BY <1>1, <1>2, <1>4 DEF TerminateFindsNobody
  <2>2. UNCHANGED queueVars /\ ok' = ok
    BY <1>4 DEF TerminateFindsNobody, queueVars, ok
  <2>3. ClientsCounted' /\ TerminatorCloses' /\ IdleWakesPutters'
    BY <1>1, <2>1, <2>2
    DEF queueVars, ClientsInv, ClientsCounted, TerminatorCloses, IdleWakesPutters,
        InTerminateCall, Asleep
  <2>4. NoLostClientWakeup' /\ TerminatorNotStranded'
    BY <1>1, <2>1, <2>2
    DEF queueVars, ClientsInv, NoLostClientWakeup, TerminatorNotStranded, WokenClients,
        AllExited, InTerminateCall, Asleep
  <2>5. QED
    BY <1>3, <2>3, <2>4 DEF ClientsInv
<1>5. CASE TerminateSleeps(c)
  <2>1. /\ SleepClients(c) /\ m_ccond' = m_ccond \cup {c}
        /\ woken' = (woken \ {c}) \cup m_wcond
        /\ UNCHANGED <<m_worker_threads, m_workers_exited>>
        /\ m_worker_threads # {} \/ c \in m_ccond
        /\ ~AllExited
        /\ pc' = pc
    BY <1>5 DEF TerminateSleeps, SleepClients, InTerminate, SetTerminateAndWait, Returns,
       TerminateFindsNobody, TerminateJoins
  <2>2. ClientsCounted'
    <3>1. starts # 0
      BY <2>1 DEF ClientsInv, ClientsCounted
    <3>2. m_clients_waiting = Cardinality(m_ccond) =>
            m_clients_waiting' = Cardinality(m_ccond')
      BY <1>2, <2>1, ClientsSleepCounted DEF TypeOK
    <3>3. QED
      BY <1>1, <2>1, <3>1, <3>2 DEF ClientsInv, ClientsCounted
  <2>3. starts =< 1 => ~m_ok' \/ m_worker_threads' = {}
    BY <1>1, <1>5, <2>1 DEF TerminateSleeps, ClientsInv, TerminatorCloses, InTerminateCall
  <2>4. TerminatorCloses'
    BY <1>1, <2>3 DEF TerminatorCloses
  <2>5. IdleWakesPutters'
    BY <1>1, <2>3 DEF IdleWakesPutters, ok
  <2>6. NoLostClientWakeup'
    BY <1>1, <2>3 DEF NoLostClientWakeup, ok
  <2>7. TerminatorNotStranded'
    BY <1>1, <2>1 DEF TerminatorNotStranded, AllExited, Asleep
  <2>8. QED
    BY <1>3, <2>2, <2>4, <2>5, <2>6, <2>7 DEF ClientsInv
<1>6. CASE TerminateJoins(c)
  <2>1. /\ AllExited /\ m_worker_threads' = {} /\ m_ccond' = m_ccond \ {c}
        /\ woken' = woken \ {c}
        /\ m_worker_threads # {} \/ c \in m_ccond
    BY <1>6 DEF TerminateJoins
  <2>2. ~ok' /\ starts # 0
    BY <2>1 DEF ok, ClientsInv, ClientsCounted
  <2>3. ClientsCounted' /\ TerminatorCloses' /\ IdleWakesPutters' /\ NoLostClientWakeup'
    BY <1>1, <2>1, <2>2
    DEF ClientsCounted, TerminatorCloses, IdleWakesPutters, NoLostClientWakeup
  <2>4. \A d \in Asleep(m_ccond)' : d \in Asleep(m_ccond) /\ d # c /\ pc'[d] = pc[d]
    BY <1>1, <1>2, <2>1 DEF Asleep
  <2>5. TerminatorNotStranded'
    BY <1>1, <2>1, <2>4 DEF ClientsInv, TerminatorNotStranded, InTerminateCall
  <2>6. QED
    BY <1>3, <2>3, <2>5 DEF ClientsInv
<1>7. QED
  BY <1>4, <1>5, <1>6 DEF InTerminate, SetTerminateAndWait

\* A section of take() or waitminsz().
LEMMA WorkerKeepsClients ==
  ASSUME ClientsInv, CountingInv', NEW w \in Worker, NEW out \in Outcome,
         InTake(w, out) \/ InWaitMinSz(w, out)
  PROVE  ClientsInv'
<1> USE ClientsAssumption
<1>1. /\ UNCHANGED <<m_ok, m_worker_threads, m_workers_exited, m_clients_waiting, m_ccond>>
      /\ starts' = starts /\ arg' = arg
      /\ Runs(w) /\ ok' = ok
  <2>1. CASE InTake(w, out)
    BY <2>1 DEF InTake, Take, ok
  <2>2. CASE InWaitMinSz(w, out)
    BY <2>2 DEF InWaitMinSz, WaitMinSz, ok
  <2>3. QED
    BY <2>1, <2>2
<1>2. \A d \in Client : pc'[d] = pc[d]
  <2>1. PICK next \in WorkerPC : pc' = pc \/ pc' = [pc EXCEPT ![w] = next]
    BY DEF InTake, InWaitMinSz, Outcome, WorkerPC
  <2>2. QED
    BY <2>1 DEF ClientsInv, CountingInv, TypeOK
<1>3. TypeOK /\ TypeOK' /\ w \notin m_ccond /\ \A d \in m_ccond : d \in Client
  BY DEF ClientsInv, CountingInv, Discipline
<1>4. /\ Asleep(m_ccond)' \subseteq Asleep(m_ccond)
      /\ \/ ok /\ SleepWorkers(w) /\ UNCHANGED m_queue
            /\ (m_queue = <<>> => Asleep(m_ccond)' = {})
         \/ ok /\ LeaveWorkers(w) /\ m_wcond' = m_wcond \ {w}
         \/ /\ ~ok /\ LeaveWorkers(w) /\ Asleep(m_wcond)' \subseteq Asleep(m_wcond)
  <2>1. CASE WorkerFails(w)
    BY <1>1, <1>3, <2>1 DEF WorkerFails, LeaveWorkers, Asleep, Runs
  <2>2. ASSUME NEW sz, WorkerSleeps(w, sz), UNCHANGED m_queue PROVE <1>4!:
    BY <1>1, <1>3, <2>2 DEF WorkerSleeps, Asleep
  <2>3. CASE TakePops(w)
    <3>1. PICK cs \in IF m_clients_waiting > 0 THEN Signal(m_ccond) ELSE {{}} :
            woken' = (woken \ {w}) \cup cs
      BY <2>3 DEF TakePops
    <3>2. QED
      BY <1>1, <1>3, <2>3, <3>1 DEF TakePops, LeaveWorkers, Asleep
  <2>4. CASE ok /\ LeaveWorkers(w) /\ woken' = woken \ {w}
    BY <1>1, <1>3, <2>4 DEF LeaveWorkers, Asleep
  <2>5. QED
    BY <2>1, <2>2, <2>3, <2>4 DEF InTake, InWaitMinSz, Take, WaitMinSz
<1>5. ClientsCounted' /\ TerminatorCloses' /\ FlushesUsed'
  BY <1>1, <1>2, <1>3
  DEF ClientsInv, ClientsCounted, TerminatorCloses, FlushesUsed, InTerminateCall
<1>6. IdleWakesPutters'
  <2>1. w \in m_worker_threads
    BY DEF InTake, InWaitMinSz, ClientsInv, CountingInv, Discipline
  <2>2. QED
    BY <1>1, <1>2, <1>3, <1>4, <2>1
    DEF ClientsInv, IdleWakesPutters, SleepWorkers, Asleep
<1>7. TerminatorNotStranded'
  <2>1. ASSUME starts =< 1, NEW d \in Asleep(m_ccond)', pc'[d] = "terminate"
        PROVE  ~AllExited' /\ Asleep(m_wcond)' = {}
    <3>1. d \in Asleep(m_ccond) /\ d \in Client /\ d \in m_ccond /\ pc[d] = "terminate"
      BY <1>2, <1>3, <1>4, <2>1 DEF Asleep
    <3>2. ~AllExited /\ Asleep(m_wcond) = {}
      BY <2>1, <3>1 DEF ClientsInv, TerminatorNotStranded, InTerminateCall
    <3>3. ~ok
      BY <2>1, <3>1 DEF ClientsInv, TerminatorCloses, InTerminateCall, ok
    <3>4. QED
      BY <1>1, <1>4, <3>2, <3>3 DEF AllExited
  <2>2. QED
    BY <1>1, <2>1 DEF TerminatorNotStranded, InTerminateCall
<1>8. NoLostClientWakeup'
  <2>1. CASE InTake(w, out)
    BY <1>3, <2>1, TakeClientBalance
  <2>2. CASE InWaitMinSz(w, out)
    <3>1. UNCHANGED m_queue /\ woken \ {w} \subseteq woken'
      BY <2>2 DEF InWaitMinSz, WaitMinSz, WorkerFails, WorkerSleeps
    <3>2. WokenClients \subseteq WokenClients'
      BY <1>1, <1>3, <3>1 DEF WokenClients
    <3>3. QED
      BY <1>1, <1>2, <1>3, <1>4, <3>1, <3>2, StillClientBalance
  <2>3. QED
    BY <2>1, <2>2
<1>9. QED
  BY <1>5, <1>6, <1>7, <1>8 DEF ClientsInv

\* Steps that wake clients or leave them alone.
LEMMA QuietKeepsClients ==
  ASSUME ClientsInv, CountingInv',
         UNCHANGED <<m_worker_threads, m_clients_waiting, m_ccond, m_wcond, m_queue, starts>>,
         m_ok' => m_ok, ok' => ok,
         woken \subseteq woken',
         UNCHANGED m_workers_exited \/ Asleep(m_ccond)' = {},
         \A d \in m_ccond : pc'[d] = pc[d],
         FlushesUsed'
  PROVE  ClientsInv'
<1>1. /\ Asleep(m_ccond)' \subseteq Asleep(m_ccond)
      /\ Asleep(m_wcond)' \subseteq Asleep(m_wcond)
      /\ WokenClients \subseteq WokenClients'
  BY DEF Asleep, WokenClients
<1>2. ClientsCounted' /\ TerminatorCloses'
  BY DEF ClientsInv, ClientsCounted, TerminatorCloses, InTerminateCall
<1>3. IdleWakesPutters'
  BY <1>1 DEF ClientsInv, IdleWakesPutters, Asleep
<1>4. TerminatorNotStranded'
  BY <1>1 DEF ClientsInv, TerminatorNotStranded, InTerminateCall, AllExited, Asleep
<1>5. NoLostClientWakeup'
  BY <1>1, StillClientBalance DEF CountingInv
<1>6. QED
  BY <1>2, <1>3, <1>4, <1>5 DEF ClientsInv

LEMMA ClientsInit == Init => ClientsInv
<1> SUFFICES ASSUME Init PROVE ClientsInv
  OBVIOUS
<1>1. CountingInv
  BY CountingInit
<1>2. Cardinality(m_ccond) = m_clients_waiting
  BY FS_EmptySet DEF Init, QueueInit
<1>3. \A c \in Client : pc[c] = "idle"
  BY ClientsAssumption DEF Init
<1>4. QED
  BY <1>1, <1>2, <1>3
  DEF ClientsInv, Init, QueueInit, ClientsCounted, TerminatorCloses, IdleWakesPutters,
      FlushesUsed, NoLostClientWakeup, TerminatorNotStranded, ok, Asleep

LEMMA ClientsStep == ClientsInv /\ [Next]_vars => ClientsInv'
<1> SUFFICES ASSUME ClientsInv, [Next]_vars
             PROVE  ClientsInv'
  OBVIOUS
<1> USE ClientsAssumption
<1>t. CountingInv' /\ TypeOK
  BY CountingStep DEF ClientsInv, CountingInv
<1>d. \A d \in m_ccond : d \in Client /\ pc[d] # "idle"
  BY DEF ClientsInv, CountingInv, Discipline
<1>1. ASSUME NEW c \in Client, NEW method, Call(c, method), FlushesUsed'
      PROVE  ClientsInv'
  <2>1. \A d \in m_ccond : pc'[d] = pc[d]
    BY <1>t, <1>d, <1>1 DEF Call, TypeOK
  <2>2. UNCHANGED queueVars /\ starts' = starts /\ ok' = ok
    BY <1>1 DEF Call, queueVars, ok
  <2>3. QED
    BY <1>t, <1>1, <2>1, <2>2, QuietKeepsClients DEF queueVars
<1>2. ASSUME NEW c \in Client, NEW flush \in Flushes, CallPut(c, flush)
      PROVE  ClientsInv'
  <2>1. FlushesUsed'
    BY <1>t, <1>2 DEF ClientsInv, FlushesUsed, CallPut, Call, TypeOK
  <2>2. QED
    BY <1>1, <1>2, <2>1 DEF CallPut
<1>3. ASSUME NEW c \in Client, CallWaitIdle(c) \/ CallTerminate(c)
      PROVE  ClientsInv'
  <2>1. PICK method \in {"waitIdle", "terminate"} : Call(c, method) /\ arg' = arg
    BY <1>3 DEF CallWaitIdle, CallTerminate
  <2>2. FlushesUsed'
    BY <1>t, <2>1 DEF ClientsInv, FlushesUsed, Call, TypeOK
  <2>3. QED
    BY <1>1, <2>1, <2>2
<1>4. ASSUME NEW c \in Client, NEW created \in SUBSET Worker, StartWorkers(c, created)
      PROVE  ClientsInv'
  <2>1. /\ UNCHANGED <<m_ccond, m_clients_waiting, arg>> /\ starts' = starts + 1
        /\ m_worker_threads = {} /\ starts \in Nat
        /\ \A d \in Client : pc'[d] = pc[d]
    BY <1>t, <1>4 DEF StartWorkers, Start, TypeOK
  <2>2. FlushesUsed'
    BY <2>1 DEF ClientsInv, FlushesUsed
  <2>3. starts' # 0 /\ (starts' =< 1 => starts = 0)
    BY <2>1
  <2>4. starts = 0 => m_ccond' = {} /\ m_clients_waiting' = Cardinality(m_ccond')
    BY <2>1 DEF ClientsInv, ClientsCounted
  <2>5. QED
    BY <1>t, <2>2, <2>3, <2>4
    DEF ClientsInv, ClientsCounted, TerminatorCloses, IdleWakesPutters,
        NoLostClientWakeup, TerminatorNotStranded, Asleep
<1>5. ASSUME NEW w \in Worker, Work(w)
      PROVE  ClientsInv'
  <2>1. \A d \in Client : pc'[d] = pc[d]
    BY <1>t, <1>5 DEF Work, TypeOK
  <2>2. UNCHANGED queueVars /\ UNCHANGED <<arg, starts, ok>>
    BY <1>5 DEF Work, queueVars, ok
  <2>3. FlushesUsed'
    BY <2>1, <2>2 DEF ClientsInv, FlushesUsed
  <2>4. QED
    BY <1>t, <1>d, <2>1, <2>2, <2>3, QuietKeepsClients DEF queueVars
<1>6. ASSUME NEW w \in Worker, Exit(w)
      PROVE  ClientsInv'
  <2>1. \A d \in Client : pc'[d] = pc[d]
    BY <1>t, <1>6 DEF Exit, TypeOK
  <2>2. /\ UNCHANGED <<m_worker_threads, m_clients_waiting, m_ccond, m_wcond, m_queue,
                       starts, arg>>
        /\ ~m_ok' /\ woken' = woken \cup m_ccond
    BY <1>6 DEF Exit, WorkerExit
  <2>3. ~ok' /\ Asleep(m_ccond)' = {}
    BY <2>2 DEF ok, Asleep
  <2>4. FlushesUsed'
    BY <2>1, <2>2 DEF ClientsInv, FlushesUsed
  <2>5. QED
    BY <1>t, <1>d, <2>1, <2>2, <2>3, <2>4, QuietKeepsClients
<1>7. ASSUME NEW t \in Thread, Spurious(t)
      PROVE  ClientsInv'
  <2>1. FlushesUsed' /\ ok' = ok
    BY <1>7 DEF Spurious, SpuriousWakeup, clientVars, ClientsInv, FlushesUsed, ok
  <2>2. QED
    BY <1>t, <1>7, <2>1, QuietKeepsClients DEF Spurious, SpuriousWakeup, clientVars
<1>8. CASE UNCHANGED vars
  <2>1. FlushesUsed' /\ ok' = ok
    BY <1>8 DEF vars, queueVars, clientVars, ClientsInv, FlushesUsed, ok
  <2>2. QED
    BY <1>t, <1>8, <2>1, QuietKeepsClients DEF vars, queueVars, clientVars
<1>9. QED
  BY <1>t, <1>2, <1>3, <1>4, <1>5, <1>6, <1>7, <1>8, SectionKeepsClients,
     TerminateKeepsClients, WorkerKeepsClients
  DEF Next, ClientStep, WorkerStep

\* No client of the queue is forgotten: the count of those that wait is exact, one
\* in put() sleeps only while the queue is full or room is on its way to others,
\* and one in setTerminateAndWait() only while workers are still to leave.
THEOREM ClientsAreServed == Spec => []ClientsServed
<1>1. ClientsInv => ClientsServed
  BY DEF ClientsInv, ClientsServed, ClientsCounted, ClientsWaitingExact, ok
<1>2. QED
  BY <1>1, ClientsInit, ClientsStep, PTL DEF Spec

-----------------------------------------------------------------------------
(* WorkQueueService: initial states map to initial states and every step   *)
(* to a step of the service, or to none.                                   *)
(*                                                                         *)
(* The invariant: besides the counters, what the service's variables say   *)
(* of the code's.                                                          *)

Agreement ==
  /\ \A w \in Worker : hand[w] # NoTask <=> pc[w] = "busy"
  /\ \A c \in Client : pc[c] # "put" => arg[c] = NoArg
  /\ m_worker_threads = {} => m_ok

RefinementInv == CountingInv /\ Agreement

LEMMA AgreementInit == Init => Agreement
  BY ClientsAssumption DEF Init, QueueInit, Agreement

\* A client's call or a section of it leaves the workers, and other clients, alone.
LEMMA ReturnsAgrees ==
  ASSUME RefinementInv, TypeOK', NEW c \in Client, NEW out \in Outcome, Returns(c, out),
         m_worker_threads' = {} => m_ok'
  PROVE  Agreement'
<1> USE ClientsAssumption
<1>1. CASE out = "wait"
  BY <1>1 DEF Returns, RefinementInv, Agreement
<1>2. CASE out # "wait"
  <2>1. /\ \A t \in Thread : pc'[t] = IF t = c THEN "idle" ELSE pc[t]
        /\ \A d \in Client : arg'[d] = IF d = c THEN NoArg ELSE arg[d]
        /\ hand' = hand
    BY <1>2 DEF Returns, RefinementInv, CountingInv, TypeOK
  <2>2. QED
    BY <2>1 DEF RefinementInv, Agreement
<1>3. QED
  BY <1>1, <1>2

LEMMA AgreementStep == RefinementInv /\ [Next]_vars => Agreement'
<1> SUFFICES ASSUME RefinementInv, [Next]_vars
             PROVE  Agreement'
  OBVIOUS
<1> USE ClientsAssumption
<1>t. TypeOK /\ TypeOK'
  BY TypeStep DEF RefinementInv, CountingInv
<1>1. ASSUME NEW c \in Client, NEW flush \in Flushes, CallPut(c, flush)
      PROVE  Agreement'
  BY <1>t, <1>1 DEF CallPut, Call, queueVars, RefinementInv, Agreement, TypeOK
<1>2. ASSUME NEW c \in Client, CallWaitIdle(c) \/ CallTerminate(c)
      PROVE  Agreement'
  <2>1. /\ \A t \in Thread : t # c => pc'[t] = pc[t]
        /\ pc[c] = "idle"
        /\ UNCHANGED <<hand, arg, m_worker_threads, m_ok>>
    BY <1>t, <1>2 DEF CallWaitIdle, CallTerminate, Call, queueVars, TypeOK
  <2>2. QED
    BY <2>1 DEF RefinementInv, Agreement
<1>3. ASSUME NEW c \in Client, NEW created \in SUBSET Worker, StartWorkers(c, created)
      PROVE  Agreement'
  <2>1. /\ \A t \in Thread : pc'[t] = IF t \in created THEN LoopTop ELSE pc[t]
        /\ \A w \in created : pc[w] \in {"unborn", "gone"}
        /\ UNCHANGED <<hand, arg, m_ok>> /\ m_worker_threads = {}
    BY <1>t, <1>3 DEF StartWorkers, Start
  <2>2. LoopTop # "busy"
    BY DEF LoopTop
  <2>3. QED
    BY <2>1, <2>2 DEF RefinementInv, Agreement
<1>4. ASSUME NEW c \in Client, NEW out \in Outcome, InPut(c, out) \/ InWaitIdle(c, out)
      PROVE  Agreement'
  <2>1. Returns(c, out) /\ UNCHANGED <<m_worker_threads, m_ok>>
    BY <1>4 DEF InPut, Put, InWaitIdle, WaitIdle
  <2>2. QED
    BY <1>t, <2>1, ReturnsAgrees DEF RefinementInv, Agreement
<1>5. ASSUME NEW c \in Client, NEW out \in Outcome, InTerminate(c, out)
      PROVE  Agreement'
  <2>1. Returns(c, out)
    BY <1>5 DEF InTerminate
  <2>2. m_worker_threads' = {} => m_ok'
    <3>1. CASE TerminateFindsNobody(c)
      BY <3>1 DEF TerminateFindsNobody, queueVars, RefinementInv, Agreement
    <3>2. CASE TerminateSleeps(c)
      BY <3>2 DEF TerminateSleeps, RefinementInv, Agreement
    <3>3. CASE TerminateJoins(c)
      BY <3>3 DEF TerminateJoins
    <3>4. QED
      BY <1>5, <3>1, <3>2, <3>3 DEF InTerminate, SetTerminateAndWait
  <2>3. QED
    BY <1>t, <2>1, <2>2, ReturnsAgrees
<1>6. ASSUME NEW w \in Worker, NEW out \in Outcome, InWaitMinSz(w, out)
      PROVE  Agreement'
  <2>1. PICK next \in WorkerPC \ {"busy"} : pc' = pc \/ pc' = [pc EXCEPT ![w] = next]
    BY <1>6 DEF InWaitMinSz, Outcome, WorkerPC
  <2>2. pc[w] = "minsz" /\ UNCHANGED <<hand, arg, m_worker_threads, m_ok>>
    BY <1>6 DEF InWaitMinSz, WaitMinSz
  <2>3. QED
    BY <1>t, <2>1, <2>2 DEF RefinementInv, Agreement, TypeOK
<1>7. ASSUME NEW w \in Worker, NEW out \in Outcome, InTake(w, out)
      PROVE  Agreement'
  <2>1. UNCHANGED <<arg, m_worker_threads, m_ok>> /\ pc[w] \in {"passed", "take"}
    BY <1>7 DEF InTake, Take
  <2>2. CASE out = "wait" \/ out = "false"
    <3>1. PICK next \in {"take", "exit"} : pc' = [pc EXCEPT ![w] = next]
      BY <1>7, <2>2 DEF InTake
    <3>2. hand' = hand
      BY <1>7, <2>2 DEF InTake
    <3>3. QED
      BY <1>t, <2>1, <3>1, <3>2 DEF RefinementInv, Agreement, TypeOK
  <2>3. CASE out = "true"
    <3>1. Head(m_queue) \in Task
      BY <1>t, <1>7, <2>3, TakeType DEF TypeOK, InTake, Take
    <3>2. /\ \A t \in Thread : pc'[t] = IF t = w THEN "busy" ELSE pc[t]
          /\ \A v \in Worker : hand'[v] = IF v = w THEN Head(m_queue) ELSE hand[v]
      BY <1>t, <1>7, <2>3 DEF InTake, TypeOK
    <3>3. QED
      BY <2>1, <3>1, <3>2 DEF RefinementInv, Agreement
  <2>4. QED
    BY <2>2, <2>3 DEF Outcome
<1>8. ASSUME NEW w \in Worker, Work(w)
      PROVE  Agreement'
  <2>1. PICK next \in {LoopTop, "take", "exit"} : pc' = [pc EXCEPT ![w] = next]
    BY <1>8 DEF Work
  <2>2. next # "busy"
    BY <2>1 DEF LoopTop
  <2>3. /\ \A t \in Thread : pc'[t] = IF t = w THEN next ELSE pc[t]
        /\ \A v \in Worker : hand'[v] = IF v = w THEN NoTask ELSE hand[v]
        /\ UNCHANGED <<arg, m_worker_threads, m_ok>>
    BY <1>t, <1>8, <2>1 DEF Work, queueVars, TypeOK
  <2>4. QED
    BY <2>2, <2>3 DEF RefinementInv, Agreement
<1>9. ASSUME NEW w \in Worker, Exit(w)
      PROVE  Agreement'
  <2>1. /\ \A t \in Thread : pc'[t] = IF t = w THEN "gone" ELSE pc[t]
        /\ UNCHANGED <<arg, hand, m_worker_threads>> /\ pc[w] = "exit"
    BY <1>t, <1>9 DEF Exit, WorkerExit, TypeOK
  <2>2. w \in m_worker_threads
    BY <2>1 DEF RefinementInv, CountingInv, Discipline
  <2>3. QED
    BY <2>1, <2>2 DEF RefinementInv, Agreement
<1>10. ASSUME NEW t \in Thread, Spurious(t)
      PROVE  Agreement'
  BY <1>10 DEF Spurious, SpuriousWakeup, clientVars, RefinementInv, Agreement
<1>11. CASE UNCHANGED vars
  BY <1>11 DEF vars, queueVars, clientVars, RefinementInv, Agreement
<1> QED
  BY <1>1, <1>2, <1>3, <1>4, <1>5, <1>6, <1>7, <1>8, <1>9, <1>10, <1>11
  DEF Next, ClientStep, WorkerStep

-----------------------------------------------------------------------------
(* The step simulation.                                                    *)

\* What a client does is invisible to the workers.
LEMMA ClientMovesAlone ==
  ASSUME TypeOK, NEW c \in Client, NEW method, pc' = [pc EXCEPT ![c] = method]
  PROVE  liveBar' = liveBar /\ opBar' = [opBar EXCEPT ![c] = method]
  BY ClientsAssumption DEF TypeOK, liveBar, opBar

\* What a worker does between birth and workerExit() is invisible to the clients.
LEMMA WorkerMovesAlone ==
  ASSUME TypeOK, NEW w \in Worker, NEW next, pc' = [pc EXCEPT ![w] = next],
         pc[w] \notin {"unborn", "gone"}, next \notin {"unborn", "gone"}
  PROVE  liveBar' = liveBar /\ opBar' = opBar
  BY ClientsAssumption DEF TypeOK, liveBar, opBar

LEMMA InitMaps == Init => Service!Init
<1> SUFFICES ASSUME Init PROVE Service!Init
  OBVIOUS
<1>1. ok = FALSE /\ liveBar = {} /\ opBar = [c \in Client |-> "idle"]
  BY ClientsAssumption DEF Init, QueueInit, ok, liveBar, opBar
<1>2. QED
  BY <1>1 DEF Init, QueueInit, Service!Init, NoArg, Service!NoArg

LEMMA PutMaps ==
  ASSUME RefinementInv, TypeOK, NEW c \in Client, NEW out \in Outcome, InPut(c, out)
  PROVE  Service!Accept(c) \/ Service!Refuse(c) \/ UNCHANGED Service!vars
<1>1. UNCHANGED <<ok, hand>> /\ opBar[c] = "put"
  BY DEF InPut, Put, Returns, ok, opBar
<1>2. CASE out = "wait"
  <2>1. UNCHANGED <<m_queue, pc, arg, ret>>
    BY <1>2 DEF InPut, Put, PutSleeps, Returns
  <2>2. QED
    BY <1>1, <2>1 DEF Service!vars, liveBar, opBar
<1>3. CASE out # "wait"
  <2>1. /\ pc' = [pc EXCEPT ![c] = "idle"]
        /\ arg' = [arg EXCEPT ![c] = NoArg]
        /\ ret' = [ret EXCEPT ![c] = out]
    BY <1>3 DEF InPut, Returns
  <2>2. liveBar' = liveBar /\ opBar' = [opBar EXCEPT ![c] = "idle"]
    BY <2>1, ClientMovesAlone
  <2>3. Service!Answer(c, out)
    BY <2>1, <2>2 DEF Service!Answer, NoArg, Service!NoArg
  <2>4. CASE out = "false"
    BY <1>1, <2>2, <2>3, <2>4 DEF InPut, Put, PutFails, Service!Refuse
  <2>5. CASE out = "true"
    <3>1. PutPushes(c, arg[c].task, arg[c].flush)
      BY <2>5 DEF InPut, Put
    <3>2. m_queue' = Append(IF arg[c].flush THEN <<>> ELSE m_queue, arg[c].task)
      <4>1. Append(<<>>, arg[c].task) = <<arg[c].task>>
        OBVIOUS
      <4>2. QED
        BY <3>1, <4>1 DEF PutPushes
    <3>3. ok /\ (High > 0 => Len(m_queue) < High)
      BY <3>1, WorkQueueAssumption DEF PutPushes, Full, TypeOK, QueueTypeOK
    <3>4. QED
      BY <1>1, <2>2, <2>3, <2>5, <3>2, <3>3 DEF Service!Accept
  <2>6. QED
    BY <1>3, <2>4, <2>5 DEF Outcome
<1>4. QED
  BY <1>2, <1>3

LEMMA WaitIdleMaps ==
  ASSUME RefinementInv, TypeOK, NEW c \in Client, NEW out \in Outcome, InWaitIdle(c, out)
  PROVE  Service!AnswerIdle(c) \/ Service!Refuse(c) \/ UNCHANGED Service!vars
<1>1. UNCHANGED <<ok, hand, m_queue>> /\ opBar[c] = "waitIdle"
  BY DEF InWaitIdle, WaitIdle, Returns, ok, opBar
<1>2. CASE out = "wait"
  <2>1. UNCHANGED <<pc, arg, ret>>
    BY <1>2 DEF InWaitIdle, Returns
  <2>2. QED
    BY <1>1, <2>1 DEF Service!vars, liveBar, opBar
<1>3. CASE out # "wait"
  <2>1. /\ pc' = [pc EXCEPT ![c] = "idle"]
        /\ arg' = [arg EXCEPT ![c] = NoArg]
        /\ ret' = [ret EXCEPT ![c] = out]
    BY <1>3 DEF InWaitIdle, Returns
  <2>2. liveBar' = liveBar /\ opBar' = [opBar EXCEPT ![c] = "idle"]
    BY <2>1, ClientMovesAlone
  <2>3. Service!Answer(c, out)
    BY <2>1, <2>2 DEF Service!Answer, NoArg, Service!NoArg
  <2>4. CASE out = "false"
    BY <1>1, <2>2, <2>3, <2>4 DEF InWaitIdle, WaitIdle, Service!Refuse
  <2>5. CASE out = "true"
    <3>1. /\ ok /\ m_queue = <<>>
          /\ \A w \in m_worker_threads : w \in m_wcond
      BY <2>5, AllWaiting DEF RefinementInv, InWaitIdle, WaitIdle
    <3>2. \A w \in liveBar : hand[w] = NoTask
      BY <3>1 DEF RefinementInv, CountingInv, Discipline, Agreement, liveBar
    <3>3. QED
      BY <1>1, <2>2, <2>3, <2>5, <3>1, <3>2 DEF Service!AnswerIdle
  <2>6. QED
    BY <1>3, <2>4, <2>5 DEF Outcome
<1>4. QED
  BY <1>2, <1>3

LEMMA TerminateMaps ==
  ASSUME RefinementInv, TypeOK, NEW c \in Client, NEW out \in Outcome, InTerminate(c, out)
  PROVE  \/ Service!Close(c)
         \/ \E answer \in {"true", "false"} : Service!AnswerTerminated(c, answer)
         \/ UNCHANGED Service!vars
<1>1. opBar[c] = "terminate" /\ UNCHANGED <<hand, m_queue>>
  BY DEF InTerminate, Returns, opBar, SetTerminateAndWait, TerminateFindsNobody,
     TerminateSleeps, TerminateJoins, queueVars
<1>2. CASE out = "wait"
  <2>1. UNCHANGED <<pc, arg, ret, m_worker_threads, m_workers_exited>> /\ TerminateSleeps(c)
    BY <1>2 DEF InTerminate, Returns, SetTerminateAndWait, TerminateSleeps
  <2>2. UNCHANGED <<liveBar, opBar, m_queue, hand, arg, ret>>
    BY <1>1, <2>1 DEF liveBar, opBar
  <2>3. CASE c \in m_ccond
    <3>1. m_ok' = m_ok
      BY <2>1, <2>3 DEF TerminateSleeps
    <3>2. ok' = ok
      BY <2>1, <3>1 DEF ok
    <3>3. QED
      BY <2>2, <3>2 DEF Service!vars
  <2>4. CASE c \notin m_ccond
    <3>1. m_ok' = FALSE
      BY <2>1, <2>4 DEF TerminateSleeps
    <3>2. ok' = FALSE
      BY <3>1 DEF ok
    <3>3. QED
      BY <1>1, <2>2, <3>2 DEF Service!Close
  <2>5. QED
    BY <2>3, <2>4
<1>3. CASE out # "wait"
  <2>1. /\ pc' = [pc EXCEPT ![c] = "idle"]
        /\ arg' = [arg EXCEPT ![c] = NoArg]
        /\ ret' = [ret EXCEPT ![c] = out]
    BY <1>3 DEF InTerminate, Returns
  <2>2. liveBar' = liveBar /\ opBar' = [opBar EXCEPT ![c] = "idle"]
    BY <2>1, ClientMovesAlone
  <2>3. Service!Answer(c, out)
    BY <2>1, <2>2 DEF Service!Answer, NoArg, Service!NoArg
  <2>4. CASE out = "false"
    <3>1. TerminateFindsNobody(c)
      BY <2>4 DEF InTerminate, SetTerminateAndWait
    <3>2. ~ok /\ ok' = FALSE
      BY <3>1 DEF TerminateFindsNobody, ok, queueVars
    <3>3. liveBar = {}
      BY <3>1 DEF TerminateFindsNobody, liveBar, RefinementInv, CountingInv, Discipline
    <3>4. QED
      BY <1>1, <2>2, <2>3, <2>4, <3>2, <3>3 DEF Service!AnswerTerminated
  <2>5. CASE out = "true"
    <3>1. TerminateJoins(c)
      BY <2>5 DEF InTerminate, SetTerminateAndWait
    <3>2. ok' = FALSE
      BY <3>1 DEF TerminateJoins, ok
    <3>3. liveBar = {}
      BY <3>1, AllExitedMeansGone DEF TerminateJoins, liveBar, RefinementInv
    <3>4. QED
      BY <1>1, <2>2, <2>3, <2>5, <3>2, <3>3 DEF Service!AnswerTerminated
  <2>6. QED
    BY <1>3, <2>4, <2>5 DEF Outcome
<1>4. QED
  BY <1>2, <1>3

LEMMA StartMaps ==
  ASSUME RefinementInv, TypeOK, NEW c \in Client, NEW created \in SUBSET Worker,
         StartWorkers(c, created)
  PROVE  Service!Start(created)
<1> USE ClientsAssumption
<1>1. m_worker_threads = {} /\ m_worker_threads' = created
  BY DEF StartWorkers, Start
<1>2. {w \in m_worker_threads : pc[w] = "gone"} = {}
  BY <1>1
<1>3. m_workers_exited = 0
  BY <1>2, FS_EmptySet DEF RefinementInv, CountingInv, ExitedExact
<1>4. m_ok
  BY <1>1 DEF RefinementInv, Agreement
<1>5. ~ok /\ ok' = (created # {})
  BY <1>1, <1>3, <1>4 DEF StartWorkers, Start, ok
<1>6. \A w \in Worker : pc[w] \in {"unborn", "gone"}
  BY <1>1 DEF RefinementInv, CountingInv, Discipline
<1>7. liveBar = {}
  BY <1>6 DEF liveBar
<1>8. /\ \A t \in Thread : pc'[t] = IF t \in created THEN LoopTop ELSE pc[t]
      /\ LoopTop \notin {"unborn", "gone"}
  BY DEF StartWorkers, LoopTop
<1>9. liveBar' = created
  BY <1>6, <1>8 DEF liveBar
<1>10. opBar' = opBar
  BY <1>8 DEF opBar
<1>11. QED
  BY <1>5, <1>7, <1>9, <1>10 DEF Service!Start, StartWorkers, Start

LEMMA TakeMaps ==
  ASSUME RefinementInv, TypeOK, NEW w \in Worker, NEW out \in Outcome, InTake(w, out)
  PROVE  Service!Deliver(w) \/ UNCHANGED Service!vars
<1>1. UNCHANGED <<ok, arg, ret>> /\ pc[w] \in {"passed", "take"}
  BY DEF InTake, Take, ok
<1>2. CASE out = "wait" \/ out = "false"
  <2>1. PICK next \in {"take", "exit"} : pc' = [pc EXCEPT ![w] = next]
    BY <1>2 DEF InTake
  <2>2. UNCHANGED <<hand, m_queue>>
    BY <1>2 DEF InTake, Take
  <2>3. UNCHANGED <<liveBar, opBar>>
    BY <1>1, <2>1, WorkerMovesAlone
  <2>4. QED
    BY <1>1, <2>2, <2>3 DEF Service!vars
<1>3. CASE out = "true"
  <2>1. TakePops(w) /\ pc' = [pc EXCEPT ![w] = "busy"]
        /\ hand' = [hand EXCEPT ![w] = Head(m_queue)]
    BY <1>3 DEF InTake, Take
  <2>2. UNCHANGED <<liveBar, opBar>>
    BY <1>1, <2>1, WorkerMovesAlone
  <2>3. w \in liveBar /\ hand[w] = NoTask
    BY <1>1 DEF liveBar, RefinementInv, Agreement
  <2>4. ok /\ Len(m_queue) >= Low /\ m_queue' = Tail(m_queue)
    BY <2>1, WorkQueueAssumption DEF TakePops, Short, TypeOK, QueueTypeOK
  <2>5. QED
    BY <1>1, <2>1, <2>2, <2>3, <2>4 DEF Service!Deliver
<1>4. QED
  BY <1>2, <1>3 DEF Outcome

LEMMA ExitMaps ==
  ASSUME RefinementInv, TypeOK, NEW w \in Worker, Exit(w)
  PROVE  Service!Leave(w)
<1> USE ClientsAssumption
<1>1. pc[w] = "exit" /\ \A t \in Thread : pc'[t] = IF t = w THEN "gone" ELSE pc[t]
  BY DEF Exit, TypeOK
<1>2. w \in liveBar /\ liveBar' = liveBar \ {w} /\ opBar' = opBar
  BY <1>1 DEF liveBar, opBar
<1>3. hand[w] = NoTask
  BY <1>1 DEF RefinementInv, Agreement
<1>4. ok' = FALSE
  BY DEF Exit, WorkerExit, ok
<1>5. QED
  BY <1>2, <1>3, <1>4 DEF Service!Leave, Exit, WorkerExit

LEMMA StepMaps == RefinementInv /\ [Next]_vars => [Service!Next]_Service!vars
<1> SUFFICES ASSUME RefinementInv, [Next]_vars
             PROVE  [Service!Next]_Service!vars
  OBVIOUS
<1> USE ClientsAssumption
<1>t. TypeOK
  BY DEF RefinementInv, CountingInv
<1>1. ASSUME NEW c \in Client, NEW flush \in Flushes, CallPut(c, flush)
      PROVE  [Service!Next]_Service!vars
  <2>1. Tasks[given + 1] \in Task /\ flush \in BOOLEAN
    BY <1>t, <1>1 DEF CallPut, TypeOK
  <2>2. liveBar' = liveBar /\ opBar' = [opBar EXCEPT ![c] = "put"]
    BY <1>t, <1>1, ClientMovesAlone DEF CallPut, Call
  <2>3. ok' = ok
    BY <1>1 DEF CallPut, Call, queueVars, ok
  <2>4. Service!Call(c, "put", [task |-> Tasks[given + 1], flush |-> flush])
    BY <1>1, <2>2, <2>3 DEF CallPut, Call, queueVars, Service!Call, opBar
  <2>5. QED
    BY <2>1, <2>4 DEF Service!Next
<1>2. ASSUME NEW c \in Client, CallWaitIdle(c) \/ CallTerminate(c)
      PROVE  [Service!Next]_Service!vars
  <2>1. PICK method \in {"waitIdle", "terminate"} :
          Call(c, method) /\ UNCHANGED <<arg, given>>
    BY <1>2 DEF CallWaitIdle, CallTerminate
  <2>2. liveBar' = liveBar /\ opBar' = [opBar EXCEPT ![c] = method]
    BY <1>t, <2>1, ClientMovesAlone DEF Call
  <2>3. ok' = ok
    BY <2>1 DEF Call, queueVars, ok
  <2>4. arg' = [arg EXCEPT ![c] = Service!NoArg]
    <3>1. arg[c] = Service!NoArg /\ arg' = arg
      BY <2>1 DEF Call, RefinementInv, Agreement, NoArg, Service!NoArg
    <3>2. QED
      BY <1>t, <3>1 DEF TypeOK
  <2>5. Service!Call(c, method, Service!NoArg)
    BY <2>1, <2>2, <2>3, <2>4 DEF Call, queueVars, Service!Call, opBar
  <2>6. QED
    BY <2>5 DEF Service!Next
<1>3. ASSUME NEW c \in Client, NEW created \in SUBSET Worker, StartWorkers(c, created)
      PROVE  [Service!Next]_Service!vars
  BY <1>t, <1>3, StartMaps DEF Service!Next
<1>4. ASSUME NEW c \in Client, ClientStep(c)
      PROVE  [Service!Next]_Service!vars
  BY <1>t, <1>4, PutMaps, WaitIdleMaps, TerminateMaps DEF ClientStep, Service!Next
<1>5. ASSUME NEW w \in Worker, NEW out \in Outcome, InWaitMinSz(w, out)
      PROVE  [Service!Next]_Service!vars
  <2>1. PICK next \in {"minsz", "passed", "exit"} : pc' = [pc EXCEPT ![w] = next]
    BY <1>t, <1>5 DEF InWaitMinSz, Outcome, TypeOK
  <2>2. UNCHANGED <<liveBar, opBar>>
    BY <1>t, <1>5, <2>1, WorkerMovesAlone DEF InWaitMinSz
  <2>3. QED
    BY <1>5, <2>2 DEF InWaitMinSz, WaitMinSz, ok, Service!vars
<1>6. ASSUME NEW w \in Worker, NEW out \in Outcome, InTake(w, out)
      PROVE  [Service!Next]_Service!vars
  BY <1>t, <1>6, TakeMaps DEF Service!Next
<1>7. ASSUME NEW w \in Worker, Work(w)
      PROVE  [Service!Next]_Service!vars
  <2>1. PICK next \in {LoopTop, "take", "exit"} : pc' = [pc EXCEPT ![w] = next]
    BY <1>7 DEF Work
  <2>2. UNCHANGED <<liveBar, opBar>>
    BY <1>t, <1>7, <2>1, WorkerMovesAlone DEF Work, LoopTop
  <2>3. hand[w] # NoTask
    BY <1>7 DEF Work, RefinementInv, Agreement
  <2>4. Service!Finish(w)
    BY <1>7, <2>2, <2>3 DEF Work, queueVars, ok, Service!Finish
  <2>5. QED
    BY <2>4 DEF Service!Next
<1>8. ASSUME NEW w \in Worker, Exit(w)
      PROVE  [Service!Next]_Service!vars
  BY <1>t, <1>8, ExitMaps DEF Service!Next
<1>9. ASSUME NEW t \in Thread, Spurious(t)
      PROVE  [Service!Next]_Service!vars
  BY <1>9 DEF Spurious, SpuriousWakeup, clientVars, ok, liveBar, opBar, Service!vars
<1>10. CASE UNCHANGED vars
  BY <1>10 DEF vars, queueVars, clientVars, ok, liveBar, opBar, Service!vars
<1> QED
  BY <1>1, <1>2, <1>3, <1>4, <1>5, <1>6, <1>7, <1>8, <1>9, <1>10 DEF Next, WorkerStep

\* WorkQueue keeps the promise of its header: whatever the threads do and however
\* many there are, its users cannot tell it from WorkQueueService.
THEOREM QueueImplementsService == Spec => ImplementsService
<1>1. Init => RefinementInv
  BY CountingInit, AgreementInit DEF RefinementInv
<1>2. RefinementInv /\ [Next]_vars => RefinementInv'
  BY CountingStep, AgreementStep DEF RefinementInv
<1>3. QED
  BY <1>1, <1>2, InitMaps, StepMaps, PTL DEF Spec, ImplementsService, Service!Spec
=============================================================================
