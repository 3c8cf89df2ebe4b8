--------------------------- MODULE AlsaDirectProofs ---------------------------
(***************************************************************************)
(* Proofs about AlsaDirect: the device is ready when it is written to, no  *)
(* worker outlives the queues, messages keep their order and none is lost  *)
(* or deleted twice, and the writer plays from a refilled queue. For any   *)
(* number of messages, any limits of the queues and any of the failures.   *)
(***************************************************************************)
EXTENDS AlsaDirect, FiniteSetTheorems, SequenceTheorems, TLAPS

-----------------------------------------------------------------------------
(* The device: what was converted went through an initialised device.      *)

\* pc alone, of what TypeOK says.
PcOK ==
  /\ pc \in [Thread -> ClientPC \cup EaterPC \cup WriterPC]
  /\ pc["main"] \in ClientPC /\ pc["ohm"] \in ClientPC
  /\ pc["eater"] \in EaterPC /\ pc["writer"] \in WriterPC

\* The converter exists only with the device, and before anything is queued.
DeviceInv ==
  /\ PcOK
  /\ srcState => pcmReady
  /\ pc["eater"] = "init" => ~srcState
  /\ pc["eater"] = "put" \/ s_queue # <<>> \/ pc["writer"] = "write" => srcState

LEMMA DeviceInit == Init => DeviceInv
  BY DEF Init, S!QueueInit, DeviceInv, PcOK, Thread, ClientPC, EaterPC, WriterPC

\* What a method of alsaqueue does to its tasks.
LEMMA AlsaqueueTasks ==
  /\ \A t, x, f, out : S!Put(t, x, f, out) /\ out # "true" => s_queue' = s_queue
  /\ \A t, out : S!SetTerminateAndWait(t, out) => s_queue' = s_queue
  /\ \A t, sz, out : S!WaitMinSz(t, sz, out) => s_queue' = s_queue
  /\ \A t, out : S!Take(t, out) /\ out # "true" => s_queue' = s_queue
  /\ \A t : S!Take(t, "true") => s_queue # <<>>
  /\ \A t : S!WorkerExit(t) => s_queue' = s_queue
  /\ \A ws : S!Start(ws) => s_queue' = s_queue
  /\ \A t : S!SpuriousWakeup(t) => s_queue' = s_queue
<1>1. \A t, x, f, out : S!Put(t, x, f, out) /\ out # "true" => s_queue' = s_queue
  BY DEF S!Put, S!PutFails, S!PutSleeps
<1>2. \A t, out : S!SetTerminateAndWait(t, out) => s_queue' = s_queue
  BY DEF S!SetTerminateAndWait, S!TerminateFindsNobody, S!TerminateSleeps,
     S!TerminateJoins, S!queueVars
<1>3. \A t, sz, out : S!WaitMinSz(t, sz, out) => s_queue' = s_queue
  BY DEF S!WaitMinSz
<1>4. /\ \A t, out : S!Take(t, out) /\ out # "true" => s_queue' = s_queue
      /\ \A t : S!Take(t, "true") => s_queue # <<>>
  BY DEF S!Take, S!TakePops, S!Short
<1>5. QED
  BY <1>1, <1>2, <1>3, <1>4 DEF S!WorkerExit, S!Start, S!SpuriousWakeup

LEMMA DeviceStep == DeviceInv /\ [Next]_vars => DeviceInv'
<1> SUFFICES ASSUME DeviceInv, [Next]_vars
             PROVE  DeviceInv'
  OBVIOUS
<1> USE DEF DeviceInv, PcOK, Thread, ClientPC, EaterPC, WriterPC, Goto
<1>1. CASE Process \/ Quit
  BY <1>1 DEF Process, Quit, sVars, device
<1>2. ASSUME NEW out \in Outcome, ProcessPut(out)
      PROVE  DeviceInv'
  <2>1. PICK label \in ClientPC : pc' = pc \/ pc' = [pc EXCEPT !["ohm"] = label]
    BY <1>2 DEF ProcessPut, Outcome
  <2>2. UNCHANGED <<s_queue, device>>
    BY <1>2 DEF ProcessPut, sVars
  <2>3. QED
    BY <2>1, <2>2 DEF device
<1>3. CASE ExitStep
  <2>1. PICK t \in {"main", "ohm"}, out \in Outcome :
          DestroyAudioqueue(t, out) \/ DestroyAlsaqueue(t, out)
    BY <1>3 DEF ExitStep
  <2>2. UNCHANGED <<s_queue, device>>
    BY <2>1, AlsaqueueTasks DEF DestroyAudioqueue, DestroyAlsaqueue, sVars
  <2>3. PICK label \in ClientPC : pc' = pc \/ pc' = [pc EXCEPT ![t] = label]
    BY <2>1 DEF DestroyAudioqueue, DestroyAlsaqueue
  <2>4. QED
    BY <2>2, <2>3 DEF device
<1>4. CASE EaterStart
  BY <1>4, AlsaqueueTasks DEF EaterStart
<1>5. ASSUME NEW out \in Outcome, EaterTake(out)
      PROVE  DeviceInv'
  BY <1>5, ZenonT(40) DEF EaterTake, sVars, device, Outcome
<1>6. ASSUME NEW out \in Outcome, EaterPut(out)
      PROVE  DeviceInv'
  <2>1. pc["eater"] = "put" /\ UNCHANGED device
    BY <1>6 DEF EaterPut
  <2>2. srcState' /\ pcmReady'
    BY <2>1 DEF device
  <2>3. PICK label \in {"put", "take", "exitA"} : pc' = [pc EXCEPT !["eater"] = label]
    BY <1>6, <2>1 DEF EaterPut, Outcome
  <2>4. QED
    BY <2>2, <2>3
<1>7. ASSUME NEW out \in Outcome, EaterTerminates(out)
      PROVE  DeviceInv'
  BY <1>7, AlsaqueueTasks DEF EaterTerminates, device
<1>8. CASE EaterZero
  BY <1>8 DEF EaterZero, EaterDrops, sVars, device
<1>9. CASE EaterInspect
  BY <1>9 DEF EaterInspect, sVars, device
<1>10. CASE EaterInit
  BY <1>10 DEF EaterInit, sVars
<1>11. CASE EaterInitFails
  BY <1>11 DEF EaterInitFails, EaterDrops, sVars
<1>12. CASE EaterConvert
  BY <1>12 DEF EaterConvert, sVars, device
<1>13. CASE EaterConvertFails
  BY <1>13 DEF EaterConvertFails, EaterDrops, sVars, device
<1>14. CASE EaterExits
  BY <1>14 DEF EaterExits, sVars, device
<1>15. CASE WriterCheck
  BY <1>15 DEF WriterCheck, sVars, device
<1>16. ASSUME NEW out \in Outcome, WriterWaitMinSz(out)
      PROVE  DeviceInv'
  BY <1>16, AlsaqueueTasks, ZenonT(40) DEF WriterWaitMinSz, device, Outcome
<1>17. ASSUME NEW out \in Outcome, WriterTake(out)
      PROVE  DeviceInv'
  <2>1. CASE out = "true"
    <3>1. s_queue # <<>> /\ UNCHANGED device /\ pc' = [pc EXCEPT !["writer"] = "write"]
      BY <1>17, <2>1, AlsaqueueTasks DEF WriterTake
    <3>2. srcState' /\ pcmReady' /\ UNCHANGED srcState
      BY <3>1 DEF device
    <3>3. QED
      BY <3>1, <3>2
  <2>2. CASE out # "true"
    BY <1>17, <2>2, AlsaqueueTasks DEF WriterTake, device, Outcome
  <2>3. QED
    BY <2>1, <2>2
<1>18. CASE WriterWrite
  BY <1>18 DEF WriterWrite, sVars
<1>19. CASE WriterExits
  BY <1>19, AlsaqueueTasks DEF WriterExits, device
<1>20. ASSUME NEW t \in Thread, Spurious(t)
       PROVE  DeviceInv'
  BY <1>20, AlsaqueueTasks DEF Spurious, sVars, device
<1>21. CASE UNCHANGED vars
  BY <1>21 DEF vars, sVars, device
<1>22. QED
  BY <1>1, <1>2, <1>3, <1>4, <1>5, <1>6, <1>7, <1>8, <1>9, <1>10, <1>11, <1>12, <1>13,
     <1>14, <1>15, <1>16, <1>17, <1>18, <1>19, <1>20, <1>21
  DEF Next, OhmStep, EaterStep, WriterStep

\* The writer, another thread than the eater, which opens the device, writes to it
\* only once it is open: nothing is queued before, whatever fails on the way there
\* and however often the eater tries again (alsadirect.cpp:335-358, 101).
THEOREM DeviceIsReady == Spec => []DeviceReady
<1>1. DeviceInv => DeviceReady
  BY DEF DeviceInv, DeviceReady
<1>2. QED
  BY <1>1, DeviceInit, DeviceStep, PTL DEF Spec

-----------------------------------------------------------------------------
(* The end of the process.                                                 *)

\* Each queue knows its worker from start() to the join, and whether it left.
Gone(t) == pc[t] \in {"unborn", "gone"}
KnowsWorker(threads, exited, t) ==
  \/ threads = {} /\ exited = 0 /\ Gone(t)
  \/ threads = {t} /\ exited = 0 /\ ~Gone(t)
  \/ threads = {t} /\ exited = 1 /\ pc[t] = "gone"

KnowsEater == KnowsWorker(a_threads, a_exited, "eater")
KnowsWriter == KnowsWorker(s_threads, s_exited, "writer")

EndInv ==
  /\ PcOK
  /\ KnowsEater
  /\ KnowsWriter
  /\ pc["eater"] \in {"unborn", "start"} => s_threads = {} /\ pc["writer"] = "unborn"
  /\ \A t \in {"main", "ohm"} :
       /\ pc[t] \in {"dtorS", "ended"} => Gone("eater")
       /\ pc[t] = "ended" => Gone("writer")

LEMMA EndInit == Init => EndInv
<1> SUFFICES ASSUME Init PROVE EndInv
  OBVIOUS
<1>1. PcOK
  BY DEF Init, PcOK, Thread, ClientPC, EaterPC, WriterPC
<1>2. QED
  BY <1>1 DEF Init, S!QueueInit, EndInv, KnowsEater, KnowsWriter, KnowsWorker, Gone

\* Both instances count as FiniteSets does.
LEMMA SameCardinality ==
  ASSUME NEW X
  PROVE  A!Cardinality(X) = Cardinality(X) /\ S!Cardinality(X) = Cardinality(X)
  BY DEF A!Cardinality, S!Cardinality, Cardinality

\* setTerminateAndWait() waits until the worker has left.
LEMMA AudioqueueTerminated ==
  ASSUME KnowsEater, NEW t, NEW out \in Outcome, A!SetTerminateAndWait(t, out)
  PROVE  /\ out # "wait" => Gone("eater") /\ a_threads' = {} /\ a_exited' = 0
         /\ out = "wait" => UNCHANGED <<a_threads, a_exited>>
<1>1. CASE A!TerminateFindsNobody(t) /\ out = "false"
  BY <1>1 DEF A!TerminateFindsNobody, A!queueVars, KnowsEater, KnowsWorker
<1>2. CASE A!TerminateSleeps(t) /\ out = "wait"
  BY <1>2 DEF A!TerminateSleeps
<1>3. CASE A!TerminateJoins(t) /\ out = "true"
  <2>1. a_exited >= Cardinality(a_threads)
    BY <1>3, SameCardinality DEF A!TerminateJoins, A!AllExited
  <2>2. Cardinality({"eater"}) = 1
    BY FS_Singleton
  <2>3. Gone("eater")
    BY <2>1, <2>2 DEF KnowsEater, KnowsWorker, Gone
  <2>4. QED
    BY <1>3, <2>3 DEF A!TerminateJoins, A!ResetCounters
<1>4. QED
  BY <1>1, <1>2, <1>3 DEF A!SetTerminateAndWait

LEMMA AlsaqueueTerminated ==
  ASSUME KnowsWriter, NEW t, NEW out \in Outcome, S!SetTerminateAndWait(t, out)
  PROVE  /\ out # "wait" => Gone("writer") /\ s_threads' = {} /\ s_exited' = 0
         /\ out = "wait" => UNCHANGED <<s_threads, s_exited>>
<1>1. CASE S!TerminateFindsNobody(t) /\ out = "false"
  BY <1>1 DEF S!TerminateFindsNobody, S!queueVars, KnowsWriter, KnowsWorker
<1>2. CASE S!TerminateSleeps(t) /\ out = "wait"
  BY <1>2 DEF S!TerminateSleeps
<1>3. CASE S!TerminateJoins(t) /\ out = "true"
  <2>1. s_exited >= Cardinality(s_threads)
    BY <1>3, SameCardinality DEF S!TerminateJoins, S!AllExited
  <2>2. Cardinality({"writer"}) = 1
    BY FS_Singleton
  <2>3. Gone("writer")
    BY <2>1, <2>2 DEF KnowsWriter, KnowsWorker, Gone
  <2>4. QED
    BY <1>3, <2>3 DEF S!TerminateJoins, S!ResetCounters
<1>4. QED
  BY <1>1, <1>2, <1>3 DEF S!SetTerminateAndWait

\* The other methods leave the registrations alone.
registrations == <<a_threads, a_exited, s_threads, s_exited>>

LEMMA Registrations ==
  /\ \A t, x, f, out : A!Put(t, x, f, out) => UNCHANGED <<a_threads, a_exited>>
  /\ \A t, out : A!Take(t, out) => UNCHANGED <<a_threads, a_exited>>
  /\ \A t : A!SpuriousWakeup(t) => UNCHANGED <<a_threads, a_exited>>
  /\ \A t, x, f, out : S!Put(t, x, f, out) => UNCHANGED <<s_threads, s_exited>>
  /\ \A t, sz, out : S!WaitMinSz(t, sz, out) => UNCHANGED <<s_threads, s_exited>>
  /\ \A t, out : S!Take(t, out) => UNCHANGED <<s_threads, s_exited>>
  /\ \A t : S!SpuriousWakeup(t) => UNCHANGED <<s_threads, s_exited>>
  BY DEF A!Put, A!Take, A!SpuriousWakeup, S!Put, S!WaitMinSz, S!Take, S!SpuriousWakeup

\* A step of a running thread other than start() and setTerminateAndWait().
LEMMA MovesOn ==
  ASSUME EndInv, UNCHANGED registrations,
         NEW t \in Thread, NEW label \in ClientPC \cup EaterPC \cup WriterPC,
         pc' = [pc EXCEPT ![t] = label],
         t \in {"main", "ohm"} => label \in ClientPC \ {"dtorS", "ended"},
         t = "eater" => /\ label \in EaterPC \ {"unborn", "start", "gone"}
                        /\ ~Gone("eater"),
         t = "writer" => /\ label \in WriterPC \ {"unborn", "gone"}
                         /\ ~Gone("writer")
  PROVE  EndInv'
<1> USE DEF EndInv, PcOK, Gone, Thread, registrations
<1>1. PcOK'
  BY DEF ClientPC, EaterPC, WriterPC
<1>2. \A u \in Thread : pc'[u] = IF u = t THEN label ELSE pc[u]
  OBVIOUS
<1>3. KnowsEater' /\ KnowsWriter'
  BY <1>2 DEF KnowsEater, KnowsWriter, KnowsWorker, ClientPC
<1>4. QED
  BY <1>1, <1>2, <1>3 DEF ClientPC, EaterPC, WriterPC

LEMMA EndStep == EndInv /\ [Next]_vars => EndInv'
<1> SUFFICES ASSUME EndInv, [Next]_vars
             PROVE  EndInv'
  OBVIOUS
<1> USE DEF Goto
<1>p. PcOK
  BY DEF EndInv
<1>s. ASSUME UNCHANGED <<pc, registrations>>
      PROVE  EndInv'
  BY <1>s DEF EndInv, PcOK, KnowsEater, KnowsWriter, KnowsWorker, Gone, registrations
<1>1. CASE Process \/ Quit
  <2>1. UNCHANGED registrations
    BY <1>1 DEF Process, Quit, aVars, sVars, registrations
  <2>2. pc' = [pc EXCEPT !["ohm"] = "put"] \/ pc' = [pc EXCEPT !["main"] = "dtorA"]
    BY <1>1 DEF Process, Quit
  <2>3. QED
    BY <2>1, <2>2, MovesOn DEF Thread, ClientPC
<1>2. ASSUME NEW out \in Outcome, ProcessPut(out)
      PROVE  EndInv'
  <2>1. UNCHANGED registrations
    BY <1>2, Registrations DEF ProcessPut, sVars, registrations
  <2>2. pc' = pc \/ \E label \in {"running", "dtorA"} : pc' = [pc EXCEPT !["ohm"] = label]
    BY <1>2 DEF ProcessPut, Outcome
  <2>3. QED
    BY <1>s, <2>1, <2>2, MovesOn DEF Thread, ClientPC
<1>3. ASSUME NEW t \in {"main", "ohm"}, NEW out \in Outcome, DestroyAudioqueue(t, out)
      PROVE  EndInv'
  <2>1. CASE out = "wait"
    <3>1. UNCHANGED <<pc, registrations>>
      BY <1>3, <2>1, AudioqueueTerminated
      DEF DestroyAudioqueue, EndInv, sVars, registrations
    <3>2. QED
      BY <3>1, <1>s
  <2>2. CASE out # "wait"
    <3>1. /\ pc' = [pc EXCEPT ![t] = "dtorS"] /\ UNCHANGED <<s_threads, s_exited>>
          /\ Gone("eater") /\ a_threads' = {} /\ a_exited' = 0
      BY <1>3, <2>2, AudioqueueTerminated DEF DestroyAudioqueue, EndInv, sVars
    <3>2. QED
      BY <3>1 DEF EndInv, PcOK, KnowsEater, KnowsWriter, KnowsWorker, Gone, Thread,
         ClientPC, EaterPC, WriterPC
  <2>3. QED
    BY <2>1, <2>2
<1>4. ASSUME NEW t \in {"main", "ohm"}, NEW out \in Outcome, DestroyAlsaqueue(t, out)
      PROVE  EndInv'
  <2>1. CASE out = "wait"
    <3>1. UNCHANGED <<pc, registrations>>
      BY <1>4, <2>1, AlsaqueueTerminated
      DEF DestroyAlsaqueue, EndInv, aVars, registrations
    <3>2. QED
      BY <3>1, <1>s
  <2>2. CASE out # "wait"
    <3>1. /\ pc' = [pc EXCEPT ![t] = "ended"] /\ UNCHANGED <<a_threads, a_exited>>
          /\ Gone("writer") /\ s_threads' = {} /\ s_exited' = 0
          /\ pc[t] = "dtorS"
      BY <1>4, <2>2, AlsaqueueTerminated DEF DestroyAlsaqueue, EndInv, aVars
    <3>2. QED
      BY <3>1 DEF EndInv, PcOK, KnowsEater, KnowsWriter, KnowsWorker, Gone, Thread,
         ClientPC, EaterPC, WriterPC
  <2>3. QED
    BY <2>1, <2>2
<1>5. CASE EaterStart
  <2>1. /\ s_threads = {} /\ UNCHANGED <<a_threads, a_exited, s_exited>>
        /\ pc["eater"] = "start" /\ pc["writer"] = "unborn" /\ s_exited = 0
    BY <1>5 DEF EaterStart, EndInv, aVars, S!Start, KnowsWriter, KnowsWorker
  <2>2. \/ /\ s_threads' = {"writer"}
           /\ pc' = [pc EXCEPT !["eater"] = "take", !["writer"] = "check"]
        \/ /\ s_threads' = {}
           /\ pc' = [pc EXCEPT !["eater"] = "take"]
    BY <1>5, <2>1 DEF EaterStart, S!Start
  <2>3. QED
    BY <2>1, <2>2 DEF EndInv, PcOK, KnowsEater, KnowsWriter, KnowsWorker, Gone, Thread,
       ClientPC, EaterPC, WriterPC
<1>6. CASE EaterExits \/ WriterExits
  <2>1. A!Inc(0) = 1 /\ S!Inc(0) = 1
    BY AlsaAssumption DEF A!Inc, S!Inc
  <2>2. \/ /\ EaterExits /\ a_exited' = A!Inc(a_exited)
           /\ UNCHANGED <<a_threads, s_threads, s_exited>>
        \/ /\ WriterExits /\ s_exited' = S!Inc(s_exited)
           /\ UNCHANGED <<s_threads, a_threads, a_exited>>
    BY <1>6 DEF EaterExits, WriterExits, A!WorkerExit, S!WorkerExit, aVars, sVars
  <2>3. CASE EaterExits
    BY <2>1, <2>2, <2>3
    DEF EaterExits, WriterExits, EndInv, PcOK, KnowsEater, KnowsWriter, KnowsWorker, Gone,
        Thread, ClientPC, EaterPC, WriterPC
  <2>4. CASE WriterExits
    BY <2>1, <2>2, <2>4
    DEF EaterExits, WriterExits, EndInv, PcOK, KnowsEater, KnowsWriter, KnowsWorker, Gone,
        Thread, ClientPC, EaterPC, WriterPC
  <2>5. QED
    BY <1>6, <2>3, <2>4
<1>7. ASSUME NEW out \in Outcome, EaterTerminates(out)
      PROVE  EndInv'
  <2>1. CASE out = "wait"
    <3>1. UNCHANGED <<pc, registrations>>
      BY <1>7, <2>1, AlsaqueueTerminated
      DEF EaterTerminates, EndInv, aVars, registrations
    <3>2. QED
      BY <3>1, <1>s
  <2>2. CASE out # "wait"
    <3>1. /\ pc' = [pc EXCEPT !["eater"] = "exitA"] /\ UNCHANGED <<a_threads, a_exited>>
          /\ Gone("writer") /\ s_threads' = {} /\ s_exited' = 0
          /\ pc["eater"] = "termS"
      BY <1>7, <2>2, AlsaqueueTerminated DEF EaterTerminates, EndInv, aVars
    <3>2. QED
      BY <3>1 DEF EndInv, PcOK, KnowsEater, KnowsWriter, KnowsWorker, Gone, Thread,
         ClientPC, EaterPC, WriterPC
  <2>3. QED
    BY <2>1, <2>2
<1>8. ASSUME NEW out \in Outcome, EaterTake(out) \/ EaterPut(out)
      PROVE  EndInv'
  <2>1. UNCHANGED registrations
    BY <1>8, Registrations DEF EaterTake, EaterPut, aVars, sVars, registrations
  <2>2. pc["eater"] \in {"take", "put"}
        /\ (pc' = pc \/ \E label \in {"take", "inspect", "termS", "exitA"} :
                         pc' = [pc EXCEPT !["eater"] = label])
    BY <1>8 DEF EaterTake, EaterPut, Outcome
  <2>3. QED
    BY <1>s, <2>1, <2>2, MovesOn DEF Thread, EaterPC, Gone
<1>9. CASE EaterZero \/ EaterInspect \/ EaterInit \/ EaterInitFails \/ EaterConvert
           \/ EaterConvertFails
  <2>1. UNCHANGED registrations
    BY <1>9 DEF EaterZero, EaterInspect, EaterInit, EaterInitFails, EaterConvert,
       EaterConvertFails, EaterDrops, aVars, sVars, registrations
  <2>2. /\ pc["eater"] \in {"inspect", "init", "convert"}
        /\ \E label \in {"take", "init", "convert", "put", "termS"} :
             pc' = [pc EXCEPT !["eater"] = label]
    BY <1>9 DEF EaterZero, EaterInspect, EaterInit, EaterInitFails, EaterConvert,
       EaterConvertFails, EaterDrops
  <2>3. QED
    BY <2>1, <2>2, MovesOn DEF Thread, EaterPC, Gone
<1>10. ASSUME NEW out \in Outcome, WriterWaitMinSz(out) \/ WriterTake(out)
       PROVE  EndInv'
  <2>1. UNCHANGED registrations
    BY <1>10, Registrations DEF WriterWaitMinSz, WriterTake, aVars, registrations
  <2>2. pc["writer"] \in {"minsz", "take"}
        /\ (pc' = pc \/ \E label \in {"take", "write", "exitS"} :
                         pc' = [pc EXCEPT !["writer"] = label])
    BY <1>10 DEF WriterWaitMinSz, WriterTake, Outcome
  <2>3. QED
    BY <1>s, <2>1, <2>2, MovesOn DEF Thread, WriterPC, Gone
<1>11. CASE WriterCheck \/ WriterWrite
  <2>1. UNCHANGED registrations
    BY <1>11 DEF WriterCheck, WriterWrite, aVars, sVars, registrations
  <2>2. /\ pc["writer"] \in {"check", "write"}
        /\ \E label \in {"take", "minsz", "check"} : pc' = [pc EXCEPT !["writer"] = label]
    BY <1>11 DEF WriterCheck, WriterWrite
  <2>3. QED
    BY <2>1, <2>2, MovesOn DEF Thread, WriterPC, Gone
<1>12. ASSUME NEW t \in Thread, Spurious(t)
       PROVE  EndInv'
  BY <1>s, <1>12, Registrations DEF Spurious, aVars, sVars, registrations
<1>13. CASE UNCHANGED vars
  BY <1>s, <1>13 DEF vars, aVars, sVars, registrations
<1>14. QED
  BY <1>1, <1>2, <1>3, <1>4, <1>5, <1>6, <1>7, <1>8, <1>9, <1>10, <1>11, <1>12, <1>13
  DEF Next, OhmStep, ExitStep, EaterStep, WriterStep

\* The static destructors run only when no worker can touch a queue any more: the
\* process ends with both workers gone or never born, by whichever way it leaves
\* and whatever failed before (sc2mpd.cpp:54, alsadirect.cpp:59).
THEOREM WorkersEndFirst == Spec => []NobodyOutlivesQueues
<1>1. EndInv => NobodyOutlivesQueues
  BY DEF EndInv, NobodyOutlivesQueues, Running, Gone
<1>2. QED
  BY <1>1, EndInit, EndStep, PTL DEF Spec

-----------------------------------------------------------------------------
(* Types.                                                                  *)

\* The methods of both queues keep their types.
LEMMA AudioqueueTypes ==
  ASSUME A!QueueTypeOK, NEW t \in Thread, NEW out
  PROVE  /\ \A x \in Msg : A!Put(t, x, FALSE, out) => A!QueueTypeOK'
         /\ A!SetTerminateAndWait(t, out) => A!QueueTypeOK'
         /\ A!Take(t, out) => A!QueueTypeOK'
         /\ A!WorkerExit(t) => A!QueueTypeOK'
         /\ A!SpuriousWakeup(t) => A!QueueTypeOK'
<1> USE AlsaAssumption DEF A!QueueTypeOK
<1>1. /\ A!Signal(a_ccond) \subseteq SUBSET a_ccond
      /\ A!Signal(a_wcond) \subseteq SUBSET a_wcond
  BY DEF A!Signal, A!Asleep
<1>2. \A n \in 0 .. UIntMax : A!Inc(n) \in 0 .. UIntMax /\ A!Dec(n) \in 0 .. UIntMax
  BY DEF A!Inc, A!Dec
<1>3. A!ClientsAfterWait(t) \in 0 .. UIntMax /\ A!WorkersAfterWait(t) \in 0 .. UIntMax
  BY <1>2 DEF A!ClientsAfterWait, A!WorkersAfterWait
<1>4. ASSUME NEW x \in Msg, A!Put(t, x, FALSE, out)
      PROVE  A!QueueTypeOK'
  <2>1. CASE A!PutFails(t)
    BY <1>3, <1>4, <2>1 DEF A!Put, A!PutFails, A!LeaveClients
  <2>2. CASE A!PutSleeps(t)
    BY <1>2, <1>3, <1>4, <2>2 DEF A!Put, A!PutSleeps, A!SleepClients
  <2>3. CASE A!PutPushes(t, x, FALSE)
    <3>1. PICK ws \in SUBSET a_wcond : a_woken' = (a_woken \ {t}) \cup ws
      BY <1>1, <2>3 DEF A!PutPushes
    <3>2. QED
      BY <1>3, <1>4, <2>3, <3>1 DEF A!Put, A!PutPushes, A!LeaveClients
  <2>4. QED
    BY <1>4, <2>1, <2>2, <2>3 DEF A!Put
<1>5. ASSUME A!SetTerminateAndWait(t, out)
      PROVE  A!QueueTypeOK'
  <2>1. CASE A!TerminateFindsNobody(t)
    BY <2>1 DEF A!TerminateFindsNobody, A!queueVars
  <2>2. CASE A!TerminateSleeps(t)
    BY <1>2, <1>3, <2>2 DEF A!TerminateSleeps, A!SleepClients
  <2>3. CASE A!TerminateJoins(t)
    BY <2>3 DEF A!TerminateJoins, A!ResetCounters
  <2>4. QED
    BY <1>5, <2>1, <2>2, <2>3 DEF A!SetTerminateAndWait
<1>6. ASSUME A!Take(t, out)
      PROVE  A!QueueTypeOK'
  <2>1. CASE A!WorkerFails(t) /\ UNCHANGED a_queue
    BY <1>3, <1>6, <2>1 DEF A!Take, A!WorkerFails, A!LeaveWorkers
  <2>2. CASE A!WorkerSleeps(t, 1) /\ UNCHANGED a_queue
    BY <1>2, <1>3, <1>6, <2>2 DEF A!Take, A!WorkerSleeps, A!SleepWorkers
  <2>3. CASE A!TakePops(t)
    <3>1. PICK ws \in SUBSET a_ccond : a_woken' = (a_woken \ {t}) \cup ws
      BY <1>1, <2>3 DEF A!TakePops
    <3>2. a_queue' \in Seq(Msg)
      BY <2>3, HeadTailProperties DEF A!TakePops, A!Short
    <3>3. QED
      BY <1>3, <1>6, <2>3, <3>1, <3>2 DEF A!Take, A!TakePops, A!LeaveWorkers
  <2>4. QED
    BY <1>6, <2>1, <2>2, <2>3 DEF A!Take
<1>7. A!WorkerExit(t) => A!QueueTypeOK'
  BY <1>2 DEF A!WorkerExit
<1>8. A!SpuriousWakeup(t) => A!QueueTypeOK'
  BY DEF A!SpuriousWakeup, A!Asleep
<1>9. QED
  BY <1>4, <1>5, <1>6, <1>7, <1>8

LEMMA AlsaqueueTypes ==
  ASSUME S!QueueTypeOK, NEW t \in Thread, NEW out
  PROVE  /\ \A x \in Msg : S!Put(t, x, FALSE, out) => S!QueueTypeOK'
         /\ S!SetTerminateAndWait(t, out) => S!QueueTypeOK'
         /\ S!Take(t, out) => S!QueueTypeOK'
         /\ \A sz : S!WaitMinSz(t, sz, out) => S!QueueTypeOK'
         /\ \A ws \in SUBSET Thread : S!Start(ws) => S!QueueTypeOK'
         /\ S!WorkerExit(t) => S!QueueTypeOK'
         /\ S!SpuriousWakeup(t) => S!QueueTypeOK'
<1> USE AlsaAssumption DEF S!QueueTypeOK
<1>1. /\ S!Signal(s_ccond) \subseteq SUBSET s_ccond
      /\ S!Signal(s_wcond) \subseteq SUBSET s_wcond
  BY DEF S!Signal, S!Asleep
<1>2. \A n \in 0 .. UIntMax : S!Inc(n) \in 0 .. UIntMax /\ S!Dec(n) \in 0 .. UIntMax
  BY DEF S!Inc, S!Dec
<1>3. S!ClientsAfterWait(t) \in 0 .. UIntMax /\ S!WorkersAfterWait(t) \in 0 .. UIntMax
  BY <1>2 DEF S!ClientsAfterWait, S!WorkersAfterWait
<1>4. ASSUME NEW x \in Msg, S!Put(t, x, FALSE, out)
      PROVE  S!QueueTypeOK'
  <2>1. CASE S!PutFails(t)
    BY <1>3, <1>4, <2>1 DEF S!Put, S!PutFails, S!LeaveClients
  <2>2. CASE S!PutSleeps(t)
    BY <1>2, <1>3, <1>4, <2>2 DEF S!Put, S!PutSleeps, S!SleepClients
  <2>3. CASE S!PutPushes(t, x, FALSE)
    <3>1. PICK ws \in SUBSET s_wcond : s_woken' = (s_woken \ {t}) \cup ws
      BY <1>1, <2>3 DEF S!PutPushes
    <3>2. QED
      BY <1>3, <1>4, <2>3, <3>1 DEF S!Put, S!PutPushes, S!LeaveClients
  <2>4. QED
    BY <1>4, <2>1, <2>2, <2>3 DEF S!Put
<1>5. ASSUME S!SetTerminateAndWait(t, out)
      PROVE  S!QueueTypeOK'
  <2>1. CASE S!TerminateFindsNobody(t)
    BY <2>1 DEF S!TerminateFindsNobody, S!queueVars
  <2>2. CASE S!TerminateSleeps(t)
    BY <1>2, <1>3, <2>2 DEF S!TerminateSleeps, S!SleepClients
  <2>3. CASE S!TerminateJoins(t)
    BY <2>3 DEF S!TerminateJoins, S!ResetCounters
  <2>4. QED
    BY <1>5, <2>1, <2>2, <2>3 DEF S!SetTerminateAndWait
<1>6. ASSUME S!Take(t, out)
      PROVE  S!QueueTypeOK'
  <2>1. CASE S!WorkerFails(t) /\ UNCHANGED s_queue
    BY <1>3, <1>6, <2>1 DEF S!Take, S!WorkerFails, S!LeaveWorkers
  <2>2. CASE S!WorkerSleeps(t, 1) /\ UNCHANGED s_queue
    BY <1>2, <1>3, <1>6, <2>2 DEF S!Take, S!WorkerSleeps, S!SleepWorkers
  <2>3. CASE S!TakePops(t)
    <3>1. PICK ws \in SUBSET s_ccond : s_woken' = (s_woken \ {t}) \cup ws
      BY <1>1, <2>3 DEF S!TakePops
    <3>2. s_queue' \in Seq(Msg)
      BY <2>3, HeadTailProperties DEF S!TakePops, S!Short
    <3>3. QED
      BY <1>3, <1>6, <2>3, <3>1, <3>2 DEF S!Take, S!TakePops, S!LeaveWorkers
  <2>4. QED
    BY <1>6, <2>1, <2>2, <2>3 DEF S!Take
<1>7. S!WorkerExit(t) => S!QueueTypeOK'
  BY <1>2 DEF S!WorkerExit
<1>8. S!SpuriousWakeup(t) => S!QueueTypeOK'
  BY DEF S!SpuriousWakeup, S!Asleep
<1>9. ASSUME NEW sz, S!WaitMinSz(t, sz, out)
      PROVE  S!QueueTypeOK'
  BY <1>2, <1>3, <1>9
  DEF S!WaitMinSz, S!WorkerFails, S!WorkerSleeps, S!LeaveWorkers, S!SleepWorkers
<1>10. \A ws \in SUBSET Thread : S!Start(ws) => S!QueueTypeOK'
  BY DEF S!Start
<1>11. QED
  BY <1>4, <1>5, <1>6, <1>7, <1>8, <1>9, <1>10

\* The threads' places and hands, as TypeOK has them.
HandsOK ==
  /\ PcOK
  /\ held \in [Thread -> Msg \cup {NoMsg}]
  /\ held["ohm"] # NoMsg <=> pc["ohm"] = "put"
  /\ held["eater"] # NoMsg <=> pc["eater"] \in {"inspect", "init", "convert", "put"}
  /\ held["writer"] # NoMsg <=> pc["writer"] = "write"

\* TypeOK part by part.
LEMMA TypeParts ==
  TypeOK <=> /\ A!QueueTypeOK /\ S!QueueTypeOK /\ HandsOK
             /\ arrived \in 0 .. NMsg /\ freed \subseteq Msg /\ leaked \subseteq Msg
             /\ {qinit, pcmReady, srcState} \subseteq BOOLEAN
             /\ lastPlayed \in Msg \cup {NoMsg}
  BY DEF TypeOK, HandsOK, PcOK

LEMMA TypeInit == Init => TypeOK
<1> SUFFICES ASSUME Init PROVE TypeOK
  OBVIOUS
<1>1. A!QueueTypeOK /\ S!QueueTypeOK
  BY EmptySeq, AlsaAssumption
  DEF Init, S!QueueInit, A!QueueTypeOK, S!QueueTypeOK, Thread
<1>2. PICK label \in EaterPC :
        pc = [main |-> "running", ohm |-> "running", writer |-> "unborn", eater |-> label]
        /\ label \in {"unborn", "start"}
  BY DEF Init, EaterPC
<1>3. HandsOK
  BY <1>2 DEF Init, HandsOK, PcOK, Thread, ClientPC, EaterPC, WriterPC, NoMsg
<1>4. {qinit, pcmReady, srcState} \subseteq BOOLEAN
  BY Zenon DEF Init
<1>5. arrived \in 0 .. NMsg /\ freed \subseteq Msg /\ leaked \subseteq Msg
      /\ lastPlayed \in Msg \cup {NoMsg}
  BY AlsaAssumption DEF Init
<1>6. QED
  BY <1>1, <1>3, <1>4, <1>5, TypeParts

\* What the methods of audioqueue other than put and take do to its tasks.
LEMMA AudioqueueTasks ==
  /\ \A t, out : A!SetTerminateAndWait(t, out) => a_queue' = a_queue
  /\ \A t : A!WorkerExit(t) => a_queue' = a_queue
  /\ \A t : A!SpuriousWakeup(t) => a_queue' = a_queue
  BY DEF A!SetTerminateAndWait, A!TerminateFindsNobody, A!TerminateSleeps, A!TerminateJoins,
     A!queueVars, A!WorkerExit, A!SpuriousWakeup

\* What take() returns is a message.
LEMMA TakesMessages ==
  /\ A!QueueTypeOK /\ A!Take("eater", "true") => Head(a_queue) \in Msg /\ a_queue # <<>>
  /\ S!QueueTypeOK /\ S!Take("writer", "true") => Head(s_queue) \in Msg /\ s_queue # <<>>
<1>1. A!Take("eater", "true") => a_queue # <<>>
  BY DEF A!Take, A!TakePops, A!Short
<1>2. S!Take("writer", "true") => s_queue # <<>>
  BY DEF S!Take, S!TakePops, S!Short
<1>3. QED
  BY <1>1, <1>2, HeadTailProperties DEF A!QueueTypeOK, S!QueueTypeOK

\* The writer's hand is empty at EaterStart because it was not born: EndInv.
LEMMA HandsStep == TypeOK /\ EndInv /\ [Next]_vars => HandsOK'
<1> SUFFICES ASSUME TypeOK, EndInv, [Next]_vars PROVE HandsOK'
  OBVIOUS
<1>h. HandsOK /\ A!QueueTypeOK /\ S!QueueTypeOK /\ arrived \in 0 .. NMsg
  BY TypeParts
<1>n. NoMsg \notin Msg
  BY DEF NoMsg, Msg
<1> USE DEF HandsOK, PcOK, Thread, ClientPC, EaterPC, WriterPC, Goto, Hold, ledger
<1>1. CASE Process
  <2>1. arrived + 1 \in Msg
    BY <1>h, <1>1, AlsaAssumption DEF Process, Msg
  <2>2. QED
    BY <1>1, <1>h, <1>n, <2>1 DEF Process
<1>2. ASSUME NEW out \in Outcome, ProcessPut(out) PROVE HandsOK'
  <2>1. \/ UNCHANGED <<pc, held>>
        \/ \E label \in {"running", "dtorA"} :
             Goto("ohm", label) /\ Hold("ohm", NoMsg)
    BY <1>2 DEF ProcessPut, Outcome
  <2>2. QED
    BY <1>h, <2>1
<1>3. CASE Quit \/ ExitStep
  BY <1>3, <1>h DEF Quit, ExitStep, DestroyAudioqueue, DestroyAlsaqueue
<1>4. CASE EaterStart
  <2>1. pc["eater"] = "start" /\ UNCHANGED held
    BY <1>4 DEF EaterStart
  <2>2. \/ pc' = [pc EXCEPT !["eater"] = "take", !["writer"] = "check"]
        \/ pc' = [pc EXCEPT !["eater"] = "take"]
    BY <1>4 DEF EaterStart
  <2>3. held["writer"] = NoMsg
    BY <1>h, <2>1 DEF EndInv
  <2>4. QED
    BY <1>h, <2>1, <2>2, <2>3
<1>5. ASSUME NEW out \in Outcome, EaterTake(out) PROVE HandsOK'
  <2>1. out = "true" => Head(a_queue) \in Msg
    BY <1>5, <1>h, TakesMessages DEF EaterTake
  <2>2. \/ UNCHANGED <<pc, held>>
        \/ Goto("eater", "inspect") /\ Hold("eater", Head(a_queue)) /\ out = "true"
        \/ Goto("eater", "termS") /\ UNCHANGED held
    BY <1>5 DEF EaterTake, Outcome
  <2>3. pc["eater"] = "take"
    BY <1>5 DEF EaterTake
  <2>4. QED
    BY <1>h, <1>n, <2>1, <2>2, <2>3
<1>6. ASSUME NEW out \in Outcome, EaterPut(out) PROVE HandsOK'
  <2>1. \/ UNCHANGED <<pc, held>>
        \/ \E label \in {"take", "exitA"} : Goto("eater", label) /\ Hold("eater", NoMsg)
    BY <1>6 DEF EaterPut, Outcome
  <2>2. QED
    BY <1>h, <2>1
<1>7. ASSUME NEW out \in Outcome, EaterTerminates(out) PROVE HandsOK'
  BY <1>7, <1>h DEF EaterTerminates
<1>8. CASE EaterZero \/ EaterInitFails \/ EaterConvertFails
  BY <1>8, <1>h, <1>n DEF EaterZero, EaterInitFails, EaterConvertFails, EaterDrops
<1>9. CASE EaterInspect \/ EaterInit \/ EaterConvert \/ EaterExits
  BY <1>9, <1>h DEF EaterInspect, EaterInit, EaterConvert, EaterExits
<1>10. CASE WriterCheck \/ WriterWrite \/ WriterExits
  BY <1>10, <1>h, <1>n DEF WriterCheck, WriterWrite, WriterDeletes, WriterExits
<1>11. ASSUME NEW out \in Outcome, WriterWaitMinSz(out) PROVE HandsOK'
  BY <1>11, <1>h, ZenonT(40) DEF WriterWaitMinSz, Outcome
<1>12. ASSUME NEW out \in Outcome, WriterTake(out) PROVE HandsOK'
  <2>1. out = "true" => Head(s_queue) \in Msg
    BY <1>12, <1>h, TakesMessages DEF WriterTake
  <2>2. \/ UNCHANGED <<pc, held>>
        \/ Goto("writer", "write") /\ Hold("writer", Head(s_queue)) /\ out = "true"
        \/ Goto("writer", "exitS") /\ UNCHANGED held
    BY <1>12 DEF WriterTake, Outcome
  <2>3. pc["writer"] = "take"
    BY <1>12 DEF WriterTake
  <2>4. QED
    BY <1>h, <1>n, <2>1, <2>2, <2>3
<1>13. ASSUME NEW t \in Thread, Spurious(t) PROVE HandsOK'
  BY <1>13, <1>h DEF Spurious
<1>14. CASE UNCHANGED vars
  BY <1>14, <1>h DEF vars
<1>15. QED
  BY <1>1, <1>2, <1>3, <1>4, <1>5, <1>6, <1>7, <1>8, <1>9, <1>10, <1>11, <1>12, <1>13, <1>14
  DEF Next, OhmStep, EaterStep, WriterStep

LEMMA QueuesStep == TypeOK /\ [Next]_vars => A!QueueTypeOK' /\ S!QueueTypeOK'
<1> SUFFICES ASSUME TypeOK, [Next]_vars PROVE A!QueueTypeOK' /\ S!QueueTypeOK'
  OBVIOUS
<1>h. HandsOK /\ A!QueueTypeOK /\ S!QueueTypeOK
  BY TypeParts
<1>a. UNCHANGED aVars => A!QueueTypeOK'
  BY <1>h DEF aVars, A!QueueTypeOK
<1>s. UNCHANGED sVars => S!QueueTypeOK'
  BY <1>h DEF sVars, S!QueueTypeOK
<1>t. /\ {"main", "ohm", "eater", "writer"} = Thread
      /\ \A t \in Thread : held[t] # NoMsg => held[t] \in Msg
  BY <1>h DEF HandsOK, Thread
<1>1. CASE Process \/ Quit \/ EaterZero \/ EaterInspect \/ EaterInit \/ EaterInitFails
           \/ EaterConvert \/ EaterConvertFails \/ WriterCheck \/ WriterWrite
           \/ UNCHANGED vars
  BY <1>1, <1>a, <1>s DEF Process, Quit, EaterZero, EaterInspect, EaterInit, EaterInitFails,
     EaterConvert, EaterConvertFails, EaterDrops, WriterCheck, WriterWrite, vars
<1>2. ASSUME NEW out \in Outcome, ProcessPut(out) PROVE A!QueueTypeOK' /\ S!QueueTypeOK'
  BY <1>2, <1>s, <1>t, <1>h, AudioqueueTypes DEF ProcessPut, HandsOK
<1>3. CASE ExitStep
  BY <1>3, <1>a, <1>s, <1>t, <1>h, AudioqueueTypes, AlsaqueueTypes
  DEF ExitStep, DestroyAudioqueue, DestroyAlsaqueue
<1>4. CASE EaterStart
  BY <1>4, <1>a, <1>t, <1>h, AlsaqueueTypes DEF EaterStart
<1>5. ASSUME NEW out \in Outcome, EaterTake(out) PROVE A!QueueTypeOK' /\ S!QueueTypeOK'
  BY <1>5, <1>s, <1>t, <1>h, AudioqueueTypes DEF EaterTake
<1>6. ASSUME NEW out \in Outcome, EaterPut(out) PROVE A!QueueTypeOK' /\ S!QueueTypeOK'
  BY <1>6, <1>a, <1>t, <1>h, AlsaqueueTypes DEF EaterPut, HandsOK
<1>7. ASSUME NEW out \in Outcome, EaterTerminates(out)
      PROVE  A!QueueTypeOK' /\ S!QueueTypeOK'
  BY <1>7, <1>a, <1>t, <1>h, AlsaqueueTypes DEF EaterTerminates
<1>8. CASE EaterExits \/ WriterExits
  BY <1>8, <1>a, <1>s, <1>t, <1>h, AudioqueueTypes, AlsaqueueTypes
  DEF EaterExits, WriterExits
<1>9. ASSUME NEW out \in Outcome, WriterWaitMinSz(out) \/ WriterTake(out)
      PROVE  A!QueueTypeOK' /\ S!QueueTypeOK'
  BY <1>9, <1>a, <1>t, <1>h, AlsaqueueTypes DEF WriterWaitMinSz, WriterTake
<1>10. ASSUME NEW t \in Thread, Spurious(t) PROVE A!QueueTypeOK' /\ S!QueueTypeOK'
  BY <1>10, <1>a, <1>s, <1>h, AudioqueueTypes, AlsaqueueTypes DEF Spurious
<1>11. QED
  BY <1>1, <1>2, <1>3, <1>4, <1>5, <1>6, <1>7, <1>8, <1>9, <1>10
  DEF Next, OhmStep, EaterStep, WriterStep

-----------------------------------------------------------------------------
(* The messages: nothing a step does changes their order.                  *)

\* Rising sequences of integers: they end up in order whatever is done to them at
\* their ends.
Increasing(q) == \A i, j \in 1 .. Len(q) : i < j => q[i] < q[j]
Before(X, Y) == \A x \in X, y \in Y : x < y

LEMMA RangeIs ==
  ASSUME NEW q \in Seq(Int)
  PROVE  /\ \A i \in 1 .. Len(q) : q[i] \in Range(q)
         /\ \A x \in Range(q) : \E i \in 1 .. Len(q) : q[i] = x
         /\ Range(q) \subseteq Int
  BY DEF Range
\* Two of them, one after the other.
LEMMA Joined ==
  ASSUME NEW p \in Seq(Int), NEW q \in Seq(Int), Increasing(p), Increasing(q),
         Before(Range(p), Range(q))
  PROVE  /\ p \o q \in Seq(Int)
         /\ Increasing(p \o q)
         /\ Range(p \o q) = Range(p) \cup Range(q)
<1>1. p \o q \in Seq(Int) /\ Range(p \o q) = Range(p) \cup Range(q)
  BY ConcatProperties, RangeConcatenation
<1>2. \A i \in 1 .. Len(p), j \in 1 .. Len(q) : p[i] < q[j]
  BY RangeIs DEF Before
<1>3. Increasing(p \o q)
  <2> SUFFICES ASSUME NEW i \in 1 .. Len(p \o q), NEW j \in 1 .. Len(p \o q), i < j
               PROVE  (p \o q)[i] < (p \o q)[j]
    BY DEF Increasing
  <2>1. /\ Len(p) \in Nat /\ Len(q) \in Nat /\ Len(p \o q) = Len(p) + Len(q)
        /\ \A k \in 1 .. Len(p) + Len(q) :
             (p \o q)[k] = IF k <= Len(p) THEN p[k] ELSE q[k - Len(p)]
    BY ConcatProperties, LenProperties
  <2>2. CASE j <= Len(p)
    BY <2>1, <2>2 DEF Increasing
  <2>3. CASE i <= Len(p) /\ ~(j <= Len(p))
    <3>1. i \in 1 .. Len(p) /\ j - Len(p) \in 1 .. Len(q)
      BY <2>1, <2>3
    <3>2. QED
      BY <1>2, <2>1, <2>3, <3>1
  <2>4. CASE ~(i <= Len(p))
    <3>1. i - Len(p) \in 1 .. Len(q) /\ j - Len(p) \in 1 .. Len(q)
          /\ i - Len(p) < j - Len(p) /\ ~(j <= Len(p))
      BY <2>1, <2>4
    <3>2. QED
      BY <2>1, <2>4, <3>1 DEF Increasing
  <2>5. QED
    BY <2>2, <2>3, <2>4
<1>4. QED
  BY <1>1, <1>3
\* What put() and take() do.
LEMMA Extended ==
  ASSUME NEW q \in Seq(Int), NEW m \in Int, Increasing(q), Before(Range(q), {m})
  PROVE  /\ Increasing(Append(q, m))
         /\ Range(Append(q, m)) = Range(q) \cup {m}
<1>1. <<m>> \in Seq(Int) /\ Increasing(<<m>>) /\ Range(<<m>>) = {m}
  BY DEF Increasing, Range
<1>2. Increasing(q \o <<m>>) /\ Range(q \o <<m>>) = Range(q) \cup Range(<<m>>)
  BY <1>1, Joined
<1>3. Append(q, m) = q \o <<m>>
  BY AppendIsConcat
<1>4. QED
  BY <1>1, <1>2, <1>3

LEMMA Shortened ==
  ASSUME NEW q \in Seq(Int), q # <<>>, Increasing(q)
  PROVE  /\ Increasing(Tail(q))
         /\ Range(q) = {Head(q)} \cup Range(Tail(q))
         /\ Before({Head(q)}, Range(Tail(q)))
<1>1. /\ Head(q) = q[1] /\ Tail(q) \in Seq(Int) /\ Len(q) \in Nat \ {0}
      /\ Len(Tail(q)) = Len(q) - 1
      /\ \A i \in 1 .. Len(Tail(q)) : Tail(q)[i] = q[i + 1]
  BY HeadTailProperties, EmptySeq
<1>2. Increasing(Tail(q))
  BY <1>1 DEF Increasing
<1>3. Range(q) = {Head(q)} \cup Range(Tail(q))
  <2>1. \A x \in Range(Tail(q)) : \E i \in 1 .. Len(q) : q[i] = x
    <3>1. \A i \in 1 .. Len(Tail(q)) : i + 1 \in 1 .. Len(q) /\ Tail(q)[i] = q[i + 1]
      BY <1>1
    <3>2. \A x \in Range(Tail(q)) : \E i \in 1 .. Len(Tail(q)) : Tail(q)[i] = x
      BY <1>1, RangeIs
    <3>3. QED
      BY <3>1, <3>2
  <2>2. ASSUME NEW i \in 1 .. Len(q), i # 1
        PROVE  q[i] \in Range(Tail(q))
    <3>1. i - 1 \in 1 .. Len(Tail(q)) /\ Tail(q)[i - 1] = q[i]
      BY <1>1, <2>2
    <3>2. Tail(q)[i - 1] \in Range(Tail(q))
      BY <1>1, <3>1, RangeIs
    <3>3. QED
      BY <3>1, <3>2
  <2>3. 1 \in 1 .. Len(q)
    BY <1>1
  <2>4. \A x : x \in Range(q) <=> x = Head(q) \/ x \in Range(Tail(q))
    BY <1>1, <2>1, <2>2, <2>3, RangeIs
  <2>5. QED
    BY <2>4
<1>4. Before({Head(q)}, Range(Tail(q)))
  <2> SUFFICES ASSUME NEW i \in 1 .. Len(Tail(q))
               PROVE  q[1] < Tail(q)[i]
    <3>1. \A x \in Range(Tail(q)) : \E i \in 1 .. Len(Tail(q)) : Tail(q)[i] = x
      BY <1>1, RangeIs
    <3>2. QED
      BY <1>1, <3>1 DEF Before
  <2>1. 1 \in 1 .. Len(q) /\ i + 1 \in 1 .. Len(q) /\ 1 < i + 1 /\ Tail(q)[i] = q[i + 1]
    BY <1>1
  <2>2. QED
    BY <2>1 DEF Increasing
<1>5. QED
  BY <1>2, <1>3, <1>4

\* Stages of a line, the nearest to its end first, and what left it last.
Line(w, s, e, a, o, last) ==
  /\ Before({last}, w \cup s \cup e \cup a \cup o)
  /\ Before(w, s \cup e \cup a \cup o)
  /\ Before(s, e \cup a \cup o)
  /\ Before(e, a \cup o)
  /\ Before(a, o)

\* Each of 1 .. n is in one of the three sets (Conserved is Books of the pipeline).
Books(under, gone, lost, n) ==
  /\ under \cup gone \cup lost = 1 .. n
  /\ under \cap gone = {} /\ under \cap lost = {}
  /\ gone \cap lost = {}

\* The moves: from a queue to a hand, from a hand to a queue or out, and the arrival.
LEMMA LineSteps ==
  ASSUME NEW w, NEW s, NEW e, NEW a, NEW o, NEW last, Line(w, s, e, a, o, last), NEW m
  PROVE  /\ \A r : e = {} /\ a = {m} \cup r /\ Before({m}, r) => Line(w, s, {m}, r, o, last)
         /\ \A r : w = {} /\ s = {m} \cup r /\ Before({m}, r) => Line({m}, r, e, a, o, last)
         /\ e = {m} => Line(w, s \cup {m}, {}, a, o, last)
         /\ o = {m} => Line(w, s, e, a \cup {m}, {}, last)
         /\ Line(w, s, {}, a, o, last) /\ Line(w, s, e, a, {}, last)
         /\ w = {m} => Line({}, s, e, a, o, m)
         /\ o = {} /\ Before(w \cup s \cup e \cup a \cup {last}, {m}) =>
              Line(w, s, e, a, {m}, last)
  BY DEF Line, Before

LEMMA BooksSteps ==
  ASSUME NEW under, NEW fr, NEW le, NEW n \in Nat, Books(under, fr, le, n)
  PROVE  /\ \A m, r : under = {m} \cup r /\ m \notin r =>
                        Books(r, fr \cup {m}, le, n) /\ Books(r, fr, le \cup {m}, n)
         /\ Books(under \cup {n + 1}, fr, le, n + 1)
<1>1. \A m, r : under = {m} \cup r /\ m \notin r =>
                  Books(r, fr \cup {m}, le, n) /\ Books(r, fr, le \cup {m}, n)
  BY DEF Books
<1>2. 1 .. n + 1 = (1 .. n) \cup {n + 1} /\ n + 1 \notin 1 .. n
  OBVIOUS
<1>3. QED
  BY <1>1, <1>2 DEF Books

\* Nothing in a line is in two of its stages.
LEMMA LineApart ==
  ASSUME NEW w, NEW s, NEW e, NEW a, NEW o, NEW last, Line(w, s, e, a, o, last),
         NEW m \in Int
  PROVE  /\ e = {m} => m \notin w \cup s \cup a \cup o
         /\ o = {m} => m \notin w \cup s \cup e \cup a
         /\ w = {m} => m \notin s \cup e \cup a \cup o
  BY DEF Line, Before

\* The invariant: the two queues rise, hands and queues follow one another, and
\* every message is in its stage or accounted for.
InHands(t) == {held[t]} \ {NoMsg}
UnderWay ==
  InHands("writer") \cup Range(s_queue) \cup InHands("eater") \cup Range(a_queue)
    \cup InHands("ohm")
InLine ==
  Line(InHands("writer"), Range(s_queue), InHands("eater"), Range(a_queue),
       InHands("ohm"), lastPlayed)
MessagesInv ==
  /\ Increasing(s_queue) /\ Increasing(a_queue)
  /\ InLine
  /\ Books(UnderWay, freed, leaked, arrived)
  /\ lastPlayed \in 0 .. arrived

\* Messages are integers, whatever NMsg.
LEMMA QueuesAreInts ==
  ASSUME TypeOK
  PROVE  /\ a_queue \in Seq(Int) /\ s_queue \in Seq(Int)
         /\ UnderWay \subseteq Int
<1>1. a_queue \in Seq(Msg) /\ s_queue \in Seq(Msg) /\ HandsOK
  BY TypeParts DEF A!QueueTypeOK, S!QueueTypeOK
<1>2. Msg \subseteq Int
  BY AlsaAssumption DEF Msg
<1>3. a_queue \in Seq(Int) /\ s_queue \in Seq(Int)
  BY <1>1, <1>2, SeqMonotonic
<1>4. Range(a_queue) \subseteq Int /\ Range(s_queue) \subseteq Int
  BY <1>3, RangeIs
<1>5. \A t \in Thread : InHands(t) \subseteq Int
  BY <1>1, <1>2 DEF HandsOK, InHands
<1>6. {"main", "ohm", "eater", "writer"} = Thread
  BY DEF Thread
<1>7. QED
  BY <1>3, <1>4, <1>5, <1>6 DEF UnderWay

LEMMA MessagesInit == Init => MessagesInv
<1> SUFFICES ASSUME Init PROVE MessagesInv
  OBVIOUS
<1>1. s_queue = <<>> /\ a_queue = <<>> /\ lastPlayed = 0 /\ arrived = 0
      /\ freed = {} /\ leaked = {}
  BY DEF Init, S!QueueInit, NoMsg
<1>2. \A t \in {"writer", "eater", "ohm"} : InHands(t) = {}
  BY DEF Init, InHands, Thread
<1>3. Range(<<>>) = {} /\ Increasing(<<>>)
  BY DEF Range, Increasing
<1>4. InLine
  BY <1>1, <1>2, <1>3 DEF InLine, Line, Before
<1>5. Books(UnderWay, freed, leaked, arrived)
  BY <1>1, <1>2, <1>3 DEF UnderWay, Books
<1>6. QED
  BY <1>1, <1>3, <1>4, <1>5 DEF MessagesInv

\* One step per action that moves a message; the others leave all of it alone.
LEMMA MessagesStep ==
  ASSUME TypeOK, HandsOK', MessagesInv, [Next]_vars
  PROVE  MessagesInv'
<1>h. HandsOK /\ A!QueueTypeOK /\ S!QueueTypeOK /\ arrived \in Nat
  BY TypeParts
<1>i. a_queue \in Seq(Int) /\ s_queue \in Seq(Int) /\ UnderWay \subseteq Int
  BY QueuesAreInts
<1>n. NoMsg \notin Msg /\ Msg \subseteq Int
  BY AlsaAssumption DEF NoMsg, Msg
<1>u. ASSUME UNCHANGED <<held, a_queue, s_queue, arrived, freed, leaked, lastPlayed>>
      PROVE  MessagesInv'
  BY <1>u DEF MessagesInv, InLine, UnderWay, InHands
<1>v. \A t \in Thread : \A m : Hold(t, m) =>
        \A u \in Thread : InHands(u)' = IF u = t THEN {m} \ {NoMsg} ELSE InHands(u)
  BY <1>h DEF Hold, HandsOK, InHands
<1>m. \A t \in Thread : held[t] # NoMsg => held[t] \in Msg /\ InHands(t) = {held[t]}
  BY <1>h DEF HandsOK, InHands
<1>t. {"main", "ohm", "eater", "writer"} = Thread
  BY DEF Thread
<1>e. ASSUME EaterDrops("take") \/ EaterDrops("termS"), held["eater"] # NoMsg,
             UNCHANGED lastPlayed
      PROVE  MessagesInv'
  <2> DEFINE m == held["eater"]
  <2>1. /\ Hold("eater", NoMsg) /\ leaked' = leaked \cup {m}
        /\ UNCHANGED <<a_queue, s_queue, freed, arrived>>
    BY <1>e DEF EaterDrops, aVars, sVars
  <2>2. InHands("eater") = {m} /\ m \in Int
    BY <1>e, <1>m, <1>n, <1>t
  <2>3. /\ InHands("eater")' = {} /\ UNCHANGED <<InHands("writer"), InHands("ohm")>>
    BY <1>t, <1>v, <2>1
  <2> HIDE DEF m
  <2>4. InLine'
    <3>1. Line(InHands("writer"), Range(s_queue), InHands("eater"), Range(a_queue),
               InHands("ohm"), lastPlayed)
      BY DEF MessagesInv, InLine
    <3>2. Line(InHands("writer"), Range(s_queue), {},
              Range(a_queue), InHands("ohm"), lastPlayed)
      BY <1>e, <2>1, <2>2, <2>3, <3>1, LineSteps
    <3>3. QED
      BY <1>e, <2>1, <2>2, <2>3, <3>2 DEF InLine
  <2>5. UnderWay = {m} \cup UnderWay' /\ m \notin UnderWay'
    BY <2>1, <2>2, <2>3, LineApart DEF MessagesInv, InLine, UnderWay
  <2>6. Books(UnderWay, freed, leaked, arrived)'
    BY <1>h, <2>1, <2>5, BooksSteps DEF MessagesInv
  <2>7. QED
    BY <1>e, <2>1, <2>4, <2>6 DEF MessagesInv
<1>1. CASE Process
  <2>1. InHands("ohm") = {}
    BY <1>1, <1>h DEF Process, HandsOK, InHands
  <2>2. /\ Hold("ohm", arrived + 1) /\ arrived' = arrived + 1
        /\ UNCHANGED <<a_queue, s_queue, freed, leaked, lastPlayed>>
    BY <1>1 DEF Process, aVars, sVars, device
  <2>3. arrived + 1 # NoMsg
    BY <1>h DEF NoMsg
  <2>4. /\ InHands("ohm")' = {arrived + 1}
        /\ UNCHANGED <<InHands("writer"), InHands("eater")>>
    BY <1>t, <1>v, <2>2, <2>3
  <2>5. UnderWay' = UnderWay \cup {arrived + 1}
    BY <2>1, <2>2, <2>4 DEF UnderWay
  <2>6. UnderWay \subseteq 1 .. arrived /\ lastPlayed \in 0 .. arrived
    BY DEF MessagesInv, Books
  <2>7. Before(UnderWay \cup {lastPlayed}, {arrived + 1})
    BY <1>h, <2>6 DEF Before
  <2>8. InLine'
    <3>1. Line(InHands("writer"), Range(s_queue), InHands("eater"), Range(a_queue),
               InHands("ohm"), lastPlayed)
      BY DEF MessagesInv, InLine
    <3>2. Line(InHands("writer"), Range(s_queue), InHands("eater"),
              Range(a_queue), {arrived + 1}, lastPlayed)
      BY <2>1, <2>2, <2>4, <2>7, <3>1, LineSteps DEF UnderWay
    <3>3. QED
      BY <2>1, <2>2, <2>4, <2>7, <3>2 DEF InLine
  <2>9. Books(UnderWay, freed, leaked, arrived)'
    BY <1>h, <2>2, <2>5, BooksSteps DEF MessagesInv
  <2>10. lastPlayed' \in 0 .. arrived'
    BY <1>h, <2>2, <2>6
  <2>11. QED
    BY <2>2, <2>8, <2>9, <2>10 DEF MessagesInv
<1>2. ASSUME NEW out \in Outcome, ProcessPut(out) PROVE MessagesInv'
  <2> DEFINE m == held["ohm"]
  <2>0. m \in Int /\ InHands("ohm") = {m}
    BY <1>2, <1>h, <1>m, <1>n, <1>t DEF ProcessPut, HandsOK
  <2>1. CASE out = "wait"
    BY <1>2, <1>u, <2>1
    DEF ProcessPut, A!Put, A!PutSleeps, A!PutFails, A!PutPushes, sVars, device, ledger
  <2>2. CASE out = "true"
    <3>1. /\ Hold("ohm", NoMsg) /\ a_queue' = Append(a_queue, m)
          /\ UNCHANGED <<s_queue, arrived, freed, leaked, lastPlayed>>
      BY <1>2, <2>2 DEF ProcessPut, A!Put, A!PutPushes, sVars, device
    <3>2. /\ InHands("ohm")' = {} /\ UNCHANGED <<InHands("writer"), InHands("eater")>>
      BY <1>t, <1>v, <3>1
    <3> HIDE DEF m
    <3>3. Before(Range(a_queue), {m})
      BY <2>0 DEF MessagesInv, InLine, Line
    <3>4. Increasing(a_queue') /\ Range(a_queue') = Range(a_queue) \cup {m}
      BY <1>i, <2>0, <3>1, <3>3, Extended DEF MessagesInv
    <3>5. InLine'
      <4>1. Line(InHands("writer"), Range(s_queue), InHands("eater"), Range(a_queue),
                 InHands("ohm"), lastPlayed)
        BY DEF MessagesInv, InLine
      <4>2. Line(InHands("writer"), Range(s_queue), InHands("eater"),
                Range(a_queue) \cup {m}, {}, lastPlayed)
        BY <2>0, <3>1, <3>2, <3>4, <4>1, LineSteps
      <4>3. QED
        BY <2>0, <3>1, <3>2, <3>4, <4>2 DEF InLine
    <3>6. UnderWay' = UnderWay
      BY <2>0, <3>1, <3>2, <3>4 DEF UnderWay
    <3>7. QED
      BY <3>1, <3>4, <3>5, <3>6 DEF MessagesInv
  <2>3. CASE out = "false"
    <3>1. /\ Hold("ohm", NoMsg) /\ leaked' = leaked \cup {m}
          /\ UNCHANGED <<a_queue, s_queue, arrived, freed, lastPlayed>>
      BY <1>2, <2>3 DEF ProcessPut, A!Put, A!PutFails, sVars, device
    <3>2. /\ InHands("ohm")' = {} /\ UNCHANGED <<InHands("writer"), InHands("eater")>>
      BY <1>t, <1>v, <3>1
    <3> HIDE DEF m
    <3>3. InLine'
      <4>1. Line(InHands("writer"), Range(s_queue), InHands("eater"), Range(a_queue),
                 InHands("ohm"), lastPlayed)
        BY DEF MessagesInv, InLine
      <4>2. Line(InHands("writer"), Range(s_queue), InHands("eater"),
                Range(a_queue), {}, lastPlayed)
        BY <2>0, <3>1, <3>2, <4>1, LineSteps
      <4>3. QED
        BY <2>0, <3>1, <3>2, <4>2 DEF InLine
    <3>4. UnderWay = {m} \cup UnderWay' /\ m \notin UnderWay'
      BY <2>0, <3>1, <3>2, LineApart DEF MessagesInv, InLine, UnderWay
    <3>5. Books(UnderWay, freed, leaked, arrived)'
      BY <1>h, <3>1, <3>4, BooksSteps DEF MessagesInv
    <3>6. QED
      BY <3>1, <3>3, <3>5 DEF MessagesInv
  <2>4. QED
    BY <1>2, <2>1, <2>2, <2>3 DEF Outcome
<1>3. ASSUME NEW out \in Outcome, EaterTake(out) PROVE MessagesInv'
  <2>1. CASE out # "true"
    BY <1>3, <1>u, <2>1 DEF EaterTake, A!Take, sVars, device, Outcome
  <2>2. CASE out = "true"
    <3> DEFINE m == Head(a_queue)
    <3>1. /\ Hold("eater", m) /\ a_queue' = Tail(a_queue)
          /\ UNCHANGED <<s_queue, arrived, freed, leaked, lastPlayed>>
          /\ pc["eater"] = "take"
      BY <1>3, <2>2 DEF EaterTake, A!Take, A!TakePops, sVars, device, Goto
    <3>2. InHands("eater") = {} /\ a_queue # <<>> /\ m \in Msg
      BY <1>3, <1>h, <2>2, <3>1, TakesMessages DEF HandsOK, EaterTake, InHands
    <3> HIDE DEF m
    <3>3. /\ InHands("eater")' = {m} /\ UNCHANGED <<InHands("writer"), InHands("ohm")>>
      <4>1. {m} \ {NoMsg} = {m}
        BY <1>n, <3>2
      <4>2. QED
        BY <1>t, <1>v, <3>1, <4>1
    <3>4. /\ Increasing(a_queue') /\ Range(a_queue) = {m} \cup Range(a_queue')
          /\ Before({m}, Range(a_queue'))
      BY <1>i, <3>1, <3>2, Shortened DEF MessagesInv, m
    <3>5. InLine'
      <4>1. Line(InHands("writer"), Range(s_queue), InHands("eater"), Range(a_queue),
                 InHands("ohm"), lastPlayed)
        BY DEF MessagesInv, InLine
      <4>2. Line(InHands("writer"), Range(s_queue), {m},
                Range(a_queue'), InHands("ohm"), lastPlayed)
        BY <3>1, <3>2, <3>3, <3>4, <4>1, LineSteps
      <4>3. QED
        BY <3>1, <3>2, <3>3, <3>4, <4>2 DEF InLine
    <3>6. UnderWay' = UnderWay
      BY <3>1, <3>2, <3>3, <3>4 DEF UnderWay
    <3>7. QED
      BY <3>1, <3>4, <3>5, <3>6 DEF MessagesInv
  <2>3. QED
    BY <2>1, <2>2
<1>4. ASSUME NEW out \in Outcome, EaterPut(out) PROVE MessagesInv'
  <2> DEFINE m == held["eater"]
  <2>0. m \in Int /\ InHands("eater") = {m}
    BY <1>4, <1>h, <1>m, <1>n, <1>t DEF EaterPut, HandsOK
  <2>1. CASE out = "wait"
    BY <1>4, <1>u, <2>1
    DEF EaterPut, S!Put, S!PutSleeps, S!PutFails, S!PutPushes, aVars, device
  <2>2. CASE out = "true"
    <3>1. /\ Hold("eater", NoMsg) /\ s_queue' = Append(s_queue, m)
          /\ UNCHANGED <<a_queue, arrived, freed, leaked, lastPlayed>>
      BY <1>4, <2>2 DEF EaterPut, S!Put, S!PutPushes, aVars, device
    <3>2. /\ InHands("eater")' = {} /\ UNCHANGED <<InHands("writer"), InHands("ohm")>>
      BY <1>t, <1>v, <3>1, ZenonT(40)
    <3> HIDE DEF m
    <3>3. Before(Range(s_queue), {m})
      BY <2>0 DEF MessagesInv, InLine, Line, Before
    <3>4. Increasing(s_queue') /\ Range(s_queue') = Range(s_queue) \cup {m}
      BY <1>i, <2>0, <3>1, <3>3, Extended DEF MessagesInv
    <3>5. InLine'
      <4>1. Line(InHands("writer"), Range(s_queue), InHands("eater"), Range(a_queue),
                 InHands("ohm"), lastPlayed)
        BY DEF MessagesInv, InLine
      <4>2. Line(InHands("writer"), Range(s_queue) \cup {m}, {},
                Range(a_queue), InHands("ohm"), lastPlayed)
        BY <2>0, <3>1, <3>2, <3>4, <4>1, LineSteps
      <4>3. QED
        BY <2>0, <3>1, <3>2, <3>4, <4>2 DEF InLine
    <3>6. UnderWay' = UnderWay
      BY <2>0, <3>1, <3>2, <3>4 DEF UnderWay
    <3>7. QED
      BY <3>1, <3>4, <3>5, <3>6 DEF MessagesInv
  <2>3. CASE out = "false"
    <3>1. /\ Hold("eater", NoMsg) /\ leaked' = leaked \cup {m}
          /\ UNCHANGED <<a_queue, s_queue, arrived, freed, lastPlayed>>
      BY <1>4, <2>3 DEF EaterPut, S!Put, S!PutFails, aVars, device
    <3>2. /\ InHands("eater")' = {} /\ UNCHANGED <<InHands("writer"), InHands("ohm")>>
      BY <1>t, <1>v, <3>1
    <3> HIDE DEF m
    <3>3. InLine'
      <4>1. Line(InHands("writer"), Range(s_queue), InHands("eater"), Range(a_queue),
                 InHands("ohm"), lastPlayed)
        BY DEF MessagesInv, InLine
      <4>2. Line(InHands("writer"), Range(s_queue), {},
                Range(a_queue), InHands("ohm"), lastPlayed)
        BY <2>0, <3>1, <3>2, <4>1, LineSteps
      <4>3. QED
        BY <2>0, <3>1, <3>2, <4>2 DEF InLine
    <3>4. UnderWay = {m} \cup UnderWay' /\ m \notin UnderWay'
      BY <2>0, <3>1, <3>2, LineApart DEF MessagesInv, InLine, UnderWay
    <3>5. Books(UnderWay, freed, leaked, arrived)'
      BY <1>h, <3>1, <3>4, BooksSteps DEF MessagesInv
    <3>6. QED
      BY <3>1, <3>3, <3>5 DEF MessagesInv
  <2>4. QED
    BY <1>4, <2>1, <2>2, <2>3 DEF Outcome
<1>5. CASE EaterZero \/ EaterInitFails \/ EaterConvertFails
  <2>1. held["eater"] # NoMsg
    BY <1>5, <1>h DEF EaterZero, EaterInitFails, EaterConvertFails, HandsOK
  <2>2. (EaterDrops("take") \/ EaterDrops("termS")) /\ UNCHANGED lastPlayed
    BY <1>5 DEF EaterZero, EaterInitFails, EaterConvertFails, device
  <2>3. QED
    BY <1>e, <2>1, <2>2
<1>6. ASSUME NEW out \in Outcome, WriterTake(out) PROVE MessagesInv'
  <2>1. CASE out # "true"
    BY <1>6, <1>u, <2>1 DEF WriterTake, S!Take, aVars, device, Outcome
  <2>2. CASE out = "true"
    <3> DEFINE m == Head(s_queue)
    <3>1. /\ Hold("writer", m) /\ s_queue' = Tail(s_queue)
          /\ UNCHANGED <<a_queue, arrived, freed, leaked, lastPlayed>>
          /\ pc["writer"] = "take"
      BY <1>6, <2>2 DEF WriterTake, S!Take, S!TakePops, aVars, device
    <3>2. InHands("writer") = {} /\ s_queue # <<>> /\ m \in Msg
      BY <1>6, <1>h, <2>2, <3>1, TakesMessages DEF HandsOK, WriterTake, InHands
    <3> HIDE DEF m
    <3>3. /\ InHands("writer")' = {m} /\ UNCHANGED <<InHands("eater"), InHands("ohm")>>
      <4>1. {m} \ {NoMsg} = {m}
        BY <1>n, <3>2
      <4>2. QED
        BY <1>t, <1>v, <3>1, <4>1
    <3>4. /\ Increasing(s_queue') /\ Range(s_queue) = {m} \cup Range(s_queue')
          /\ Before({m}, Range(s_queue'))
      BY <1>i, <3>1, <3>2, Shortened DEF MessagesInv, m
    <3>5. InLine'
      <4>1. Line(InHands("writer"), Range(s_queue), InHands("eater"), Range(a_queue),
                 InHands("ohm"), lastPlayed)
        BY DEF MessagesInv, InLine
      <4>2. Line({m}, Range(s_queue'), InHands("eater"),
                Range(a_queue), InHands("ohm"), lastPlayed)
        BY <3>1, <3>2, <3>3, <3>4, <4>1, LineSteps
      <4>3. QED
        BY <3>1, <3>2, <3>3, <3>4, <4>2 DEF InLine
    <3>6. UnderWay' = UnderWay
      BY <3>1, <3>2, <3>3, <3>4 DEF UnderWay
    <3>7. QED
      BY <3>1, <3>4, <3>5, <3>6 DEF MessagesInv
  <2>3. QED
    BY <2>1, <2>2
<1>7. CASE WriterWrite
  <2> DEFINE m == held["writer"]
  <2>0. m \in Int /\ InHands("writer") = {m}
    BY <1>7, <1>h, <1>m, <1>n, <1>t DEF WriterWrite, HandsOK
  <2>1. /\ Hold("writer", NoMsg) /\ freed' = freed \cup {m} /\ lastPlayed' = m
        /\ UNCHANGED <<a_queue, s_queue, arrived, leaked>>
    BY <1>7 DEF WriterWrite, WriterDeletes, aVars, sVars
  <2>2. /\ InHands("writer")' = {} /\ UNCHANGED <<InHands("eater"), InHands("ohm")>>
    BY <1>t, <1>v, <2>1
  <2> HIDE DEF m
  <2>3. InLine'
    <3>1. Line(InHands("writer"), Range(s_queue), InHands("eater"), Range(a_queue),
               InHands("ohm"), lastPlayed)
      BY DEF MessagesInv, InLine
    <3>2. Line({}, Range(s_queue), InHands("eater"), Range(a_queue), InHands("ohm"), m)
      BY <2>0, <2>1, <2>2, <3>1, LineSteps
    <3>3. QED
      BY <2>0, <2>1, <2>2, <3>2 DEF InLine
  <2>4. UnderWay = {m} \cup UnderWay' /\ m \notin UnderWay'
    BY <2>0, <2>1, <2>2, LineApart DEF MessagesInv, InLine, UnderWay
  <2>5. Books(UnderWay, freed, leaked, arrived)'
    BY <1>h, <2>1, <2>4, BooksSteps DEF MessagesInv
  <2>6. m \in 1 .. arrived
    BY <2>4 DEF MessagesInv, Books
  <2>7. QED
    BY <1>h, <2>1, <2>3, <2>5, <2>6 DEF MessagesInv
<1>8. CASE Quit \/ EaterInspect \/ EaterInit \/ EaterConvert \/ EaterExits \/ WriterCheck
           \/ WriterExits \/ UNCHANGED vars
  BY <1>8, <1>u, AlsaqueueTasks, AudioqueueTasks
  DEF Quit, EaterInspect, EaterInit, EaterConvert, EaterExits, WriterCheck, WriterExits,
      vars, aVars, sVars, ledger, device
<1>9. CASE ExitStep \/ EaterStart
  BY <1>9, <1>u, AlsaqueueTasks, AudioqueueTasks
  DEF ExitStep, DestroyAudioqueue, DestroyAlsaqueue, EaterStart, aVars, sVars,
      ledger, device
<1>10. ASSUME NEW out \in Outcome, EaterTerminates(out) \/ WriterWaitMinSz(out)
       PROVE  MessagesInv'
  BY <1>10, <1>u, AlsaqueueTasks DEF EaterTerminates, WriterWaitMinSz, aVars, ledger, device
<1>11. ASSUME NEW t \in Thread, Spurious(t) PROVE MessagesInv'
  BY <1>11, <1>u, AlsaqueueTasks, AudioqueueTasks DEF Spurious, aVars, sVars, ledger, device
<1>12. QED
  BY <1>1, <1>2, <1>3, <1>4, <1>5, <1>6, <1>7, <1>8, <1>9, <1>10, <1>11
  DEF Next, OhmStep, EaterStep, WriterStep

\* The counts of messages stay in their ranges.
LEMMA LedgerTypes ==
  ASSUME TypeOK, HandsOK', MessagesInv', [Next]_vars
  PROVE  /\ arrived' \in 0 .. NMsg /\ freed' \subseteq Msg /\ leaked' \subseteq Msg
         /\ lastPlayed' \in Msg \cup {NoMsg}
<1>1. arrived' \in 0 .. NMsg
  <2>1. CASE Process
    BY <2>1, TypeParts, AlsaAssumption DEF Process
  <2>2. CASE UNCHANGED arrived
    BY <2>2, TypeParts
  <2>3. QED
    BY <2>1, <2>2 DEF Next, vars, OhmStep, ProcessPut, Quit, ExitStep, DestroyAudioqueue,
       DestroyAlsaqueue, EaterStep, EaterStart, EaterTake, EaterPut, EaterTerminates,
       EaterZero, EaterInspect, EaterInit, EaterInitFails, EaterConvert,
       EaterConvertFails, EaterDrops, EaterExits, WriterStep, WriterCheck,
       WriterWaitMinSz, WriterTake, WriterWrite, WriterExits, Spurious
<1>2. 1 .. arrived' \subseteq Msg /\ 0 .. arrived' \subseteq Msg \cup {NoMsg}
  BY <1>1, AlsaAssumption DEF Msg, NoMsg
<1>3. QED
  BY <1>1, <1>2 DEF MessagesInv, Books

LEMMA DeviceTypes ==
  ASSUME TypeOK, [Next]_vars
  PROVE  qinit' \in BOOLEAN /\ pcmReady' \in BOOLEAN /\ srcState' \in BOOLEAN
<1>1. qinit \in BOOLEAN /\ pcmReady \in BOOLEAN /\ srcState \in BOOLEAN
  BY Zenon DEF TypeOK
<1>2. CASE UNCHANGED device
  BY <1>1, <1>2, Zenon DEF device
<1>3. CASE EaterStart \/ EaterInit \/ EaterInitFails \/ WriterWrite
  BY <1>1, <1>3, Zenon DEF EaterStart, EaterInit, EaterInitFails, WriterWrite
<1>4. QED
  BY <1>2, <1>3
  DEF Next, vars, Process, OhmStep, ProcessPut, Quit, ExitStep, DestroyAudioqueue,
      DestroyAlsaqueue, EaterStep, EaterTake, EaterPut, EaterTerminates, EaterZero,
      EaterInspect, EaterConvert, EaterConvertFails, EaterExits, WriterStep,
      WriterCheck, WriterWaitMinSz, WriterTake, WriterExits, Spurious

\* What the invariant says of the five stages it says of the pipeline, their
\* concatenation.
LEMMA StagesInOrder ==
  ASSUME TypeOK, MessagesInv
  PROVE  /\ Pipeline \in Seq(Int)
         /\ Increasing(Pipeline)
         /\ Range(Pipeline) = UnderWay
<1> DEFINE W == InHand("writer")
           E == InHand("eater")
           O == InHand("ohm")
<1>1. a_queue \in Seq(Int) /\ s_queue \in Seq(Int) /\ UnderWay \subseteq Int
  BY QueuesAreInts
<1>2. ASSUME NEW t \in {"writer", "eater", "ohm"}
      PROVE  /\ InHand(t) \in Seq(Int) /\ Increasing(InHand(t))
             /\ Range(InHand(t)) = InHands(t)
  <2>1. CASE held[t] = NoMsg
    <3>1. InHand(t) = <<>> /\ InHands(t) = {}
      BY <2>1 DEF InHand, InHands
    <3>2. QED
      BY <3>1 DEF Increasing, Range
  <2>2. CASE held[t] # NoMsg
    <3>1. InHand(t) = <<held[t]>> /\ InHands(t) = {held[t]} /\ held[t] \in Int
      BY <1>1, <1>2, <2>2 DEF InHand, InHands, UnderWay
    <3>2. QED
      BY <3>1 DEF Increasing, Range
  <2>3. QED
    BY <2>1, <2>2
<1>3. /\ W \in Seq(Int) /\ E \in Seq(Int) /\ O \in Seq(Int)
      /\ Increasing(W) /\ Increasing(E) /\ Increasing(O)
      /\ Range(W) = InHands("writer") /\ Range(E) = InHands("eater")
      /\ Range(O) = InHands("ohm")
  BY <1>2
<1>4. Pipeline = (((W \o s_queue) \o E) \o a_queue) \o O
  BY DEF Pipeline
<1>5. Line(Range(W), Range(s_queue), Range(E), Range(a_queue), Range(O), lastPlayed)
  BY <1>3 DEF MessagesInv, InLine
<1>6. Increasing(a_queue) /\ Increasing(s_queue)
  BY DEF MessagesInv
<1>7. UnderWay = Range(W) \cup Range(s_queue) \cup Range(E) \cup Range(a_queue)
                   \cup Range(O)
  BY <1>3 DEF UnderWay
<1> HIDE DEF W, E, O
<1> DEFINE x == W \o s_queue
           y == x \o E
           z == y \o a_queue
<1>8. x \in Seq(Int) /\ Increasing(x) /\ Range(x) = Range(W) \cup Range(s_queue)
  BY <1>1, <1>3, <1>5, <1>6, Joined DEF Line, Before
<1> HIDE DEF x
<1>9. y \in Seq(Int) /\ Increasing(y) /\ Range(y) = Range(x) \cup Range(E)
  BY <1>3, <1>5, <1>8, Joined DEF Line, Before
<1> HIDE DEF y
<1>10. z \in Seq(Int) /\ Increasing(z) /\ Range(z) = Range(y) \cup Range(a_queue)
  BY <1>1, <1>5, <1>6, <1>8, <1>9, Joined DEF Line, Before
<1> HIDE DEF z
<1>11. /\ z \o O \in Seq(Int) /\ Increasing(z \o O)
       /\ Range(z \o O) = Range(z) \cup Range(O)
  BY <1>3, <1>5, <1>8, <1>9, <1>10, Joined DEF Line, Before
<1>12. Pipeline = z \o O
  BY <1>4 DEF x, y, z
<1>13. QED
  BY <1>7, <1>8, <1>9, <1>10, <1>11, <1>12

LEMMA InvKeepsMessages == TypeOK /\ MessagesInv => MessagesKept
<1> SUFFICES ASSUME TypeOK, MessagesInv PROVE MessagesKept
  OBVIOUS
<1>1. Pipeline \in Seq(Int) /\ Increasing(Pipeline) /\ Range(Pipeline) = UnderWay
  BY StagesInOrder
<1>2. DOMAIN Pipeline = 1 .. Len(Pipeline) /\ Len(Pipeline) \in Nat
  BY <1>1, LenProperties
<1>3. InPipeline = UnderWay
  BY <1>1, <1>2 DEF InPipeline, Range
<1>4. Conserved
  BY <1>3 DEF MessagesInv, Books, Conserved
<1>5. \A i \in 1 .. Len(Pipeline) - 1 : Pipeline[i] < Pipeline[i + 1]
  BY <1>1, <1>2 DEF Increasing
<1>6. Pipeline # <<>> => lastPlayed < Pipeline[1]
  <2>1. Pipeline # <<>> => 1 \in 1 .. Len(Pipeline)
    BY <1>1, EmptySeq
  <2>2. Pipeline # <<>> => Pipeline[1] \in UnderWay
    BY <1>1, <2>1, RangeIs
  <2>3. QED
    BY <2>2 DEF MessagesInv, InLine, UnderWay, Line, Before
<1>7. QED
  BY <1>4, <1>5, <1>6 DEF PipelineOrdered, MessagesKept

\* The invariant of all this: types, who has left, and the stages.
PipelineInv == TypeOK /\ EndInv /\ MessagesInv

LEMMA PipelineInit == Init => PipelineInv
  BY TypeInit, EndInit, MessagesInit DEF PipelineInv

LEMMA PipelineStep == PipelineInv /\ [Next]_vars => PipelineInv'
<1> SUFFICES ASSUME TypeOK, EndInv, MessagesInv, [Next]_vars
             PROVE  TypeOK' /\ EndInv' /\ MessagesInv'
  BY DEF PipelineInv
<1>1. EndInv' /\ HandsOK'
  BY EndStep, HandsStep
<1>2. MessagesInv'
  BY <1>1, MessagesStep
<1>3. TypeOK'
  BY <1>1, <1>2, QueuesStep, LedgerTypes, DeviceTypes DEF TypeOK, HandsOK, PcOK
<1>4. QED
  BY <1>1, <1>2, <1>3

\* From the socket to the device, through two queues and three threads, messages
\* keep their order, and each that arrived is under way, deleted once or leaked by a
\* path that forgets it, whatever fails and whoever quits (sc2mpd.cpp:284-341,
\* alsadirect.cpp:280-560 and 83-115).
THEOREM KeepsMessages == Spec => []MessagesKept
<1>1. PipelineInv => MessagesKept
  BY InvKeepsMessages DEF PipelineInv
<1>2. QED
  BY <1>1, PipelineInit, PipelineStep, PTL DEF Spec

-----------------------------------------------------------------------------
(* The refill: only the writer shortens its queue.                         *)

\* What waitminsz saw still holds when the writer takes.
Refilled == pc["writer"] = "take" /\ ~qinit => Len(s_queue) >= QsTarg

RefillInv == PipelineInv /\ Refilled

LEMMA RefilledStep == RefillInv /\ [Next]_vars => Refilled'
<1> SUFFICES ASSUME TypeOK, EndInv, Refilled, [Next]_vars
             PROVE  Refilled'
  BY DEF RefillInv, PipelineInv
<1>h. PcOK /\ s_queue \in Seq(Msg) /\ Len(s_queue) \in Nat /\ QsTarg \in Nat
  BY TypeParts, LenProperties, AlsaAssumption DEF HandsOK, S!QueueTypeOK
<1>u. ASSUME UNCHANGED <<pc["writer"], qinit>>,
             s_queue' = s_queue \/ \E m \in Msg : s_queue' = Append(s_queue, m)
      PROVE  Refilled'
  <2>1. Len(s_queue') >= Len(s_queue) /\ Len(s_queue') \in Nat
    BY <1>h, <1>u, AppendProperties
  <2>2. QED
    BY <1>h, <1>u, <2>1 DEF Refilled
<1>g. \A t \in Thread : \A label :
        Goto(t, label) => pc'["writer"] = IF t = "writer" THEN label ELSE pc["writer"]
  BY <1>h DEF Goto, PcOK, Thread
<1>t. {"main", "ohm", "eater", "writer"} = Thread
  BY DEF Thread
<1>1. CASE Process \/ Quit \/ EaterZero \/ EaterInspect \/ EaterInit \/ EaterInitFails
           \/ EaterConvert \/ EaterConvertFails \/ EaterExits
  BY <1>1, <1>u, <1>g, <1>t
  DEF Process, Quit, EaterZero, EaterInspect, EaterInit, EaterInitFails, EaterConvert,
      EaterConvertFails, EaterDrops, EaterExits, sVars, device
<1>2. ASSUME NEW out \in Outcome, ProcessPut(out) \/ EaterTake(out) PROVE Refilled'
  <2>1. UNCHANGED <<s_queue, qinit>>
    BY <1>2 DEF ProcessPut, EaterTake, sVars, device
  <2>2. pc' = pc \/ \E label : Goto("ohm", label) \/ Goto("eater", label)
    BY <1>2 DEF ProcessPut, EaterTake, Outcome
  <2>3. QED
    BY <2>1, <2>2, <1>u, <1>g, <1>t
<1>3. CASE ExitStep
  <2>1. PICK t \in {"main", "ohm"}, out \in Outcome :
          DestroyAudioqueue(t, out) \/ DestroyAlsaqueue(t, out)
    BY <1>3 DEF ExitStep
  <2>2. UNCHANGED <<s_queue, qinit>>
    BY <2>1, AlsaqueueTasks DEF DestroyAudioqueue, DestroyAlsaqueue, sVars, device
  <2>3. pc' = pc \/ \E label : Goto(t, label)
    BY <2>1 DEF DestroyAudioqueue, DestroyAlsaqueue
  <2>4. QED
    BY <2>2, <2>3, <1>u, <1>g, <1>t
<1>4. CASE EaterStart
  <2>1. pc["eater"] = "start" /\ pc["writer"] = "unborn"
    BY <1>4 DEF EaterStart, EndInv
  <2>2. pc'["writer"] \in {"unborn", "check"}
    BY <1>4, <1>h, <2>1 DEF EaterStart, Goto, PcOK, Thread
  <2>3. QED
    BY <2>2 DEF Refilled
<1>5. ASSUME NEW out \in Outcome, EaterPut(out) PROVE Refilled'
  <2>1. pc' = pc \/ \E label : Goto("eater", label)
    BY <1>5 DEF EaterPut, Outcome
  <2>2. UNCHANGED qinit /\ pc["eater"] = "put"
    BY <1>5 DEF EaterPut, device
  <2>3. held["eater"] \in Msg
    BY <2>2, TypeParts DEF HandsOK, Thread
  <2>4. s_queue' = s_queue \/ s_queue' = Append(s_queue, held["eater"])
    BY <1>5 DEF EaterPut, S!Put, S!PutSleeps, S!PutFails, S!PutPushes
  <2>5. QED
    BY <2>1, <2>2, <2>3, <2>4, <1>u, <1>g, <1>t
<1>6. ASSUME NEW out \in Outcome, EaterTerminates(out) PROVE Refilled'
  BY <1>6, <1>u, <1>g, <1>t, AlsaqueueTasks DEF EaterTerminates, device
<1>7. CASE WriterCheck
  <2>1. pc'["writer"] = (IF qinit THEN "take" ELSE "minsz") /\ qinit' = qinit
    BY <1>7, <1>g, <1>t DEF WriterCheck, device
  <2>2. CASE qinit
    BY <2>1, <2>2 DEF Refilled
  <2>3. CASE ~qinit
    BY <2>1, <2>3 DEF Refilled
  <2>4. QED
    BY <2>2, <2>3
<1>8. ASSUME NEW out \in Outcome, WriterWaitMinSz(out) PROVE Refilled'
  <2>1. CASE out = "true"
    <3>1. ~S!Short(QsTarg) /\ UNCHANGED s_queue
      BY <1>8, <2>1 DEF WriterWaitMinSz, S!WaitMinSz
    <3>2. QED
      BY <1>h, <3>1 DEF S!Short, Refilled
  <2>2. CASE out # "true"
    <3>1. pc["writer"] = "minsz" /\ (pc' = pc \/ Goto("writer", "exitS"))
      BY <1>8, <2>2 DEF WriterWaitMinSz, Outcome
    <3>2. pc'["writer"] \in {"minsz", "exitS"}
      BY <3>1, <1>g, <1>t
    <3>3. QED
      BY <3>2 DEF Refilled
  <2>3. QED
    BY <2>1, <2>2
<1>9. ASSUME NEW out \in Outcome, WriterTake(out) PROVE Refilled'
  <2>1. \/ UNCHANGED <<pc, s_queue, qinit>>
        \/ Goto("writer", "write") \/ Goto("writer", "exitS")
    BY <1>9, AlsaqueueTasks DEF WriterTake, device, Outcome
  <2>2. CASE UNCHANGED <<pc, s_queue, qinit>>
    BY <2>2, <1>u
  <2>3. CASE Goto("writer", "write") \/ Goto("writer", "exitS")
    <3>1. pc'["writer"] \in {"write", "exitS"}
      BY <2>3, <1>g, <1>t
    <3>2. QED
      BY <3>1 DEF Refilled
  <2>4. QED
    BY <2>1, <2>2, <2>3
<1>10. CASE WriterWrite \/ WriterExits
  BY <1>10, <1>g, <1>t DEF WriterWrite, WriterExits, Refilled
<1>11. ASSUME NEW t \in Thread, Spurious(t) PROVE Refilled'
  BY <1>11, <1>u, AlsaqueueTasks DEF Spurious, sVars, device
<1>12. CASE UNCHANGED vars
  BY <1>12, <1>u DEF vars, sVars, device
<1>13. QED
  BY <1>1, <1>2, <1>3, <1>4, <1>5, <1>6, <1>7, <1>8, <1>9, <1>10, <1>11, <1>12
  DEF Next, OhmStep, EaterStep, WriterStep

\* After an underrun, or at the start, the writer plays only when its queue has been
\* refilled to qstarg, although the test and the take are two critical sections and
\* the eater runs between them (alsadirect.cpp:86-99).
THEOREM RefillsBeforePlaying == Spec => RefillsFirst
<1>1. Init => RefillInv
  BY PipelineInit DEF Init, Refilled, RefillInv
<1>2. RefillInv /\ [Next]_vars
        => [WriterTake("true") /\ ~qinit => Len(s_queue) >= QsTarg]_vars
  BY DEF RefillInv, Refilled, WriterTake
<1>3. RefillInv /\ [Next]_vars => RefillInv'
  BY PipelineStep, RefilledStep DEF RefillInv
<1>4. QED
  BY <1>1, <1>2, <1>3, PTL DEF Spec, RefillsFirst
=============================================================================
