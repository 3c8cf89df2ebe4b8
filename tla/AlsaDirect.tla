----------------------------- MODULE AlsaDirect ------------------------------
(***************************************************************************)
(* The receiver with direct ALSA output (sc2mpd -d): src/sc2src/sc2mpd.cpp *)
(* with src/sc2src/alsadirect.cpp.                                         *)
(*                                                                         *)
(*   ohm thread --audioqueue--> audioEater --alsaqueue--> alsawriter       *)
(*                                                                         *)
(* ohm     the receiver thread of the OpenHome stack, which calls          *)
(*         OhmReceiverDriver::Process for each audio message and exit(1)   *)
(*         when audioqueue is dead;                                        *)
(* eater   the worker of audioqueue: resamples, and starts, fills and      *)
(*         terminates alsaqueue;                                           *)
(* writer  the worker of alsaqueue: waits for qstarg messages before it    *)
(*         plays and after an underrun;                                    *)
(* main    creates audioqueue's worker and, in interactive mode, quits.    *)
(*                                                                         *)
(* Leaving the process, by exit(1) or by main's return, runs the static    *)
(* destructors: ~audioqueue, then ~alsaqueue (reverse link order).         *)
(*                                                                         *)
(* Messages are numbered as they arrive; what they contain matters only    *)
(* through the outcome of the processing, which Faults enumerates. The     *)
(* sample rate ratio, computed from an unlocked read of qinit, affects     *)
(* only contents. ALSA, libsamplerate and the OpenHome stack are external. *)
(***************************************************************************)
EXTENDS Integers, Sequences, FiniteSets

CONSTANTS
  NMsg,      \* bound: messages that arrive
  AHigh,     \* audioqueue's limit (4)
  SHigh,     \* alsaqueue's limit, qs_hi (100)
  QsTarg,    \* qstarg = qs_hi / 2
  UIntMax,
  Faults     \* the failures that may happen

FaultNames == {"startEater", "startWriter", "zero", "init", "srcnew", "bits",
               "process", "memory", "short", "underrun"}

ASSUME AlsaAssumption ==
  /\ NMsg \in Nat
  /\ AHigh \in Nat /\ SHigh \in Nat /\ QsTarg \in Nat
  /\ UIntMax \in Nat \ {0}
  /\ Faults \subseteq FaultNames

Thread == {"main", "ohm", "eater", "writer"}
Msg == 1 .. NMsg
NoMsg == 0

VARIABLES
  a_queue, a_ok, a_threads, a_exited, a_clients, a_workers, a_ccond, a_wcond, a_woken,
  s_queue, s_ok, s_threads, s_exited, s_clients, s_workers, s_ccond, s_wcond, s_woken,
  pc,          \* where each thread is
  held,        \* the message each thread has in hand, or NoMsg
  arrived,     \* messages received so far
  freed,       \* messages deleted
  leaked,      \* messages dropped without a delete
  qinit,       \* playing has started and has not underrun since
  pcmReady,    \* alsa_init has succeeded
  srcState,    \* src_state # 0
  lastPlayed   \* the last message written to the device

A == INSTANCE WorkQueue WITH
  Task <- Msg, High <- AHigh, Low <- 1, m_queue <- a_queue, m_ok <- a_ok,
  m_worker_threads <- a_threads, m_workers_exited <- a_exited,
  m_clients_waiting <- a_clients, m_workers_waiting <- a_workers,
  m_ccond <- a_ccond, m_wcond <- a_wcond, woken <- a_woken
S == INSTANCE WorkQueue WITH
  Task <- Msg, High <- SHigh, Low <- 1, m_queue <- s_queue, m_ok <- s_ok,
  m_worker_threads <- s_threads, m_workers_exited <- s_exited,
  m_clients_waiting <- s_clients, m_workers_waiting <- s_workers,
  m_ccond <- s_ccond, m_wcond <- s_wcond, woken <- s_woken

aVars == <<a_queue, a_ok, a_threads, a_exited, a_clients, a_workers, a_ccond,
           a_wcond, a_woken>>
sVars == <<s_queue, s_ok, s_threads, s_exited, s_clients, s_workers, s_ccond,
           s_wcond, s_woken>>
ledger == <<held, freed, leaked>>
device == <<qinit, pcmReady, srcState, lastPlayed>>
vars == <<aVars, sVars, pc, arrived, ledger, device>>

Outcome == {"wait", "true", "false"}

ClientPC == {"running", "put", "dtorA", "dtorS", "ended"}
EaterPC == {"unborn", "start", "take", "inspect", "init", "convert", "put",
            "termS", "exitA", "gone"}
WriterPC == {"unborn", "check", "minsz", "take", "write", "exitS", "gone"}

TypeOK ==
  /\ A!QueueTypeOK /\ S!QueueTypeOK
  /\ pc \in [Thread -> ClientPC \cup EaterPC \cup WriterPC]
  /\ pc["main"] \in ClientPC /\ pc["ohm"] \in ClientPC
  /\ pc["eater"] \in EaterPC /\ pc["writer"] \in WriterPC
  /\ held \in [Thread -> Msg \cup {NoMsg}]
  /\ arrived \in 0 .. NMsg
  /\ freed \subseteq Msg /\ leaked \subseteq Msg
  /\ {qinit, pcmReady, srcState} \subseteq BOOLEAN
  /\ lastPlayed \in Msg \cup {NoMsg}
  /\ held["ohm"] # NoMsg <=> pc["ohm"] = "put"
  /\ held["eater"] # NoMsg <=> pc["eater"] \in {"inspect", "init", "convert", "put"}
  /\ held["writer"] # NoMsg <=> pc["writer"] = "write"

\* main has just built the driver, whose constructor calls audioqueue.start(1, ..):
\* without a thread if pthread_create failed (start's result is ignored).
Init ==
  /\ \E created \in IF "startEater" \in Faults THEN {{"eater"}, {}} ELSE {{"eater"}} :
       /\ a_threads = created
       /\ pc = [main |-> "running", ohm |-> "running", writer |-> "unborn",
                eater |-> IF created = {} THEN "unborn" ELSE "start"]
  /\ a_queue = <<>> /\ a_ok = TRUE /\ a_exited = 0 /\ a_clients = 0
  /\ a_workers = 0 /\ a_ccond = {} /\ a_wcond = {} /\ a_woken = {}
  /\ S!QueueInit
  /\ held = [t \in Thread |-> NoMsg]
  /\ arrived = 0
  /\ freed = {}
  /\ leaked = {}
  /\ qinit = FALSE
  /\ pcmReady = FALSE
  /\ srcState = FALSE
  /\ lastPlayed = NoMsg

\* When the process has ended no thread runs.
Running == \A t \in {"main", "ohm"} : pc[t] # "ended"

Goto(t, label) == pc' = [pc EXCEPT ![t] = label]
Hold(t, m) == held' = [held EXCEPT ![t] = m]

-----------------------------------------------------------------------------
(* The ohm thread: OhmReceiverDriver::Process.                             *)

\* A message arrives and an AudioMessage is made of it (those that are empty or
\* have Halt set are dropped before that and never become messages here).
Process ==
  /\ pc["ohm"] = "running"
  /\ pc["main"] = "running"
  /\ arrived < NMsg
  /\ arrived' = arrived + 1
  /\ Hold("ohm", arrived + 1)
  /\ Goto("ohm", "put")
  /\ UNCHANGED <<aVars, sVars, freed, leaked, device>>

\* audioqueue.put; exit(1) if the queue is dead.
ProcessPut(out) ==
  /\ pc["ohm"] = "put"
  /\ A!Put("ohm", held["ohm"], FALSE, out)
  /\ CASE out = "wait"  -> UNCHANGED <<pc, ledger>>
       [] out = "true"  -> /\ Goto("ohm", "running")
                           /\ Hold("ohm", NoMsg)
                           /\ UNCHANGED <<freed, leaked>>
       [] out = "false" -> /\ Goto("ohm", "dtorA")
                           /\ Hold("ohm", NoMsg)
                           /\ leaked' = leaked \cup {held["ohm"]}
                           /\ UNCHANGED freed
  /\ UNCHANGED <<sVars, arrived, device>>

-----------------------------------------------------------------------------
(* Leaving the process.                                                    *)

\* 'q' was typed: delete(receiver) returns when no Process call is running, and
\* main returns.
Quit ==
  /\ pc["main"] = "running"
  /\ pc["ohm"] = "running"
  /\ Goto("main", "dtorA")
  /\ UNCHANGED <<aVars, sVars, arrived, ledger, device>>

\* ~WorkQueue of audioqueue. The test of m_worker_threads outside the lock is
\* repeated by setTerminateAndWait.
DestroyAudioqueueAtOnce(t, out) ==
  /\ pc[t] = "dtorA"
  /\ out = "false"
  /\ Goto(t, "dtorS")
  /\ UNCHANGED <<aVars, sVars, arrived, ledger, device>>
DestroyAudioqueue(t, out) ==
  /\ pc[t] = "dtorA"
  /\ A!SetTerminateAndWait(t, out)
  /\ IF out = "wait" THEN UNCHANGED pc ELSE Goto(t, "dtorS")
  /\ UNCHANGED <<sVars, arrived, ledger, device>>

\* ~WorkQueue of alsaqueue, and the end of the process.
DestroyAlsaqueue(t, out) ==
  /\ pc[t] = "dtorS"
  /\ S!SetTerminateAndWait(t, out)
  /\ IF out = "wait" THEN UNCHANGED pc ELSE Goto(t, "ended")
  /\ UNCHANGED <<aVars, arrived, ledger, device>>

OhmStep == \E out \in Outcome : ProcessPut(out)
ExitStep ==
  \E t \in {"main", "ohm"}, out \in Outcome :
    DestroyAudioqueue(t, out) \/ DestroyAlsaqueue(t, out)

-----------------------------------------------------------------------------
(* audioEater.                                                             *)

\* qinit = false, then alsaqueue.start(1, alsawriter, 0), result ignored.
EaterStart ==
  /\ pc["eater"] = "start"
  /\ qinit' = FALSE
  /\ \/ /\ S!Start({"writer"})
        /\ pc' = [pc EXCEPT !["eater"] = "take", !["writer"] = "check"]
     \/ /\ "startWriter" \in Faults
        /\ S!Start({})
        /\ Goto("eater", "take")
  /\ UNCHANGED <<aVars, arrived, ledger, pcmReady, srcState, lastPlayed>>

EaterTake(out) ==
  /\ pc["eater"] = "take"
  /\ A!Take("eater", out)
  /\ CASE out = "wait"  -> UNCHANGED <<pc, held>>
       [] out = "true"  -> Goto("eater", "inspect") /\ Hold("eater", Head(a_queue))
       [] out = "false" -> Goto("eater", "termS") /\ UNCHANGED held
  /\ UNCHANGED <<sVars, arrived, freed, leaked, device>>

\* The message is dropped without being deleted, and the eater goes on as label.
EaterDrops(label) ==
  /\ leaked' = leaked \cup {held["eater"]}
  /\ Hold("eater", NoMsg)
  /\ Goto("eater", label)
  /\ UNCHANGED <<aVars, sVars, arrived, freed>>

\* Zero buf: continue.
EaterZero ==
  /\ pc["eater"] = "inspect"
  /\ "zero" \in Faults
  /\ EaterDrops("take")
  /\ UNCHANGED device

\* The first message opens the device and creates the converter.
EaterInspect ==
  /\ pc["eater"] = "inspect"
  /\ Goto("eater", IF srcState THEN "convert" ELSE "init")
  /\ UNCHANGED <<aVars, sVars, arrived, ledger, device>>
EaterInit ==
  /\ pc["eater"] = "init"
  /\ pcmReady' = TRUE
  /\ \/ srcState' = TRUE
     \/ "srcnew" \in Faults /\ srcState' = FALSE
  /\ Goto("eater", "convert")
  /\ UNCHANGED <<aVars, sVars, arrived, ledger, qinit, lastPlayed>>
EaterInitFailsUnseen ==
  /\ pc["eater"] = "init"
  /\ "init" \in Faults
  /\ pcmReady' = FALSE
  /\ srcState' = TRUE
  /\ Goto("eater", "convert")
  /\ UNCHANGED <<aVars, sVars, arrived, ledger, qinit, lastPlayed>>
EaterInitFails ==
  /\ pc["eater"] = "init"
  /\ "init" \in Faults
  /\ pcmReady' = FALSE
  /\ EaterDrops("termS")
  /\ UNCHANGED <<qinit, srcState, lastPlayed>>

\* From the float conversion to the put: src_process fails (always without a
\* converter) and the message is skipped; an unknown bit depth or realloc's
\* failure ends the eater.
EaterConvert ==
  /\ pc["eater"] = "convert"
  /\ srcState
  /\ Goto("eater", "put")
  /\ UNCHANGED <<aVars, sVars, arrived, ledger, device>>
EaterConvertFails ==
  /\ pc["eater"] = "convert"
  /\ \/ (~srcState \/ "process" \in Faults) /\ EaterDrops("take")
     \/ ("bits" \in Faults \/ (srcState /\ "memory" \in Faults)) /\ EaterDrops("termS")
  /\ UNCHANGED device

\* alsaqueue.put; if it fails the eater leaves without terminating alsaqueue.
EaterPut(out) ==
  /\ pc["eater"] = "put"
  /\ S!Put("eater", held["eater"], FALSE, out)
  /\ CASE out = "wait"  -> UNCHANGED <<pc, held, leaked>>
       [] out = "true"  -> /\ Goto("eater", "take")
                           /\ Hold("eater", NoMsg)
                           /\ UNCHANGED leaked
       [] out = "false" -> /\ Goto("eater", "exitA")
                           /\ Hold("eater", NoMsg)
                           /\ leaked' = leaked \cup {held["eater"]}
  /\ UNCHANGED <<aVars, arrived, freed, device>>

\* alsaqueue.setTerminateAndWait(); queue->workerExit().
EaterTerminates(out) ==
  /\ pc["eater"] = "termS"
  /\ S!SetTerminateAndWait("eater", out)
  /\ IF out = "wait" THEN UNCHANGED pc ELSE Goto("eater", "exitA")
  /\ UNCHANGED <<aVars, arrived, ledger, device>>
EaterExits ==
  /\ pc["eater"] = "exitA"
  /\ A!WorkerExit("eater")
  /\ Goto("eater", "gone")
  /\ UNCHANGED <<sVars, arrived, ledger, device>>

EaterStep ==
  \/ EaterStart
  \/ \E out \in Outcome : EaterTake(out) \/ EaterPut(out) \/ EaterTerminates(out)
  \/ EaterZero
  \/ EaterInspect
  \/ EaterInit
  \/ EaterInitFails
  \/ EaterConvert
  \/ EaterConvertFails
  \/ EaterExits

-----------------------------------------------------------------------------
(* alsawriter.                                                             *)

WriterCheckNever ==
  /\ pc["writer"] = "check"
  /\ Goto("writer", "take")
  /\ UNCHANGED <<aVars, sVars, arrived, ledger, device>>
WriterCheck ==
  /\ pc["writer"] = "check"
  /\ Goto("writer", IF qinit THEN "take" ELSE "minsz")
  /\ UNCHANGED <<aVars, sVars, arrived, ledger, device>>

WriterWaitMinSz(out) ==
  /\ pc["writer"] = "minsz"
  /\ S!WaitMinSz("writer", QsTarg, out)
  /\ CASE out = "wait"  -> UNCHANGED pc
       [] out = "true"  -> Goto("writer", "take")
       [] out = "false" -> Goto("writer", "exitS")
  /\ UNCHANGED <<aVars, arrived, ledger, device>>

WriterTake(out) ==
  /\ pc["writer"] = "take"
  /\ S!Take("writer", out)
  /\ CASE out = "wait"  -> UNCHANGED <<pc, held>>
       [] out = "true"  -> Goto("writer", "write") /\ Hold("writer", Head(s_queue))
       [] out = "false" -> Goto("writer", "exitS") /\ UNCHANGED held
  /\ UNCHANGED <<aVars, arrived, freed, leaked, device>>

\* snd_pcm_writei returns: everything written, fewer frames, or an error.
WriterForgetsDelete == UNCHANGED freed /\ Hold("writer", NoMsg)
WriterDeletes ==
  freed' = freed \cup {held["writer"]} /\ Hold("writer", NoMsg)
WriterWrite ==
  /\ pc["writer"] = "write"
  /\ \/ qinit' = TRUE
     \/ "short" \in Faults /\ UNCHANGED qinit
     \/ "underrun" \in Faults /\ qinit' = FALSE
  /\ lastPlayed' = held["writer"]
  /\ WriterDeletes
  /\ Goto("writer", "check")
  /\ UNCHANGED <<aVars, sVars, arrived, leaked, pcmReady, srcState>>

WriterExits ==
  /\ pc["writer"] = "exitS"
  /\ S!WorkerExit("writer")
  /\ Goto("writer", "gone")
  /\ UNCHANGED <<aVars, arrived, ledger, device>>

WriterStep ==
  \/ WriterCheck
  \/ \E out \in Outcome : WriterWaitMinSz(out) \/ WriterTake(out)
  \/ WriterWrite
  \/ WriterExits

-----------------------------------------------------------------------------

Spurious(t) ==
  \/ A!SpuriousWakeup(t) /\ UNCHANGED <<sVars, pc, arrived, ledger, device>>
  \/ S!SpuriousWakeup(t) /\ UNCHANGED <<aVars, pc, arrived, ledger, device>>

Next ==
  Running /\ \/ Process
             \/ OhmStep
             \/ Quit
             \/ ExitStep
             \/ EaterStep
             \/ WriterStep
             \/ \E t \in Thread : Spurious(t)

Spec == Init /\ [][Next]_vars

\* Every thread runs when it can; the device consumes what is written to it.
\* Messages need not arrive and nobody need quit.
FairSpec ==
  /\ Spec
  /\ WF_vars(Running /\ OhmStep)
  /\ WF_vars(Running /\ ExitStep)
  /\ WF_vars(Running /\ EaterStep)
  /\ WF_vars(Running /\ WriterStep)

-----------------------------------------------------------------------------
(* Safety.                                                                 *)

\* The messages under way, the one nearest to the device first.
InHand(t) == IF held[t] = NoMsg THEN <<>> ELSE <<held[t]>>
Pipeline ==
  InHand("writer") \o s_queue \o InHand("eater") \o a_queue \o InHand("ohm")
InPipeline == {Pipeline[i] : i \in DOMAIN Pipeline}

\* Through two queues and three threads messages keep the order of arrival, none
\* is in two places, and none comes after a later one was played.
PipelineOrdered ==
  /\ \A i \in 1 .. Len(Pipeline) - 1 : Pipeline[i] < Pipeline[i + 1]
  /\ Pipeline # <<>> => lastPlayed < Pipeline[1]

\* Each message that arrived is under way, deleted, or dropped by a path that
\* does not delete it, and only one of the three: nothing is deleted twice or
\* used after its deletion.
Conserved ==
  /\ InPipeline \cup freed \cup leaked = 1 .. arrived
  /\ InPipeline \cap freed = {} /\ InPipeline \cap leaked = {}
  /\ freed \cap leaked = {}

\* Both, in well-typed states: what the pipeline promises for the messages.
MessagesKept == TypeOK /\ PipelineOrdered /\ Conserved

\* The writer touches the device only after alsa_init, though alsa_init runs in
\* another thread and neither pcm nor qinit is locked.
DeviceReady == pc["writer"] = "write" => pcmReady

\* The process frees the queues only when no worker can touch them any more.
NobodyOutlivesQueues ==
  ~Running => \A t \in {"eater", "writer"} : pc[t] \in {"unborn", "gone"}

\* At the start, and after an underrun, the writer plays only with a refilled
\* queue, whatever happened between its check and its take.
RefillsFirst ==
  [][WriterTake("true") /\ ~qinit => Len(s_queue) >= QsTarg]_vars

-----------------------------------------------------------------------------
(* Liveness, under FairSpec.                                               *)

\* The eater's put and the writer's waitminsz never wait for each other: qstarg
\* is not above qs_hi. A message that arrived leaves the ohm thread.
PutReturns ==
  /\ pc["ohm"] = "put" ~> pc["ohm"] # "put"
  /\ pc["eater"] = "put" ~> pc["eater"] # "put"

\* When the eater dies, the next message ends the process: the ohm thread, asleep
\* in put or not, gets false and exits. After 'q', and after exit(1), the process
\* ends, whatever its two workers are doing.
DeadEaterEndsProcess ==
  pc["eater"] = "gone" /\ pc["ohm"] = "put" ~> ~Running
ExitTerminates == \A t \in {"main", "ohm"} : pc[t] = "dtorA" ~> ~Running
ProcessEnds == DeadEaterEndsProcess /\ ExitTerminates

\* Both: no call that waits, no destructor, waits for ever.
NobodyStuck == PutReturns /\ ProcessEnds
=============================================================================
