------------------------------ MODULE HttpGate -------------------------------
(***************************************************************************)
(* The receiver with HTTP output: src/sc2src/sc2mpd.cpp with               *)
(* src/sc2src/httpgate.cpp.                                                *)
(*                                                                         *)
(*   ohm thread --audioqueue--> audioEater --dataqueue--> connections      *)
(*                                                                         *)
(* The eater moves messages from audioqueue (a WorkQueue) to dataqueue,    *)
(* dropping the oldest when the readers are slow.  Each HTTP connection is *)
(* a thread of libmicrohttpd that calls data_generator for one block after *)
(* another; the generator consumes the messages, all connections the same  *)
(* ones, and waits when there is none.  The WAV header precedes the audio  *)
(* of a connection that starts at offset 0.                                *)
(*                                                                         *)
(* Sizes are counted in units; all messages are MsgBytes long, a multiple  *)
(* of the frame size (samples of all channels at one time).  dataqueue is  *)
(* the sequence of the m_curoffs of its messages.                          *)
(*                                                                         *)
(* External: libmicrohttpd, its clients, and the OpenHome stack.  Left     *)
(* out: messages without a buffer, which Process never makes.              *)
(***************************************************************************)
EXTENDS Integers, Sequences, FiniteSets

CONSTANTS
  Conn,        \* HTTP connections
  Streams,     \* the formats: their bytes per frame (4 for 16 bits stereo, 6 for
               \* 24 bits), and, a bound, the connections that come
  NMsg,        \* bound: messages that arrive
  MaxOpens,    \* bound: requests that arrive
  AHigh,       \* audioqueue's limit (4)
  MsgBytes,    \* m_bytes of a message
  Header,      \* size of the WAV header (44)
  Block,       \* size of the blocks microhttpd asks for (5292)
  DataBytes,   \* the announced size of the audio (2 * 1000 * 1000 * 1000)
  Bases,       \* the offsets clients ask for
  UIntMax,
  Faults       \* subset of {"daemon"}: MHD_start_daemon may fail

Nobody == "nobody"

ASSUME HttpAssumption ==
  /\ IsFiniteSet(Conn)
  /\ Nobody \notin Conn
  /\ {NMsg, MaxOpens, AHigh, Header, DataBytes} \subseteq Nat
  /\ {MsgBytes, Block, UIntMax} \subseteq Nat \ {0}
  /\ Streams \subseteq [frame : Nat \ {0}, clients : SUBSET Conn]
  /\ \A s \in Streams : MsgBytes % s.frame = 0
  /\ Block >= Header
  /\ Bases \subseteq Nat
  /\ Faults \subseteq {"daemon"}

Thread == {"main", "ohm", "eater"}
Message == "message"

VARIABLES
  a_queue, a_ok, a_threads, a_exited, a_clients, a_workers, a_ccond, a_wcond, a_woken,
  stream,     \* the format of the audio, and the connections that come
  pc,         \* where main, ohm and eater are
  arrived,    \* messages received so far
  dataqueue,  \* m_curoffs of each message on dataqueue, oldest first
  holder,     \* the connection that holds dataqueueLock between two actions
  conn,       \* the state of each connection
  rc,         \* connection -> the response it serves and the call it is in
  opens       \* requests so far

A == INSTANCE WorkQueue WITH
  Task <- {Message}, High <- AHigh, Low <- 1, m_queue <- a_queue, m_ok <- a_ok,
  m_worker_threads <- a_threads, m_workers_exited <- a_exited,
  m_clients_waiting <- a_clients, m_workers_waiting <- a_workers,
  m_ccond <- a_ccond, m_wcond <- a_wcond, woken <- a_woken

aVars == <<a_queue, a_ok, a_threads, a_exited, a_clients, a_workers, a_ccond,
           a_wcond, a_woken>>
gateVars == <<dataqueue, holder, conn, rc, opens>>
vars == <<aVars, stream, pc, arrived, gateVars>>

Outcome == {"wait", "true", "false"}

\* A connection is closed, between two calls of data_generator, in a call, or
\* asleep in it on dataqueueWaitCond.
ConnState == {"closed", "open", "call", "asleep", "awake"}

\* baseoffset of the request, pos and bytes of data_generator, offsetfixed.
Fresh(base) == [base |-> base, pos |-> 0, bytes |-> 0, fixed |-> FALSE]

TypeOK ==
  /\ A!QueueTypeOK
  /\ stream \in Streams
  /\ pc["ohm"] \in {"running", "put", "dtorA", "ended"}
  /\ pc["main"] \in {"running", "dtorA", "ended"}
  /\ pc["eater"] \in {"start", "take", "push", "stop", "exitA", "gone"}
  /\ arrived \in 0 .. NMsg
  /\ dataqueue \in Seq(0 .. MsgBytes - 1)
  /\ holder \in Conn \cup {Nobody}
  /\ conn \in [Conn -> ConnState]
  /\ \A k \in Conn : conn[k] = "call" <=> holder = k
  /\ \A k \in Conn : rc[k].pos \in Nat /\ rc[k].bytes \in 0 .. Block
  /\ opens \in 0 .. MaxOpens

Init ==
  /\ a_threads = {"eater"}
  /\ a_queue = <<>> /\ a_ok = TRUE /\ a_exited = 0 /\ a_clients = 0
  /\ a_workers = 0 /\ a_ccond = {} /\ a_wcond = {} /\ a_woken = {}
  /\ stream \in Streams
  /\ pc = [main |-> "running", ohm |-> "running", eater |-> "start"]
  /\ arrived = 0
  /\ dataqueue = <<>>
  /\ holder = Nobody
  /\ conn = [k \in Conn |-> "closed"]
  /\ rc = [k \in Conn |-> Fresh(0)]
  /\ opens = 0

Running == \A t \in {"main", "ohm"} : pc[t] # "ended"
Goto(t, label) == pc' = [pc EXCEPT ![t] = label]

-----------------------------------------------------------------------------
(* The ohm thread and main.                                                *)

Process ==
  /\ pc["ohm"] = "running"
  /\ pc["main"] = "running"
  /\ arrived < NMsg
  /\ arrived' = arrived + 1
  /\ Goto("ohm", "put")
  /\ UNCHANGED <<aVars, stream, gateVars>>

\* audioqueue.put; exit(1) if the queue is dead.
ProcessPut(out) ==
  /\ pc["ohm"] = "put"
  /\ A!Put("ohm", Message, FALSE, out)
  /\ CASE out = "wait"  -> UNCHANGED pc
       [] out = "true"  -> Goto("ohm", "running")
       [] out = "false" -> Goto("ohm", "dtorA")
  /\ UNCHANGED <<stream, arrived, gateVars>>

\* 'q' in interactive mode: delete(receiver), and main returns.
Quit ==
  /\ pc["main"] = "running"
  /\ pc["ohm"] = "running"
  /\ Goto("main", "dtorA")
  /\ UNCHANGED <<aVars, stream, arrived, gateVars>>

\* ~WorkQueue of audioqueue; alsaqueue has no worker here.
DestroyAudioqueue(t, out) ==
  /\ pc[t] = "dtorA"
  /\ A!SetTerminateAndWait(t, out)
  /\ IF out = "wait" THEN UNCHANGED pc ELSE Goto(t, "ended")
  /\ UNCHANGED <<stream, arrived, gateVars>>

MainStep ==
  \E out \in Outcome :
    \/ ProcessPut(out)
    \/ \E t \in {"main", "ohm"} : DestroyAudioqueue(t, out)

-----------------------------------------------------------------------------
(* audioEater.                                                             *)

EaterStart ==
  /\ pc["eater"] = "start"
  /\ \/ Goto("eater", "take")
     \/ "daemon" \in Faults /\ Goto("eater", "exitA")
  /\ UNCHANGED <<aVars, stream, arrived, gateVars>>

EaterTake(out) ==
  /\ pc["eater"] = "take"
  /\ A!Take("eater", out)
  /\ CASE out = "wait"  -> UNCHANGED pc
       [] out = "true"  -> Goto("eater", "push")
       [] out = "false" -> Goto("eater", "stop")
  /\ UNCHANGED <<stream, arrived, gateVars>>

\* Under dataqueueLock: discard from the front down to 2 messages, push, and wake
\* every connection. A discarded message may have been read in part.
Discard(q) == IF Len(q) > 2 THEN SubSeq(q, Len(q) - 1, Len(q)) ELSE q
WakeOne ==
  LET asleep == {k \in Conn : conn[k] = "asleep"} IN
  IF asleep = {} THEN UNCHANGED conn
                 ELSE \E k \in asleep : conn' = [conn EXCEPT ![k] = "awake"]
WakeAll ==
  conn' = [k \in Conn |-> IF conn[k] = "asleep" THEN "awake" ELSE conn[k]]
EaterPush ==
  /\ pc["eater"] = "push"
  /\ holder = Nobody
  /\ dataqueue' = Append(Discard(dataqueue), 0)
  /\ WakeAll
  /\ Goto("eater", "take")
  /\ UNCHANGED <<aVars, stream, arrived, holder, rc, opens>>

\* MHD_stop_daemon closes the connections that are not in a call of
\* data_generator, and returns when every connection thread has ended.
StopCloses(k) ==
  /\ pc["eater"] = "stop"
  /\ conn[k] = "open"
  /\ conn' = [conn EXCEPT ![k] = "closed"]
  /\ UNCHANGED <<aVars, pc, stream, arrived, dataqueue, holder, rc, opens>>
EaterStopped ==
  /\ pc["eater"] = "stop"
  /\ \A k \in Conn : conn[k] = "closed"
  /\ Goto("eater", "exitA")
  /\ UNCHANGED <<aVars, stream, arrived, gateVars>>

EaterExits ==
  /\ pc["eater"] = "exitA"
  /\ A!WorkerExit("eater")
  /\ Goto("eater", "gone")
  /\ UNCHANGED <<stream, arrived, gateVars>>

EaterStep ==
  \/ EaterStart
  \/ \E out \in Outcome : EaterTake(out)
  \/ EaterPush
  \/ \E k \in Conn : StopCloses(k)
  \/ EaterStopped
  \/ EaterExits

-----------------------------------------------------------------------------
(* Connections.                                                            *)

Serving == pc["eater"] \in {"take", "push"}

\* answer_to_connection: a request creates a ReadContext for its offset.
Open(k, base) ==
  /\ Serving
  /\ k \in stream.clients
  /\ conn[k] = "closed"
  /\ opens < MaxOpens
  /\ opens' = opens + 1
  /\ conn' = [conn EXCEPT ![k] = "open"]
  /\ rc' = [rc EXCEPT ![k] = Fresh(base)]
  /\ UNCHANGED <<aVars, pc, stream, arrived, dataqueue, holder>>

\* The client goes away, or the stream has ended; microhttpd notices between two
\* calls of data_generator.
Close(k) ==
  /\ Serving
  /\ conn[k] = "open"
  /\ conn' = [conn EXCEPT ![k] = "closed"]
  /\ UNCHANGED <<aVars, pc, stream, arrived, dataqueue, holder, rc, opens>>

AtEnd(k) == rc[k].base + rc[k].pos >= DataBytes + Header

\* data_generator is called and locks dataqueueLock (or returns end of stream).
Enter(k) ==
  /\ Serving
  /\ conn[k] = "open"
  /\ ~AtEnd(k)
  /\ holder = Nobody
  /\ holder' = k
  /\ conn' = [conn EXCEPT ![k] = "call"]
  /\ UNCHANGED <<aVars, pc, stream, arrived, dataqueue, rc, opens>>

\* The outer loop of data_generator while the lock is held: one message is
\* copied, after the offset fix and the header; it is deleted when used up.
Filling(k) == holder = k /\ rc[k].bytes < Block

NeverFixes(k) == FALSE
Fixes(k) ==
  /\ rc[k].base + rc[k].pos = Header
  /\ Head(dataqueue) # 0
  /\ ~rc[k].fixed
HeaderBytes(k) ==
  IF rc[k].base = 0 /\ rc[k].pos = 0 /\ rc[k].bytes = 0 THEN Header ELSE 0

\* Where the bytes copied next come from in the message, and go to in the block.
From(k) == IF Fixes(k) THEN MsgBytes ELSE Head(dataqueue)
To(k) == rc[k].bytes + HeaderBytes(k)
NewBytes(k) ==
  IF Block - To(k) < MsgBytes - From(k) THEN Block - To(k) ELSE MsgBytes - From(k)

UsedUp(offs) == offs = MsgBytes

Fill(k) ==
  /\ Filling(k)
  /\ dataqueue # <<>>
  /\ LET offs == From(k) + NewBytes(k) IN
     dataqueue' = IF UsedUp(offs) THEN Tail(dataqueue)
                                  ELSE [dataqueue EXCEPT ![1] = offs]
  /\ rc' = [rc EXCEPT ![k].bytes = To(k) + NewBytes(k),
                      ![k].fixed = rc[k].fixed \/ Fixes(k)]
  /\ UNCHANGED <<aVars, pc, stream, arrived, holder, conn, opens>>

\* pthread_cond_wait(&dataqueueWaitCond), which gives the lock up in mid-block.
WaitForData(k) ==
  /\ Filling(k)
  /\ dataqueue = <<>>
  /\ holder' = Nobody
  /\ conn' = [conn EXCEPT ![k] = "asleep"]
  /\ UNCHANGED <<aVars, pc, stream, arrived, dataqueue, rc, opens>>
Resume(k) ==
  /\ conn[k] = "awake"
  /\ holder = Nobody
  /\ IF dataqueue = <<>>
       THEN conn' = [conn EXCEPT ![k] = "asleep"] /\ UNCHANGED holder
       ELSE conn' = [conn EXCEPT ![k] = "call"] /\ holder' = k
  /\ UNCHANGED <<aVars, pc, stream, arrived, dataqueue, rc, opens>>
SpuriousResume(k) ==
  /\ conn[k] = "asleep"
  /\ conn' = [conn EXCEPT ![k] = "awake"]
  /\ UNCHANGED <<aVars, pc, stream, arrived, dataqueue, holder, rc, opens>>

\* The block is full: it is returned and sent.
Return(k) ==
  /\ holder = k
  /\ rc[k].bytes >= Block
  /\ holder' = Nobody
  /\ conn' = [conn EXCEPT ![k] = "open"]
  /\ rc' = [rc EXCEPT ![k].pos = @ + rc[k].bytes, ![k].bytes = 0, ![k].fixed = FALSE]
  /\ UNCHANGED <<aVars, pc, stream, arrived, dataqueue, opens>>

ConnStep(k) == Enter(k) \/ Fill(k) \/ WaitForData(k) \/ Resume(k) \/ Return(k)

Next ==
  /\ Running
  /\ \/ Process
     \/ Quit
     \/ MainStep
     \/ EaterStep
     \/ \E k \in Conn :
          \/ \E base \in Bases : Open(k, base)
          \/ Close(k)
          \/ ConnStep(k)
          \/ SpuriousResume(k)
     \/ \E t \in Thread :
          A!SpuriousWakeup(t) /\ UNCHANGED <<pc, stream, arrived, gateVars>>

Spec == Init /\ [][Next]_vars

\* Every thread runs when it can. Requests, messages, 'q' and clients going away
\* need not happen.
FairSpec ==
  /\ Spec
  /\ WF_vars(Running /\ MainStep)
  /\ WF_vars(Running /\ EaterStep)
  /\ \A k \in Conn : WF_vars(Running /\ ConnStep(k))

-----------------------------------------------------------------------------
(* Safety.                                                                 *)

\* However slow the readers, at most 3 messages are kept for them, and the read
\* position of each stays inside its message.
DataqueueBounded == TypeOK /\ Len(dataqueue) =< 3

\* A connection does not sleep while there is data for it: every push wakes all,
\* since another connection may leave part of a message behind.
NoStrandedReader ==
  (\E k \in Conn : conn[k] = "asleep") => dataqueue = <<>>

\* The data queue serves its readers, any number of them in any state: what they
\* wait for is short, in order and never withheld (httpgate.cpp:335-346).
DataqueueServes == DataqueueBounded /\ NoStrandedReader

\* The offset in the audio stream, as the client counts it, of the next byte
\* copied for it.
StreamOffset(k) == rc[k].base + rc[k].pos + To(k) - Header

Copies(k) == Fill(k) /\ NewBytes(k) > 0

\* When the frame divides the header and the blocks, as with 16 bits stereo, and
\* the client asks for the stream from the beginning of a frame, what it takes for
\* the first byte of a frame is one: the bytes copied to it are at the same place in
\* a frame of the message as in its own stream, across restarts, waits in mid-block,
\* other readers, whatever they ask for, and discarded messages.
StreamAligned(k) ==
  Header % stream.frame = 0 /\ Block % stream.frame = 0
    /\ rc[k].base % stream.frame = 0
      => StreamOffset(k) % stream.frame = From(k) % stream.frame

\* With any frame, a single client that starts again just after the header gets the
\* beginning of a frame.
RestartAligned(k) ==
  stream.clients = {k} /\ rc[k].base = Header /\ StreamOffset(k) = 0
    => From(k) % stream.frame = 0

\* What clients receive never is the inside of a frame taken for its beginning.
Aligned ==
  [][\A k \in Conn : Copies(k) => StreamAligned(k) /\ RestartAligned(k)]_vars

\* "We can't rewind, so we simulate rewind by discarding any partial buffer, to be
\* sure that we start aligned with the sample" (httpgate.cpp:128): the first byte
\* of audio that a request gets is the first of a frame.
StartsAligned ==
  [][\A k \in Conn :
       Copies(k) /\ StreamOffset(k) = 0 => From(k) % stream.frame = 0]_vars

-----------------------------------------------------------------------------
(* Liveness, under FairSpec.                                               *)

\* The ohm thread is never blocked by slow or absent HTTP clients.
PutReturns == pc["ohm"] = "put" ~> pc["ohm"] # "put"

\* "q = quit" (sc2mpd.cpp:449): after q the process ends, unless a connection is
\* left waiting for data, which the eater no longer brings. If the HTTP server
\* cannot start, the next message ends the process.
QuitTerminates ==
  pc["main"] = "dtorA"
    ~> ~Running \/ \E k \in Conn : conn[k] \in {"asleep", "awake"}
DeadEaterEndsProcess == pc["eater"] = "gone" /\ pc["ohm"] = "put" ~> ~Running
ProcessEnds == QuitTerminates /\ DeadEaterEndsProcess

\* Both: no put and no destructor waits for ever.
NobodyStuck == PutReturns /\ ProcessEnds
=============================================================================
