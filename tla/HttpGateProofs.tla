--------------------------- MODULE HttpGateProofs ----------------------------
(***************************************************************************)
(* Proofs about HttpGate: the data queue serves its readers, and what they *)
(* receive is aligned on frames. For any number of connections, messages   *)
(* and requests, any offsets, formats and sizes.                           *)
(***************************************************************************)
EXTENDS HttpGate, SequenceTheorems, TLAPS

-----------------------------------------------------------------------------
(* dataqueue.                                                              *)

Offset == 0 .. MsgBytes - 1

\* Only the oldest message may have been read in part.
OnlyFirstRead(q) == \A i \in 2 .. Len(q) : q[i] = 0

\* What Discard leaves of q: at most 2 messages, and only its first in part.
LEMMA Discarded ==
  ASSUME NEW q \in Seq(Offset), OnlyFirstRead(q)
  PROVE  /\ Discard(q) \in Seq(Offset)
         /\ Len(Discard(q)) =< 2
         /\ OnlyFirstRead(Discard(q))
         /\ Discard(q) # <<>> => Discard(q)[1] = 0 \/ (q # <<>> /\ Discard(q)[1] = q[1])
<1>1. Len(q) \in Nat
  BY LenProperties
<1>2. CASE Len(q) > 2
  <2>1. Discard(q) = SubSeq(q, Len(q) - 1, Len(q))
    BY <1>2 DEF Discard
  <2>2. \A i \in Len(q) - 1 .. Len(q) : q[i] \in Offset /\ q[i] = 0
    BY <1>1, <1>2, ElementOfSeq DEF OnlyFirstRead
  <2>3. /\ SubSeq(q, Len(q) - 1, Len(q)) \in Seq(Offset)
        /\ Len(SubSeq(q, Len(q) - 1, Len(q))) = 2
        /\ \A i \in 1 .. 2 : SubSeq(q, Len(q) - 1, Len(q))[i] = q[Len(q) - 1 + i - 1]
    BY <1>1, <2>2, SubSeqProperties
  <2>4. \A i \in 1 .. 2 : Len(q) - 1 + i - 1 \in Len(q) - 1 .. Len(q)
    BY <1>1
  <2>5. \A i \in 1 .. 2 : SubSeq(q, Len(q) - 1, Len(q))[i] = 0
    BY <2>2, <2>3, <2>4
  <2>6. PICK d : /\ d = Discard(q) /\ d \in Seq(Offset) /\ Len(d) = 2
                 /\ \A i \in 1 .. 2 : d[i] = 0
    BY <2>1, <2>3, <2>5
  <2>7. OnlyFirstRead(d) /\ d[1] = 0 /\ Len(d) =< 2
    BY <2>6 DEF OnlyFirstRead
  <2>8. QED
    BY <2>6, <2>7
<1>3. CASE ~(Len(q) > 2)
  <2>1. Discard(q) = q
    BY <1>3 DEF Discard
  <2>2. Len(q) =< 2
    BY <1>1, <1>3
  <2>3. QED
    BY <2>1, <2>2
<1>4. QED
  BY <1>2, <1>3

\* What the eater pushes is whole.
LEMMA Pushed ==
  ASSUME NEW q \in Seq(Offset), OnlyFirstRead(q)
  PROVE  /\ Append(Discard(q), 0) \in Seq(Offset)
         /\ Len(Append(Discard(q), 0)) >= 1 /\ Len(Append(Discard(q), 0)) =< 3
         /\ OnlyFirstRead(Append(Discard(q), 0))
         /\ \/ Append(Discard(q), 0)[1] = 0
            \/ q # <<>> /\ Append(Discard(q), 0)[1] = q[1]
<1>1. 0 \in Offset
  BY HttpAssumption DEF Offset
<1>2. PICK d \in Seq(Offset) :
        /\ d = Discard(q) /\ Len(d) =< 2 /\ OnlyFirstRead(d)
        /\ d # <<>> => d[1] = 0 \/ (q # <<>> /\ d[1] = q[1])
  BY Discarded
<1>3. /\ Append(d, 0) \in Seq(Offset) /\ Len(Append(d, 0)) = Len(d) + 1
      /\ Append(d, 0)[Len(d) + 1] = 0
      /\ \A i \in 1 .. Len(d) : Append(d, 0)[i] = d[i]
  BY <1>1, AppendProperties
<1>4. OnlyFirstRead(Append(d, 0))
  BY <1>2, <1>3 DEF OnlyFirstRead
<1>5. Append(d, 0)[1] = 0 \/ (q # <<>> /\ Append(d, 0)[1] = q[1])
  <2>1. CASE Len(d) = 0
    <3>1. Len(d) + 1 = 1
      BY <2>1
    <3>2. QED
      BY <1>3, <3>1
  <2>2. CASE Len(d) # 0
    <3>1. d # <<>> /\ 1 \in 1 .. Len(d)
      BY <1>2, <2>2, EmptySeq
    <3>2. QED
      BY <1>2, <1>3, <3>1
  <2>3. QED
    BY <2>1, <2>2
<1>6. Len(Append(d, 0)) >= 1 /\ Len(Append(d, 0)) =< 3
  BY <1>2, <1>3, LenProperties
<1>7. QED
  BY <1>2, <1>3, <1>4, <1>5, <1>6

\* The oldest message is used up, or read up to some offset.
LEMMA ReadFrom ==
  ASSUME NEW q \in Seq(Offset), OnlyFirstRead(q), q # <<>>
  PROVE  /\ Head(q) = q[1] /\ q[1] \in Offset /\ Len(q) \in Nat
         /\ Tail(q) \in Seq(Offset) /\ Len(Tail(q)) = Len(q) - 1
         /\ \A i \in 1 .. Len(Tail(q)) : Tail(q)[i] = 0
         /\ \A offs \in Offset :
              LET p == [q EXCEPT ![1] = offs] IN
              /\ p \in Seq(Offset) /\ Len(p) = Len(q)
              /\ \A i \in 1 .. Len(q) : p[i] = IF i = 1 THEN offs ELSE q[i]
<1>1. Len(q) \in Nat \ {0} /\ 1 \in 1 .. Len(q) /\ q[1] \in Offset
  BY EmptySeq, ElementOfSeq
<1>2. /\ Head(q) = q[1] /\ Tail(q) \in Seq(Offset) /\ Len(Tail(q)) = Len(q) - 1
      /\ \A i \in 1 .. Len(Tail(q)) : Tail(q)[i] = q[i + 1]
  BY HeadTailProperties
<1>3. \A i \in 1 .. Len(Tail(q)) : Tail(q)[i] = 0
  BY <1>1, <1>2 DEF OnlyFirstRead
<1>4. QED
  BY <1>1, <1>2, <1>3, ExceptSeq

-----------------------------------------------------------------------------
(* Types, and readers that do not sleep on data.                           *)

\* The methods of audioqueue keep its types.
LEMMA AudioqueueTypes ==
  ASSUME A!QueueTypeOK, NEW t \in Thread, NEW out
  PROVE  /\ A!Put(t, Message, FALSE, out) => A!QueueTypeOK'
         /\ A!SetTerminateAndWait(t, out) => A!QueueTypeOK'
         /\ A!Take(t, out) => A!QueueTypeOK'
         /\ A!WorkerExit(t) => A!QueueTypeOK'
         /\ A!SpuriousWakeup(t) => A!QueueTypeOK'
<1> USE HttpAssumption DEF A!QueueTypeOK
<1>1. /\ A!Signal(a_ccond) \subseteq SUBSET a_ccond
      /\ A!Signal(a_wcond) \subseteq SUBSET a_wcond
  BY DEF A!Signal, A!Asleep
<1>2. \A n \in 0 .. UIntMax : A!Inc(n) \in 0 .. UIntMax /\ A!Dec(n) \in 0 .. UIntMax
  BY SMTT(20) DEF A!Inc, A!Dec
<1>3. A!ClientsAfterWait(t) \in 0 .. UIntMax /\ A!WorkersAfterWait(t) \in 0 .. UIntMax
  BY <1>2 DEF A!ClientsAfterWait, A!WorkersAfterWait
<1>4. ASSUME A!Put(t, Message, FALSE, out)
      PROVE  A!QueueTypeOK'
  <2>1. CASE A!PutFails(t)
    BY <1>3, <1>4, <2>1 DEF A!Put, A!PutFails, A!LeaveClients
  <2>2. CASE A!PutSleeps(t)
    BY <1>2, <1>3, <1>4, <2>2 DEF A!Put, A!PutSleeps, A!SleepClients
  <2>3. CASE A!PutPushes(t, Message, FALSE)
    <3>1. PICK ws \in SUBSET a_wcond : a_woken' = (a_woken \ {t}) \cup ws
      BY <1>1, <2>3 DEF A!PutPushes
    <3>2. QED
      BY <1>3, <1>4, <2>3, <3>1, SMTT(20) DEF A!Put, A!PutPushes, A!LeaveClients
  <2>4. QED
    BY <1>4, <2>1, <2>2, <2>3 DEF A!Put
<1>5. ASSUME A!SetTerminateAndWait(t, out)
      PROVE  A!QueueTypeOK'
  <2>1. CASE A!TerminateFindsNobody(t)
    BY <2>1 DEF A!TerminateFindsNobody, A!queueVars
  <2>2. CASE A!TerminateSleeps(t)
    BY <1>2, <1>3, <2>2 DEF A!TerminateSleeps, A!SleepClients
  <2>3. CASE A!TerminateJoins(t)
    BY <2>3 DEF A!TerminateJoins, A!ResetCounters
  <2>4. QED
    BY <1>5, <2>1, <2>2, <2>3 DEF A!SetTerminateAndWait
<1>6. ASSUME A!Take(t, out)
      PROVE  A!QueueTypeOK'
  <2>1. CASE A!WorkerFails(t) /\ UNCHANGED a_queue
    BY <1>3, <1>6, <2>1 DEF A!Take, A!WorkerFails, A!LeaveWorkers
  <2>2. CASE A!WorkerSleeps(t, 1) /\ UNCHANGED a_queue
    BY <1>2, <1>3, <1>6, <2>2 DEF A!Take, A!WorkerSleeps, A!SleepWorkers
  <2>3. CASE A!TakePops(t)
    <3>1. PICK ws \in SUBSET a_ccond : a_woken' = (a_woken \ {t}) \cup ws
      BY <1>1, <2>3 DEF A!TakePops
    <3>2. a_queue' \in Seq({Message})
      BY <2>3, HeadTailProperties DEF A!TakePops, A!Short
    <3>3. QED
      BY <1>3, <1>6, <2>3, <3>1, <3>2 DEF A!Take, A!TakePops, A!LeaveWorkers
  <2>4. QED
    BY <1>6, <2>1, <2>2, <2>3 DEF A!Take
<1>7. A!WorkerExit(t) => A!QueueTypeOK'
  BY <1>2 DEF A!WorkerExit
<1>8. A!SpuriousWakeup(t) => A!QueueTypeOK'
  BY DEF A!SpuriousWakeup, A!Asleep
<1>9. QED
  BY <1>4, <1>5, <1>6, <1>7, <1>8

PlacesOK ==
  /\ pc \in [Thread -> {"running", "put", "dtorA", "ended", "start", "take", "push",
                        "stop", "exitA", "gone"}]
  /\ pc["ohm"] \in {"running", "put", "dtorA", "ended"}
  /\ pc["main"] \in {"running", "dtorA", "ended"}
  /\ pc["eater"] \in {"start", "take", "push", "stop", "exitA", "gone"}

\* The queue between the eater and the connections, under its lock.
Context == [base : Nat, pos : Nat, bytes : 0 .. Block, fixed : BOOLEAN]
GateOK ==
  /\ dataqueue \in Seq(Offset) /\ Len(dataqueue) =< 3 /\ OnlyFirstRead(dataqueue)
  /\ holder \in Conn \cup {Nobody}
  /\ conn \in [Conn -> ConnState]
  /\ \A k \in Conn : conn[k] = "call" <=> holder = k
  /\ rc \in [Conn -> Context]
  /\ opens \in 0 .. MaxOpens
  /\ NoStrandedReader

QuietOK ==
  /\ A!QueueTypeOK
  /\ PlacesOK
  /\ stream \in Streams
  /\ arrived \in 0 .. NMsg

\* The invariant.
GateInv == QuietOK /\ GateOK

\* The invariant is at least what the readers need.
LEMMA InvServes == GateInv => DataqueueServes
  BY DEF GateInv, QuietOK, PlacesOK, GateOK, Context, Offset, DataqueueServes,
     DataqueueBounded, TypeOK

\* At the start nothing has come and no client is there.
LEMMA GateInit == Init => GateInv
<1> SUFFICES ASSUME Init PROVE GateInv
  OBVIOUS
<1> USE HttpAssumption
<1>1. A!QueueTypeOK
  BY EmptySeq DEF Init, A!QueueTypeOK, Thread
<1>2. PlacesOK
  BY DEF Init, PlacesOK, Thread
<1>3. dataqueue \in Seq(Offset) /\ Len(dataqueue) = 0
  BY EmptySeq DEF Init
<1>4. rc \in [Conn -> Context]
  BY DEF Init, Fresh, Context
<1>5. conn = [k \in Conn |-> "closed"] /\ holder = Nobody /\ dataqueue = <<>> /\ opens = 0
  BY DEF Init
<1>6. GateOK
  BY <1>3, <1>4, <1>5 DEF GateOK, OnlyFirstRead, NoStrandedReader, ConnState
<1>7. QED
  BY <1>1, <1>2, <1>6 DEF Init, GateInv, QuietOK

\* What Fill copies stays inside the message and inside the block: the header fits
\* into the first one.
LEMMA FillFits ==
  ASSUME GateOK, NEW k \in Conn, Filling(k), dataqueue # <<>>
  PROVE  /\ From(k) \in 0 .. MsgBytes /\ To(k) \in rc[k].bytes .. Block
         /\ NewBytes(k) \in Nat
         /\ From(k) + NewBytes(k) \in 0 .. MsgBytes
         /\ To(k) + NewBytes(k) \in 0 .. Block
<1> USE HttpAssumption
<1>1. Head(dataqueue) \in 0 .. MsgBytes - 1
  BY HeadTailProperties DEF GateOK, Offset
<1>2. rc[k].bytes \in 0 .. Block
  BY DEF GateOK, Context
<1>3. From(k) \in 0 .. MsgBytes
  BY <1>1 DEF From
<1>4. To(k) \in rc[k].bytes .. Block
  BY <1>2 DEF To, HeaderBytes, Filling
<1>5. \/ NewBytes(k) = Block - To(k) /\ Block - To(k) =< MsgBytes - From(k)
      \/ NewBytes(k) = MsgBytes - From(k) /\ MsgBytes - From(k) =< Block - To(k)
  <2>1. Block - To(k) \in Int /\ MsgBytes - From(k) \in Int
    BY <1>2, <1>3, <1>4
  <2>2. QED
    BY <2>1 DEF NewBytes
<1>6. \A f \in 0 .. MsgBytes, t \in Int, n \in Int :
        /\ t =< Block
        /\ \/ n = Block - t /\ Block - t =< MsgBytes - f
           \/ n = MsgBytes - f /\ MsgBytes - f =< Block - t
        => n >= 0 /\ f + n =< MsgBytes /\ t + n =< Block
  OBVIOUS
<1>7. NewBytes(k) \in Int /\ To(k) \in Int /\ To(k) =< Block /\ To(k) >= 0
  BY <1>2, <1>3, <1>4, <1>5, SMTT(20)
<1>8. /\ NewBytes(k) >= 0 /\ From(k) + NewBytes(k) =< MsgBytes
      /\ To(k) + NewBytes(k) =< Block
  BY <1>3, <1>5, <1>6, <1>7
<1>9. QED
  BY <1>3, <1>4, <1>7, <1>8

\* The members of a context after Fill and Return.
LEMMA ContextsKept ==
  ASSUME rc \in [Conn -> Context], NEW k \in Conn, NEW n \in 0 .. Block, NEW p \in Nat,
         NEW b \in BOOLEAN
  PROVE  /\ [rc EXCEPT ![k].bytes = n, ![k].fixed = b] \in [Conn -> Context]
         /\ [rc EXCEPT ![k].pos = p, ![k].bytes = n, ![k].fixed = b] \in [Conn -> Context]
  BY DEF Context

\* No step of a thread, a client or microhttpd disturbs the data queue's part.
LEMMA GateStep == GateInv /\ [Next]_vars => GateOK'
<1> SUFFICES ASSUME GateInv, [Next]_vars PROVE GateOK'
  OBVIOUS
<1>g. GateOK
  BY DEF GateInv
<1>u. ASSUME UNCHANGED gateVars PROVE GateOK'
  BY <1>g, <1>u DEF gateVars, GateOK, NoStrandedReader
<1>1. CASE Process \/ Quit \/ MainStep \/ EaterStart \/ EaterStopped \/ EaterExits
           \/ UNCHANGED vars
  BY <1>1, <1>u DEF Process, Quit, MainStep, ProcessPut, DestroyAudioqueue, EaterStart,
     EaterStopped, EaterExits, vars
<1>2. ASSUME NEW out \in Outcome, EaterTake(out) PROVE GateOK'
  BY <1>2, <1>u DEF EaterTake
<1>3. ASSUME NEW t \in Thread, A!SpuriousWakeup(t),
             UNCHANGED <<pc, stream, arrived, gateVars>>
      PROVE  GateOK'
  BY <1>3, <1>u
<1>4. CASE EaterPush
  <2>1. dataqueue' = Append(Discard(dataqueue), 0) /\ UNCHANGED <<holder, rc, opens>>
    BY <1>4 DEF EaterPush
  <2>2. dataqueue' \in Seq(Offset) /\ Len(dataqueue') =< 3 /\ OnlyFirstRead(dataqueue')
    BY <1>g, <2>1, Pushed DEF GateOK
  <2>3. /\ conn' \in [Conn -> ConnState]
        /\ \A k \in Conn : conn'[k] # "asleep" /\ (conn'[k] = "call" <=> conn[k] = "call")
    BY <1>4, <1>g DEF EaterPush, WakeAll, GateOK, ConnState
  <2>4. QED
    BY <1>g, <2>1, <2>2, <2>3 DEF GateOK, NoStrandedReader
<1>5. ASSUME NEW k \in Conn, StopCloses(k) \/ Close(k) PROVE GateOK'
  BY <1>5, <1>g DEF StopCloses, Close, GateOK, NoStrandedReader, ConnState
<1>6. ASSUME NEW k \in Conn, NEW base \in Bases, Open(k, base) PROVE GateOK'
  <2>1. rc' \in [Conn -> Context] /\ opens' \in 0 .. MaxOpens
    BY <1>6, <1>g, HttpAssumption, SMTT(20) DEF Open, Fresh, Context, GateOK
  <2>2. QED
    BY <1>6, <1>g, <2>1 DEF Open, GateOK, NoStrandedReader, ConnState
<1>7. ASSUME NEW k \in Conn, Enter(k) PROVE GateOK'
  BY <1>7, <1>g, HttpAssumption DEF Enter, GateOK, NoStrandedReader, ConnState
<1>8. ASSUME NEW k \in Conn, Fill(k) PROVE GateOK'
  <2>1. /\ Filling(k) /\ dataqueue # <<>> /\ UNCHANGED <<holder, conn, opens>>
        /\ rc' = [rc EXCEPT ![k].bytes = To(k) + NewBytes(k),
                            ![k].fixed = rc[k].fixed \/ Fixes(k)]
    BY <1>8 DEF Fill
  <2>2. /\ From(k) + NewBytes(k) \in 0 .. MsgBytes
        /\ To(k) + NewBytes(k) \in 0 .. Block
    BY <1>g, <2>1, FillFits
  <2>3. rc' \in [Conn -> Context]
    <3>1. PICK n \in 0 .. Block, b \in BOOLEAN :
            rc' = [rc EXCEPT ![k].bytes = n, ![k].fixed = b]
      BY <2>1, <2>2, Zenon
    <3>2. QED
      BY <1>g, <3>1, ContextsKept DEF GateOK
  <2>4. dataqueue' \in Seq(Offset) /\ Len(dataqueue') =< 3 /\ OnlyFirstRead(dataqueue')
    <3> DEFINE offs == From(k) + NewBytes(k)
    <3>1. dataqueue' = IF offs = MsgBytes THEN Tail(dataqueue)
                                          ELSE [dataqueue EXCEPT ![1] = offs]
      BY <1>8 DEF Fill, UsedUp
    <3>a. offs \in 0 .. MsgBytes
      BY <2>2
    <3> HIDE DEF offs
    <3>2. offs # MsgBytes => offs \in Offset
      BY <3>a, HttpAssumption DEF Offset
    <3>3. CASE offs = MsgBytes
      BY <1>g, <2>1, <3>1, <3>3, ReadFrom DEF GateOK, OnlyFirstRead
    <3>4. CASE offs # MsgBytes
      BY <1>g, <2>1, <3>1, <3>2, <3>4, ReadFrom DEF GateOK, OnlyFirstRead
    <3>5. QED
      BY <3>3, <3>4
  <2>5. NoStrandedReader'
    BY <1>g, <2>1 DEF GateOK, NoStrandedReader
  <2>6. QED
    BY <1>g, <2>1, <2>3, <2>4, <2>5 DEF GateOK
<1>9. ASSUME NEW k \in Conn, WaitForData(k) PROVE GateOK'
  BY <1>9, <1>g, HttpAssumption
     DEF WaitForData, Filling, GateOK, NoStrandedReader, ConnState
<1>10. ASSUME NEW k \in Conn, Resume(k) PROVE GateOK'
  BY <1>10, <1>g, HttpAssumption, SMTT(20) DEF Resume, GateOK, NoStrandedReader, ConnState
<1>11. ASSUME NEW k \in Conn, SpuriousResume(k) PROVE GateOK'
  BY <1>11, <1>g DEF SpuriousResume, GateOK, NoStrandedReader, ConnState
<1>12. ASSUME NEW k \in Conn, Return(k) PROVE GateOK'
  <2>1. /\ holder = k /\ holder' = Nobody /\ conn' = [conn EXCEPT ![k] = "open"]
        /\ rc' = [rc EXCEPT ![k].pos = rc[k].pos + rc[k].bytes, ![k].bytes = 0,
                            ![k].fixed = FALSE]
        /\ UNCHANGED <<dataqueue, opens>>
    BY <1>12 DEF Return
  <2>2. rc[k].pos + rc[k].bytes \in Nat /\ 0 \in 0 .. Block
    BY <1>g, HttpAssumption, SMTT(20) DEF GateOK, Context
  <2>3. rc' \in [Conn -> Context]
    BY <1>g, <2>1, <2>2, ContextsKept DEF GateOK
  <2>4. QED
    BY <1>g, <2>1, <2>3, HttpAssumption DEF GateOK, NoStrandedReader, ConnState
<1>13. QED
  BY <1>1, <1>2, <1>3, <1>4, <1>5, <1>6, <1>7, <1>8, <1>9, <1>10, <1>11, <1>12
  DEF Next, EaterStep, ConnStep

\* Nor the part about who uses the queue, and the constants of the stream.
LEMMA QuietStep == GateInv /\ [Next]_vars => QuietOK'
<1> SUFFICES ASSUME GateInv, [Next]_vars PROVE QuietOK'
  OBVIOUS
<1>q. QuietOK
  BY DEF GateInv
<1>u. UNCHANGED aVars => A!QueueTypeOK'
  BY <1>q DEF QuietOK, aVars, A!QueueTypeOK
<1>t. {"main", "ohm", "eater"} = Thread
  BY DEF Thread
<1>p. \A t \in Thread : \A label : Goto(t, label) => pc' = [pc EXCEPT ![t] = label]
  BY DEF Goto
<1> USE DEF QuietOK
<1>1. CASE Process
  BY <1>1, <1>q, <1>u, <1>p, <1>t, HttpAssumption DEF Process, PlacesOK, Thread
<1>2. CASE Quit \/ EaterStart \/ EaterPush \/ EaterStopped
  BY <1>2, <1>q, <1>u, <1>p, <1>t
  DEF Quit, EaterStart, EaterPush, EaterStopped, PlacesOK, Thread
<1>3. ASSUME NEW out \in Outcome, ProcessPut(out) PROVE QuietOK'
  <2>1. A!QueueTypeOK'
    BY <1>3, <1>q, <1>t, AudioqueueTypes DEF ProcessPut
  <2>2. pc' = pc \/ Goto("ohm", "running") \/ Goto("ohm", "dtorA")
    BY <1>3 DEF ProcessPut, Outcome
  <2>3. PlacesOK'
    BY <1>q, <1>p, <1>t, <2>2 DEF PlacesOK, Thread
  <2>4. QED
    BY <1>3, <1>q, <2>1, <2>3 DEF ProcessPut
<1>4. ASSUME NEW t \in {"main", "ohm"}, NEW out \in Outcome, DestroyAudioqueue(t, out)
      PROVE  QuietOK'
  <2>1. A!QueueTypeOK'
    BY <1>4, <1>q, <1>t, AudioqueueTypes DEF DestroyAudioqueue
  <2>2. pc' = pc \/ Goto(t, "ended")
    BY <1>4 DEF DestroyAudioqueue
  <2>3. PlacesOK'
    BY <1>q, <1>p, <1>t, <2>2 DEF PlacesOK, Thread
  <2>4. QED
    BY <1>4, <1>q, <2>1, <2>3 DEF DestroyAudioqueue
<1>5. ASSUME NEW out \in Outcome, EaterTake(out) PROVE QuietOK'
  <2>1. A!QueueTypeOK'
    BY <1>5, <1>q, <1>t, AudioqueueTypes DEF EaterTake
  <2>2. pc' = pc \/ Goto("eater", "push") \/ Goto("eater", "stop")
    BY <1>5 DEF EaterTake, Outcome
  <2>3. PlacesOK'
    BY <1>q, <1>p, <1>t, <2>2 DEF PlacesOK, Thread
  <2>4. QED
    BY <1>5, <1>q, <2>1, <2>3 DEF EaterTake
<1>6. CASE EaterExits
  <2>1. A!QueueTypeOK'
    BY <1>6, <1>q, <1>t, AudioqueueTypes DEF EaterExits
  <2>2. QED
    BY <1>6, <1>q, <1>p, <1>t, <2>1 DEF EaterExits, PlacesOK, Thread
<1>7. ASSUME NEW t \in Thread, A!SpuriousWakeup(t),
             UNCHANGED <<pc, stream, arrived, gateVars>>
      PROVE  QuietOK'
  BY <1>7, <1>q, AudioqueueTypes DEF PlacesOK
<1>8. ASSUME UNCHANGED <<aVars, pc, stream, arrived>>
      PROVE  QuietOK'
  BY <1>8, <1>q, <1>u DEF PlacesOK
<1>9. ASSUME NEW k \in Conn,
             \/ StopCloses(k) \/ Close(k) \/ Enter(k) \/ Fill(k) \/ WaitForData(k)
             \/ Resume(k) \/ SpuriousResume(k) \/ Return(k)
             \/ \E base \in Bases : Open(k, base)
      PROVE  QuietOK'
  BY <1>8, <1>9
  DEF StopCloses, Close, Enter, Fill, WaitForData, Resume, SpuriousResume, Return, Open
<1>10. CASE UNCHANGED vars
  BY <1>8, <1>10 DEF vars
<1>11. QED
  BY <1>1, <1>2, <1>3, <1>4, <1>5, <1>6, <1>7, <1>9, <1>10
  DEF Next, MainStep, EaterStep, ConnStep

\* However slow the readers and however many, at most 3 messages are kept for them,
\* their read positions stay inside the messages, and none sleeps on data
\* (httpgate.cpp:98-163, 339-345).
THEOREM ServesReaders == Spec => []DataqueueServes
<1>1. GateInv /\ [Next]_vars => GateInv'
  BY GateStep, QuietStep DEF GateInv
<1>2. QED
  BY <1>1, GateInit, InvServes, PTL DEF Spec

-----------------------------------------------------------------------------
(* Frames.                                                                 *)

\* Sums and differences of whole frames are whole frames.
LEMMA WholeFrames ==
  ASSUME NEW f \in Nat \ {0}
  PROVE  /\ 0 % f = 0
         /\ \A a, b \in Int : a % f = 0 /\ b % f = 0 => (a + b) % f = 0
         /\ \A a, b \in Int : a % f = 0 /\ b % f = 0 => (a - b) % f = 0
<1>1. \A a \in Int : a % f = 0 => \E q \in Int : a = f * q
  OBVIOUS
<1>2. \A q \in Int : (f * q) % f = 0
  OBVIOUS
<1>3. ASSUME NEW a \in Int, NEW b \in Int, a % f = 0, b % f = 0
      PROVE  (a + b) % f = 0 /\ (a - b) % f = 0
  <2>1. PICK p \in Int : a = f * p
    BY <1>1, <1>3
  <2>2. PICK q \in Int : b = f * q
    BY <1>1, <1>3
  <2>3. a + b = f * (p + q) /\ a - b = f * (p - q) /\ p + q \in Int /\ p - q \in Int
    BY <2>1, <2>2
  <2>4. QED
    BY <1>2, <2>3
<1>4. 0 % f = 0
  OBVIOUS
<1>5. QED
  BY <1>3, <1>4, Zenon

\* The stream's frame divides a message.
LEMMA StreamIs ==
  ASSUME QuietOK
  PROVE  stream.frame \in Nat \ {0} /\ MsgBytes % stream.frame = 0
  BY HttpAssumption DEF QuietOK

\* Frames divide what is read and what is sent, when they divide header and block.
FramesFit == Header % stream.frame = 0 /\ Block % stream.frame = 0
InFrames ==
  FramesFit =>
    /\ \A i \in 1 .. Len(dataqueue) : dataqueue[i] % stream.frame = 0
    /\ \A k \in Conn : rc[k].pos % stream.frame = 0 /\ rc[k].bytes % stream.frame = 0

\* A single client that has discarded a partial message goes on with a whole one.
JustFixed(k) ==
  rc[k].fixed /\ rc[k].base = Header /\ rc[k].pos = 0 /\ rc[k].bytes = 0
StartsWhole ==
  \A k \in Conn :
    stream.clients = {k} /\ JustFixed(k) => dataqueue = <<>> \/ dataqueue[1] = 0

OnlyClients == \A k \in Conn : conn[k] # "closed" => k \in stream.clients

FramesInv == InFrames /\ StartsWhole /\ OnlyClients

\* At the start everything is at the beginning of a frame.
LEMMA FramesInit == Init => FramesInv
<1> SUFFICES ASSUME Init PROVE FramesInv
  OBVIOUS
<1>1. /\ Len(dataqueue) = 0 /\ dataqueue = <<>> /\ conn = [k \in Conn |-> "closed"]
      /\ \A k \in Conn : rc[k].pos = 0 /\ rc[k].bytes = 0
  BY EmptySeq DEF Init, Fresh
<1>2. 0 % stream.frame = 0
  BY GateInit, StreamIs, WholeFrames DEF GateInv
<1>3. QED
  BY <1>1, <1>2 DEF FramesInv, InFrames, StartsWhole, OnlyClients

\* What Fill copies is a number of frames.
LEMMA FillInFrames ==
  ASSUME GateInv, InFrames, FramesFit, NEW k \in Conn, Filling(k), dataqueue # <<>>
  PROVE  /\ From(k) % stream.frame = 0
         /\ To(k) % stream.frame = 0
         /\ NewBytes(k) % stream.frame = 0
<1> DEFINE f == stream.frame
<1>1. f \in Nat \ {0} /\ MsgBytes % f = 0
  BY StreamIs DEF GateInv
<1>2. Header % f = 0 /\ Block % f = 0
  BY DEF FramesFit
<1>3. Head(dataqueue) % f = 0 /\ Head(dataqueue) \in Int
  <2>1. Head(dataqueue) = dataqueue[1] /\ dataqueue[1] \in Offset /\ 1 \in 1 .. Len(dataqueue)
    BY ReadFrom, EmptySeq DEF GateInv, GateOK
  <2>2. QED
    BY <2>1, HttpAssumption DEF InFrames, Offset
<1>4. rc[k].bytes % f = 0 /\ rc[k].bytes \in Int /\ To(k) \in Int /\ From(k) \in Int
  BY FillFits DEF InFrames, GateInv, GateOK, Context
<1> HIDE DEF f
<1>5. From(k) % f = 0
  BY <1>1, <1>3 DEF From
<1>6. To(k) % f = 0
  <2>1. HeaderBytes(k) \in Int /\ HeaderBytes(k) % f = 0
    <3>1. HeaderBytes(k) \in {0, Header} /\ Header \in Int
      BY HttpAssumption DEF HeaderBytes
    <3>2. QED
      BY <1>1, <1>2, <3>1, WholeFrames
  <2>2. QED
    BY <1>1, <1>4, <2>1, WholeFrames DEF To
<1>7. NewBytes(k) % f = 0
  <2>1. Block \in Int /\ MsgBytes \in Int
    BY HttpAssumption
  <2>2. (Block - To(k)) % f = 0
    BY <1>1, <1>2, <1>4, <1>6, <2>1, WholeFrames
  <2>3. (MsgBytes - From(k)) % f = 0
    BY <1>1, <1>4, <1>5, <2>1, WholeFrames
  <2>4. NewBytes(k) = Block - To(k) \/ NewBytes(k) = MsgBytes - From(k)
    BY DEF NewBytes
  <2>5. QED
    BY <2>2, <2>3, <2>4
<1>8. QED
  BY <1>5, <1>6, <1>7 DEF f

\* Every step keeps whole frames whole.
LEMMA FramesStep == GateInv /\ FramesInv /\ [Next]_vars => FramesInv'
<1> SUFFICES ASSUME GateInv, FramesInv, [Next]_vars PROVE FramesInv'
  OBVIOUS
<1>g. GateOK /\ InFrames /\ StartsWhole /\ OnlyClients
  BY DEF GateInv, FramesInv
<1>f. stream.frame \in Nat \ {0} /\ 0 % stream.frame = 0
  BY StreamIs, WholeFrames DEF GateInv
<1>u. ASSUME UNCHANGED <<stream, dataqueue, rc>>,
             \A k \in Conn : conn'[k] # "closed" => conn[k] # "closed"
      PROVE  FramesInv'
  BY <1>g, <1>u
  DEF FramesInv, InFrames, FramesFit, StartsWhole, JustFixed, OnlyClients
<1>1. CASE Process \/ Quit \/ MainStep \/ EaterStart \/ EaterStopped \/ EaterExits
           \/ UNCHANGED vars
  BY <1>1, <1>u DEF Process, Quit, MainStep, ProcessPut, DestroyAudioqueue, EaterStart,
     EaterStopped, EaterExits, vars, gateVars
<1>2. ASSUME NEW out \in Outcome, EaterTake(out) PROVE FramesInv'
  BY <1>2, <1>u DEF EaterTake, gateVars
<1>3. ASSUME NEW t \in Thread, A!SpuriousWakeup(t),
             UNCHANGED <<pc, stream, arrived, gateVars>>
      PROVE  FramesInv'
  BY <1>3, <1>u DEF gateVars
<1>4. CASE EaterPush
  <2>1. /\ dataqueue' = Append(Discard(dataqueue), 0) /\ UNCHANGED <<stream, rc>>
        /\ OnlyFirstRead(dataqueue') /\ dataqueue' \in Seq(Offset)
        /\ dataqueue'[1] = 0 \/ (dataqueue # <<>> /\ dataqueue'[1] = dataqueue[1])
    BY <1>4, <1>g, Pushed DEF EaterPush, GateOK
  <2>2. dataqueue # <<>> => 1 \in 1 .. Len(dataqueue)
    BY <1>g, EmptySeq DEF GateOK
  <2>3. \A i \in 1 .. Len(dataqueue') :
          dataqueue'[i] = 0 \/ (dataqueue # <<>> /\ dataqueue'[i] = dataqueue[1])
    BY <2>1, LenProperties DEF OnlyFirstRead
  <2>4. InFrames'
    BY <1>g, <1>f, <2>1, <2>2, <2>3 DEF InFrames, FramesFit
  <2>5. StartsWhole'
    BY <1>g, <2>1 DEF StartsWhole, JustFixed
  <2>6. OnlyClients'
    BY <1>4, <1>g, <2>1 DEF EaterPush, WakeAll, OnlyClients, GateOK
  <2>7. QED
    BY <2>4, <2>5, <2>6 DEF FramesInv
<1>5. ASSUME NEW k \in Conn,
             \/ StopCloses(k) \/ Close(k) \/ Enter(k) \/ WaitForData(k) \/ Resume(k)
             \/ SpuriousResume(k)
      PROVE  FramesInv'
  <2>1. UNCHANGED <<stream, dataqueue, rc>>
    BY <1>5 DEF StopCloses, Close, Enter, WaitForData, Resume, SpuriousResume
  <2>2. \A j \in Conn : conn'[j] # "closed" => conn[j] # "closed"
    BY <1>5, <1>g
    DEF StopCloses, Close, Enter, WaitForData, Filling, Resume, SpuriousResume, GateOK
  <2>3. QED
    BY <1>u, <2>1, <2>2
<1>6. ASSUME NEW k \in Conn, NEW base \in Bases, Open(k, base) PROVE FramesInv'
  <2>1. /\ UNCHANGED <<stream, dataqueue>> /\ k \in stream.clients
        /\ conn' = [conn EXCEPT ![k] = "open"]
        /\ \A j \in Conn : rc'[j] = IF j = k THEN Fresh(base) ELSE rc[j]
    BY <1>6, <1>g DEF Open, GateOK
  <2>2. InFrames'
    BY <1>g, <1>f, <2>1 DEF InFrames, FramesFit, Fresh
  <2>3. StartsWhole'
    BY <1>g, <2>1 DEF StartsWhole, JustFixed, Fresh
  <2>4. OnlyClients'
    BY <1>g, <2>1 DEF OnlyClients, GateOK
  <2>5. QED
    BY <2>2, <2>3, <2>4 DEF FramesInv
<1>7. ASSUME NEW k \in Conn, Fill(k) PROVE FramesInv'
  <2> DEFINE n == NewBytes(k)
             offs == From(k) + n
  <2>1. /\ Filling(k) /\ dataqueue # <<>> /\ UNCHANGED <<stream, conn>>
        /\ dataqueue' = IF offs = MsgBytes THEN Tail(dataqueue)
                                           ELSE [dataqueue EXCEPT ![1] = offs]
        /\ \A j \in Conn : j # k => rc'[j] = rc[j]
        /\ rc'[k].pos = rc[k].pos /\ rc'[k].base = rc[k].base
        /\ rc'[k].bytes = To(k) + n
    BY <1>7, <1>g DEF Fill, UsedUp, GateOK, Context
  <2>2. /\ From(k) \in 0 .. MsgBytes /\ To(k) \in rc[k].bytes .. Block /\ n \in Nat
        /\ offs \in 0 .. MsgBytes
    BY <1>g, <2>1, FillFits
  <2>3. /\ offs = MsgBytes => \A i \in 1 .. Len(dataqueue') : dataqueue'[i] = 0
        /\ offs # MsgBytes =>
             /\ Len(dataqueue') = Len(dataqueue)
             /\ \A i \in 1 .. Len(dataqueue) :
                  dataqueue'[i] = IF i = 1 THEN offs ELSE dataqueue[i]
    <3> HIDE DEF n, offs
    <3>1. offs # MsgBytes => offs \in Offset
      BY <2>2, HttpAssumption DEF Offset
    <3>2. CASE offs = MsgBytes
      BY <1>g, <2>1, <3>2, ReadFrom DEF GateOK
    <3>3. CASE offs # MsgBytes
      BY <1>g, <2>1, <3>1, <3>3, ReadFrom DEF GateOK
    <3>4. QED
      BY <3>2, <3>3
  <2>4. InFrames'
    <3> SUFFICES ASSUME FramesFit
                 PROVE  /\ \A i \in 1 .. Len(dataqueue') : dataqueue'[i] % stream.frame = 0
                        /\ \A j \in Conn : /\ rc'[j].pos % stream.frame = 0
                                           /\ rc'[j].bytes % stream.frame = 0
      BY <2>1 DEF InFrames, FramesFit
    <3>1. /\ From(k) % stream.frame = 0 /\ To(k) % stream.frame = 0
          /\ n % stream.frame = 0
      BY <1>g, <2>1, FillInFrames
    <3>2. (To(k) + n) % stream.frame = 0 /\ offs % stream.frame = 0
      BY <1>f, <2>2, <3>1, WholeFrames
    <3> HIDE DEF n, offs
    <3>3. \A i \in 1 .. Len(dataqueue') : dataqueue'[i] % stream.frame = 0
      BY <1>g, <1>f, <2>3, <3>2 DEF InFrames
    <3>4. QED
      BY <1>g, <2>1, <3>2, <3>3 DEF InFrames
  <2>5. StartsWhole'
    <3> SUFFICES ASSUME NEW j \in Conn, stream.clients = {j}, JustFixed(j)'
                 PROVE  dataqueue' = <<>> \/ dataqueue'[1] = 0
      BY <2>1 DEF StartsWhole
    <3>1. j = k
      BY <1>g, <2>1 DEF OnlyClients, GateOK, Filling
    <3>2. To(k) + n = 0
      BY <2>1, <3>1 DEF JustFixed
    <3>3. n = 0 /\ To(k) = 0
      BY <1>g, <2>2, <3>2, SMTT(20) DEF GateOK, Context
    <3>4. n = MsgBytes - From(k)
      BY <2>2, <3>3, HttpAssumption DEF NewBytes
    <3>5. offs = MsgBytes
      BY <2>2, <3>4, HttpAssumption
    <3>6. dataqueue' = Tail(dataqueue) /\ Tail(dataqueue) \in Seq(Offset)
      BY <1>g, <2>1, <3>5, ReadFrom DEF GateOK
    <3>7. dataqueue' # <<>> => 1 \in 1 .. Len(dataqueue')
      BY <3>6, EmptySeq
    <3>8. QED
      BY <2>3, <3>5, <3>7
  <2>6. OnlyClients'
    BY <1>g, <2>1 DEF OnlyClients
  <2>7. QED
    BY <2>4, <2>5, <2>6 DEF FramesInv
<1>8. ASSUME NEW k \in Conn, Return(k) PROVE FramesInv'
  <2>1. /\ UNCHANGED <<stream, dataqueue>> /\ conn' = [conn EXCEPT ![k] = "open"]
        /\ holder = k /\ conn[k] = "call"
        /\ \A j \in Conn : j # k => rc'[j] = rc[j]
        /\ rc'[k].pos = rc[k].pos + rc[k].bytes /\ rc'[k].bytes = 0
        /\ rc'[k].fixed = FALSE
    BY <1>8, <1>g DEF Return, GateOK, Context
  <2>2. rc[k].pos \in Int /\ rc[k].bytes \in Int
    BY <1>g DEF GateOK, Context
  <2>3. FramesFit => rc'[k].pos % stream.frame = 0
    BY <1>g, <1>f, <2>1, <2>2, WholeFrames DEF InFrames
  <2>a. InFrames'
    BY <1>g, <1>f, <2>1, <2>3 DEF InFrames, FramesFit
  <2>4. StartsWhole'
    BY <1>g, <2>1 DEF StartsWhole, JustFixed
  <2>5. OnlyClients'
    BY <1>g, <2>1 DEF OnlyClients, GateOK
  <2>6. QED
    BY <2>a, <2>4, <2>5 DEF FramesInv
<1>9. QED
  BY <1>1, <1>2, <1>3, <1>4, <1>5, <1>6, <1>7, <1>8
  DEF Next, EaterStep, ConnStep

\* In such a state, what is copied is at its place in a frame.
LEMMA CopiesAligned ==
  ASSUME GateInv, FramesInv, NEW k \in Conn, Filling(k), dataqueue # <<>>
  PROVE  StreamAligned(k) /\ RestartAligned(k)
<1> DEFINE f == stream.frame
<1>1. f \in Nat \ {0} /\ MsgBytes % f = 0 /\ 0 % f = 0
  BY StreamIs, WholeFrames DEF GateInv
<1>2. /\ rc[k].base \in Nat /\ rc[k].pos \in Nat /\ rc[k].bytes \in Nat /\ Header \in Nat
      /\ To(k) \in Int /\ To(k) >= rc[k].bytes /\ From(k) \in Int
  <2>1. rc[k] \in Context /\ Header \in Nat /\ Block \in Nat
    BY HttpAssumption DEF GateInv, GateOK
  <2>2. From(k) \in 0 .. MsgBytes /\ To(k) \in rc[k].bytes .. Block
    BY FillFits DEF GateInv
  <2>3. rc[k].base \in Nat /\ rc[k].pos \in Nat /\ rc[k].bytes \in Nat
    BY <2>1 DEF Context
  <2>4. QED
    BY <2>1, <2>2, <2>3
<1>3. ASSUME FramesFit, rc[k].base % f = 0
      PROVE  StreamOffset(k) % f = From(k) % f
  <2>1. From(k) % f = 0 /\ To(k) % f = 0 /\ rc[k].pos % f = 0 /\ Header % f = 0
    BY <1>3, FillInFrames DEF FramesInv, InFrames, FramesFit
  <2> HIDE DEF f
  <2>2. PICK b \in Int, p \in Int, t \in Int, h \in Int :
          b = rc[k].base /\ p = rc[k].pos /\ t = To(k) /\ h = Header
    BY <1>2
  <2>3. b % f = 0 /\ p % f = 0 /\ t % f = 0 /\ h % f = 0
    BY <1>3, <2>1, <2>2
  <2>4. b + p \in Int /\ t - h \in Int
    OBVIOUS
  <2>5. (b + p) % f = 0 /\ (t - h) % f = 0
    BY <1>1, <2>3, WholeFrames
  <2>6. (b + p + (t - h)) % f = 0
    BY <1>1, <2>4, <2>5, WholeFrames, Zenon
  <2>7. StreamOffset(k) = b + p + (t - h)
    BY <2>2 DEF StreamOffset
  <2>8. QED
    BY <2>1, <2>6, <2>7
<1>4. ASSUME stream.clients = {k}, rc[k].base = Header, StreamOffset(k) = 0
      PROVE  From(k) % f = 0
  <2>1. rc[k].pos = 0 /\ rc[k].bytes = 0
    BY <1>2, <1>4 DEF StreamOffset
  <2>2. CASE Fixes(k)
    BY <1>1, <2>2 DEF From
  <2>3. CASE ~Fixes(k)
    <3>1. Head(dataqueue) = dataqueue[1]
      BY ReadFrom DEF GateInv, GateOK
    <3>2. rc[k].base + rc[k].pos = Header
      BY <1>2, <1>4, <2>1
    <3>3. Head(dataqueue) # 0 => JustFixed(k)
      BY <1>4, <2>1, <2>3, <3>2 DEF Fixes, JustFixed
    <3>4. Head(dataqueue) = 0
      BY <1>4, <3>1, <3>3 DEF FramesInv, StartsWhole
    <3>5. QED
      BY <1>1, <2>3, <3>4 DEF From
  <2>4. QED
    BY <2>2, <2>3
<1>5. QED
  BY <1>3, <1>4 DEF StreamAligned, RestartAligned, FramesFit

\* What clients receive never is the inside of a frame taken for its beginning: of
\* any number of them, in any state, however messages are dropped, split between
\* blocks and shared between connections (httpgate.cpp:98-163).
THEOREM ServesFrames == Spec => Aligned
<1>1. GateInv /\ FramesInv /\ [Next]_vars => (GateInv /\ FramesInv)'
  BY GateStep, QuietStep, FramesStep DEF GateInv
<1>2. GateInv /\ FramesInv /\ [Next]_vars
        => [\A k \in Conn : Copies(k) => StreamAligned(k) /\ RestartAligned(k)]_vars
  BY CopiesAligned DEF Copies, Fill
<1>3. QED
  BY <1>1, <1>2, GateInit, FramesInit, PTL DEF Spec, Aligned
=============================================================================
