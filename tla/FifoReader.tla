----------------------------- MODULE FifoReader ------------------------------
(***************************************************************************)
(* The fifo source of src/mpd2src/fiforeader.cpp with its caller: mpd      *)
(* writes audio into a pipe, FifoReader::data reads packets out of it and  *)
(* either PcmSender::busyRdWr (blocking source) or PcmSender::TimerExpired *)
(* (non-blocking source, paced) sends them.                                *)
(*                                                                         *)
(* Bytes are numbered in the order mpd writes them; Pad is a byte of       *)
(* inserted silence.  mpd, the pipe and read(2) are external: mpd writes   *)
(* once it has opened the pipe, which lets a blocking open() return, and   *)
(* stops by closing it.  It may write any number of bytes at a time;       *)
(* whether they were always whole frames is kept for the properties, as a  *)
(* non-blocking reader takes what there is.                                *)
(***************************************************************************)
EXTENDS ByteOrder

CONSTANTS
  NBytes,      \* bound: bytes mpd writes
  Capacity,    \* what the pipe holds
  WriteSize,   \* how many bytes mpd may write at a time
  PeriodBytes, \* the bytes of one period, kMaxPacketBytes at most
  Parms        \* the parameters of the reader, from the command line

FifoConstants ==
  /\ {NBytes, Capacity, PeriodBytes} \subseteq Nat
  /\ WriteSize \subseteq Nat \ {0}
  /\ Parms \subseteq [freq : Nat, bytes : 0 .. 4, chans : Nat, needswap : BOOLEAN,
                    blocking : BOOLEAN, stdin : BOOLEAN]
  /\ \A p \in Parms : PeriodBytes >= p.bytes * p.chans

VARIABLES
  parms,     \* what the constructor got; no source yet: NoParms
  mpd,       \* "starting", "open" or "closed"
  written,   \* bytes mpd has written
  pipe,      \* the bytes in the pipe
  pc,        \* where the reader is
  m_tmpbuf,  \* the bytes read so far into the buffer
  packet,    \* the packet given to SendAudio last
  consumed,  \* bytes of mpd's given to SendAudio
  wholeWrites \* history, for the properties: mpd wrote whole frames each time

vars == <<parms, mpd, written, pipe, pc, m_tmpbuf, packet, consumed, wholeWrites>>

Pad == 0
SampleBytes == parms.bytes
Blocking == parms.blocking
FrameBytes == parms.bytes * parms.chans

\* PcmSender asks for a whole number of frames (CalculatePacketBytes).
iPacketBytes == (PeriodBytes \div FrameBytes) * FrameBytes

Smaller(a, b) == IF a < b THEN a ELSE b

-----------------------------------------------------------------------------
(* Reading.                                                                *)

Swapped(buf) == IF parms.needswap THEN swapSamples(buf, SampleBytes) ELSE buf

\* data() is done: the buffer, n bytes of mpd's and then silence, is swapped in
\* whole (its size is the packet's, the only one ever asked for) and sent.
Deliver(buf, n) ==
  /\ packet' = Swapped(buf)
  /\ consumed' = consumed + n
  /\ m_tmpbuf' = <<>>

NoParms == [freq |-> 0, bytes |-> 0, chans |-> 0, needswap |-> FALSE,
            blocking |-> FALSE, stdin |-> FALSE]

Init ==
  /\ parms = NoParms
  /\ mpd = "starting"
  /\ written = 0
  /\ pipe = <<>>
  /\ pc = "open"
  /\ m_tmpbuf = <<>>
  /\ packet = <<>>
  /\ consumed = 0
  /\ wholeWrites = TRUE

\* open(): with O_NONBLOCK at once, else when a writer has opened the pipe.  Then
\* main constructs the sender, which divides by the size of a frame and by a tenth
\* of the sample rate.
Open ==
  /\ pc = "open"
  /\ Blocking => mpd = "open" \/ parms.stdin
  /\ pc' = IF FrameBytes = 0 \/ parms.freq < 10 THEN "crashed" ELSE "data"
  /\ UNCHANGED <<parms, mpd, written, pipe, m_tmpbuf, packet, consumed, wholeWrites>>

\* One read() of the loop of a blocking data(): it waits for bytes, and takes
\* those there are up to what remains.
ReadSomeAtStart ==
  /\ pc = "data" /\ Blocking
  /\ pipe # <<>>
  /\ LET n == Smaller(iPacketBytes - Len(m_tmpbuf), Len(pipe))
         buf == SubSeq(pipe, 1, n) \o m_tmpbuf
     IN  /\ pipe' = SubSeq(pipe, n + 1, Len(pipe))
         /\ IF Len(buf) = iPacketBytes
            THEN Deliver(buf, iPacketBytes)
            ELSE m_tmpbuf' = buf /\ UNCHANGED <<packet, consumed>>
  /\ UNCHANGED <<parms, mpd, written, pc, wholeWrites>>
ReadSome ==
  /\ pc = "data" /\ Blocking
  /\ pipe # <<>>
  /\ LET n == Smaller(iPacketBytes - Len(m_tmpbuf), Len(pipe))
         buf == m_tmpbuf \o SubSeq(pipe, 1, n)
     IN  /\ pipe' = SubSeq(pipe, n + 1, Len(pipe))
         /\ IF Len(buf) = iPacketBytes
            THEN Deliver(buf, iPacketBytes)
            ELSE m_tmpbuf' = buf /\ UNCHANGED <<packet, consumed>>
  /\ UNCHANGED <<parms, mpd, written, pc, wholeWrites>>

\* End of file in the middle or at the start of a packet: data() returns 0, what
\* it had read is dropped, and busyRdWr returns, which ends the program.
ReadEndForgotten ==
  /\ pc = "data" /\ Blocking
  /\ pipe = <<>> /\ mpd = "closed"
  /\ UNCHANGED vars
ReadEnd ==
  /\ pc = "data" /\ Blocking
  /\ pipe = <<>> /\ mpd = "closed"
  /\ pc' = "ended"
  /\ UNCHANGED <<parms, mpd, written, pipe, m_tmpbuf, packet, consumed, wholeWrites>>

\* The single read() of a non-blocking data(): what is missing, all of it when
\* there is nothing or nobody writes, is filled with silence.
ReadPadded ==
  /\ pc = "data" /\ ~Blocking
  /\ LET n == Smaller(iPacketBytes, Len(pipe))
     IN  /\ pipe' = SubSeq(pipe, n + 1, Len(pipe))
         /\ Deliver([i \in 1 .. iPacketBytes |-> IF i =< n THEN pipe[i] ELSE Pad], n)
  /\ UNCHANGED <<parms, mpd, written, pc, wholeWrites>>

\* Any other error: data() returns 0.  TimerExpired signals main the first time
\* (see PcmSender), busyRdWr returns.
ReadError ==
  /\ pc = "data"
  /\ pc' = "failed"
  /\ UNCHANGED <<parms, mpd, written, pipe, m_tmpbuf, packet, consumed, wholeWrites>>

(* mpd.                                                                    *)

MpdOpens ==
  /\ mpd = "starting"
  /\ mpd' = "open"
  /\ UNCHANGED <<parms, written, pipe, pc, m_tmpbuf, packet, consumed, wholeWrites>>

MpdWrites ==
  /\ mpd = "open" /\ pc = "data"
  /\ \E n \in WriteSize :
       /\ written + n =< NBytes
       /\ Len(pipe) + n =< Capacity
       /\ pipe' = pipe \o [i \in 1 .. n |-> written + i]
       /\ written' = written + n
       /\ wholeWrites' = (wholeWrites /\ n % FrameBytes = 0)
  /\ UNCHANGED <<parms, mpd, pc, m_tmpbuf, packet, consumed>>

MpdCloses ==
  /\ mpd = "open"
  /\ mpd' = "closed"
  /\ UNCHANGED <<parms, written, pipe, pc, m_tmpbuf, packet, consumed, wholeWrites>>

Reader == Open \/ ReadSome \/ ReadEnd \/ ReadPadded \/ ReadError
Mpd == MpdOpens \/ MpdWrites \/ MpdCloses
Next == Reader \/ Mpd

\* A thread that can read goes on reading; no read has to fail.
Reads == Open \/ ReadSome \/ ReadEnd \/ ReadPadded

-----------------------------------------------------------------------------
TypeOK ==
  /\ parms \in Parms
  /\ mpd \in {"starting", "open", "closed"}
  /\ written \in 0 .. NBytes
  /\ pipe \in Seq(1 .. NBytes) /\ Len(pipe) =< Capacity
  /\ pc \in {"open", "data", "ended", "failed", "crashed"}
  /\ m_tmpbuf \in Seq(1 .. NBytes) /\ Len(m_tmpbuf) < iPacketBytes
  /\ packet = <<>> \/ packet \in [1 .. iPacketBytes -> 0 .. NBytes]
  /\ consumed \in 0 .. NBytes
  /\ wholeWrites \in BOOLEAN

\* Where the i-th byte of a packet was before the swap: mirrored in its sample.
Mirror(i) ==
  LET k == (i - 1) % SampleBytes IN IF parms.needswap THEN i + SampleBytes - 1 - 2 * k ELSE i

\* However the reads are split, the packets carry mpd's bytes in their order, none
\* lost and none twice, each sample swapped once, and silence only at the end of a
\* packet: none from a blocking source, and none while bytes of mpd's are waiting.
StreamKept ==
  [][packet' # packet \/ consumed' # consumed =>
       LET n == consumed' - consumed
       IN  /\ n \in 0 .. iPacketBytes
           /\ Blocking => n = iPacketBytes
           /\ n < iPacketBytes => consumed' = written
           /\ \A i \in 1 .. iPacketBytes :
                packet'[i] = IF Mirror(i) =< n THEN consumed + Mirror(i) ELSE Pad]_vars

\* A blocking reader cuts its packets between frames, so channels and samples stay
\* where they are for the rest of the stream, whatever mpd writes at a time. One that
\* does not block begins its silence where mpd's bytes ended (fiforeader.cpp:92-99)
\* and depends on mpd for that: it does so as long as mpd wrote whole frames. A packet
\* in the making never exceeds its size (TypeOK).
FramesWhole == TypeOK /\ (Blocking \/ wholeWrites => consumed % FrameBytes = 0)

\* A blocking sender ends when mpd closes the fifo, less than a packet unsent: that
\* is how SIGTERM to mpd stops the sender, whose own handler ignores it.
EndsWithMpd ==
  /\ [](Blocking /\ pc = "data" /\ mpd = "closed" => <>(pc # "data"))
  /\ [](pc = "ended" => written - consumed < iPacketBytes)
=============================================================================
