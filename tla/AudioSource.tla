----------------------------- MODULE AudioSource -----------------------------
(***************************************************************************)
(* The source of mpd2sc: main (src/mpd2src/mpd2sc.cpp) calls openAudio()   *)
(* (src/mpd2src/openaudio.cpp), which chooses a WavReader or a FifoReader  *)
(* by the name of the file and gives the second what the -A option says.   *)
(*                                                                         *)
(* The text of -A is a sequence of words and colons; a word is the number  *)
(* atoi() makes of it, 0 for most.  Two words in a row do not occur.       *)
(***************************************************************************)
EXTENDS Integers, Sequences

CONSTANTS
  Arguments,                                 \* command lines
  MaxBytes, MaxPacket, WavFrame,           \* of a wav file: see WavReader
  NBytes, Capacity, WriteSize, PeriodBytes   \* of a fifo: see FifoReader

VARIABLES
  args,   \* the command line
  main,   \* "openAudio", then "wav" or "fifo", or "exit"
  file, state, m_subChunk2Size, m_index, iPacketBytes, packet, next,
  parms, mpd, written, pipe, pc, m_tmpbuf, sent, consumed, wholeWrites

wavVars == <<file, state, m_subChunk2Size, m_index, iPacketBytes, packet, next>>
fifoVars == <<parms, mpd, written, pipe, pc, m_tmpbuf, sent, consumed, wholeWrites>>
vars == <<args, main, wavVars, fifoVars>>

-----------------------------------------------------------------------------
(* The parameters of a fifo.                                               *)

Colon == -1

\* Only what is between colons counts: several of them are one.
stringToTokens(text) == SelectSeq(text, LAMBDA c : c # Colon)

parseAudioParams(v) ==
  /\ Len(v) = 4
  /\ v[1] # 0 /\ v[2] # 0 /\ v[3] # 0
  /\ v[4] \in {0, 1}

\* What openAudio() gives the constructor, whose setAudioParams() keeps it.
AParms(a) ==
  LET v == stringToTokens(a.audioparams)
  IN  [freq |-> v[1], bytes |-> v[2] \div 8, chans |-> v[3], needswap |-> v[4] = 1,
       blocking |-> ~a.needpace, stdin |-> a.fn = "stdin"]

\* A name without an extension, or with .fifo, must be that of a fifo.
IsFifo(a) ==
  /\ a.fn \in {"fifo", "stdin"}
  /\ parseAudioParams(stringToTokens(a.audioparams))
  /\ a.fn = "stdin" \/ a.node = "fifo"

Parms == {AParms(a) : a \in {b \in Arguments : IsFifo(b)}}

W == INSTANCE WavReader
F == INSTANCE FifoReader WITH packet <- sent

ASSUME SourceAssumption ==
  /\ Arguments \subseteq [fn : {"wav", "fifo", "stdin", "other"},
                          node : {"fifo", "other", "none"},
                          audioparams : Seq(Nat \cup {Colon}), needpace : BOOLEAN]
  /\ W!WavConstants
  /\ F!FifoConstants

-----------------------------------------------------------------------------
\* The wav file, of any content, matters only when its name is given.
Init ==
  /\ args \in Arguments
  /\ main = "openAudio"
  /\ W!Init
  /\ args.fn # "wav" => file = [header |-> FALSE, data |-> WavFrame, size |-> 0]
                        /\ iPacketBytes = WavFrame
  /\ F!Init

openWav ==
  /\ args.fn = "wav"
  /\ main' = "wav"
  /\ UNCHANGED parms

openFifo ==
  /\ IsFifo(args)
  /\ main' = "fifo"
  /\ parms' = AParms(args)

openFails ==
  /\ args.fn # "wav" /\ ~IsFifo(args)
  /\ main' = "exit"
  /\ UNCHANGED parms

openAudio ==
  /\ main = "openAudio"
  /\ openWav \/ openFifo \/ openFails
  /\ UNCHANGED <<args, wavVars, mpd, written, pipe, pc, m_tmpbuf, sent, consumed, wholeWrites>>

Wav == main = "wav" /\ W!Next /\ UNCHANGED <<args, main, fifoVars>>
Fifo == main = "fifo" /\ F!Next /\ UNCHANGED <<args, main, wavVars>>

Next == openAudio \/ Wav \/ Fifo

\* A thread that can read goes on reading.
Reads == main = "fifo" /\ F!Reads /\ UNCHANGED <<args, main, wavVars>>
Spec == Init /\ [][Next]_vars /\ WF_vars(Reads)

-----------------------------------------------------------------------------
\* Packets are cut between frames, so channels and samples stay where they are: a wav
\* reader is between frames of its track, and reads behind its end only when it is
\* nearer to it than half a packet (WavReader); a fifo is cut between frames of the
\* size the command line gives, of a reader that does not block as long as mpd writes
\* whole frames (FifoReader).
FramesWhole ==
  /\ main = "wav" => W!TrackKept
  /\ main = "fifo" /\ pc = "data" =>
       /\ F!FramesWhole
       /\ LET v == stringToTokens(args.audioparams)
          IN  F!Blocking \/ wholeWrites => consumed % ((v[2] \div 8) * v[3]) = 0

\* Packets carry the source in order: a track of a whole number of packets is
\* repeated without a gap (WavReader), and the bytes of mpd come once each, every
\* sample swapped once, with silence only where mpd's bytes ended (FifoReader).
SourceKept == W!WholePacketsRepeat /\ F!StreamKept

\* A blocking sender ends when mpd closes the fifo (FifoReader).
EndsWithMpd == F!EndsWithMpd
=============================================================================
