------------------------------ MODULE ByteOrder ------------------------------
(***************************************************************************)
(* Bytes of samples and numbers in the two programs: swapSamples() of      *)
(* src/mpd2src/openaudio.cpp, copyswap() of src/sc2src/sc2mpd.cpp, the wav *)
(* header sc2mpd writes (src/sc2src/wav.cpp) and the one WavReader reads   *)
(* (src/mpd2src/wavreader.cpp).  Songcast audio is big endian, a wav       *)
(* stream little endian.                                                   *)
(***************************************************************************)
EXTENDS Integers, Sequences

\* The bytes of every whole sample of n bytes are reversed.
swapSamples(buf, n) ==
  [i \in 1 .. Len(buf) |->
     LET first == ((i - 1) \div n) * n
     IN  IF first + n > Len(buf) THEN buf[i] ELSE buf[2 * first + n + 1 - i]]

\* copyswap(): the same into a new buffer, for 16, 24 and 32 bits; what it does
\* not write is what malloc left there.
Unwritten == -1
copyswap(src, bits) ==
  LET n == bits \div 8
      whole == IF bits \in {16, 24, 32} THEN (Len(src) \div n) * n ELSE 0
      swapped == swapSamples(SubSeq(src, 1, whole), n)
  IN  [i \in 1 .. Len(src) |-> IF i =< whole THEN swapped[i] ELSE Unwritten]

-----------------------------------------------------------------------------
(* Numbers in a wav header.                                                *)

inttoichar2(n) == <<n % 256, (n \div 256) % 256>>
inttoichar4Short(n) == <<n % 256, (n \div 256) % 256, (n \div 65536) % 256, 0>>
inttoichar4(n) ==
  LET high == n \div 65536
  IN  <<n % 256, (n \div 256) % 256, high % 256, (high \div 256) % 256>>

\* Bytes with the lowest first.
Number(bytes) ==
  LET highest[i \in 0 .. Len(bytes)] ==
        IF i = 0 THEN 0 ELSE highest[i - 1] * 256 + bytes[Len(bytes) + 1 - i]
  IN  highest[Len(bytes)]

RIFFTOWAVCNT == 36

\* The four letter tags are kept as strings.
makewavheader(freq, bits, chans, databytecnt) ==
  [riff |-> "RIFF", rifflen |-> inttoichar4(databytecnt + RIFFTOWAVCNT),
   wave |-> "WAVE", fmt |-> "fmt ", fmtlen |-> inttoichar4(16),
   formtag |-> inttoichar2(1), nchan |-> inttoichar2(chans),
   sampspersec |-> inttoichar4(freq),
   avgbytpersec |-> inttoichar4(freq * chans * (bits \div 8)),
   blockalign |-> inttoichar2((chans * bits) \div 8),
   bitspersamp |-> inttoichar2(bits),
   data |-> "data", datalen |-> inttoichar4(databytecnt)]

\* readHeader() of a file of at least 44 bytes: the members it sets.
Accepted(h) ==
  /\ h.riff = "RIFF" /\ h.wave = "WAVE" /\ h.fmt = "fmt " /\ h.data = "data"
  /\ Number(h.fmtlen) = 16
  /\ Number(h.formtag) = 1
readHeader(h) ==
  [ok |-> Accepted(h), m_numChannels |-> Number(h.nchan),
   m_sampleRate |-> Number(h.sampspersec), m_byteRate |-> Number(h.avgbytpersec),
   m_bitsPerSample |-> Number(h.bitspersamp), m_subChunk2Size |-> Number(h.datalen)]
=============================================================================
