------------------------------ MODULE WavReader ------------------------------
(***************************************************************************)
(* The in-memory source of src/mpd2src/wavreader.cpp: open() reads the     *)
(* header and the whole data segment, then each data(packetbytes), called  *)
(* by PcmSender once per packet, returns the next packet and starts again  *)
(* at the beginning of the track when it reaches its end.  AudioSource      *)
(* opens it, or a FifoReader.                                              *)
(*                                                                         *)
(* A packet is the sequence of the offsets in the file's data segment that *)
(* its bytes come from; an offset of totalBytes or more is a read past the *)
(* segment.  The header is a record of what its checks tell apart; byte    *)
(* swapping at load time does not change offsets at frame granularity and  *)
(* is left out.                                                            *)
(***************************************************************************)
EXTENDS Integers, Sequences

CONSTANTS
  MaxBytes,   \* bound: size of the data segment, as the header gives it
  MaxPacket,  \* bound: size of a packet
  WavFrame    \* bytesPerFrame()

WavConstants == {MaxBytes, MaxPacket, WavFrame} \subseteq Nat \ {0}

VARIABLES
  file,           \* what the file holds
  state,          \* "new", "open" or "failed"
  m_subChunk2Size,\* totalBytes()
  m_index,        \* current position of the reader
  iPacketBytes,   \* what PcmSender asks for, fixed by its constructor
  packet,         \* the packet returned last
  next            \* the offset that should follow the last byte returned

vars == <<file, state, m_subChunk2Size, m_index, iPacketBytes, packet, next>>

Frames(max) == {n \in 1 .. max : n % WavFrame = 0}

\* header: whether the 44 bytes are there and are those of an uncompressed wav
\* file; data: the size they announce; size: the bytes that really follow.
File == [header : BOOLEAN, data : Frames(MaxBytes), size : 0 .. MaxBytes]

-----------------------------------------------------------------------------
totalBytes == m_subChunk2Size

\* Bytes lo .. lo + n - 1 of the data segment.
From(lo, n) == [i \in 1 .. n |-> lo + i - 1]

Init ==
  /\ file \in File
  /\ state = "new"
  /\ m_subChunk2Size = 0
  /\ m_index = 0
  /\ iPacketBytes \in Frames(MaxPacket)
  /\ packet = <<>>
  /\ next = 0

\* open(): readHeader(), then readData(). A header announcing more than the file
\* holds fails the second.
Open ==
  /\ state = "new"
  /\ m_subChunk2Size' = IF file.header THEN file.data ELSE 0
  /\ state' = IF file.header /\ file.size >= file.data THEN "open" ELSE "failed"
  /\ UNCHANGED <<file, m_index, iPacketBytes, packet, next>>

Returns(p) ==
  /\ packet' = p
  /\ next' = (p[Len(p)] + 1) % totalBytes

\* data(packetbytes), its three cases.
Ahead ==
  /\ m_index + iPacketBytes =< totalBytes
  /\ Returns(From(m_index, iPacketBytes))
  /\ m_index' = m_index + iPacketBytes

AtEnd ==
  /\ m_index + iPacketBytes > totalBytes
  /\ m_index = totalBytes
  /\ Returns(From(0, iPacketBytes))
  /\ m_index' = iPacketBytes

\* The packet straddles the end. The code copies `remaining` bytes from m_index
\* on, and the rest from the start; remaining is what does not fit before the
\* end.
remaining == iPacketBytes - (totalBytes - m_index)
AcrossOff ==
  /\ m_index + iPacketBytes > totalBytes
  /\ m_index < totalBytes
  /\ Returns(From(m_index, remaining) \o From(0, iPacketBytes - remaining))
  /\ m_index' = iPacketBytes - remaining + 1
Across ==
  /\ m_index + iPacketBytes > totalBytes
  /\ m_index < totalBytes
  /\ Returns(From(m_index, remaining) \o From(0, iPacketBytes - remaining))
  /\ m_index' = iPacketBytes - remaining

data ==
  /\ state = "open"
  /\ Ahead \/ AtEnd \/ Across
  /\ UNCHANGED <<file, state, m_subChunk2Size, iPacketBytes>>

\* A track shorter than a packet gets m_index past the end, and the next copy a
\* negative length.
dataOverrun ==
  /\ state = "open"
  /\ m_index > totalBytes
  /\ state' = "crashed"
  /\ UNCHANGED <<file, m_subChunk2Size, m_index, iPacketBytes, packet, next>>

Next == Open \/ data \/ dataOverrun

-----------------------------------------------------------------------------
TypeOK ==
  /\ file \in File
  /\ state \in {"new", "open", "failed", "crashed"}
  /\ m_subChunk2Size \in 0 .. MaxBytes
  /\ m_index \in 0 .. MaxBytes + MaxPacket
  /\ iPacketBytes \in Frames(MaxPacket)
  /\ packet = <<>> \/ Len(packet) = iPacketBytes
  /\ next \in 0 .. MaxBytes

\* A track of at least one packet is played for ever: between packets the position of
\* the reader is in it, and it never comes to copy a negative length.
PositionInTrack ==
  state # "new" /\ iPacketBytes =< totalBytes
    => m_index =< totalBytes /\ state # "crashed"

\* wavreader.cpp:72 copies as many bytes from m_index on as do not fit before the
\* end. Of such a track, a packet therefore has bytes from behind the data segment
\* only when it begins less than half a packet before the end.
BehindTrack == \E i \in 1 .. Len(packet) : packet[i] >= totalBytes
BehindOnlyNearEnd ==
  iPacketBytes =< totalBytes /\ BehindTrack
    => 2 * (totalBytes - packet[1]) < iPacketBytes

\* A frame is never cut: the n-th byte of a packet is always the n-th byte of
\* its frame in the file, whatever the wrap-around does (channels never swap).
FramesAligned ==
  \A i \in 1 .. Len(packet) : packet[i] % WavFrame = (i - 1) % WavFrame

\* All three, in well-typed states.
TrackKept == TypeOK /\ PositionInTrack /\ BehindOnlyNearEnd /\ FramesAligned

\* The bytes of a packet follow those of the one before, and the end of the
\* track is followed by its beginning.
Continues ==
  packet' = [i \in 1 .. iPacketBytes |-> (next + i - 1) % totalBytes]

\* A track of a whole number of packets repeats without a gap.
WholePacketsRepeat ==
  [][data /\ totalBytes % iPacketBytes = 0 => Continues]_vars
=============================================================================
