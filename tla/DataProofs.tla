----------------------------- MODULE DataProofs -----------------------------
(***************************************************************************)
(* Proofs about what both programs do with the bytes of the audio.         *)
(*                                                                         *)
(* AudioSource, for any command lines, any track, any sizes of a packet,   *)
(* and a fifo that mpd fills and the reader empties in any pieces: packets *)
(* are cut between frames of the source, and keep its order.               *)
(*                                                                         *)
(* Conversions, for inputs of any length: what one program makes of the    *)
(* bytes, the other undoes; samples are played as they were sent; a        *)
(* request is answered from where it asks.                                 *)
(***************************************************************************)
EXTENDS AudioSource, Conversions, FiniteSetTheorems, WellFoundedInduction, TLAPS


-----------------------------------------------------------------------------
(* Whole frames.                                                           *)

\* What is left of a sum of multiples and a small number is the number.
LEMMA Remainder ==
  ASSUME NEW f \in Nat \ {0}
  PROVE  \A s \in Int, r \in 0 .. f - 1 : (f * s + r) % f = r
OBVIOUS

\* Quotient and remainder.
LEMMA Divided ==
  ASSUME NEW f \in Nat \ {0}, NEW b \in Int
  PROVE  b = f * (b \div f) + (b % f) /\ b % f \in 0 .. f - 1 /\ b \div f \in Int
OBVIOUS

\* Sums and differences of whole frames are whole frames.
LEMMA NoFrames ==
  ASSUME NEW f \in Nat \ {0}
  PROVE  0 % f = 0 /\ f % f = 0
OBVIOUS

LEMMA Multiple ==
  ASSUME NEW f \in Nat \ {0}, NEW b \in Int, b % f = 0
  PROVE  \E q \in Int : b = f * q
<1> DEFINE q == b \div f
<1>1. b = f * q + 0 /\ q \in Int
  BY Divided
<1> HIDE DEF q
<1>2. b = f * q
  BY <1>1
<1> QED BY <1>1, <1>2, Zenon

LEMMA WholeFrames ==
  ASSUME NEW f \in Nat \ {0}, NEW a \in Int, NEW b \in Int, a % f = 0, b % f = 0
  PROVE  (a + b) % f = 0 /\ (a - b) % f = 0
<1>1. PICK p \in Int : a = f * p
  BY Multiple, Zenon
<1>2. PICK q \in Int : b = f * q
  BY Multiple, Zenon
<1>3. a + b = f * (p + q) /\ a - b = f * (p - q) /\ p + q \in Int /\ p - q \in Int
  BY <1>1, <1>2
<1>4. \A t \in Int : (f * t) % f = 0
  OBVIOUS
<1> QED BY <1>3, <1>4

\* A number of whole frames before something does not change its place in a frame.
LEMMA WholeFirst ==
  ASSUME NEW f \in Nat \ {0}, NEW a \in Int, NEW b \in Int, a % f = 0
  PROVE  (a + b) % f = b % f
<1>1. PICK p \in Int : a = f * p
  BY Multiple, Zenon
<1>2. PICK q \in Int, r \in 0 .. f - 1 : b = f * q + r /\ b % f = r
  BY Divided
<1>3. a + b = f * (p + q) + r /\ p + q \in Int
  BY <1>1, <1>2
<1> QED BY <1>2, <1>3, Remainder

\* Less than a frame is its own remainder.
LEMMA SmallRemainder ==
  ASSUME NEW f \in Nat \ {0}, NEW r \in 0 .. f - 1
  PROVE  r % f = r /\ r \div f = 0
OBVIOUS

\* Between two multiples there is room for one frame.
LEMMA WholeBetween ==
  ASSUME NEW f \in Nat \ {0}, NEW a \in Int, NEW b \in Int,
         a % f = 0, b % f = 0, a < b
  PROVE  a + f =< b
<1>1. PICK p \in Int : a = f * p
  BY Multiple, Zenon
<1>2. PICK q \in Int : b = f * q
  BY Multiple, Zenon
<1>3. p < q
  BY <1>1, <1>2
<1>4. p + 1 =< q
  BY <1>3
<1>5. f * (p + 1) =< f * q
  BY <1>4
<1> QED BY <1>1, <1>2, <1>5

-----------------------------------------------------------------------------
(* Sequences.                                                              *)

\* A sequence cut in two, and two made one.
LEMMA FirstElements ==
  ASSUME NEW S, NEW s \in Seq(S), NEW n \in 0 .. Len(s)
  PROVE  /\ SubSeq(s, 1, n) \in Seq(S) /\ Len(SubSeq(s, 1, n)) = n
         /\ \A i \in 1 .. n : SubSeq(s, 1, n)[i] = s[i]
OBVIOUS

LEMMA LastElements ==
  ASSUME NEW S, NEW s \in Seq(S), NEW n \in 0 .. Len(s)
  PROVE  /\ SubSeq(s, n + 1, Len(s)) \in Seq(S)
         /\ Len(SubSeq(s, n + 1, Len(s))) = Len(s) - n
         /\ \A i \in 1 .. Len(s) - n : SubSeq(s, n + 1, Len(s))[i] = s[n + i]
OBVIOUS

LEMMA Joined ==
  ASSUME NEW S, NEW s \in Seq(S), NEW t \in Seq(S)
  PROVE  /\ s \o t \in Seq(S) /\ Len(s \o t) = Len(s) + Len(t)
         /\ \A i \in 1 .. Len(s) + Len(t) :
              (s \o t)[i] = IF i =< Len(s) THEN s[i] ELSE t[i - Len(s)]
OBVIOUS

\* An array is a sequence.
LEMMA ArrayIsSeq ==
  ASSUME NEW S, NEW n \in Nat, NEW f \in [1 .. n -> S]
  PROVE  f \in Seq(S) /\ Len(f) = n
OBVIOUS

-----------------------------------------------------------------------------
(* The invariants.                                                         *)

\* The reader is between frames of the track, and at the beginning of a packet when
\* packets divide the track.
WavInv ==
  /\ W!TypeOK /\ W!PositionInTrack /\ W!BehindOnlyNearEnd /\ W!FramesAligned
  /\ m_index % WavFrame = 0 /\ m_subChunk2Size % WavFrame = 0
  /\ state = "new" => m_index = 0 /\ next = 0 /\ packet = <<>>
  /\ state = "open" =>
       /\ m_subChunk2Size > 0 /\ next = m_index % m_subChunk2Size
       /\ m_subChunk2Size % iPacketBytes = 0 => m_index % iPacketBytes = 0

\* What mpd wrote is consumed, in the buffer and in the pipe, in this order.
BytesInLine ==
  /\ written \in 0 .. NBytes /\ consumed \in Nat
  /\ m_tmpbuf \in Seq(1 .. NBytes) /\ pipe \in Seq(1 .. NBytes)
  /\ consumed + Len(m_tmpbuf) + Len(pipe) = written /\ Len(pipe) =< Capacity
  /\ \A i \in 1 .. Len(m_tmpbuf) : m_tmpbuf[i] = consumed + i
  /\ \A i \in 1 .. Len(pipe) : pipe[i] = consumed + Len(m_tmpbuf) + i

FifoInv ==
  /\ main \in {"openAudio", "wav", "fifo", "exit"} /\ args \in Arguments
  /\ IF main = "fifo" THEN parms \in Parms /\ parms = AParms(args) ELSE pc = "open"
  /\ mpd \in {"starting", "open", "closed"} /\ wholeWrites \in BOOLEAN
  /\ pc \in {"open", "data", "ended", "failed", "crashed"}
  /\ BytesInLine
  /\ pc = "open" => consumed = 0 /\ m_tmpbuf = <<>> /\ pipe = <<>> /\ sent = <<>>
  /\ pc = "data" =>
       /\ F!FrameBytes # 0
       /\ Len(m_tmpbuf) < F!iPacketBytes
       /\ sent = <<>> \/ sent \in [1 .. F!iPacketBytes -> 0 .. NBytes]
       /\ F!Blocking \/ wholeWrites => consumed % F!FrameBytes = 0
       /\ ~F!Blocking => m_tmpbuf = <<>>
       /\ ~F!Blocking /\ wholeWrites => Len(pipe) % F!FrameBytes = 0

-----------------------------------------------------------------------------
(* The track.                                                              *)

\* Whole frames from the beginning of one: each byte is at its place in a frame.
LEMMA FromAligned ==
  ASSUME W!WavConstants, NEW lo \in Nat, NEW n \in Nat, lo % WavFrame = 0
  PROVE  /\ W!From(lo, n) \in Seq(Nat) /\ Len(W!From(lo, n)) = n
         /\ \A i \in 1 .. n : /\ W!From(lo, n)[i] = lo + i - 1
                              /\ W!From(lo, n)[i] % WavFrame = (i - 1) % WavFrame
<1>1. WavFrame \in Nat \ {0}
  BY DEF W!WavConstants
<1>2. /\ W!From(lo, n) \in Seq(Nat) /\ Len(W!From(lo, n)) = n
      /\ \A i \in 1 .. n : W!From(lo, n)[i] = lo + i - 1
  BY DEF W!From
<1>3. ASSUME NEW i \in 1 .. n
      PROVE  (lo + i - 1) % WavFrame = (i - 1) % WavFrame
  <2>1. i - 1 \in Int /\ lo \in Int /\ lo + i - 1 = lo + (i - 1)
    OBVIOUS
  <2>2. (lo + (i - 1)) % WavFrame = (i - 1) % WavFrame
    BY <1>1, <2>1, WholeFirst
  <2> QED BY <2>1, <2>2
<1> QED BY <1>2, <1>3

\* A packet that goes over the end of the track.
Straddle(lo, r, n) == W!From(lo, r) \o W!From(0, n - r)

LEMMA StraddleAligned ==
  ASSUME W!WavConstants, NEW lo \in Nat, NEW r \in Nat, NEW n \in Nat, r =< n,
         lo % WavFrame = 0, r % WavFrame = 0
  PROVE  /\ Straddle(lo, r, n) \in Seq(Nat) /\ Len(Straddle(lo, r, n)) = n
         /\ \A i \in 1 .. n : Straddle(lo, r, n)[i] % WavFrame = (i - 1) % WavFrame
         /\ \A i \in 1 .. n : Straddle(lo, r, n)[i]
                                = IF i > r THEN (i - r) - 1 ELSE lo + i - 1
<1> DEFINE a == W!From(lo, r)
<1> DEFINE b == W!From(0, n - r)
<1> DEFINE p == a \o b
<1>1. WavFrame \in Nat \ {0} /\ 0 % WavFrame = 0 /\ n - r \in Nat
  BY NoFrames DEF W!WavConstants
<1>2. /\ a \in Seq(Nat) /\ Len(a) = r
      /\ \A i \in 1 .. r : a[i] = lo + i - 1 /\ a[i] % WavFrame = (i - 1) % WavFrame
  BY FromAligned, Zenon
<1>3. /\ b \in Seq(Nat) /\ Len(b) = n - r
      /\ \A i \in 1 .. n - r : b[i] = 0 + i - 1 /\ b[i] % WavFrame = (i - 1) % WavFrame
  <2>1. 0 \in Nat
    OBVIOUS
  <2> QED BY <1>1, <2>1, FromAligned, Zenon
<1> HIDE DEF a, b
<1>4. /\ p \in Seq(Nat) /\ Len(p) = n
      /\ \A i \in 1 .. n : p[i] = IF i =< r THEN a[i] ELSE b[i - r]
  <2>1. /\ p \in Seq(Nat) /\ Len(p) = Len(a) + Len(b)
        /\ \A i \in 1 .. Len(a) + Len(b) :
             p[i] = IF i =< Len(a) THEN a[i] ELSE b[i - Len(a)]
    BY <1>2, <1>3, Joined
  <2>2. Len(a) = r /\ Len(a) + Len(b) = n
    BY <1>2, <1>3
  <2> HIDE DEF p
  <2> QED BY <2>1, <2>2
<1> HIDE DEF p
<1>5. ASSUME NEW i \in 1 .. n, i > r
      PROVE  p[i] = (i - r) - 1 /\ p[i] % WavFrame = (i - 1) % WavFrame
  <2>1. i - r \in 1 .. n - r
    BY <1>5
  <2>2. p[i] = b[i - r]
    BY <1>4, <1>5
  <2>3. b[i - r] = (i - r) - 1
    BY <1>3, <2>1
  <2>4. (i - 1) = r + ((i - r) - 1) /\ r \in Int /\ (i - r) - 1 \in Int
    BY <2>1
  <2>5. (r + ((i - r) - 1)) % WavFrame = ((i - r) - 1) % WavFrame
    BY <1>1, <2>4, WholeFirst
  <2> QED BY <2>2, <2>3, <2>4, <2>5
<1>6. ASSUME NEW i \in 1 .. n, ~ (i > r)
      PROVE  p[i] = lo + i - 1 /\ p[i] % WavFrame = (i - 1) % WavFrame
  <2>1. i \in 1 .. r
    BY <1>6
  <2> QED BY <1>2, <1>4, <1>6, <2>1
<1>7. \A i \in 1 .. n : p[i] % WavFrame = (i - 1) % WavFrame
  BY <1>5, <1>6
<1>8. \A i \in 1 .. n : p[i] = IF i > r THEN (i - r) - 1 ELSE lo + i - 1
  BY <1>5, <1>6
<1> QED BY <1>4, <1>7, <1>8 DEF Straddle, p, a, b

\* The sizes of a reader that is open.
LEMMA OpenSizes ==
  ASSUME WavInv, state = "open"
  PROVE  /\ WavFrame \in Nat \ {0}
         /\ iPacketBytes \in Nat \ {0} /\ iPacketBytes =< MaxPacket
         /\ iPacketBytes % WavFrame = 0
         /\ m_subChunk2Size \in Nat \ {0} /\ m_subChunk2Size =< MaxBytes
         /\ m_subChunk2Size % WavFrame = 0
         /\ m_index \in Nat /\ m_index % WavFrame = 0
         /\ MaxBytes \in Nat /\ MaxPacket \in Nat
<1>1. {MaxBytes, MaxPacket, WavFrame} \subseteq Nat \ {0}
  BY SourceAssumption, Zenon DEF W!WavConstants
<1> QED BY <1>1 DEF WavInv, W!TypeOK, W!Frames

\* A packet is of the data segment, or begins less than half a packet before its end.
NearTheEnd(p) ==
  iPacketBytes =< m_subChunk2Size =>
    \/ \A i \in 1 .. iPacketBytes : p[i] < m_subChunk2Size
    \/ 2 * (m_subChunk2Size - p[1]) < iPacketBytes

\* A packet of whole frames that ends where the reader is then keeps the invariant.
LEMMA PacketKeeps ==
  ASSUME WavInv, state = "open",
         UNCHANGED <<file, state, m_subChunk2Size, iPacketBytes>>,
         NEW p \in Seq(Nat), Len(p) = iPacketBytes, W!Returns(p), NearTheEnd(p),
         \A i \in 1 .. iPacketBytes : p[i] % WavFrame = (i - 1) % WavFrame,
         (p[iPacketBytes] + 1) % m_subChunk2Size = m_index' % m_subChunk2Size,
         m_index' \in Nat, m_index' % WavFrame = 0,
         m_index' =< m_subChunk2Size \/ m_index' = iPacketBytes,
         m_subChunk2Size % iPacketBytes = 0 => m_index' % iPacketBytes = 0
  PROVE  WavInv'
<1>1. /\ iPacketBytes \in Nat \ {0} /\ iPacketBytes =< MaxPacket
      /\ m_subChunk2Size \in Nat \ {0} /\ m_subChunk2Size =< MaxBytes
      /\ MaxBytes \in Nat /\ MaxPacket \in Nat
  BY OpenSizes
<1>2. packet' = p /\ next' = m_index' % m_subChunk2Size
  BY DEF W!Returns, W!totalBytes
<1>3. next' \in 0 .. MaxBytes /\ m_index' \in 0 .. MaxBytes + MaxPacket
  <2>0. m_index' \in Int
    OBVIOUS
  <2>1. next' \in 0 .. m_subChunk2Size - 1
    BY <1>1, <1>2, <2>0, Divided, Zenon
  <2>2. m_index' =< MaxBytes + MaxPacket
    BY <1>1
  <2>3. 0 =< next' /\ next' =< MaxBytes /\ next' \in Int
    BY <1>1, <2>1
  <2> QED BY <1>1, <2>0, <2>2, <2>3
<1>4. W!TypeOK'
  BY <1>2, <1>3 DEF WavInv, W!TypeOK
<1>5. W!FramesAligned'
  BY <1>2 DEF W!FramesAligned
<1>6. W!PositionInTrack'
  BY <1>1 DEF W!PositionInTrack, W!totalBytes
<1>7. W!BehindOnlyNearEnd'
  <2>1. SUFFICES ASSUME iPacketBytes =< m_subChunk2Size,
                        NEW i \in 1 .. iPacketBytes, p[i] >= m_subChunk2Size
                 PROVE  2 * (m_subChunk2Size - p[1]) < iPacketBytes
    BY <1>2 DEF W!BehindOnlyNearEnd, W!BehindTrack, W!totalBytes
  <2>2. p[i] \in Nat
    OBVIOUS
  <2>3. ~(p[i] < m_subChunk2Size)
    BY <1>1, <2>1, <2>2
  <2> QED BY <2>1, <2>3 DEF NearTheEnd
<1>8. state' = "open"
  OBVIOUS
<1> QED BY <1>1, <1>2, <1>4, <1>5, <1>6, <1>7, <1>8 DEF WavInv

\* The bytes of a packet follow those before it, when packets divide the track.
Gapless == m_subChunk2Size % iPacketBytes = 0 => W!Continues

LEMMA AheadStep ==
  ASSUME WavInv, state = "open", W!Ahead,
         UNCHANGED <<file, state, m_subChunk2Size, iPacketBytes>>
  PROVE  WavInv' /\ Gapless
<1> DEFINE P == iPacketBytes
<1> DEFINE T == m_subChunk2Size
<1> DEFINE p == W!From(m_index, P)
<1>1. /\ P \in Nat \ {0} /\ P % WavFrame = 0 /\ T \in Nat \ {0}
      /\ m_index \in Nat /\ m_index % WavFrame = 0 /\ WavFrame \in Nat \ {0}
  BY OpenSizes
<1>i. P \in Int /\ T \in Int /\ m_index \in Int
  BY <1>1
<1>2. /\ m_index + P =< T /\ W!Returns(p) /\ m_index' = m_index + P
  BY DEF W!Ahead, W!totalBytes
<1>3. /\ p \in Seq(Nat) /\ Len(p) = P
      /\ \A i \in 1 .. P : p[i] = m_index + i - 1 /\ p[i] % WavFrame = (i - 1) % WavFrame
  BY <1>1, SourceAssumption, FromAligned, Zenon
<1> HIDE DEF p
<1>4. p[P] + 1 = m_index + P
  BY <1>1, <1>3
<1>5. (m_index + P) % WavFrame = 0
  BY <1>1, <1>i, WholeFrames, Zenon
<1>6. T % P = 0 => (m_index + P) % P = 0
  <2> SUFFICES ASSUME T % P = 0 PROVE (m_index + P) % P = 0
    OBVIOUS
  <2>1. m_index % P = 0
    BY DEF WavInv
  <2>2. P % P = 0
    BY <1>1, NoFrames
  <2> QED BY <1>1, <1>i, <2>1, <2>2, WholeFrames, Zenon
<1>7. WavInv'
  <2>1. /\ (p[P] + 1) % T = m_index' % T /\ m_index' \in Nat
        /\ m_index' % WavFrame = 0 /\ m_index' =< T
        /\ T % P = 0 => m_index' % P = 0
    BY <1>1, <1>2, <1>4, <1>5, <1>6
  <2>2. NearTheEnd(p)
    <3> SUFFICES \A i \in 1 .. P : p[i] < T
      BY DEF NearTheEnd
    <3> TAKE i \in 1 .. P
    <3>1. p[i] = m_index + i - 1
      BY <1>3
    <3> QED BY <1>1, <1>2, <3>1
  <2> QED BY <1>2, <1>3, <2>1, <2>2, PacketKeeps, Zenon
<1>8. m_index < T /\ next = m_index
  <2>1. m_index < T
    BY <1>1, <1>2
  <2>2. m_index \in 0 .. T - 1
    BY <1>1, <2>1
  <2> QED BY <1>1, <2>1, <2>2, SmallRemainder DEF WavInv
<1>9. W!Continues
  <2>1. \A i \in 1 .. P : p[i] = (next + i - 1) % T
    <3> TAKE i \in 1 .. P
    <3>1. m_index + i - 1 \in 0 .. T - 1
      BY <1>1, <1>2
    <3>2. (m_index + i - 1) % T = m_index + i - 1
      BY <1>1, <3>1, SmallRemainder, Zenon
    <3> QED BY <1>3, <1>8, <3>2
  <2>2. p = [i \in 1 .. P |-> (next + i - 1) % T]
    BY <1>1, <1>3, <2>1
  <2> QED BY <1>2, <2>2 DEF W!Continues, W!Returns, W!totalBytes
<1> QED BY <1>7, <1>9 DEF Gapless

LEMMA AtEndStep ==
  ASSUME WavInv, state = "open", W!AtEnd,
         UNCHANGED <<file, state, m_subChunk2Size, iPacketBytes>>
  PROVE  WavInv' /\ Gapless
<1> DEFINE P == iPacketBytes
<1> DEFINE T == m_subChunk2Size
<1> DEFINE p == W!From(0, P)
<1>1. /\ P \in Nat \ {0} /\ P % WavFrame = 0 /\ T \in Nat \ {0}
      /\ WavFrame \in Nat \ {0} /\ 0 % WavFrame = 0 /\ P % P = 0
  BY OpenSizes, NoFrames
<1>2. m_index = T /\ W!Returns(p) /\ m_index' = P
  BY DEF W!AtEnd, W!totalBytes
<1>3. /\ p \in Seq(Nat) /\ Len(p) = P
      /\ \A i \in 1 .. P : p[i] = 0 + i - 1 /\ p[i] % WavFrame = (i - 1) % WavFrame
  <2>1. 0 \in Nat /\ P \in Nat /\ W!WavConstants
    BY <1>1, SourceAssumption
  <2> QED BY <1>1, <2>1, FromAligned, Zenon
<1> HIDE DEF p
<1>4. p[P] + 1 = P
  BY <1>1, <1>3
<1>5. WavInv'
  <2>1. NearTheEnd(p)
    <3> SUFFICES ASSUME P =< T PROVE \A i \in 1 .. P : p[i] < T
      BY DEF NearTheEnd
    <3> TAKE i \in 1 .. P
    <3>1. p[i] = 0 + i - 1
      BY <1>3
    <3> QED BY <1>1, <3>1
  <2> QED BY <1>1, <1>2, <1>3, <1>4, <2>1, PacketKeeps
<1>6. ASSUME T % P = 0 PROVE W!Continues
  <2>1. P =< T
    <3>1. 0 % P = 0 /\ 0 < T
      BY <1>1, NoFrames
    <3>2. 0 + P =< T
      BY <1>1, <1>6, <3>1, WholeBetween
    <3> QED BY <1>1, <3>2
  <2>2. next = 0
    BY <1>1, <1>2, NoFrames DEF WavInv
  <2>3. \A i \in 1 .. P : p[i] = (next + i - 1) % T
    <3> TAKE i \in 1 .. P
    <3>1. next + i - 1 \in 0 .. T - 1 /\ next + i - 1 = 0 + i - 1
      BY <1>1, <2>1, <2>2
    <3> QED BY <1>1, <1>3, <3>1, SmallRemainder
  <2>4. p = [i \in 1 .. P |-> (next + i - 1) % T]
    BY <1>1, <1>3, <2>3
  <2> QED BY <1>2, <2>4 DEF W!Continues, W!Returns, W!totalBytes
<1> QED BY <1>5, <1>6 DEF Gapless

\* Over the end of the track: not when packets divide it.
LEMMA AcrossStep ==
  ASSUME WavInv, state = "open", W!Across,
         UNCHANGED <<file, state, m_subChunk2Size, iPacketBytes>>
  PROVE  WavInv' /\ Gapless
<1> DEFINE P == iPacketBytes
<1> DEFINE T == m_subChunk2Size
<1> DEFINE r == P - (T - m_index)
<1> DEFINE p == Straddle(m_index, r, P)
<1>1. /\ P \in Nat \ {0} /\ P % WavFrame = 0 /\ T \in Nat \ {0} /\ T % WavFrame = 0
      /\ m_index \in Nat /\ m_index % WavFrame = 0 /\ WavFrame \in Nat \ {0}
  BY OpenSizes
<1>i. P \in Int /\ T \in Int /\ m_index \in Int
  BY <1>1
<1>2. /\ m_index + P > T /\ m_index < T /\ W!Returns(p) /\ m_index' = P - r
  BY DEF W!Across, W!totalBytes, W!remaining, Straddle
<1>3. r \in Nat /\ r < P /\ P - r = T - m_index /\ P - r > 0 /\ P - r =< T
  BY <1>1, <1>2
<1>4. (T - m_index) % WavFrame = 0 /\ r % WavFrame = 0
  <2>0. T - m_index \in Int
    BY <1>i
  <2>1. (T - m_index) % WavFrame = 0
    BY <1>1, <1>i, WholeFrames, Zenon
  <2>2. (P - (T - m_index)) % WavFrame = 0
    BY <1>1, <1>i, <2>0, <2>1, WholeFrames, Zenon
  <2> QED BY <2>1, <2>2
<1> HIDE DEF r
<1>5. /\ p \in Seq(Nat) /\ Len(p) = P
      /\ \A i \in 1 .. P : p[i] % WavFrame = (i - 1) % WavFrame
      /\ \A i \in 1 .. P : p[i] = IF i > r THEN (i - r) - 1 ELSE m_index + i - 1
  <2>1. /\ W!WavConstants /\ r =< P /\ P \in Nat /\ r \in Nat /\ m_index \in Nat
        /\ m_index % WavFrame = 0 /\ r % WavFrame = 0
    BY <1>1, <1>3, <1>4, SourceAssumption
  <2> HIDE DEF P
  <2> QED BY <2>1, StraddleAligned
<1> HIDE DEF p
<1>6. p[P] + 1 = P - r
  <2>1. P \in 1 .. P /\ P > r /\ P \in Nat /\ r \in Nat
    BY <1>1, <1>3
  <2>2. p[P] = (P - r) - 1
    BY <1>5, <2>1
  <2> QED BY <2>1, <2>2
<1>7. ~ (T % P = 0)
  <2> SUFFICES ASSUME T % P = 0 PROVE FALSE
    OBVIOUS
  <2>1. m_index % P = 0
    BY DEF WavInv
  <2>2. m_index + P =< T
    BY <1>1, <1>2, <1>i, <2>1, WholeBetween, Zenon
  <2> QED BY <1>1, <1>2, <2>2
<1>8. WavInv'
  <2>1. /\ (p[P] + 1) % T = m_index' % T /\ m_index' \in Nat
        /\ m_index' % WavFrame = 0 /\ m_index' =< T
        /\ T % P = 0 => m_index' % P = 0
    BY <1>1, <1>2, <1>3, <1>4, <1>6, <1>7
  <2>2. NearTheEnd(p)
    <3>1. r >= 1 /\ r = P - (T - m_index)
      BY <1>1, <1>2, <1>3
    <3>2. p[1] = m_index
      BY <1>1, <1>3, <1>5, <3>1
    <3>3. ASSUME P =< 2 * (T - m_index), NEW i \in 1 .. P PROVE p[i] < T
      <4>1. p[i] = IF i > r THEN (i - r) - 1 ELSE m_index + i - 1
        BY <1>5, <3>3
      <4>2. CASE i > r
        <5>1. i \in Nat /\ i =< P /\ p[i] = (i - r) - 1
          BY <1>1, <3>3, <4>1, <4>2
        <5>2. p[i] < P - r
          BY <1>1, <1>3, <5>1
        <5> QED BY <1>1, <1>3, <5>1, <5>2
      <4>3. CASE ~(i > r)
        <5>1. i \in Nat /\ i =< r /\ p[i] = m_index + i - 1
          BY <1>1, <1>3, <3>3, <4>1, <4>3
        <5>2. m_index + r =< T
          BY <1>1, <3>1, <3>3
        <5> QED BY <1>1, <1>3, <5>1, <5>2
      <4> QED BY <4>2, <4>3
    <3>4. 2 * (T - m_index) < P \/ P =< 2 * (T - m_index)
      BY <1>1
    <3> QED BY <3>2, <3>3, <3>4 DEF NearTheEnd
  <2> QED BY <1>2, <1>5, <2>1, <2>2, PacketKeeps, Zenon
<1> QED BY <1>7, <1>8 DEF Gapless

LEMMA WavInit == Init => WavInv
<1> SUFFICES ASSUME Init PROVE WavInv
  OBVIOUS
<1>1. {MaxBytes, MaxPacket, WavFrame} \subseteq Nat \ {0}
  BY SourceAssumption, Zenon DEF W!WavConstants
<1>2. 0 % WavFrame = 0
  BY <1>1, NoFrames
<1>3. W!Init
  BY DEF Init
<1>4. W!TypeOK
  BY <1>1, <1>3 DEF W!Init, W!TypeOK
<1>5. W!PositionInTrack /\ W!BehindOnlyNearEnd /\ W!FramesAligned
  BY <1>3 DEF W!Init, W!PositionInTrack, W!BehindOnlyNearEnd, W!BehindTrack, W!FramesAligned
<1> QED BY <1>2, <1>3, <1>4, <1>5 DEF WavInv, W!Init

\* Opening the file: its data segment is whole frames, and the reader is at its start.
LEMMA OpenStep ==
  ASSUME WavInv, W!Open
  PROVE  WavInv'
<1>1. {MaxBytes, MaxPacket, WavFrame} \subseteq Nat \ {0}
  BY SourceAssumption, Zenon DEF W!WavConstants
<1>2. 0 % WavFrame = 0
  BY <1>1, NoFrames
<1>3. /\ file.data \in Nat /\ file.data > 0 /\ file.data =< MaxBytes
      /\ file.data % WavFrame = 0
      /\ iPacketBytes \in Nat \ {0}
  BY <1>1 DEF WavInv, W!TypeOK, W!File, W!Frames
<1>4. /\ m_subChunk2Size' = (IF file.header THEN file.data ELSE 0)
      /\ state' \in {"open", "failed"} /\ (state' = "open" => file.header)
      /\ UNCHANGED <<file, m_index, iPacketBytes, packet, next>>
      /\ m_index = 0 /\ next = 0 /\ packet = <<>>
  BY DEF W!Open, WavInv
<1>5. m_subChunk2Size' \in 0 .. MaxBytes /\ m_subChunk2Size' % WavFrame = 0
  BY <1>1, <1>2, <1>3, <1>4
<1>6. W!TypeOK'
  BY <1>4, <1>5 DEF WavInv, W!TypeOK
<1>7. W!FramesAligned'
  BY <1>4 DEF WavInv, W!FramesAligned
<1>8. W!PositionInTrack' /\ W!BehindOnlyNearEnd'
  BY <1>4, <1>5 DEF W!PositionInTrack, W!BehindOnlyNearEnd, W!BehindTrack, W!totalBytes
<1>9. state' = "open" => m_subChunk2Size' \in Nat \ {0}
  BY <1>3, <1>4
<1>10. state' = "open" => 0 % m_subChunk2Size' = 0
  BY <1>9, NoFrames
<1>11. 0 % iPacketBytes = 0
  BY <1>3, NoFrames
<1> QED BY <1>2, <1>4, <1>5, <1>6, <1>7, <1>8, <1>9, <1>10, <1>11 DEF WavInv

LEMMA DataStep ==
  ASSUME WavInv, W!data
  PROVE  WavInv' /\ Gapless
BY AheadStep, AtEndStep, AcrossStep DEF W!data

LEMMA WavStep == WavInv /\ [Next]_vars => WavInv'
<1> SUFFICES ASSUME WavInv, [Next]_vars PROVE WavInv'
  OBVIOUS
<1>1. CASE UNCHANGED wavVars
  BY <1>1 DEF wavVars, WavInv, W!TypeOK, W!File, W!Frames, W!PositionInTrack, W!totalBytes,
     W!BehindOnlyNearEnd, W!BehindTrack, W!FramesAligned
<1>2. CASE W!Open
  BY <1>2, OpenStep
<1>3. CASE W!data
  BY <1>3, DataStep
<1>4. CASE W!dataOverrun
  <2>1. /\ UNCHANGED <<file, m_subChunk2Size, m_index, iPacketBytes, packet, next>>
        /\ state = "open" /\ state' = "crashed"
        /\ m_index > m_subChunk2Size
    BY <1>4 DEF W!dataOverrun, W!totalBytes
  <2>2. W!TypeOK'
    BY <2>1 DEF WavInv, W!TypeOK
  <2>3. m_index \in Nat /\ m_subChunk2Size \in Nat
    BY <2>1, OpenSizes
  <2>4. ~ (iPacketBytes =< m_subChunk2Size)
    BY <2>1, <2>3 DEF WavInv, W!PositionInTrack, W!totalBytes
  <2> QED BY <2>1, <2>2, <2>4 DEF WavInv, W!PositionInTrack, W!BehindOnlyNearEnd,
             W!BehindTrack, W!totalBytes, W!FramesAligned
<1>5. UNCHANGED wavVars \/ W!Next
  BY DEF Next, openAudio, Wav, Fifo, vars
<1> QED BY <1>1, <1>2, <1>3, <1>4, <1>5 DEF W!Next

-----------------------------------------------------------------------------
(* The fifo.                                                               *)

LEMMA Multiples ==
  ASSUME NEW b \in {1, 2, 3, 4}, NEW c \in Nat, NEW q \in Nat
  PROVE  (q * (b * c)) % b = 0
OBVIOUS

\* As many whole frames as fit.
LEMMA FramesThatFit ==
  ASSUME NEW f \in Nat \ {0}, NEW n \in Nat, n >= f
  PROVE  /\ (n \div f) * f \in Nat \ {0} /\ n \div f \in Nat
         /\ ((n \div f) * f) % f = 0
OBVIOUS

\* The sizes of a fifo whose frames are not empty.
LEMMA FifoSizes ==
  ASSUME parms \in Parms, F!FrameBytes # 0
  PROVE  /\ F!SampleBytes \in {1, 2, 3, 4} /\ parms.chans \in Nat \ {0}
         /\ F!FrameBytes \in Nat \ {0}
         /\ F!iPacketBytes \in Nat \ {0}
         /\ F!iPacketBytes % F!FrameBytes = 0
         /\ F!iPacketBytes % F!SampleBytes = 0
<1>1. F!FifoConstants
  BY SourceAssumption
<1>2. /\ parms.bytes \in 0 .. 4 /\ parms.chans \in Nat /\ PeriodBytes \in Nat
      /\ PeriodBytes >= parms.bytes * parms.chans
  BY <1>1 DEF F!FifoConstants
<1>3. parms.bytes \in {1, 2, 3, 4} /\ parms.chans \in Nat \ {0}
  <2>1. parms.bytes = 0 => F!FrameBytes = 0
    BY <1>2 DEF F!FrameBytes
  <2>2. parms.chans = 0 => F!FrameBytes = 0
    BY <1>2 DEF F!FrameBytes
  <2> QED BY <1>2, <2>1, <2>2
<1>4. F!FrameBytes = parms.bytes * parms.chans /\ F!FrameBytes \in Nat \ {0}
  BY <1>2, <1>3 DEF F!FrameBytes
<1>5. PeriodBytes >= F!FrameBytes
  BY <1>2, <1>4
<1>6. /\ (PeriodBytes \div F!FrameBytes) * F!FrameBytes \in Nat \ {0}
      /\ PeriodBytes \div F!FrameBytes \in Nat
      /\ ((PeriodBytes \div F!FrameBytes) * F!FrameBytes) % F!FrameBytes = 0
  <2> DEFINE f == F!FrameBytes
  <2>1. f \in Nat \ {0} /\ PeriodBytes \in Nat /\ PeriodBytes >= f
    BY <1>2, <1>4, <1>5
  <2> HIDE DEF f
  <2>2. /\ (PeriodBytes \div f) * f \in Nat \ {0} /\ PeriodBytes \div f \in Nat
        /\ ((PeriodBytes \div f) * f) % f = 0
    BY <2>1, FramesThatFit
  <2> QED BY <2>2 DEF f
<1>7. ((PeriodBytes \div F!FrameBytes) * F!FrameBytes) % parms.bytes = 0
  <2> DEFINE q == PeriodBytes \div F!FrameBytes
  <2>1. q \in Nat
    BY <1>6
  <2> HIDE DEF q
  <2>2. (q * (parms.bytes * parms.chans)) % parms.bytes = 0
    BY <1>3, <2>1, Multiples
  <2> QED BY <1>4, <2>2 DEF q
<1> QED BY <1>3, <1>4, <1>6, <1>7 DEF F!iPacketBytes, F!SampleBytes

\* A packet is whole samples: swapping mirrors each byte within its sample.
LEMMA SwapMirrors ==
  ASSUME parms \in Parms, F!FrameBytes # 0, NEW S, NEW buf \in Seq(S),
         Len(buf) = F!iPacketBytes
  PROVE  /\ F!Swapped(buf) \in [1 .. F!iPacketBytes -> S]
         /\ \A i \in 1 .. F!iPacketBytes :
              /\ F!Mirror(i) \in 1 .. F!iPacketBytes
              /\ F!Swapped(buf)[i] = buf[F!Mirror(i)]
<1> DEFINE P == F!iPacketBytes
<1> DEFINE b == F!SampleBytes
<1>1. P \in Nat \ {0} /\ b \in Nat \ {0} /\ P % b = 0
  BY FifoSizes
<1>2. ASSUME parms.needswap, NEW i \in 1 .. P
      PROVE  /\ F!Mirror(i) \in 1 .. P
             /\ F!Swapped(buf)[i] = buf[F!Mirror(i)]
  <2> DEFINE k == (i - 1) % b
  <2> DEFINE first == ((i - 1) \div b) * b
  <2>0. i - 1 \in Int /\ i \in Int
    OBVIOUS
  <2>1. i - 1 = b * ((i - 1) \div b) + k /\ k \in 0 .. b - 1 /\ (i - 1) \div b \in Int
    BY <1>1, <2>0, Divided, Zenon
  <2>2. first \in Int /\ first = (i - 1) - k
    <3> HIDE DEF k, b
    <3> DEFINE q == (i - 1) \div b
    <3>1. q \in Int /\ b \in Nat /\ k \in Int /\ i - 1 = b * q + k
      BY <1>1, <2>1
    <3> HIDE DEF q
    <3>2. q * b = b * q /\ q * b \in Int
      BY <3>1
    <3> QED BY <2>0, <3>1, <3>2 DEF q
  <2>3. first % b = 0
    <3> DEFINE q == (i - 1) \div b
    <3>1. q \in Int
      BY <2>1
    <3> HIDE DEF b, q
    <3>2. \A t \in Int : (t * b) % b = 0
      BY <1>1
    <3> QED BY <3>1, <3>2 DEF q
  <2> HIDE DEF k, first, P, b
  <2>4. first < P
    BY <1>1, <2>1, <2>2
  <2>5. first + b =< P
    BY <1>1, <2>2, <2>3, <2>4, WholeBetween
  <2>6. 2 * first + b + 1 - i = i + b - 1 - 2 * k
    BY <1>1, <2>1, <2>2
  <2>7. F!Mirror(i) = i + b - 1 - 2 * k
    BY <1>2 DEF F!Mirror, k, b
  <2>8. i + b - 1 - 2 * k \in 1 .. P
    BY <1>1, <2>1, <2>2, <2>5
  <2>9. F!swapSamples(buf, b)[i] = buf[2 * first + b + 1 - i]
    <3>1. F!swapSamples(buf, b)[i]
            = IF first + b > Len(buf) THEN buf[i] ELSE buf[2 * first + b + 1 - i]
      BY DEF F!swapSamples, first, P
    <3>2. ~ (first + b > Len(buf))
      BY <1>1, <2>2, <2>5 DEF P
    <3> QED BY <3>1, <3>2
  <2>10. F!Swapped(buf) = F!swapSamples(buf, b)
    BY <1>2 DEF F!Swapped, b
  <2> QED BY <2>6, <2>7, <2>8, <2>9, <2>10
<1>3. ASSUME ~ parms.needswap, NEW i \in 1 .. P
      PROVE  /\ F!Mirror(i) \in 1 .. P
             /\ F!Swapped(buf)[i] = buf[F!Mirror(i)]
  BY <1>3 DEF F!Mirror, F!Swapped
<1>4. DOMAIN F!Swapped(buf) = 1 .. P /\ F!Swapped(buf) = [i \in 1 .. P |-> F!Swapped(buf)[i]]
  BY DEF F!Swapped, F!swapSamples
<1>5. \A i \in 1 .. P : /\ F!Mirror(i) \in 1 .. P
                        /\ F!Swapped(buf)[i] = buf[F!Mirror(i)]
  BY <1>2, <1>3
<1>6. \A j \in 1 .. P : buf[j] \in S
  OBVIOUS
<1>7. F!Swapped(buf) \in [1 .. P -> S]
  <2> HIDE DEF P
  <2>1. \A i \in 1 .. P : F!Swapped(buf)[i] \in S
    BY <1>5, <1>6
  <2> QED BY <1>4, <2>1
<1> QED BY <1>5, <1>7

LEMMA FifoInit == Init => FifoInv
<1> SUFFICES ASSUME Init PROVE FifoInv
  OBVIOUS
<1>1. /\ main = "openAudio" /\ args \in Arguments /\ F!Init
  BY DEF Init
<1>2. NBytes \in Nat /\ Capacity \in Nat
  BY SourceAssumption DEF F!FifoConstants
<1>3. BytesInLine
  BY <1>1, <1>2 DEF F!Init, BytesInLine
<1> QED BY <1>1, <1>3 DEF FifoInv, F!Init

\* What a step of the reader sends: n bytes that follow those sent before, each
\* sample of the packet swapped once, then silence when mpd has written no more.
Ordered ==
  sent' # sent \/ consumed' # consumed =>
    LET n == consumed' - consumed
    IN  /\ n \in 0 .. F!iPacketBytes
        /\ F!Blocking => n = F!iPacketBytes
        /\ n < F!iPacketBytes => consumed' = written
        /\ \A i \in 1 .. F!iPacketBytes :
             sent'[i] = IF F!Mirror(i) =< n THEN consumed + F!Mirror(i) ELSE F!Pad

\* A packet delivered from a buffer of n bytes that come next, padded with silence.
LEMMA Delivered ==
  ASSUME FifoInv, main = "fifo", pc = "data",
         NEW n \in 0 .. F!iPacketBytes, NEW buf \in Seq(0 .. NBytes),
         Len(buf) = F!iPacketBytes,
         \A i \in 1 .. F!iPacketBytes :
           buf[i] = IF i =< n THEN consumed + i ELSE F!Pad,
         F!Blocking => n = F!iPacketBytes,
         n < F!iPacketBytes => consumed + n = written,
         F!Deliver(buf, n)
  PROVE  /\ Ordered
         /\ sent' \in [1 .. F!iPacketBytes -> 0 .. NBytes]
         /\ consumed' = consumed + n /\ m_tmpbuf' = <<>>
<1>1. parms \in Parms /\ F!FrameBytes # 0 /\ consumed \in Nat
  BY DEF FifoInv, BytesInLine
<1>2. sent' = F!Swapped(buf) /\ consumed' = consumed + n /\ m_tmpbuf' = <<>>
  BY DEF F!Deliver
<1>3. /\ F!Swapped(buf) \in [1 .. F!iPacketBytes -> 0 .. NBytes]
      /\ \A i \in 1 .. F!iPacketBytes :
           /\ F!Mirror(i) \in 1 .. F!iPacketBytes
           /\ F!Swapped(buf)[i] = buf[F!Mirror(i)]
  BY <1>1, SwapMirrors
<1>4. ASSUME NEW i \in 1 .. F!iPacketBytes
      PROVE  sent'[i] = IF F!Mirror(i) =< n THEN consumed + F!Mirror(i) ELSE F!Pad
  BY <1>2, <1>3
<1>5. F!iPacketBytes \in Nat
  BY <1>1, FifoSizes
<1>6. consumed' - consumed = n
  BY <1>1, <1>2, <1>5
<1>7. Ordered
  BY <1>2, <1>4, <1>6 DEF Ordered
<1> QED BY <1>2, <1>3, <1>7

\* The first n bytes of the pipe, read into the buffer.
Filled(n) == m_tmpbuf \o SubSeq(pipe, 1, n)
Left(n) == SubSeq(pipe, n + 1, Len(pipe))

LEMMA BytesRead ==
  ASSUME BytesInLine, NEW n \in 0 .. Len(pipe)
  PROVE  /\ Filled(n) \in Seq(1 .. NBytes) /\ Len(Filled(n)) = Len(m_tmpbuf) + n
         /\ \A i \in 1 .. Len(Filled(n)) : Filled(n)[i] = consumed + i
         /\ Left(n) \in Seq(1 .. NBytes) /\ Len(Left(n)) = Len(pipe) - n
         /\ \A i \in 1 .. Len(Left(n)) : Left(n)[i] = consumed + Len(Filled(n)) + i
<1> DEFINE buf == Filled(n)
<1> DEFINE rest == Left(n)
<1>1. /\ consumed \in Nat /\ m_tmpbuf \in Seq(1 .. NBytes) /\ pipe \in Seq(1 .. NBytes)
      /\ \A i \in 1 .. Len(m_tmpbuf) : m_tmpbuf[i] = consumed + i
      /\ \A i \in 1 .. Len(pipe) : pipe[i] = consumed + Len(m_tmpbuf) + i
  BY DEF BytesInLine
<1> DEFINE taken == SubSeq(pipe, 1, n)
<1>2. /\ taken \in Seq(1 .. NBytes) /\ Len(taken) = n
      /\ \A i \in 1 .. n : taken[i] = pipe[i]
  BY <1>1, FirstElements, Zenon
<1>3. /\ rest \in Seq(1 .. NBytes) /\ Len(rest) = Len(pipe) - n
      /\ \A i \in 1 .. Len(rest) : rest[i] = pipe[n + i]
  <2>1. /\ rest \in Seq(1 .. NBytes) /\ Len(rest) = Len(pipe) - n
        /\ \A i \in 1 .. Len(pipe) - n : rest[i] = pipe[n + i]
    BY <1>1, LastElements, Zenon DEF Left
  <2> HIDE DEF rest
  <2> QED BY <2>1
<1> HIDE DEF taken, rest
<1>4. /\ buf \in Seq(1 .. NBytes) /\ Len(buf) = Len(m_tmpbuf) + n
      /\ \A i \in 1 .. Len(buf) :
           buf[i] = IF i =< Len(m_tmpbuf) THEN m_tmpbuf[i] ELSE taken[i - Len(m_tmpbuf)]
  <2>1. buf = m_tmpbuf \o taken
    BY DEF taken, Filled
  <2> HIDE DEF buf
  <2>2. /\ buf \in Seq(1 .. NBytes) /\ Len(buf) = Len(m_tmpbuf) + Len(taken)
        /\ \A i \in 1 .. Len(m_tmpbuf) + Len(taken) :
             buf[i] = IF i =< Len(m_tmpbuf) THEN m_tmpbuf[i] ELSE taken[i - Len(m_tmpbuf)]
    <3>1. /\ m_tmpbuf \o taken \in Seq(1 .. NBytes)
          /\ Len(m_tmpbuf \o taken) = Len(m_tmpbuf) + Len(taken)
          /\ \A i \in 1 .. Len(m_tmpbuf) + Len(taken) :
               (m_tmpbuf \o taken)[i]
                 = IF i =< Len(m_tmpbuf) THEN m_tmpbuf[i] ELSE taken[i - Len(m_tmpbuf)]
      BY <1>1, <1>2, Joined, Zenon
    <3> QED BY <2>1, <3>1, Zenon
  <2>3. Len(buf) = Len(m_tmpbuf) + n
    BY <1>2, <2>2
  <2> QED BY <1>2, <2>2, <2>3
<1> HIDE DEF buf
<1>5. ASSUME NEW i \in 1 .. Len(buf)
      PROVE  buf[i] = consumed + i
  <2>1. CASE i =< Len(m_tmpbuf)
    <3>1. i \in 1 .. Len(m_tmpbuf)
      BY <1>1, <1>4, <2>1
    <3>2. buf[i] = m_tmpbuf[i]
      BY <1>4, <2>1
    <3> QED BY <1>1, <3>1, <3>2
  <2>2. CASE i > Len(m_tmpbuf)
    <3>1. i - Len(m_tmpbuf) \in 1 .. n
      BY <1>1, <1>4, <2>2
    <3>2. pipe[i - Len(m_tmpbuf)] = consumed + Len(m_tmpbuf) + (i - Len(m_tmpbuf))
      BY <1>1, <3>1
    <3> QED BY <1>1, <1>2, <1>4, <2>2, <3>1, <3>2
  <2> QED BY <1>1, <2>1, <2>2
<1>6. ASSUME NEW i \in 1 .. Len(rest)
      PROVE  rest[i] = consumed + Len(buf) + i
  <2>1. n + i \in 1 .. Len(pipe)
    BY <1>1, <1>3
  <2> QED BY <1>1, <1>3, <1>4, <2>1
<1> QED BY <1>3, <1>4, <1>5, <1>6 DEF buf, rest

\* The reader goes on, with its buffer, its packet and its place in order.
LEMMA ReadKeeps ==
  ASSUME FifoInv, main = "fifo", pc = "data",
         UNCHANGED <<args, main, parms, mpd, written, pc, wholeWrites>>,
         BytesInLine', Len(m_tmpbuf') < F!iPacketBytes,
         sent' = sent \/ sent' \in [1 .. F!iPacketBytes -> 0 .. NBytes],
         F!Blocking \/ wholeWrites => consumed' % F!FrameBytes = 0,
         ~F!Blocking => m_tmpbuf' = <<>>,
         ~F!Blocking /\ wholeWrites => Len(pipe') % F!FrameBytes = 0
  PROVE  FifoInv'
<1>1. /\ F!FrameBytes' = F!FrameBytes /\ F!iPacketBytes' = F!iPacketBytes
      /\ F!Blocking' = F!Blocking
  BY DEF F!FrameBytes, F!iPacketBytes, F!Blocking
<1> QED BY <1>1 DEF FifoInv

\* What FifoInv says of a reader between two reads.
LEMMA Reading ==
  ASSUME FifoInv, main = "fifo", pc = "data"
  PROVE  /\ parms \in Parms /\ BytesInLine /\ NBytes \in Nat /\ consumed \in Nat
         /\ m_tmpbuf \in Seq(1 .. NBytes) /\ pipe \in Seq(1 .. NBytes)
         /\ consumed + Len(m_tmpbuf) + Len(pipe) = written
         /\ written \in 0 .. NBytes /\ Len(pipe) =< Capacity /\ Capacity \in Nat
         /\ F!FrameBytes \in Nat \ {0} /\ F!iPacketBytes \in Nat \ {0}
         /\ F!iPacketBytes % F!FrameBytes = 0
         /\ Len(m_tmpbuf) < F!iPacketBytes
         /\ F!Blocking \/ wholeWrites => consumed % F!FrameBytes = 0
<1>1. parms \in Parms /\ F!FrameBytes # 0
  BY DEF FifoInv
<1>2. NBytes \in Nat /\ Capacity \in Nat
  BY SourceAssumption DEF F!FifoConstants
<1> QED BY <1>1, <1>2, FifoSizes DEF FifoInv, BytesInLine

LEMMA ReadSomeStep ==
  ASSUME FifoInv, main = "fifo", F!ReadSome, UNCHANGED <<args, main>>
  PROVE  FifoInv' /\ Ordered
<1> DEFINE P == F!iPacketBytes
<1> DEFINE n == F!Smaller(P - Len(m_tmpbuf), Len(pipe))
<1> DEFINE buf == Filled(n)
<1> DEFINE rest == Left(n)
<1>1. /\ pc = "data" /\ F!Blocking /\ pipe' = rest
      /\ \/ Len(buf) = P /\ F!Deliver(buf, P)
         \/ Len(buf) # P /\ m_tmpbuf' = buf /\ UNCHANGED <<sent, consumed>>
      /\ UNCHANGED <<args, main, parms, mpd, written, pc, wholeWrites>>
  BY DEF F!ReadSome, Filled, Left
<1>2. /\ BytesInLine /\ NBytes \in Nat /\ consumed \in Nat
      /\ m_tmpbuf \in Seq(1 .. NBytes) /\ pipe \in Seq(1 .. NBytes)
      /\ consumed + Len(m_tmpbuf) + Len(pipe) = written
      /\ written \in 0 .. NBytes /\ Len(pipe) =< Capacity /\ Capacity \in Nat
      /\ F!FrameBytes \in Nat \ {0} /\ P \in Nat \ {0} /\ P % F!FrameBytes = 0
      /\ Len(m_tmpbuf) < P /\ consumed % F!FrameBytes = 0
  BY <1>1, Reading
<1>a. /\ NBytes \in Nat /\ consumed \in Nat /\ P \in Nat \ {0} /\ Capacity \in Nat
      /\ Len(m_tmpbuf) \in Nat /\ Len(pipe) \in Nat /\ Len(m_tmpbuf) < P
      /\ consumed + Len(m_tmpbuf) + Len(pipe) = written /\ Len(pipe) =< Capacity
  BY <1>2
<1> HIDE DEF P
<1>3. n \in 0 .. Len(pipe) /\ n =< P - Len(m_tmpbuf)
  BY <1>2 DEF F!Smaller
<1> HIDE DEF n
<1>4. /\ buf \in Seq(1 .. NBytes) /\ Len(buf) = Len(m_tmpbuf) + n
      /\ \A i \in 1 .. Len(buf) : buf[i] = consumed + i
      /\ rest \in Seq(1 .. NBytes) /\ Len(rest) = Len(pipe) - n
      /\ \A i \in 1 .. Len(rest) : rest[i] = consumed + Len(buf) + i
  BY <1>2, <1>3, BytesRead, Zenon
<1> HIDE DEF buf, rest
<1>5. Len(buf) \in Nat /\ Len(rest) \in Nat /\ Len(buf) =< P /\ Len(rest) =< Capacity
      /\ consumed + Len(buf) + Len(rest) = written
  <2>1. Len(buf) = Len(m_tmpbuf) + n /\ Len(rest) = Len(pipe) - n
    BY <1>4
  <2> QED BY <1>a, <1>3, <2>1
<1>6. CASE Len(buf) = P /\ F!Deliver(buf, P)
  <2>1. buf \in Seq(0 .. NBytes)
    BY <1>2, <1>4
  <2>2. \A i \in 1 .. P : buf[i] = IF i =< P THEN consumed + i ELSE F!Pad
    BY <1>2, <1>4, <1>6
  <2>3. P \in 0 .. P
    BY <1>2
  <2>4. /\ Ordered /\ sent' \in [1 .. P -> 0 .. NBytes]
        /\ consumed' = consumed + P /\ m_tmpbuf' = <<>>
    BY <1>1, <1>6, <2>1, <2>2, <2>3, Delivered DEF P
  <2>5. BytesInLine'
    <3>1. consumed' \in Nat /\ consumed' + 0 + Len(rest) = written
      BY <1>2, <1>5, <1>6, <2>4
    <3>2. \A i \in 1 .. Len(rest) : rest[i] = consumed' + 0 + i
      <4> TAKE i \in 1 .. Len(rest)
      <4>1. rest[i] = consumed + Len(buf) + i
        BY <1>4
      <4>2. consumed' + 0 + i = consumed + Len(buf) + i
        BY <1>2, <1>5, <1>6, <2>4
      <4> QED BY <4>1, <4>2
    <3>3. m_tmpbuf' = <<>> /\ pipe' = rest /\ written' = written
      BY <1>1, <2>4
    <3>4. /\ written' \in 0 .. NBytes /\ m_tmpbuf' \in Seq(1 .. NBytes)
          /\ pipe' \in Seq(1 .. NBytes) /\ Len(m_tmpbuf') = 0 /\ Len(pipe') =< Capacity
      BY <1>2, <1>4, <1>5, <3>3
    <3> QED BY <3>1, <3>2, <3>3, <3>4 DEF BytesInLine
  <2>6. consumed' % F!FrameBytes = 0
    <3>1. P \in Int /\ consumed \in Int
      BY <1>2
    <3> QED BY <1>2, <2>4, <3>1, WholeFrames, Zenon
  <2>7. Len(m_tmpbuf') < P
    BY <1>2, <2>4
  <2> QED BY <1>1, <2>4, <2>5, <2>6, <2>7, ReadKeeps, Zenon DEF P
<1>7. CASE Len(buf) # P /\ m_tmpbuf' = buf /\ UNCHANGED <<sent, consumed>>
  <2>1. BytesInLine'
    BY <1>1, <1>2, <1>4, <1>5, <1>7 DEF BytesInLine
  <2>2. Len(m_tmpbuf') < P
    BY <1>2, <1>5, <1>7
  <2>3. FifoInv'
    BY <1>1, <1>2, <1>7, <2>1, <2>2, ReadKeeps DEF P
  <2> QED BY <1>7, <2>3 DEF Ordered
<1> QED BY <1>1, <1>6, <1>7

LEMMA ReadPaddedStep ==
  ASSUME FifoInv, main = "fifo", F!ReadPadded, UNCHANGED <<args, main>>
  PROVE  FifoInv' /\ Ordered
<1> DEFINE P == F!iPacketBytes
<1> DEFINE n == F!Smaller(P, Len(pipe))
<1> DEFINE buf == [i \in 1 .. P |-> IF i =< n THEN pipe[i] ELSE F!Pad]
<1> DEFINE rest == SubSeq(pipe, n + 1, Len(pipe))
<1>1. /\ pc = "data" /\ ~F!Blocking /\ pipe' = rest /\ F!Deliver(buf, n)
      /\ UNCHANGED <<args, main, parms, mpd, written, pc, wholeWrites>>
  BY DEF F!ReadPadded
<1>2. /\ BytesInLine /\ NBytes \in Nat /\ consumed \in Nat
      /\ pipe \in Seq(1 .. NBytes)
      /\ consumed + Len(m_tmpbuf) + Len(pipe) = written
      /\ written \in 0 .. NBytes /\ Len(pipe) =< Capacity /\ Capacity \in Nat
      /\ F!FrameBytes \in Nat \ {0} /\ P \in Nat \ {0} /\ P % F!FrameBytes = 0
  BY <1>1, Reading
<1>3. m_tmpbuf = <<>> /\ Len(m_tmpbuf) = 0
  BY <1>1 DEF FifoInv
<1> HIDE DEF P
<1>4. n \in 0 .. Len(pipe) /\ n \in 0 .. P /\ n \in {P, Len(pipe)}
  BY <1>2 DEF F!Smaller
<1>5. n < P => consumed + n = written
  BY <1>2, <1>3, <1>4
<1> HIDE DEF n
<1>6. /\ rest \in Seq(1 .. NBytes) /\ Len(rest) = Len(pipe) - n
      /\ \A i \in 1 .. Len(rest) : rest[i] = pipe[n + i]
  <2>1. /\ rest \in Seq(1 .. NBytes) /\ Len(rest) = Len(pipe) - n
        /\ \A i \in 1 .. Len(pipe) - n : rest[i] = pipe[n + i]
    <3>1. pipe \in Seq(1 .. NBytes) /\ n \in 0 .. Len(pipe)
      BY <1>2, <1>4
    <3> QED BY <3>1, LastElements
  <2> QED BY <2>1
<1>7. \A i \in 1 .. Len(pipe) : pipe[i] = consumed + i
  BY <1>2, <1>3 DEF BytesInLine
<1>8. /\ buf \in Seq(0 .. NBytes) /\ Len(buf) = P
      /\ \A i \in 1 .. P : buf[i] = IF i =< n THEN consumed + i ELSE F!Pad
  <2>1. \A i \in 1 .. P : (IF i =< n THEN pipe[i] ELSE F!Pad) \in 0 .. NBytes
    BY <1>2, <1>4 DEF F!Pad
  <2>2. buf \in [1 .. P -> 0 .. NBytes]
    BY <2>1, Zenon
  <2>3. P \in Nat /\ DOMAIN buf = 1 .. P
    BY <1>2
  <2>4. \A i \in 1 .. P : buf[i] = IF i =< n THEN consumed + i ELSE F!Pad
    BY <1>2, <1>4, <1>7
  <2> HIDE DEF buf
  <2>5. buf \in Seq(0 .. NBytes) /\ Len(buf) = P
    BY <2>2, <2>3, ArrayIsSeq, Zenon
  <2> QED BY <2>4, <2>5
<1> HIDE DEF buf
<1>9. /\ Ordered /\ sent' \in [1 .. P -> 0 .. NBytes]
      /\ consumed' = consumed + n /\ m_tmpbuf' = <<>>
  BY <1>1, <1>4, <1>5, <1>8, Delivered DEF P
<1> HIDE DEF rest
<1>10. BytesInLine'
  <2>1. consumed' \in Nat /\ consumed' + 0 + Len(rest) = written /\ Len(rest) =< Capacity
    <3>1. Len(pipe) \in Nat /\ Len(rest) = Len(pipe) - n /\ consumed' = consumed + n
      BY <1>2, <1>6, <1>9
    <3>2. /\ consumed \in Nat /\ consumed + 0 + Len(pipe) = written
          /\ Len(pipe) =< Capacity /\ Capacity \in Nat
      BY <1>2, <1>3
    <3> QED BY <1>4, <3>1, <3>2
  <2>2. \A i \in 1 .. Len(rest) : rest[i] = consumed' + 0 + i
    <3> TAKE i \in 1 .. Len(rest)
    <3>1. Len(pipe) \in Nat /\ Len(rest) = Len(pipe) - n /\ consumed' = consumed + n
      BY <1>2, <1>6, <1>9
    <3>2. n + i \in 1 .. Len(pipe)
      BY <1>4, <3>1
    <3>3. rest[i] = pipe[n + i]
      BY <1>6
    <3>4. pipe[n + i] = consumed + (n + i)
      BY <1>7, <3>2
    <3>5. consumed' + 0 + i = consumed + (n + i)
      BY <1>2, <1>4, <3>1
    <3> QED BY <3>3, <3>4, <3>5
  <2>3. m_tmpbuf' = <<>> /\ pipe' = rest /\ written' = written
    BY <1>1, <1>9
  <2> QED BY <1>2, <1>6, <2>1, <2>2, <2>3 DEF BytesInLine
<1>11. ASSUME wholeWrites
       PROVE  consumed' % F!FrameBytes = 0 /\ Len(pipe') % F!FrameBytes = 0
  <2>1. n \in Int /\ consumed \in Int /\ Len(pipe) \in Int
    BY <1>2, <1>4
  <2>2. consumed % F!FrameBytes = 0 /\ Len(pipe) % F!FrameBytes = 0
    BY <1>1, <1>11 DEF FifoInv
  <2>3. n % F!FrameBytes = 0
    BY <1>2, <1>4, <2>2
  <2>4. (consumed + n) % F!FrameBytes = 0
    BY <1>2, <2>1, <2>2, <2>3, WholeFrames, Zenon
  <2>5. (Len(pipe) - n) % F!FrameBytes = 0
    BY <1>2, <2>1, <2>2, <2>3, WholeFrames, Zenon
  <2> QED BY <1>1, <1>6, <1>9, <2>4, <2>5
<1>12. Len(m_tmpbuf') < P
  BY <1>2, <1>9
<1> QED BY <1>1, <1>9, <1>10, <1>11, <1>12, ReadKeeps, Zenon DEF P

\* mpd adds to the pipe, whole frames or not.
LEMMA MpdWritesStep ==
  ASSUME FifoInv, main = "fifo", F!MpdWrites, UNCHANGED <<args, main>>
  PROVE  FifoInv' /\ Ordered
<1>1. PICK n \in WriteSize :
        /\ wholeWrites' = (wholeWrites /\ n % F!FrameBytes = 0)
        /\ written + n =< NBytes
        /\ Len(pipe) + n =< Capacity
        /\ pipe' = pipe \o [i \in 1 .. n |-> written + i]
        /\ written' = written + n
  BY DEF F!MpdWrites
<1>2. /\ pc = "data" /\ UNCHANGED <<args, main, parms, mpd, pc, m_tmpbuf, sent, consumed>>
  BY DEF F!MpdWrites
<1>3. n \in Nat \ {0}
  BY SourceAssumption DEF F!FifoConstants
<1>4. /\ BytesInLine /\ NBytes \in Nat /\ consumed \in Nat
      /\ m_tmpbuf \in Seq(1 .. NBytes) /\ pipe \in Seq(1 .. NBytes)
      /\ consumed + Len(m_tmpbuf) + Len(pipe) = written
      /\ written \in 0 .. NBytes
      /\ F!FrameBytes \in Nat \ {0}
  BY <1>2, Reading
<1>a. /\ NBytes \in Nat /\ consumed \in Nat /\ Len(m_tmpbuf) \in Nat /\ Len(pipe) \in Nat
      /\ consumed + Len(m_tmpbuf) + Len(pipe) = written /\ n \in Nat \ {0}
  BY <1>3, <1>4
<1> DEFINE new == [i \in 1 .. n |-> written + i]
<1>5. /\ new \in Seq(1 .. NBytes) /\ Len(new) = n
      /\ \A i \in 1 .. n : new[i] = written + i
  BY <1>1, <1>3, <1>4
<1> HIDE DEF new
<1>6. /\ pipe \o new \in Seq(1 .. NBytes) /\ Len(pipe \o new) = Len(pipe) + Len(new)
      /\ \A i \in 1 .. Len(pipe) + Len(new) :
           (pipe \o new)[i] = IF i =< Len(pipe) THEN pipe[i] ELSE new[i - Len(pipe)]
  BY <1>4, <1>5, Joined, Zenon
<1>7. pipe' = pipe \o new
  BY <1>1 DEF new
<1>8. /\ pipe' \in Seq(1 .. NBytes) /\ Len(pipe') = Len(pipe) + n
      /\ \A i \in 1 .. Len(pipe) + n :
           pipe'[i] = IF i =< Len(pipe) THEN pipe[i] ELSE new[i - Len(pipe)]
  BY <1>5, <1>6, <1>7, Zenon
<1>9. \A i \in 1 .. Len(pipe') : pipe'[i] = consumed + Len(m_tmpbuf) + i
  <2> TAKE i \in 1 .. Len(pipe')
  <2>0. Len(pipe) \in Nat /\ Len(m_tmpbuf) \in Nat /\ i \in 1 .. Len(pipe) + n
    BY <1>4, <1>8
  <2>1. CASE i =< Len(pipe)
    <3>1. pipe'[i] = pipe[i]
      BY <1>8, <2>0, <2>1
    <3>2. i \in 1 .. Len(pipe)
      BY <2>0, <2>1
    <3>3. pipe[i] = consumed + Len(m_tmpbuf) + i
      BY <1>4, <3>2, Zenon DEF BytesInLine
    <3> QED BY <3>1, <3>3
  <2>2. CASE i > Len(pipe)
    <3>1. i - Len(pipe) \in 1 .. n
      BY <1>a, <2>0, <2>2
    <3>2. new[i - Len(pipe)] = written + (i - Len(pipe))
      BY <1>5, <3>1
    <3>3. pipe'[i] = new[i - Len(pipe)]
      BY <1>8, <2>0, <2>2
    <3>4. written + (i - Len(pipe)) = consumed + Len(m_tmpbuf) + i
      BY <1>a, <2>0
    <3> QED BY <3>2, <3>3, <3>4
  <2> QED BY <2>0, <2>1, <2>2
<1>10. BytesInLine'
  <2>1. Len(pipe) \in Nat /\ Len(m_tmpbuf) \in Nat /\ Len(pipe') = Len(pipe) + n
    BY <1>4, <1>8
  <2>2. /\ written' \in 0 .. NBytes /\ Len(pipe') =< Capacity
        /\ consumed + Len(m_tmpbuf) + Len(pipe') = written'
    <3>1. written' = written + n /\ written + n =< NBytes /\ Len(pipe) + n =< Capacity
      BY <1>1
    <3> QED BY <1>a, <2>1, <3>1
  <2>3. pipe' \in Seq(1 .. NBytes)
    BY <1>8
  <2>4. UNCHANGED <<consumed, m_tmpbuf>>
    BY <1>2
  <2> QED BY <1>4, <1>9, <2>2, <2>3, <2>4 DEF BytesInLine
<1>11. ~F!Blocking /\ wholeWrites' => wholeWrites /\ Len(pipe') % F!FrameBytes = 0
  <2> SUFFICES ASSUME ~F!Blocking, wholeWrites'
               PROVE  wholeWrites /\ Len(pipe') % F!FrameBytes = 0
    OBVIOUS
  <2>0. wholeWrites
    BY <1>1
  <2>1. n % F!FrameBytes = 0 /\ Len(pipe) % F!FrameBytes = 0
    BY <1>1, <1>2, <2>0 DEF FifoInv
  <2>2. n \in Int /\ Len(pipe) \in Int
    BY <1>3, <1>4
  <2>3. (Len(pipe) + n) % F!FrameBytes = 0
    BY <1>4, <2>1, <2>2, WholeFrames, Zenon
  <2> QED BY <1>8, <2>0, <2>3
<1>12. /\ F!FrameBytes' = F!FrameBytes /\ F!iPacketBytes' = F!iPacketBytes
       /\ F!Blocking' = F!Blocking
  BY <1>2 DEF F!FrameBytes, F!iPacketBytes, F!Blocking
<1>13. wholeWrites' \in BOOLEAN /\ (wholeWrites' => wholeWrites)
  BY <1>1
<1> QED BY <1>2, <1>10, <1>11, <1>12, <1>13 DEF FifoInv, Ordered

LEMMA FifoStep == FifoInv /\ [Next]_vars => FifoInv' /\ Ordered
<1> SUFFICES ASSUME FifoInv, [Next]_vars PROVE FifoInv' /\ Ordered
  OBVIOUS
<1> USE DEF F!FrameBytes, F!iPacketBytes, F!Blocking
<1>1. CASE UNCHANGED <<args, main, fifoVars>>
  BY <1>1 DEF fifoVars, FifoInv, BytesInLine, Ordered
<1>2. CASE openAudio
  <2>1. /\ UNCHANGED <<args, mpd, written, pipe, pc, m_tmpbuf, sent, consumed, wholeWrites>>
        /\ main = "openAudio" /\ pc = "open" /\ args \in Arguments
    BY <1>2 DEF openAudio, FifoInv
  <2>2. BytesInLine' /\ Ordered
    BY <2>1 DEF FifoInv, BytesInLine, Ordered
  <2>3. \/ main' \in {"wav", "exit"}
        \/ main' = "fifo" /\ IsFifo(args) /\ parms' = AParms(args)
    BY <1>2 DEF openAudio, openWav, openFifo, openFails
  <2>4. IF main' = "fifo" THEN parms' \in Parms /\ parms' = AParms(args') ELSE pc' = "open"
    BY <2>1, <2>3 DEF Parms
  <2> QED BY <2>1, <2>2, <2>3, <2>4 DEF FifoInv
<1>3. ASSUME main = "fifo", F!Next, UNCHANGED <<args, main>>
      PROVE  FifoInv' /\ Ordered
  <2>1. CASE F!Open
    <3>1. /\ pc = "open"
          /\ UNCHANGED <<parms, mpd, written, pipe, m_tmpbuf, sent, consumed, wholeWrites>>
          /\ pc' \in {"crashed", "data"} /\ (pc' = "data" => F!FrameBytes # 0)
          /\ consumed = 0 /\ m_tmpbuf = <<>> /\ pipe = <<>> /\ sent = <<>>
      BY <2>1 DEF F!Open, FifoInv
    <3>2. BytesInLine' /\ Ordered
      BY <3>1 DEF FifoInv, BytesInLine, Ordered
    <3>3. parms \in Parms
      BY <1>3 DEF FifoInv
    <3>4. pc' = "data" => F!FrameBytes \in Nat \ {0} /\ F!iPacketBytes \in Nat \ {0}
      BY <3>1, <3>3, FifoSizes
    <3>5. /\ F!FrameBytes' = F!FrameBytes /\ F!iPacketBytes' = F!iPacketBytes
          /\ F!Blocking' = F!Blocking
      BY <3>1
    <3>6. Len(m_tmpbuf) = 0 /\ Len(pipe) = 0
      BY <3>1
    <3> HIDE DEF F!FrameBytes, F!iPacketBytes, F!Blocking
    <3>7. pc' = "data" => 0 % F!FrameBytes = 0 /\ 0 < F!iPacketBytes
      BY <3>4, NoFrames
    <3> QED BY <1>3, <3>1, <3>2, <3>5, <3>6, <3>7 DEF FifoInv
  <2>2. CASE F!ReadSome
    BY <1>3, <2>2, ReadSomeStep
  <2>3. CASE F!ReadPadded
    BY <1>3, <2>3, ReadPaddedStep
  <2>4. CASE F!ReadEnd \/ F!ReadError
    <3>1. /\ UNCHANGED <<parms, mpd, written, pipe, m_tmpbuf, sent, consumed, wholeWrites>>
          /\ pc' \in {"ended", "failed"}
      BY <2>4 DEF F!ReadEnd, F!ReadError
    <3> QED BY <1>3, <3>1 DEF FifoInv, BytesInLine, Ordered
  <2>5. CASE F!MpdOpens \/ F!MpdCloses
    <3>1. /\ UNCHANGED <<parms, pc, written, pipe, m_tmpbuf, sent, consumed, wholeWrites>>
          /\ mpd' \in {"open", "closed"}
      BY <2>5 DEF F!MpdOpens, F!MpdCloses
    <3> QED BY <1>3, <3>1 DEF FifoInv, BytesInLine, Ordered
  <2>6. CASE F!MpdWrites
    BY <1>3, <2>6, MpdWritesStep
  <2> QED BY <1>3, <2>1, <2>2, <2>3, <2>4, <2>5, <2>6 DEF F!Next, F!Reader, F!Mpd
<1> QED BY <1>1, <1>2, <1>3 DEF Next, Wav, Fifo, vars

-----------------------------------------------------------------------------
(* The theorems.                                                           *)

\* Each reader keeps its place in its source.
THEOREM SourceInvariant == Spec => [](WavInv /\ FifoInv)
<1>1. Init => WavInv /\ FifoInv
  BY WavInit, FifoInit
<1>2. WavInv /\ FifoInv /\ [Next]_vars => (WavInv /\ FifoInv)'
  BY WavStep, FifoStep
<1> QED BY <1>1, <1>2, PTL DEF Spec

\* Packets are cut between frames of the source, whatever the file, the sizes of
\* packets and the splits of the reads. One of a wav file that holds a packet has bytes
\* from behind the data segment only when it begins less than half a packet before its
\* end. Those of a fifo are cut between frames of the size the command line gives, by a
\* blocking reader whatever mpd writes at a time, by one that does not block as long as
\* mpd wrote whole frames.
THEOREM WholeFramesOnly == Spec => []FramesWhole
<1>1. ASSUME WavInv, FifoInv, main = "wav" PROVE W!TrackKept
  BY <1>1 DEF WavInv, W!TrackKept
<1>2. ASSUME FifoInv, main = "fifo", pc = "data"
      PROVE  /\ F!FramesWhole
             /\ LET v == stringToTokens(args.audioparams)
                IN  F!Blocking \/ wholeWrites => consumed % ((v[2] \div 8) * v[3]) = 0
  <2>1. /\ parms \in Parms /\ parms = AParms(args)
        /\ mpd \in {"starting", "open", "closed"} /\ wholeWrites \in BOOLEAN
        /\ sent = <<>> \/ sent \in [1 .. F!iPacketBytes -> 0 .. NBytes]
        /\ F!Blocking \/ wholeWrites => consumed % F!FrameBytes = 0
    BY <1>2 DEF FifoInv
  <2>2. F!TypeOK
    <3>1. /\ NBytes \in Nat /\ consumed \in Nat /\ written \in 0 .. NBytes
          /\ m_tmpbuf \in Seq(1 .. NBytes) /\ pipe \in Seq(1 .. NBytes)
          /\ consumed + Len(m_tmpbuf) + Len(pipe) = written
          /\ Len(pipe) =< Capacity /\ Len(m_tmpbuf) < F!iPacketBytes
      BY <1>2, Reading
    <3>2. consumed \in 0 .. NBytes
      BY <3>1
    <3> QED BY <1>2, <2>1, <3>1, <3>2 DEF F!TypeOK
  <2>3. LET v == stringToTokens(args.audioparams)
        IN  F!FrameBytes = (v[2] \div 8) * v[3]
    BY <2>1 DEF F!FrameBytes, AParms
  <2> QED BY <2>1, <2>2, <2>3 DEF F!FramesWhole
<1>3. WavInv /\ FifoInv => FramesWhole
  BY <1>1, <1>2 DEF FramesWhole
<1> QED BY <1>3, SourceInvariant, PTL

\* The sender takes the source in order: a track of a whole number of packets is
\* repeated without a gap, and the bytes mpd writes come once each, in their order,
\* every sample swapped once, however the reads are split, with silence only where mpd
\* has written no more.
THEOREM InOrder == Spec => SourceKept
<1>1. WavInv /\ [Next]_vars
        => [W!data /\ W!totalBytes % iPacketBytes = 0 => W!Continues]_(W!vars)
  BY DataStep DEF Gapless, W!totalBytes
<1>2. FifoInv /\ [Next]_vars
        => [sent' # sent \/ consumed' # consumed =>
              LET n == consumed' - consumed
              IN  /\ n \in 0 .. F!iPacketBytes
                  /\ F!Blocking => n = F!iPacketBytes
                  /\ n < F!iPacketBytes => consumed' = written
                  /\ \A i \in 1 .. F!iPacketBytes :
                       sent'[i] = IF F!Mirror(i) =< n THEN consumed + F!Mirror(i)
                                  ELSE F!Pad]_(F!vars)
  BY FifoStep DEF Ordered
<1> QED BY <1>1, <1>2, SourceInvariant, PTL
           DEF Spec, SourceKept, W!WholePacketsRepeat, F!StreamKept

-----------------------------------------------------------------------------
(* Recursive functions.                                                    *)

\* A set of naturals has its Min.
LEMMA MinIs ==
  ASSUME NEW S \in SUBSET Nat, S # {}
  PROVE  Min(S) \in S /\ \A y \in S : Min(S) =< y
<1> DEFINE Less == {p \in Nat \X Nat : p[1] < p[2]}
<1>1. Less = OpToRel(<, Nat)
  BY Zenon DEF OpToRel
<1>2. IsWellFoundedOn(Less, Nat)
  BY <1>1, NatLessThanWellFounded, Zenon
<1>3. PICK m \in S : \A y \in S : ~ (<<y, m>> \in Less)
  <2> HIDE DEF Less
  <2> QED BY <1>2, WFMin, Zenon
<1>4. \A y \in S : m =< y
  <2> TAKE y \in S
  <2>1. ~ (<<y, m>> \in Less)
    BY <1>3, Zenon
  <2>2. y \in Nat /\ m \in Nat
    OBVIOUS
  <2>3. <<y, m>> \in Less <=> y < m
    BY <2>2
  <2> HIDE DEF Less
  <2> QED BY <2>1, <2>2, <2>3
<1> QED BY <1>4 DEF Min

\* What holds at 0 and passes from each number to the next holds up to n.
LEMMA Climbs ==
  ASSUME NEW n \in Nat, NEW G, 0 \in G,
         \A k \in 0 .. n - 1 : k \in G => k + 1 \in G
  PROVE  \A k \in 0 .. n : k \in G
<1> DEFINE Bad == {k \in 0 .. n : k \notin G}
<1>1. SUFFICES ASSUME Bad # {} PROVE FALSE
  OBVIOUS
<1>2. Bad \in SUBSET Nat
  OBVIOUS
<1>3. Min(Bad) \in Bad /\ \A y \in Bad : Min(Bad) =< y
  BY <1>1, <1>2, MinIs
<1> DEFINE m == Min(Bad)
<1> HIDE DEF m
<1>4. m \in 0 .. n /\ m \notin G /\ \A y \in Bad : m =< y
  BY <1>3 DEF m
<1>5. m # 0
  BY <1>4
<1>6. m - 1 \in 0 .. n - 1 /\ m - 1 \in 0 .. n /\ m - 1 + 1 = m
  BY <1>4, <1>5
<1>7. m - 1 \in G
  BY <1>4, <1>6
<1> QED BY <1>4, <1>6, <1>7

\* A value and a step from each number to the next make a function.
Grows(u, n, z, step) ==
  u[0] = z /\ \A i \in 1 .. n : u[i] = step[<<i, u[i - 1]>>]
LEMMA Recurses ==
  ASSUME NEW n \in Nat, NEW V, NEW z \in V, NEW step \in [(1 .. n) \X V -> V]
  PROVE  \E u \in [0 .. n -> V] : Grows(u, n, z, step)
<1> DEFINE G == {k \in 0 .. n : \E u \in [0 .. k -> V] : Grows(u, k, z, step)}
<1>1. 0 \in G
  <2> DEFINE u == [i \in 0 .. 0 |-> z]
  <2>1. u \in [0 .. 0 -> V] /\ Grows(u, 0, z, step)
    BY DEF Grows
  <2>2. 0 \in 0 .. n
    OBVIOUS
  <2> HIDE DEF u
  <2> QED BY <2>1, <2>2
<1>2. ASSUME NEW k \in 0 .. n - 1, k \in G PROVE k + 1 \in G
  <2>1. PICK u \in [0 .. k -> V] : Grows(u, k, z, step)
    BY <1>2
  <2> DEFINE w == [i \in 0 .. k + 1 |-> IF i = k + 1 THEN step[<<i, u[k]>>] ELSE u[i]]
  <2>2. u[k] \in V /\ step[<<k + 1, u[k]>>] \in V
    OBVIOUS
  <2>3. w \in [0 .. k + 1 -> V]
    BY <2>2
  <2>4. w[0] = z
    BY <2>1 DEF Grows
  <2>5. ASSUME NEW i \in 1 .. k + 1 PROVE w[i] = step[<<i, w[i - 1]>>]
    <3>1. CASE i = k + 1
      BY <3>1
    <3>2. CASE i # k + 1
      <4>1. i \in 1 .. k /\ w[i] = u[i] /\ w[i - 1] = u[i - 1]
        BY <3>2
      <4> QED BY <2>1, <4>1 DEF Grows
    <3> QED BY <3>1, <3>2
  <2>6. k + 1 \in 0 .. n
    OBVIOUS
  <2> HIDE DEF w
  <2>7. Grows(w, k + 1, z, step)
    BY <2>4, <2>5 DEF Grows
  <2> QED BY <2>3, <2>6, <2>7
<1>3. n \in G
  <2>1. n \in 0 .. n
    OBVIOUS
  <2> HIDE DEF G
  <2> QED BY <1>1, <1>2, <2>1, Climbs, Zenon
<1> QED BY <1>3

\* What a sequence has.
LEMMA ElementsIn ==
  ASSUME NEW S, NEW s \in Seq(S)
  PROVE  Len(s) \in Nat /\ \A i \in 1 .. Len(s) : s[i] \in S
OBVIOUS

-----------------------------------------------------------------------------
(* Byte orders.                                                            *)

\* The first byte of the sample of byte i, less one, and the byte that takes its place.
First(i, n) == ((i - 1) \div n) * n
Facing(i, n) == 2 * First(i, n) + n + 1 - i
LEMMA Mirror ==
  ASSUME NEW n \in {2, 3, 4}, NEW len \in Nat, len % n = 0, NEW i \in 1 .. len
  PROVE  /\ ~(First(i, n) + n > len)
         /\ Facing(i, n) \in 1 .. len
         /\ First(Facing(i, n), n) = First(i, n)
         /\ Facing(Facing(i, n), n) = i
<1>1. CASE n = 2
  BY <1>1 DEF First, Facing
<1>2. CASE n = 3
  BY <1>2 DEF First, Facing
<1>3. CASE n = 4
  BY <1>3 DEF First, Facing
<1> QED BY <1>1, <1>2, <1>3

\* Reversing the bytes of every sample twice leaves them where they were.
LEMMA SwapTwice ==
  ASSUME NEW n \in {2, 3, 4}, NEW S, NEW buf \in Seq(S), Len(buf) % n = 0
  PROVE  /\ swapSamples(buf, n) \in Seq(S) /\ Len(swapSamples(buf, n)) = Len(buf)
         /\ swapSamples(swapSamples(buf, n), n) = buf
<1> DEFINE len == Len(buf)
           once == swapSamples(buf, n)
<1>1. len \in Nat /\ len % n = 0 /\ \A i \in 1 .. len : buf[i] \in S
  OBVIOUS
<1> HIDE DEF len
<1>2. \A i \in 1 .. len :
        /\ ~(First(i, n) + n > len) /\ Facing(i, n) \in 1 .. len
        /\ First(Facing(i, n), n) = First(i, n) /\ Facing(Facing(i, n), n) = i
  BY <1>1, Mirror, Zenon
<1>3. once = [i \in 1 .. len |->
                IF First(i, n) + n > len THEN buf[i] ELSE buf[Facing(i, n)]]
  BY Zenon DEF swapSamples, len, First, Facing
<1>4. \A i \in 1 .. len : once[i] = buf[Facing(i, n)]
  <2> HIDE DEF once
  <2> QED BY <1>2, <1>3
<1>5. once \in Seq(S) /\ Len(once) = len
  <2>1. once = [i \in 1 .. len |-> once[i]] /\ \A i \in 1 .. len : once[i] \in S
    <3> HIDE DEF once
    <3> QED BY <1>1, <1>2, <1>3, <1>4
  <2> HIDE DEF once
  <2>2. once \in [1 .. len -> S]
    BY <2>1
  <2> QED BY <1>1, <2>2
<1> HIDE DEF once
<1>6. swapSamples(once, n)
        = [i \in 1 .. len |->
             IF First(i, n) + n > len THEN once[i] ELSE once[Facing(i, n)]]
  BY <1>5, Zenon DEF swapSamples, First, Facing
<1>7. \A i \in 1 .. len : once[Facing(i, n)] = buf[i]
  BY <1>2, <1>4
<1>8. swapSamples(once, n) = [i \in 1 .. len |-> buf[i]]
  BY <1>2, <1>6, <1>7
<1>9. buf = [i \in 1 .. len |-> buf[i]]
  BY DEF len
<1> QED BY <1>5, <1>8, <1>9 DEF len, once

\* The values that a byte may have.
Octet == 0 .. 255

\* The function that Number computes, from the highest byte.
Sums(u, bytes) ==
  u = [i \in 0 .. Len(bytes) |->
         IF i = 0 THEN 0 ELSE u[i - 1] * 256 + bytes[Len(bytes) + 1 - i]]

\* Two bytes, three and four.
LEMMA NumberIs ==
  ASSUME NEW bytes \in Seq(Octet)
  PROVE  /\ Len(bytes) = 2 => Number(bytes) = bytes[2] * 256 + bytes[1]
         /\ Len(bytes) = 3 =>
              Number(bytes) = (bytes[3] * 256 + bytes[2]) * 256 + bytes[1]
         /\ Len(bytes) = 4 =>
              Number(bytes) =
                ((bytes[4] * 256 + bytes[3]) * 256 + bytes[2]) * 256 + bytes[1]
<1> DEFINE n == Len(bytes)
           step == [p \in (1 .. n) \X Nat |-> p[2] * 256 + bytes[n + 1 - p[1]]]
<1>1. n \in Nat /\ \A i \in 1 .. n : bytes[n + 1 - i] \in Nat
  <2>1. n \in Nat /\ \A j \in 1 .. n : bytes[j] \in Nat
    <3>1. Len(bytes) \in Nat
      OBVIOUS
    <3>2. \A j \in 1 .. Len(bytes) : bytes[j] \in Octet
      BY ElementsIn, Zenon
    <3>3. \A b \in Octet : b \in Nat
      BY DEF Octet
    <3> QED BY <3>1, <3>2, <3>3
  <2>2. \A i \in 1 .. n : n + 1 - i \in 1 .. n
    <3> HIDE DEF n
    <3> QED BY <2>1
  <2> HIDE DEF n
  <2> QED BY <2>1, <2>2
<1>2. \E u : Sums(u, bytes)
  <2>1. step \in [(1 .. n) \X Nat -> Nat]
    <3> HIDE DEF n
    <3>1. \A p \in (1 .. n) \X Nat : p[1] \in 1 .. n /\ p[2] \in Nat
      BY SMT
    <3>2. \A p \in (1 .. n) \X Nat : p[2] * 256 + bytes[n + 1 - p[1]] \in Nat
      BY <1>1, <3>1, SMT
    <3> QED BY <3>2, SMT
  <2>2. PICK u \in [0 .. n -> Nat] : Grows(u, n, 0, step)
    <3> HIDE DEF step, n
    <3>1. 0 \in Nat
      OBVIOUS
    <3> QED BY <1>1, <2>1, <3>1, Recurses, Zenon
  <2>3. ASSUME NEW i \in 1 .. n PROVE u[i] = u[i - 1] * 256 + bytes[n + 1 - i]
    <3> HIDE DEF n
    <3>1. i - 1 \in 0 .. n
      BY <1>1, SMT
    <3>2. u[i - 1] \in Nat
      BY <3>1, SMT
    <3>3. <<i, u[i - 1]>> \in (1 .. n) \X Nat
      BY <3>2, SMT
    <3>4. u[i] = step[<<i, u[i - 1]>>]
      BY <2>2 DEF Grows
    <3> QED BY <3>3, <3>4, SMT
  <2>4. u = [i \in 0 .. n |-> IF i = 0 THEN 0 ELSE u[i - 1] * 256 + bytes[n + 1 - i]]
    <3> HIDE DEF n, step
    <3>1. ASSUME NEW i \in 0 .. n
          PROVE  u[i] = IF i = 0 THEN 0 ELSE u[i - 1] * 256 + bytes[n + 1 - i]
      BY <1>1, <2>2, <2>3, SMT DEF Grows
    <3> QED BY <3>1, SMT
  <2>5. Sums(u, bytes)
    BY <2>4, Zenon DEF Sums
  <2> QED BY <2>5, Zenon
<1> DEFINE h == CHOOSE u : Sums(u, bytes)
<1>3. Sums(h, bytes)
  BY <1>2, Zenon
<1>4. Number(bytes) = h[n]
  BY Zenon DEF Number, Sums
<1> HIDE DEF h
<1>0. \A i \in 0 .. n :
        h[i] = IF i = 0 THEN 0 ELSE h[i - 1] * 256 + bytes[n + 1 - i]
  <2>1. h = [i \in 0 .. n |-> IF i = 0 THEN 0 ELSE h[i - 1] * 256 + bytes[n + 1 - i]]
    BY <1>3 DEF Sums
  <2> DEFINE Next256(i) == IF i = 0 THEN 0 ELSE h[i - 1] * 256 + bytes[n + 1 - i]
  <2> HIDE DEF n
  <2>2. h = [i \in 0 .. n |-> Next256(i)]
    BY <2>1
  <2>3. \A i \in 0 .. n : h[i] = Next256(i)
    <3> HIDE DEF Next256
    <3> QED BY <2>2
  <2> QED BY <2>3
<1> HIDE DEF n
<1>5. h[0] = 0
  <2>1. 0 \in 0 .. n
    BY <1>1
  <2> QED BY <1>0, <2>1
<1>6. \A i \in 1 .. n : h[i] = h[i - 1] * 256 + bytes[n + 1 - i]
  <2> TAKE i \in 1 .. n
  <2>1. i \in 0 .. n /\ i # 0
    BY <1>1
  <2> QED BY <1>0, <2>1
<1>7. ASSUME n >= 1 PROVE h[1] = bytes[n]
  <2>1. 1 \in 1 .. n
    BY <1>1, <1>7
  <2>2. h[1] = h[1 - 1] * 256 + bytes[n + 1 - 1]
    BY <1>6, <2>1, SMT
  <2>4. bytes[n + 1 - 1] \in Nat
    BY <1>1, <2>1, SMT
  <2>3. 1 - 1 = 0 /\ n + 1 - 1 = n
    BY <1>1
  <2> QED BY <1>5, <2>2, <2>3, <2>4
<1>8. ASSUME n >= 2 PROVE h[2] = bytes[n] * 256 + bytes[n - 1]
  <2>1. h[2] = h[2 - 1] * 256 + bytes[n + 1 - 2] /\ n + 1 - 2 = n - 1
    BY <1>1, <1>6, <1>8, SMT
  <2> QED BY <1>1, <1>7, <1>8, <2>1, SMT
<1>9. ASSUME n >= 3 PROVE h[3] = (bytes[n] * 256 + bytes[n - 1]) * 256 + bytes[n - 2]
  <2>1. h[3] = h[3 - 1] * 256 + bytes[n + 1 - 3] /\ n + 1 - 3 = n - 2
    BY <1>1, <1>6, <1>9, SMT
  <2> QED BY <1>1, <1>8, <1>9, <2>1, SMT
<1>10. ASSUME n >= 4
       PROVE  h[4] = ((bytes[n] * 256 + bytes[n - 1]) * 256 + bytes[n - 2]) * 256 + bytes[n - 3]
  <2>1. h[4] = h[4 - 1] * 256 + bytes[n + 1 - 4] /\ n + 1 - 4 = n - 3
    BY <1>1, <1>6, <1>10, SMT
  <2> QED BY <1>1, <1>9, <1>10, <2>1, SMT
<1>11. n = Len(bytes)
  BY Zenon DEF n
<1>12. CASE n = 2
  BY <1>4, <1>8, <1>11, <1>12
<1>13. CASE n = 3
  BY <1>4, <1>9, <1>11, <1>13
<1>14. CASE n = 4
  BY <1>4, <1>10, <1>11, <1>14
<1> QED BY <1>11, <1>12, <1>13, <1>14

\* A number is read back as it was written.
LEMMA Number2Written ==
  ASSUME NEW x \in Nat, x =< MaxWord
  PROVE  Number(inttoichar2(x)) = x
<1>1. inttoichar2(x) = <<x % 256, (x \div 256) % 256>>
  BY SMT DEF inttoichar2
<1>2. x % 256 \in Octet /\ (x \div 256) % 256 \in Octet
  BY SMT DEF Octet
<1>3. inttoichar2(x) \in Seq(Octet) /\ Len(inttoichar2(x)) = 2
        /\ inttoichar2(x)[1] = x % 256 /\ inttoichar2(x)[2] = (x \div 256) % 256
  BY <1>1, <1>2, SMT
<1>4. Number(inttoichar2(x)) = ((x \div 256) % 256) * 256 + (x % 256)
  BY <1>3, NumberIs, SMT
<1> QED BY <1>4, SMT DEF MaxWord

LEMMA NumberOfFour ==
  ASSUME NEW p \in Nat, NEW q \in Nat, NEW r \in Nat, NEW s \in Nat,
         p < 256, q < 256, r < 256, s < 256
  PROVE  Number(<<p, q, r, s>>) = ((s * 256 + r) * 256 + q) * 256 + p
<1> DEFINE bytes == <<p, q, r, s>>
<1>1. /\ bytes \in Seq(Octet) /\ Len(bytes) = 4
      /\ bytes[1] = p /\ bytes[2] = q /\ bytes[3] = r /\ bytes[4] = s
  BY DEF Octet
<1> HIDE DEF bytes
<1>2. Number(bytes) = ((bytes[4] * 256 + bytes[3]) * 256 + bytes[2]) * 256 + bytes[1]
  BY <1>1, NumberIs
<1> QED BY <1>1, <1>2 DEF bytes

LEMMA Number4Written ==
  ASSUME NEW x \in Nat, x =< MaxInt
  PROVE  Number(inttoichar4(x)) = x
<1> DEFINE y == x \div 65536
           r == x % 65536
<1>1. y \in Nat /\ y < 65536 /\ r \in Nat /\ r < 65536 /\ x = y * 65536 + r
  BY SMT DEF MaxInt
<1>2. inttoichar4(x) = <<x % 256, (x \div 256) % 256, y % 256, (y \div 256) % 256>>
  BY SMT DEF inttoichar4
<1>3. \A z \in Nat : /\ z % 256 \in Nat /\ z % 256 < 256
                     /\ (z \div 256) % 256 \in Nat /\ (z \div 256) % 256 < 256
  BY SMT
<1>4. ((y \div 256) % 256) * 256 + (y % 256) = y
  <2> HIDE DEF y
  <2> QED BY <1>1, SMT
<1>5. ((x \div 256) % 256) * 256 + (x % 256) = r
  <2>1. ASSUME NEW a \in Nat, NEW b \in Nat, b < 65536, x = a * 65536 + b
        PROVE  ((x \div 256) % 256) * 256 + (x % 256) = b
    BY <2>1, SMT
  <2> HIDE DEF y, r
  <2> QED BY <1>1, <2>1
<1> HIDE DEF y, r
<1>6. Number(inttoichar4(x)) =
        ((((y \div 256) % 256) * 256 + (y % 256)) * 256 + ((x \div 256) % 256)) * 256 + (x % 256)
  <2> DEFINE a == x % 256
             b == (x \div 256) % 256
             c == y % 256
             d == (y \div 256) % 256
  <2>1. /\ a \in Nat /\ b \in Nat /\ c \in Nat /\ d \in Nat
        /\ a < 256 /\ b < 256 /\ c < 256 /\ d < 256
    BY <1>1, <1>3
  <2>2. inttoichar4(x) = <<a, b, c, d>>
    BY <1>2
  <2>3. Number(<<a, b, c, d>>) = ((d * 256 + c) * 256 + b) * 256 + a
    <3> HIDE DEF a, b, c, d
    <3> QED BY <2>1, NumberOfFour
  <2> QED BY <2>2, <2>3
<1>7. Number(inttoichar4(x)) = (y * 256 + ((x \div 256) % 256)) * 256 + (x % 256)
  BY <1>4, <1>6
<1> QED BY <1>1, <1>5, <1>7, SMT

-----------------------------------------------------------------------------
(* The receiver undoes the sender.                                         *)

\* An array of any length is a sequence.
LEMMA SequencesAre ==
  ASSUME NEW S, NEW max, NEW s \in Sequences(S, max)
  PROVE  s \in Seq(S)
<1>1. PICK n \in 0 .. max : s \in [1 .. n -> S]
  BY DEF Sequences
<1>2. n \in Nat
  BY <1>1
<1> QED BY <1>1, <1>2

\* copyswap() undoes swapSamples() on whole samples.
LEMMA SwapUndone ==
  ASSUME NEW S, NEW buf \in Seq(S), NEW bits \in {16, 24, 32},
         Len(buf) % (bits \div 8) = 0
  PROVE  copyswap(swapSamples(buf, bits \div 8), bits) = buf
<1> DEFINE n == bits \div 8
           src == swapSamples(buf, n)
           len == Len(src)
<1>1. n \in {2, 3, 4}
  BY SMT
<1>2. src \in Seq(S) /\ Len(src) = Len(buf) /\ swapSamples(src, n) = buf
  BY <1>1, SwapTwice
<1>3. (len \div n) * n = len
  <2>1. len \in Nat /\ len % n = 0
    BY <1>2
  <2> HIDE DEF len, n
  <2>2. CASE n = 2
    BY <2>1, <2>2
  <2>3. CASE n = 3
    BY <2>1, <2>3
  <2>4. CASE n = 4
    BY <2>1, <2>4
  <2> QED BY <1>1, <2>2, <2>3, <2>4
<1>4. SubSeq(src, 1, len) = src
  <2> HIDE DEF src
  <2> QED BY <1>2
<1>5. copyswap(src, bits) = [i \in 1 .. len |-> IF i =< len THEN buf[i] ELSE Unwritten]
  <2>1. (IF bits \in {16, 24, 32} THEN (Len(src) \div n) * n ELSE 0) = len
    BY <1>3
  <2> HIDE DEF src
  <2>2. copyswap(src, bits)
          = [i \in 1 .. Len(src) |->
               IF i =< len THEN swapSamples(SubSeq(src, 1, len), n)[i] ELSE Unwritten]
    BY <2>1, Zenon DEF copyswap
  <2> QED BY <1>2, <1>4, <2>2, Zenon
<1>6. \A i \in 1 .. len : i =< len
  BY <1>2
<1>7. copyswap(src, bits) = [i \in 1 .. len |-> buf[i]]
  <2> HIDE DEF src
  <2> QED BY <1>5, <1>6
<1>8. buf = [i \in 1 .. len |-> buf[i]]
  <2>1. buf = [i \in 1 .. Len(buf) |-> buf[i]]
    OBVIOUS
  <2> HIDE DEF src
  <2> QED BY <1>2, <2>1
<1> QED BY <1>7, <1>8

\* The header is read as it was written.
LEMMA HeaderRead ==
  ASSUME NEW freq \in Nat, NEW bits \in Nat, NEW chans \in Nat, NEW datalen \in Nat,
         freq =< MaxInt, bits =< MaxWord, chans =< MaxWord, datalen =< MaxInt,
         freq * chans * (bits \div 8) =< MaxInt
  PROVE  readHeader(makewavheader(freq, bits, chans, datalen))
           = [ok |-> TRUE, m_numChannels |-> chans, m_sampleRate |-> freq,
              m_byteRate |-> freq * chans * (bits \div 8), m_bitsPerSample |-> bits,
              m_subChunk2Size |-> datalen]
<1> DEFINE rate == freq * chans * (bits \div 8)
           h == makewavheader(freq, bits, chans, datalen)
<1>1. /\ h.riff = "RIFF" /\ h.wave = "WAVE" /\ h.fmt = "fmt " /\ h.data = "data"
      /\ h.fmtlen = inttoichar4(16) /\ h.formtag = inttoichar2(1)
      /\ h.nchan = inttoichar2(chans) /\ h.sampspersec = inttoichar4(freq)
      /\ h.avgbytpersec = inttoichar4(rate) /\ h.bitspersamp = inttoichar2(bits)
      /\ h.datalen = inttoichar4(datalen)
  BY DEF makewavheader
<1>0. rate \in Nat /\ rate =< MaxInt
  OBVIOUS
<1> HIDE DEF h, rate
<1>2. Number(inttoichar4(16)) = 16 /\ Number(inttoichar2(1)) = 1
  <2>1. 16 \in Nat /\ 16 =< MaxInt /\ 1 \in Nat /\ 1 =< MaxWord
    BY SMT DEF MaxInt, MaxWord
  <2> QED BY <2>1, Number2Written, Number4Written
<1>3. Accepted(h)
  <2>1. Number(h.fmtlen) = 16 /\ Number(h.formtag) = 1
    BY <1>1, <1>2, Zenon
  <2> QED BY <1>1, <2>1, Zenon DEF Accepted
<1>4. /\ Number(h.nchan) = chans /\ Number(h.sampspersec) = freq
      /\ Number(h.avgbytpersec) = rate /\ Number(h.bitspersamp) = bits
      /\ Number(h.datalen) = datalen
  BY <1>0, <1>1, Number2Written, Number4Written, Zenon
<1>5. readHeader(h)
           = [ok |-> TRUE, m_numChannels |-> chans, m_sampleRate |-> freq,
              m_byteRate |-> rate, m_bitsPerSample |-> bits, m_subChunk2Size |-> datalen]
  BY <1>3, <1>4 DEF readHeader
<1> QED BY <1>5 DEF h, rate

LEMMA SwapUndoes ==
  ASSUME Given, Swap, UNCHANGED <<kind, input>>
  PROVE  ReceiverUndoesSender'
<1>1. kind = "order" /\ input \in Samples
  BY DEF Given, Swap
<1>2. input.buf \in Seq(Byte) /\ input.bits \in {16, 24, 32}
  <2>1. input.buf \in Sequences(Byte, MaxSamples) /\ input.bits \in Bits
    BY <1>1 DEF Samples
  <2> QED BY <2>1, SequencesAre, ConversionsAssumption
<1>3. Len(input.buf) % (input.bits \div 8) = 0 =>
        copyswap(swapSamples(input.buf, input.bits \div 8), input.bits) = input.buf
  BY <1>2, SwapUndone
<1>4. output' = copyswap(swapSamples(input.buf, input.bits \div 8), input.bits)
  BY DEF Swap
<1> QED BY <1>1, <1>3, <1>4 DEF ReceiverUndoesSender, Done

LEMMA HeaderUndoes ==
  ASSUME Given, Header, UNCHANGED <<kind, input>>
  PROVE  ReceiverUndoesSender'
<1>1. kind = "header" /\ input \in Headers
  BY DEF Given, Header
<1>2. /\ input.freq \in Freq /\ input.chans \in Chans /\ input.datalen \in DataLen
      /\ input.bits \in Bits
  BY <1>1 DEF Headers
<1>3. /\ input.freq \in Nat /\ input.chans \in Nat /\ input.datalen \in Nat
      /\ input.bits \in {16, 24, 32}
      /\ input.freq =< MaxInt /\ input.chans =< MaxWord /\ input.datalen =< MaxInt
      /\ input.freq * input.chans * (input.bits \div 8) =< MaxInt
  BY <1>2, ConversionsAssumption
<1>4. input.bits \in Nat /\ input.bits =< MaxWord
  BY <1>3, SMT DEF MaxWord
<1>5. readHeader(makewavheader(input.freq, input.bits, input.chans, input.datalen))
        = [ok |-> TRUE, m_numChannels |-> input.chans, m_sampleRate |-> input.freq,
           m_byteRate |-> input.freq * input.chans * (input.bits \div 8),
           m_bitsPerSample |-> input.bits, m_subChunk2Size |-> input.datalen]
  <2> DEFINE f == input.freq
             c == input.chans
             b == input.bits
             d == input.datalen
  <2>1. /\ f \in Nat /\ c \in Nat /\ d \in Nat /\ b \in Nat
        /\ f =< MaxInt /\ c =< MaxWord /\ d =< MaxInt /\ b =< MaxWord
        /\ f * c * (b \div 8) =< MaxInt
    BY <1>3, <1>4
  <2>2. readHeader(makewavheader(f, b, c, d))
          = [ok |-> TRUE, m_numChannels |-> c, m_sampleRate |-> f,
             m_byteRate |-> f * c * (b \div 8), m_bitsPerSample |-> b,
             m_subChunk2Size |-> d]
    <3> HIDE DEF f, c, b, d
    <3> QED BY <2>1, HeaderRead, Zenon
  <2> QED BY <2>2
<1>6. kind' = "header" /\ input' = input
        /\ output' = readHeader(makewavheader(input.freq, input.bits, input.chans,
                                              input.datalen))
  BY <1>1 DEF Header
<1>7. ~Done("order")'
  BY <1>6 DEF Done
<1> QED BY <1>5, <1>6, <1>7, Zenon DEF ReceiverUndoesSender

-----------------------------------------------------------------------------
(* Samples are played.                                                     *)

\* Clipping at the range of the samples and taking the 16 highest bits is taking
\* them and clipping at the range of a short.
LEMMA Clip24Is ==
  ASSUME NEW w \in Int, NEW r \in Nat, r < Step(24),
         NEW f \in Int, f = w * Step(24) + r
  PROVE  Clip(f, Full(24)) \div Step(24) = Clip(w, Full(16))
<1>1. Full(24) = 8388608 /\ Full(16) = 32768 /\ Step(24) = 256
  BY SMT DEF Full, Step
<1>2. f = 256 * w + r /\ r < 256
  BY <1>1, SMT
<1>3. Clip(f, 8388608) \div 256 = Clip(w, 32768)
  <2>1. CASE f > 8388608 - 1
    BY <1>2, <2>1, SMT DEF Clip
  <2>2. CASE f < -8388608
    BY <1>2, <2>2, SMT DEF Clip
  <2>3. CASE ~(f > 8388608 - 1) /\ ~(f < -8388608)
    <3>1. f \div 256 = w
      BY <1>2, SMT
    <3> QED BY <1>2, <2>3, <3>1, SMT DEF Clip
  <2> QED BY <2>1, <2>2, <2>3
<1> QED BY <1>1, <1>3, SMT

\* Whatever the processor makes of a float out of range, the sign that
\* alsadirect.cpp:502 looks at tells which end it left.
LEMMA Clip32Is ==
  ASSUME NEW w \in Int, NEW r \in Nat, r =< Step(32),
         NEW f \in Int, f = w * Step(32) + r, NEW v \in IntOf(f, Full(32))
  PROVE  Clip32(f, v, Full(32)) \div Step(32)
           \in {Clip(w, Full(16)), Clip(w + 1, Full(16))}
<1>1. Full(32) = 8388608 /\ Full(16) = 32768 /\ Step(32) = 256
  BY SMT DEF Full, Step
<1>2. f = 256 * w + r /\ r =< 256 /\ v \in IntOf(f, 8388608)
  BY <1>1, SMT
<1>3. Clip32(f, v, 8388608) \div 256 \in {Clip(w, 32768), Clip(w + 1, 32768)}
  <2>1. CASE f > 8388608 - 1
    <3>1. v \in {-8388608, 8388607}
      BY <1>2, <2>1, SMT DEF IntOf, Clip
    <3>2. Clip32(f, v, 8388608) = 8388607
      BY <2>1, <3>1, SMT DEF Clip32
    <3>3. 8388607 \div 256 = 32767
      BY SMT
    <3>4. Clip(w + 1, 32768) = 32767
      BY <1>2, <2>1, SMT DEF Clip
    <3> QED BY <3>2, <3>3, <3>4, SMT
  <2>2. CASE f < -8388608
    <3>1. v = -8388608
      BY <1>2, <2>2, SMT DEF IntOf, Clip
    <3>2. Clip32(f, v, 8388608) = -8388608
      BY <2>2, <3>1, SMT DEF Clip32
    <3>3. (-8388608) \div 256 = -32768
      BY SMT
    <3>4. Clip(w, 32768) = -32768
      BY <1>2, <2>2, SMT DEF Clip
    <3> QED BY <3>2, <3>3, <3>4, SMT
  <2>3. CASE ~(f > 8388608 - 1) /\ ~(f < -8388608)
    <3>1. v = f
      BY <1>2, <2>3, SMT DEF IntOf
    <3>2. Clip32(f, v, 8388608) = f
      BY <3>1, SMT DEF Clip32
    <3>3. CASE r < 256
      <4>1. f \div 256 = w /\ Clip(w, 32768) = w
        BY <1>2, <2>3, <3>3, SMT DEF Clip
      <4> QED BY <3>2, <4>1, SMT
    <3>4. CASE r = 256
      <4>1. f \div 256 = w + 1 /\ Clip(w + 1, 32768) = w + 1
        BY <1>2, <2>3, <3>4, SMT DEF Clip
      <4> QED BY <3>2, <4>1, SMT
    <3> QED BY <1>2, <3>3, <3>4, SMT
  <2> QED BY <2>1, <2>2, <2>3
<1> QED BY <1>1, <1>3, SMT

\* A byte is a number below 256.
LEMMA BytesAre ==
  ASSUME NEW bytes \in Seq(Octet)
  PROVE  /\ Len(bytes) \in Nat
         /\ \A i \in 1 .. Len(bytes) : bytes[i] \in Nat /\ bytes[i] < 256
<1>1. Len(bytes) \in Nat /\ \A i \in 1 .. Len(bytes) : bytes[i] \in Octet
  BY ElementsIn, Zenon
<1>2. \A b \in Octet : b \in Nat /\ b < 256
  BY DEF Octet
<1> QED BY <1>1, <1>2

LEMMA TwoBytes ==
  ASSUME NEW a \in Nat, NEW b \in Nat, a < 256, b < 256
  PROVE  /\ <<a, b>> \in Seq(Octet) /\ Len(<<a, b>>) = 2
         /\ <<a, b>>[1] = a /\ <<a, b>>[2] = b
<1>1. a \in Octet /\ b \in Octet
  BY DEF Octet
<1> QED BY <1>1

\* The value of a sample from its two highest bytes.
LEMMA SignedIs ==
  ASSUME NEW bytes \in Seq(Octet)
  PROVE  /\ Len(bytes) = 2 => SignedSample(bytes) \in Int
         /\ Len(bytes) = 3 =>
              SignedSample(bytes) = 256 * SignedSample(<<bytes[2], bytes[3]>>) + bytes[1]
<1>1. /\ Len(bytes) \in Nat
      /\ \A i \in 1 .. Len(bytes) : bytes[i] \in Nat /\ bytes[i] < 256
  BY BytesAre, Zenon
<1>2. ASSUME Len(bytes) = 2 PROVE SignedSample(bytes) \in Int
  <2>1. bytes[1] \in Nat /\ bytes[2] \in Nat
    BY <1>1, <1>2, SMT
  <2>2. Number(bytes) \in Int
    BY <1>2, <2>1, NumberIs, SMT
  <2> QED BY <2>2, SMT DEF SignedSample
<1>3. ASSUME Len(bytes) = 3
      PROVE  SignedSample(bytes) = 256 * SignedSample(<<bytes[2], bytes[3]>>) + bytes[1]
  <2> DEFINE t == <<bytes[2], bytes[3]>>
  <2>1. /\ bytes[1] \in Nat /\ bytes[2] \in Nat /\ bytes[3] \in Nat
        /\ bytes[1] < 256 /\ bytes[2] < 256 /\ bytes[3] < 256
    BY <1>1, <1>3, SMT
  <2>2. t \in Seq(Octet) /\ Len(t) = 2 /\ t[1] = bytes[2] /\ t[2] = bytes[3]
    BY <2>1, TwoBytes, Zenon
  <2> HIDE DEF t
  <2>3. Number(t) = bytes[3] * 256 + bytes[2]
    BY <2>2, NumberIs, SMT
  <2>4. Number(bytes) = (bytes[3] * 256 + bytes[2]) * 256 + bytes[1]
    BY <1>3, NumberIs, SMT
  <2>5. (Negative(t) <=> bytes[3] >= 128) /\ (Negative(bytes) <=> bytes[3] >= 128)
    BY <1>3, <2>2, SMT DEF Negative
  <2>6. CASE bytes[3] >= 128
    <3>1. SignedSample(t) = Number(t) - 65536
      BY <2>2, <2>5, <2>6, SMT DEF SignedSample
    <3>2. SignedSample(bytes) = Number(bytes) - 16777216
      BY <1>3, <2>5, <2>6, SMT DEF SignedSample
    <3>3. \A x, b \in Int : (x * 256 + b) - 16777216 = 256 * (x - 65536) + b
      BY SMT
    <3>4. Number(t) \in Int /\ bytes[1] \in Int /\ Number(bytes) = Number(t) * 256 + bytes[1]
      BY <2>1, <2>3, <2>4, SMT
    <3>5. SignedSample(bytes) = 256 * SignedSample(t) + bytes[1]
      BY <3>1, <3>2, <3>3, <3>4, SMT
    <3> QED BY <3>5 DEF t
  <2>7. CASE ~(bytes[3] >= 128)
    <3>1. SignedSample(t) = Number(t) - 0
      BY <2>5, <2>7, SMT DEF SignedSample
    <3>2. SignedSample(bytes) = Number(bytes) - 0
      BY <2>5, <2>7, SMT DEF SignedSample
    <3> QED BY <2>1, <2>3, <2>4, <3>1, <3>2, SMT DEF t
  <2> QED BY <2>6, <2>7, Zenon
<1> QED BY <1>2, <1>3

\* An array is a sequence.
LEMMA ArrayIs ==
  ASSUME NEW S, NEW n \in Nat, NEW buf \in [1 .. n -> S]
  PROVE  buf \in Seq(S) /\ Len(buf) = n
OBVIOUS

\* The last two bytes of a buffer.
LEMMA LastTwo ==
  ASSUME NEW S, NEW n \in {2, 3, 4}, NEW buf \in [1 .. n -> S]
  PROVE  /\ SubSeq(buf, n - 1, n) = <<buf[n - 1], buf[n]>>
         /\ n = 2 => SubSeq(buf, n - 1, n) = buf
<1>1. n \in Nat
  OBVIOUS
<1>2. buf \in Seq(S) /\ Len(buf) = n
  BY <1>1
<1>3. \A i \in 1 .. n : buf[i] \in S
  OBVIOUS
<1>4. n - 1 \in 1 .. n /\ n \in 1 .. n /\ n - (n - 1) = 1
  OBVIOUS
<1> DEFINE s == SubSeq(buf, n - 1, n)
<1>5. s \in Seq(S) /\ Len(s) = 2 /\ s[1] = buf[n - 1] /\ s[2] = buf[n]
  BY <1>1, <1>2, <1>4
<1>6. s = <<buf[n - 1], buf[n]>>
  <2> HIDE DEF s
  <2> QED BY <1>5
<1>7. ASSUME n = 2 PROVE s = buf
  <2>1. n - 1 = 1
    BY <1>7
  <2>2. SubSeq(buf, 1, n) = buf
    BY <1>2
  <2> QED BY <2>1, <2>2
<1> QED BY <1>6, <1>7

LEMMA TailIs ==
  ASSUME NEW S, NEW buf \in Seq(S), buf # << >>
  PROVE  /\ Tail(buf) \in Seq(S) /\ Len(Tail(buf)) = Len(buf) - 1
         /\ \A i \in 1 .. Len(buf) - 1 : Tail(buf)[i] = buf[i + 1]
OBVIOUS

\* And the last three of four.
LEMMA LastThree ==
  ASSUME NEW S, NEW n \in Nat, n = 4, NEW buf \in [1 .. n -> S]
  PROVE  /\ Tail(buf) \in Seq(S) /\ Len(Tail(buf)) = 3
         /\ Tail(buf)[1] = buf[2] /\ Tail(buf)[2] = buf[3] /\ Tail(buf)[3] = buf[4]
<1>1. buf \in Seq(S) /\ Len(buf) = n
  BY ArrayIs, Zenon
<1>2. buf # << >>
  <2>1. Len(<< >>) = 0
    OBVIOUS
  <2>2. Len(buf) # 0
    BY <1>1
  <2> QED BY <2>1, <2>2, Zenon
<1> DEFINE t == Tail(buf)
<1>3. t \in Seq(S) /\ Len(t) = Len(buf) - 1
        /\ \A i \in 1 .. Len(buf) - 1 : t[i] = buf[i + 1]
  BY <1>1, <1>2, TailIs, Zenon
<1> HIDE DEF t
<1>4. Len(t) = 3 /\ \A i \in 1 .. 3 : t[i] = buf[i + 1]
  <2>1. Len(buf) - 1 = 3
    BY <1>1
  <2> QED BY <1>3, <2>1, Zenon
<1>5. t[1] = buf[2] /\ t[2] = buf[3] /\ t[3] = buf[4]
  <2>1. 1 \in 1 .. 3 /\ 2 \in 1 .. 3 /\ 3 \in 1 .. 3 /\ 1 + 1 = 2 /\ 2 + 1 = 3 /\ 3 + 1 = 4
    OBVIOUS
  <2>2. t[1] = buf[1 + 1] /\ t[2] = buf[2 + 1] /\ t[3] = buf[3 + 1]
    BY <1>4, <2>1, Zenon
  <2> QED BY <2>1, <2>2, Zenon
<1> QED BY <1>3, <1>4, <1>5 DEF t

\* The 16 highest bits of a sample.
Top(buf) == SignedSample(SubSeq(buf, Len(buf) - 1, Len(buf)))

LEMMA IntClipped ==
  ASSUME NEW v \in Int, NEW full \in Nat
  PROVE  Clip(v, full) \in Int /\ Clip(v, full) \div 1 = Clip(v, full)
BY SMT DEF Clip

\* Samples of 16 bits.
LEMMA Played16 ==
  ASSUME NEW n \in Nat, n = 2, NEW buf \in [1 .. n -> Octet], NEW e \in Int
  PROVE  /\ Top(buf) \in Int
         /\ short(data_in(buf, 16) + e * Step(16), 16) = {Clip(Top(buf) + e, Full(16))}
<1>0. buf \in Seq(Octet) /\ Len(buf) = n
  BY ArrayIs, Zenon
<1>1. buf \in Seq(Octet) /\ Len(buf) = n /\ SubSeq(buf, n - 1, n) = buf
  <2>1. n \in {2, 3, 4}
    BY Zenon
  <2> QED BY <1>0, <2>1, LastTwo, Zenon
<1>2. Top(buf) = SignedSample(buf) /\ SignedSample(buf) \in Int
  <2>1. Top(buf) = SignedSample(buf)
    BY <1>1, Zenon DEF Top
  <2> QED BY <1>1, <2>1, SignedIs, Zenon
<1>3. data_in(buf, 16) = SignedSample(buf) /\ Step(16) = 1 /\ Full(16) = 32768
  BY SMT DEF data_in, Step, Full
<1> DEFINE f == SignedSample(buf) + e
<1>4. f \in Int /\ data_in(buf, 16) + e * Step(16) = f
  <2> DEFINE x == SignedSample(buf)
  <2>1. x \in Int
    BY <1>2
  <2>2. data_in(buf, 16) + e * Step(16) = x + e * 1
    BY <1>3
  <2> HIDE DEF x
  <2>3. x + e * 1 = x + e /\ x + e \in Int
    BY <2>1
  <2> QED BY <2>2, <2>3 DEF x
<1> HIDE DEF f
<1>5. short(f, 16) = {Clip(f, 32768)}
  <2>1. 16 # 32 /\ 32768 \in Nat
    BY SMT
  <2>2. Clip(f, 32768) \div 1 = Clip(f, 32768)
    BY <1>4, <2>1, IntClipped
  <2>3. short(f, 16) = {v \div Step(16) : v \in {Clip(f, Full(16))}}
    BY <2>1, SMT DEF short
  <2>4. short(f, 16) = {v \div 1 : v \in {Clip(f, 32768)}}
    BY <1>3, <2>3, SMT
  <2> QED BY <2>2, <2>4, SMT
<1> QED BY <1>2, <1>3, <1>4, <1>5 DEF f

\* The 16 highest bits of a longer sample are its last two bytes.
LEMMA TopIs ==
  ASSUME NEW n \in Nat, n \in {3, 4}, NEW buf \in [1 .. n -> Octet]
  PROVE  /\ buf \in Seq(Octet) /\ Len(buf) = n
         /\ Top(buf) = SignedSample(<<buf[n - 1], buf[n]>>) /\ Top(buf) \in Int
<1>1. n \in {2, 3, 4}
  OBVIOUS
<1>2. buf \in Seq(Octet) /\ Len(buf) = n
  BY ArrayIs, Zenon
<1>3. SubSeq(buf, n - 1, n) = <<buf[n - 1], buf[n]>>
  BY <1>1, LastTwo, Zenon
<1> DEFINE a == buf[n - 1]
           b == buf[n]
<1>4. a \in Nat /\ b \in Nat /\ a < 256 /\ b < 256
  <2>1. n - 1 \in 1 .. n /\ n \in 1 .. n
    OBVIOUS
  <2>2. \A i \in 1 .. n : buf[i] \in Nat /\ buf[i] < 256
    BY <1>2, BytesAre
  <2> QED BY <2>1, <2>2, Zenon
<1>5. Top(buf) = SignedSample(<<a, b>>)
  BY <1>2, <1>3 DEF Top
<1>6. SignedSample(<<a, b>>) \in Int
  <2> HIDE DEF a, b
  <2>1. <<a, b>> \in Seq(Octet) /\ Len(<<a, b>>) = 2
    BY <1>4, TwoBytes, Zenon
  <2> QED BY <2>1, SignedIs, Zenon
<1> QED BY <1>2, <1>5, <1>6, Zenon

\* Moving a sample by steps moves its highest bits.
LEMMA Moved ==
  ASSUME NEW w \in Int, NEW r \in Nat, NEW e \in Int
  PROVE  /\ (256 * w + r) + e * 256 = (w + e) * 256 + r
         /\ (256 * w + r) + e * 256 \in Int
BY SMT

\* Samples of 24 bits.
LEMMA Played24 ==
  ASSUME NEW n \in Nat, n = 3, NEW buf \in [1 .. n -> Octet], NEW e \in Int
  PROVE  /\ Top(buf) \in Int
         /\ short(data_in(buf, 24) + e * Step(24), 24) = {Clip(Top(buf) + e, Full(16))}
<1> DEFINE top == Top(buf)
           x == SignedSample(buf)
           r == buf[1]
<1>1. buf \in Seq(Octet) /\ Len(buf) = 3 /\ top = SignedSample(<<buf[2], buf[3]>>)
        /\ top \in Int
  <2>1. n \in {3, 4} /\ n - 1 = 2
    OBVIOUS
  <2> QED BY <2>1, TopIs, Zenon
<1>2. r \in Nat /\ r < 256
  <2>1. 1 \in 1 .. 3
    OBVIOUS
  <2>2. \A i \in 1 .. Len(buf) : buf[i] \in Nat /\ buf[i] < 256
    BY <1>1, BytesAre, Zenon
  <2> QED BY <1>1, <2>1, <2>2, Zenon
<1>3. x = 256 * top + r
  BY <1>1, SignedIs
<1>4. data_in(buf, 24) = x /\ Step(24) = 256
  BY SMT DEF data_in, Step
<1> DEFINE f == x + e * Step(24)
           w == top + e
<1> HIDE DEF x, top, r
<1>5. f \in Int /\ w \in Int /\ f = w * Step(24) + r /\ r < Step(24)
  <2>1. Step(24) \in Nat /\ r < Step(24)
    BY <1>2, <1>4
  <2>3. (x + e * Step(24) = (top + e) * Step(24) + r) /\ x + e * Step(24) \in Int
    <3>1. /\ (256 * top + r) + e * 256 = (top + e) * 256 + r
          /\ (256 * top + r) + e * 256 \in Int
      BY <1>1, <1>2, Moved
    <3> QED BY <1>3, <1>4, <3>1
  <2>4. top + e \in Int
    BY <1>1
  <2> QED BY <2>1, <2>3, <2>4, Zenon
<1>6. data_in(buf, 24) + e * Step(24) = f
  BY <1>4
<1> HIDE DEF f, w
<1>7. short(f, 24) = {Clip(w, Full(16))}
  <2>1. 24 # 32
    OBVIOUS
  <2>2. Clip(f, Full(24)) \div Step(24) = Clip(w, Full(16))
    BY <1>2, <1>5, Clip24Is, Zenon
  <2>3. short(f, 24) = {v \div Step(24) : v \in {Clip(f, Full(24))}}
    BY <2>1, SMT DEF short
  <2> QED BY <2>2, <2>3, SMT
<1> QED BY <1>1, <1>6, <1>7 DEF w, top

\* Samples of 32 bits.
LEMMA Played32 ==
  ASSUME NEW n \in Nat, n = 4, NEW buf \in [1 .. n -> Octet], NEW e \in Int,
         NEW y \in short(data_in(buf, 32) + e * Step(32), 32)
  PROVE  /\ Top(buf) \in Int
         /\ y \in {Clip(Top(buf) + e, Full(16)), Clip(Top(buf) + e + 1, Full(16))}
<1>1. Tail(buf) \in Seq(Octet) /\ Len(Tail(buf)) = 3
        /\ Tail(buf)[2] = buf[3] /\ Tail(buf)[3] = buf[4]
  BY LastThree, Zenon
<1> DEFINE top == Top(buf)
           t == Tail(buf)
           x == SignedSample(t)
           up == IF buf[1] >= 128 THEN 1 ELSE 0
           r == t[1] + up
<1>2. top = SignedSample(<<buf[3], buf[4]>>) /\ top \in Int
  <2>1. n \in {3, 4} /\ n - 1 = 3
    OBVIOUS
  <2> QED BY <2>1, TopIs, Zenon
<1> HIDE DEF t
<1>3. t \in Seq(Octet) /\ Len(t) = 3 /\ t[2] = buf[3] /\ t[3] = buf[4]
  BY <1>1 DEF t
<1>4. t[1] \in Nat /\ t[1] < 256
  <2>1. 1 \in 1 .. 3
    OBVIOUS
  <2>2. \A i \in 1 .. Len(t) : t[i] \in Nat /\ t[i] < 256
    BY <1>3, BytesAre, Zenon
  <2> QED BY <1>3, <2>1, <2>2, Zenon
<1>5. x = 256 * top + t[1]
  BY <1>2, <1>3, SignedIs
<1>6. Step(32) = 256 /\ data_in(buf, 32) = x + up
  BY SMT DEF data_in, Step, t
<1> HIDE DEF top, x
<1>7. up \in {0, 1} /\ Step(32) \in Nat
  BY <1>6
<1> HIDE DEF up
<1>8. x + up = 256 * top + r /\ r \in Nat /\ r =< Step(32)
  BY <1>2, <1>4, <1>5, <1>6, <1>7
<1> DEFINE f == x + up + e * Step(32)
           w == top + e
<1> HIDE DEF r
<1>9. f \in Int /\ w \in Int /\ f = w * Step(32) + r
  <2> DEFINE z == x + up
  <2>1. z = 256 * top + r
    BY <1>8
  <2> HIDE DEF z
  <2>2. /\ z + e * Step(32) = (top + e) * Step(32) + r
        /\ z + e * Step(32) \in Int
    <3>1. /\ (256 * top + r) + e * 256 = (top + e) * 256 + r
          /\ (256 * top + r) + e * 256 \in Int
      BY <1>2, <1>8, Moved
    <3> QED BY <1>6, <2>1, <3>1
  <2>3. top + e \in Int
    BY <1>2
  <2> QED BY <2>2, <2>3 DEF z
<1>10. y \in short(f, 32)
  BY <1>6
<1> HIDE DEF f
<1>11. PICK v \in IntOf(f, Full(32)) : y = Clip32(f, v, Full(32)) \div Step(32)
  BY <1>10, SMT DEF short
<1>12. y \in {Clip(w, Full(16)), Clip(w + 1, Full(16))}
  <2> HIDE DEF w
  <2>1. Clip32(f, v, Full(32)) \div Step(32) \in {Clip(w, Full(16)), Clip(w + 1, Full(16))}
    BY <1>8, <1>9, Clip32Is, Zenon
  <2> QED BY <1>11, <2>1, Zenon
<1> QED BY <1>2, <1>12 DEF top

\* Steps are what they were before they were scaled to the size of the sample.
LEMMA StepsAre ==
  ASSUME NEW bits \in {16, 24, 32}, NEW e \in Int
  PROVE  (e * Step(bits)) \div Step(bits) = e
<1>1. CASE bits = 16
  <2>1. Step(bits) = 1
    BY <1>1, SMT DEF Step
  <2> QED BY <2>1, SMT
<1>2. CASE bits # 16
  <2>1. Step(bits) = 256
    BY <1>2, SMT DEF Step
  <2> QED BY <2>1, SMT
<1> QED BY <1>1, <1>2

\* Any sample.
LEMMA PlayedIs ==
  ASSUME NEW bits \in {16, 24, 32}, NEW buf \in [1 .. bits \div 8 -> Octet], NEW e \in Int,
         NEW y \in short(data_in(buf, bits) + e * Step(bits), bits)
  PROVE  \/ y = Clip(Top(buf) + e, Full(16))
         \/ bits = 32 /\ y = Clip(Top(buf) + e + 1, Full(16))
<1> DEFINE n == bits \div 8
<1>1. CASE bits = 16
  <2>1. n \in Nat /\ n = 2
    BY <1>1
  <2> HIDE DEF n
  <2>2. short(data_in(buf, 16) + e * Step(16), 16) = {Clip(Top(buf) + e, Full(16))}
    <3>1. buf \in [1 .. n -> Octet]
      BY DEF n
    <3> QED BY <2>1, <3>1, Played16, Zenon
  <2> QED BY <1>1, <2>2, Zenon
<1>2. CASE bits = 24
  <2>1. n \in Nat /\ n = 3
    BY <1>2
  <2> HIDE DEF n
  <2>2. short(data_in(buf, 24) + e * Step(24), 24) = {Clip(Top(buf) + e, Full(16))}
    <3>1. buf \in [1 .. n -> Octet]
      BY DEF n
    <3> QED BY <2>1, <3>1, Played24, Zenon
  <2> QED BY <1>2, <2>2, Zenon
<1>3. CASE bits = 32
  <2>1. n \in Nat /\ n = 4
    BY <1>3
  <2> HIDE DEF n
  <2>2. y \in {Clip(Top(buf) + e, Full(16)), Clip(Top(buf) + e + 1, Full(16))}
    <3>1. buf \in [1 .. n -> Octet]
      BY DEF n
    <3>2. y \in short(data_in(buf, 32) + e * Step(32), 32)
      BY <1>3, Zenon
    <3> QED BY <2>1, <3>1, <3>2, Played32, Zenon
  <2> QED BY <1>3, <2>2, Zenon
<1> QED BY <1>1, <1>2, <1>3

LEMMA PlaysRight ==
  ASSUME Given, Play, UNCHANGED <<kind, input>>
  PROVE  SamplesPlayed'
<1>1. kind = "play" /\ input \in Played
  BY DEF Given, Play
<1> DEFINE buf == input.buf
           bits == input.bits
<1>2. PICK d \in {-1, 1}, s \in Overshoot :
        bits \in Bits /\ buf \in [1 .. bits \div 8 -> Byte] /\ input.off = d * s * Step(bits)
  <2>1. PICK b \in Bits :
          input \in [buf : [1 .. b \div 8 -> Byte], bits : {b},
                     off : {d * s * Step(b) : d \in {-1, 1}, s \in Overshoot}]
    BY <1>1 DEF Played
  <2>2. bits = b /\ buf \in [1 .. b \div 8 -> Byte]
          /\ input.off \in {d * s * Step(b) : d \in {-1, 1}, s \in Overshoot}
    BY <2>1
  <2> QED BY <2>2
<1> DEFINE e == d * s
<1> HIDE DEF buf, bits
<1>3. bits \in {16, 24, 32} /\ buf \in [1 .. bits \div 8 -> Octet] /\ e \in Int
  <2>1. bits \in {16, 24, 32}
    BY <1>2, ConversionsAssumption, Zenon
  <2>2. \A b \in Byte : b \in Octet
    BY ConversionsAssumption DEF Octet
  <2>3. buf \in [1 .. bits \div 8 -> Octet]
    BY <1>2, <2>2
  <2>4. s \in Nat
    BY <1>2, ConversionsAssumption
  <2>5. d * s \in Int
    BY <2>4
  <2> QED BY <2>1, <2>3, <2>5
<1> HIDE DEF e
<1>4. input.off = e * Step(bits) /\ input.off \div Step(bits) = e
  <2>1. input.off = e * Step(bits)
    BY <1>2 DEF e
  <2> QED BY <1>3, <2>1, StepsAre, Zenon
<1>5. copyswap(swapSamples(buf, bits \div 8), bits) = buf
  <2>1. Len(buf) % (bits \div 8) = 0 /\ buf \in Seq(Octet)
    <3>1. bits \div 8 \in {2, 3, 4}
      BY <1>3
    <3>2. bits \div 8 \in Nat
      BY <3>1
    <3>3. buf \in Seq(Octet) /\ Len(buf) = bits \div 8
      <4> DEFINE n == bits \div 8
      <4>1. n \in Nat /\ buf \in [1 .. n -> Octet]
        BY <1>3, <3>2
      <4> HIDE DEF n
      <4>2. buf \in Seq(Octet) /\ Len(buf) = n
        BY <4>1, ArrayIs, Zenon
      <4> QED BY <4>2 DEF n
    <3> QED BY <3>1, <3>3
  <2> QED BY <1>3, <2>1, SwapUndone, Zenon
<1>6. output'.shorts = short(data_in(buf, bits) + e * Step(bits), bits)
  <2>1. output' = [f |-> data_in(buf, bits) + input.off,
                   shorts |-> short(data_in(buf, bits) + input.off, bits)]
    BY <1>5 DEF Play, buf, bits
  <2> QED BY <1>4, <2>1
<1>7. \A z \in short(data_in(buf, bits) + e * Step(bits), bits) :
        \/ z = Clip(Top(buf) + e, Full(16))
        \/ bits = 32 /\ z = Clip(Top(buf) + e + 1, Full(16))
  <2>1. \A b \in {16, 24, 32} : \A u \in [1 .. b \div 8 -> Octet], i \in Int :
          \A z \in short(data_in(u, b) + i * Step(b), b) :
            \/ z = Clip(Top(u) + i, Full(16))
            \/ b = 32 /\ z = Clip(Top(u) + i + 1, Full(16))
    BY PlayedIs, Zenon
  <2>2. \A u \in [1 .. bits \div 8 -> Octet], i \in Int :
          \A z \in short(data_in(u, bits) + i * Step(bits), bits) :
            \/ z = Clip(Top(u) + i, Full(16))
            \/ bits = 32 /\ z = Clip(Top(u) + i + 1, Full(16))
    <3>1. bits \in {16, 24, 32}
      BY <1>3, Zenon
    <3> QED BY <2>1, <3>1, Zenon
  <2>3. buf \in [1 .. bits \div 8 -> Octet] /\ e \in Int
    BY <1>3, Zenon
  <2> QED BY <2>2, <2>3, Zenon
<1>8. \A y \in output'.shorts :
        \/ y = Clip(SignedSample(SubSeq(buf, Len(buf) - 1, Len(buf)))
                      + (input.off \div Step(bits)), Full(16))
        \/ bits = 32 /\ y = Clip(SignedSample(SubSeq(buf, Len(buf) - 1, Len(buf)))
                                   + (input.off \div Step(bits)) + 1, Full(16))
  BY <1>4, <1>6, <1>7, Zenon DEF Top
<1> QED BY <1>8, Zenon DEF SamplesPlayed, buf, bits

-----------------------------------------------------------------------------
(* The Range header.                                                       *)

\* find() returns the first place, or Npos.
LEMMA FindIs ==
  ASSUME NEW s, Len(s) \in Nat, NEW c, NEW pos \in Nat, pos >= 1
  PROVE  /\ find(s, c, pos) \in pos .. Len(s) \cup {Npos}
         /\ find(s, c, pos) = Npos <=> \A i \in pos .. Len(s) : s[i] # c
         /\ find(s, c, pos) # Npos =>
              /\ s[find(s, c, pos)] = c
              /\ \A j \in pos .. find(s, c, pos) - 1 : s[j] # c
<1> DEFINE At == {i \in pos .. Len(s) : s[i] = c}
           Earliest(i) == i \in pos .. Len(s) /\ s[i] = c /\ \A j \in pos .. i - 1 : s[j] # c
<1>1. CASE At = {}
  <2>1. find(s, c, pos) = Npos
    BY <1>1 DEF find
  <2>2. \A i \in pos .. Len(s) : s[i] # c
    BY <1>1
  <2> QED BY <2>1, <2>2
<1>2. CASE At # {}
  <2>1. At \in SUBSET Nat
    OBVIOUS
  <2>2. Min(At) \in At /\ \A y \in At : Min(At) =< y
    <3> HIDE DEF At
    <3> QED BY <1>2, <2>1, MinIs
  <2> DEFINE m == Min(At)
  <2> HIDE DEF m
  <2>3. m \in pos .. Len(s) /\ s[m] = c
    BY <2>2 DEF m
  <2>4. \A j \in pos .. m - 1 : s[j] # c
    <3> TAKE j \in pos .. m - 1
    <3>1. j \in pos .. Len(s) /\ j < m
      BY <2>3
    <3>2. ~(j \in At)
      BY <2>2, <2>3, <3>1 DEF m
    <3> QED BY <3>1, <3>2
  <2>5. Earliest(m)
    BY <2>3, <2>4
  <2> DEFINE f == CHOOSE i \in pos .. Len(s) : s[i] = c /\ \A j \in pos .. i - 1 : s[j] # c
  <2>6. f \in pos .. Len(s) /\ s[f] = c /\ \A j \in pos .. f - 1 : s[j] # c
    <3> HIDE DEF m
    <3> QED BY <2>3, <2>4
  <2>7. find(s, c, pos) = f
    BY <1>2 DEF find
  <2> HIDE DEF f
  <2>8. f # Npos
    BY <2>6 DEF Npos
  <2> QED BY <2>6, <2>7, <2>8
<1> QED BY <1>1, <1>2

\* The function that parseRanges() computes.
Parses(u, s) ==
  u = [pos \in 1 .. Len(s) + 1 |->
         LET comma == find(s, Comma, pos)
         IN  <<RangeAt(s, pos)>> \o (IF comma = Npos THEN <<>> ELSE u[comma + 1])]

Rest(u, s, pos) ==
  IF find(s, Comma, pos) = Npos THEN <<>> ELSE u[find(s, Comma, pos) + 1]

LEMMA Parsed ==
  ASSUME NEW s, Len(s) \in Nat
  PROVE  \E u : Parses(u, s)
<1> DEFINE N == Len(s) + 1
           Tails(u, k) ==
             u = [pos \in N - k .. N |-> <<RangeAt(s, pos)>> \o Rest(u, s, pos)]
           G == {k \in 0 .. N - 1 : \E u : Tails(u, k)}
<1>1. \A pos \in 1 .. N : /\ find(s, Comma, pos) # Npos =>
                               find(s, Comma, pos) + 1 \in pos + 1 .. N
  <2> TAKE pos \in 1 .. N
  <2>1. find(s, Comma, pos) \in pos .. Len(s) \cup {Npos}
    BY FindIs
  <2> QED BY <2>1
<1>2. find(s, Comma, N) = Npos
  <2>1. N \in Nat /\ N >= 1 /\ N .. Len(s) = {}
    OBVIOUS
  <2> QED BY <2>1, FindIs
<1> HIDE DEF N
<1>3. N \in Nat /\ N >= 1
  BY DEF N
<1>4. 0 \in G
  <2> DEFINE u == [pos \in {N} |-> <<RangeAt(s, pos)>> \o <<>>]
  <2>1. N - 0 .. N = {N}
    BY <1>3
  <2>2. Rest(u, s, N) = <<>>
    BY <1>2 DEF Rest
  <2>3. [pos \in {N} |-> <<RangeAt(s, pos)>> \o Rest(u, s, pos)] = u
    BY <2>2
  <2>4. Tails(u, 0)
    BY <2>1, <2>3
  <2>5. 0 \in 0 .. N - 1
    BY <1>3
  <2> HIDE DEF u
  <2> QED BY <2>4, <2>5
<1>5. ASSUME NEW k \in 0 .. N - 1 - 1, k \in G PROVE k + 1 \in G
  <2>1. PICK u : Tails(u, k)
    BY <1>5
  <2> DEFINE q == N - (k + 1)
             w == [pos \in q .. N |-> IF pos = q THEN <<RangeAt(s, q)>> \o Rest(u, s, q)
                                      ELSE u[pos]]
  <2>2. q \in 1 .. N /\ q + 1 = N - k
    BY <1>3
  <2> HIDE DEF q
  <2>3. ASSUME NEW pos \in q .. N PROVE Rest(w, s, pos) = Rest(u, s, pos)
    <3>1. pos \in 1 .. N
      BY <1>3, <2>2
    <3> DEFINE c == find(s, Comma, pos)
    <3>2. CASE c = Npos
      BY <3>2 DEF Rest
    <3>3. CASE c # Npos
      <4>1. c + 1 \in pos + 1 .. N
        BY <1>1, <3>1, <3>3
      <4> HIDE DEF c
      <4>2. c + 1 \in q .. N /\ c + 1 # q
        BY <1>3, <2>2, <4>1
      <4>3. w[c + 1] = u[c + 1]
        BY <4>2
      <4> HIDE DEF w
      <4> QED BY <3>3, <4>3 DEF Rest, c
    <3> QED BY <3>2, <3>3
  <2>4. ASSUME NEW pos \in q .. N PROVE w[pos] = <<RangeAt(s, pos)>> \o Rest(w, s, pos)
    <3>1. CASE pos = q
      <4>1. w[pos] = <<RangeAt(s, q)>> \o Rest(u, s, q)
        BY <3>1
      <4> HIDE DEF w
      <4> QED BY <2>3, <3>1, <4>1
    <3>2. CASE pos # q
      <4>1. pos \in N - k .. N
        BY <1>3, <2>2, <3>2
      <4>2. w[pos] = u[pos]
        BY <3>2
      <4>3. u[pos] = <<RangeAt(s, pos)>> \o Rest(u, s, pos)
        <5> HIDE DEF w
        <5> QED BY <2>1, <4>1
      <4> HIDE DEF w
      <4> QED BY <2>3, <4>2, <4>3
    <3> QED BY <3>1, <3>2
  <2>5. w = [pos \in q .. N |-> w[pos]]
    OBVIOUS
  <2> HIDE DEF w
  <2>6. Tails(w, k + 1)
    BY <2>4, <2>5 DEF q
  <2>7. k + 1 \in 0 .. N - 1
    BY <1>3
  <2> QED BY <2>6, <2>7
<1>6. N - 1 \in G
  <2> HIDE DEF G
  <2>1. N - 1 \in Nat /\ N - 1 \in 0 .. N - 1
    BY <1>3
  <2> QED BY <1>4, <1>5, <2>1, Climbs
<1>7. PICK u : Tails(u, N - 1)
  BY <1>6
<1>8. N - (N - 1) = 1
  BY <1>3
<1>9. u = [pos \in 1 .. N |-> <<RangeAt(s, pos)>> \o Rest(u, s, pos)]
  BY <1>7, <1>8
<1> QED BY <1>9 DEF Parses, Rest, N

\* What parseRanges() returns starts with the first range.
LEMMA FirstFirst ==
  ASSUME NEW s, Len(s) \in Nat
  PROVE  parseRanges(s)[1] = RangeAt(s, 1)
<1> DEFINE N == Len(s) + 1
           V == {RangeAt(s, pos) : pos \in 1 .. N}
           h == CHOOSE u : Parses(u, s)
<1>1. Parses(h, s) /\ parseRanges(s) = h[1]
  <2>1. \E u : Parses(u, s)
    BY Parsed, Zenon
  <2>2. Parses(h, s)
    BY <2>1, Zenon
  <2>3. parseRanges(s) = h[1]
    BY Zenon DEF parseRanges, Parses
  <2> QED BY <2>2, <2>3, Zenon
<1> HIDE DEF h
<1>2. \A pos \in 1 .. N : h[pos] = <<RangeAt(s, pos)>> \o Rest(h, s, pos)
  BY <1>1 DEF Parses, Rest
<1>3. \A pos \in 1 .. N : find(s, Comma, pos) # Npos =>
                             find(s, Comma, pos) + 1 \in pos + 1 .. N
  <2> TAKE pos \in 1 .. N
  <2>1. find(s, Comma, pos) \in pos .. Len(s) \cup {Npos}
    BY FindIs
  <2> QED BY <2>1
<1>4. N \in Nat /\ N >= 1 /\ \A pos \in 1 .. N : RangeAt(s, pos) \in V
  OBVIOUS
<1> HIDE DEF N, V
<1> DEFINE G == {k \in 0 .. N - 1 : \A pos \in N - k .. N : h[pos] \in Seq(V)}
<1>5. \A pos \in 1 .. N :
        (\A q \in pos + 1 .. N : h[q] \in Seq(V)) =>
          Rest(h, s, pos) \in Seq(V) /\ h[pos] \in Seq(V)
  <2> TAKE pos \in 1 .. N
  <2> HAVE \A q \in pos + 1 .. N : h[q] \in Seq(V)
  <2>1. Rest(h, s, pos) \in Seq(V)
    <3>1. << >> \in Seq(V)
      OBVIOUS
    <3> QED BY <1>3, <3>1 DEF Rest
  <2>2. <<RangeAt(s, pos)>> \in Seq(V)
    BY <1>4
  <2>3. <<RangeAt(s, pos)>> \o Rest(h, s, pos) \in Seq(V)
    BY <2>1, <2>2
  <2> QED BY <1>2, <2>1, <2>3
<1>6. 0 \in G
  <2>1. 0 \in 0 .. N - 1 /\ N \in 1 .. N /\ N + 1 .. N = {} /\ N - 0 .. N = {N}
    BY <1>4
  <2>2. h[N] \in Seq(V)
    BY <1>5, <2>1
  <2> QED BY <2>1, <2>2
<1>7. ASSUME NEW k \in 0 .. N - 1 - 1, k \in G PROVE k + 1 \in G
  <2> DEFINE p == N - (k + 1)
  <2>1. p \in 1 .. N /\ k + 1 \in 0 .. N - 1
    BY <1>4
  <2>2. \A q \in p + 1 .. N : q \in N - k .. N
    BY <1>4
  <2>3. \A q \in p .. N : q = p \/ q \in p + 1 .. N
    BY <1>4
  <2> HIDE DEF p
  <2>4. \A q \in p + 1 .. N : h[q] \in Seq(V)
    BY <1>7, <2>2
  <2>5. h[p] \in Seq(V)
    BY <1>5, <2>1, <2>4
  <2>6. \A q \in p .. N : h[q] \in Seq(V)
    BY <2>3, <2>4, <2>5
  <2> QED BY <2>1, <2>6 DEF p
<1>8. N - 1 \in G
  <2>1. N - 1 \in Nat /\ N - 1 \in 0 .. N - 1
    BY <1>4
  <2> HIDE DEF G
  <2> QED BY <1>6, <1>7, <2>1, Climbs
<1>9. Rest(h, s, 1) \in Seq(V)
  <2>1. \A q \in 1 + 1 .. N : q \in N - (N - 1) .. N
    BY <1>4
  <2>2. 1 \in 1 .. N
    BY <1>4
  <2> QED BY <1>5, <1>8, <2>1, <2>2
<1> DEFINE a == RangeAt(s, 1)
           X == Rest(h, s, 1)
<1>10. a \in V /\ X \in Seq(V) /\ h[1] = <<a>> \o X
  <2>1. 1 \in 1 .. N
    BY <1>4
  <2> QED BY <1>2, <1>4, <1>9, <2>1
<1> HIDE DEF a, X
<1>11. (<<a>> \o X)[1] = a
  BY <1>10
<1> QED BY <1>1, <1>10, <1>11 DEF a

\* A first range that starts at a number is answered from there.
LEMMA StartIs ==
  ASSUME NEW s \in Seq(Int), Len(s) >= 2, s[1] >= 0, s[2] = Dash
  PROVE  /\ RangeAt(s, 1)[1] = s[1]
         /\ Len(s) = 2 \/ s[3] = Comma => RangeAt(s, 1)[2] = -1
<1>1. Len(s) \in Nat /\ s[1] \in Int /\ s[1] # Dash /\ s[1] # Comma /\ s[2] # Comma
  BY DEF Dash, Comma
<1>0. Len(s) = 2 \/ Len(s) >= 3
  <2>1. \A n \in Nat : n >= 2 => n = 2 \/ n >= 3
    OBVIOUS
  <2>2. Len(s) \in Nat
    OBVIOUS
  <2> QED BY <2>1, <2>2, Zenon
<1>2. find(s, Dash, 1) = 2
  <2> DEFINE d == find(s, Dash, 1)
  <2>1. /\ d \in 1 .. Len(s) \cup {Npos}
        /\ d = Npos <=> \A i \in 1 .. Len(s) : s[i] # Dash
        /\ d # Npos => s[d] = Dash /\ \A j \in 1 .. d - 1 : s[j] # Dash
    BY <1>1, FindIs
  <2> HIDE DEF d
  <2>2. d # Npos
    <3>1. 2 \in 1 .. Len(s)
      BY <1>1
    <3> QED BY <2>1, <3>1
  <2>3. d # 1 /\ d >= 1 /\ d \in Int
    BY <1>1, <2>1, <2>2
  <2>4. ~(d > 2)
    <3>1. d > 2 => 2 \in 1 .. d - 1
      BY <2>3
    <3> QED BY <2>1, <2>2, <3>1
  <2>5. d = 2
    BY <2>3, <2>4
  <2> QED BY <2>5 DEF d
<1> DEFINE comma == find(s, Comma, 1)
           first == FirstPart(s, 1, 2)
           second == SecondPart(s, 2, comma)
<1>3. first = SubSeq(s, 1, 1) /\ second = SubSeq(s, 3, IF comma > 2 THEN comma - 1 ELSE Len(s))
  BY DEF FirstPart, SecondPart, Npos
<1>4. atoi(first) = s[1]
  <2>1. SubSeq(s, 1, 1) # <<>> /\ SubSeq(s, 1, 1)[1] = s[1]
    BY <1>1
  <2> HIDE DEF first
  <2>2. first # <<>> /\ first[1] = s[1] /\ ~(s[1] < 0)
    BY <1>1, <1>3, <2>1
  <2> QED BY <2>2 DEF atoi
<1>5. RangeAt(s, 1) = <<atoi(first), IF second = <<>> THEN -1 ELSE atoi(first)>>
  BY <1>2, Zenon DEF RangeAt
<1>6. ASSUME Len(s) = 2 \/ s[3] = Comma PROVE second = <<>>
  <2>1. /\ comma \in 1 .. Len(s) \cup {Npos}
        /\ comma = Npos <=> \A i \in 1 .. Len(s) : s[i] # Comma
        /\ comma # Npos => s[comma] = Comma /\ \A j \in 1 .. comma - 1 : s[j] # Comma
    BY <1>1, FindIs
  <2> HIDE DEF comma
  <2>2. ASSUME comma # Npos PROVE comma \in Int /\ comma > 2
    BY <1>1, <2>1, <2>2
  <2>3. CASE Len(s) = 2
    <3>1. comma = Npos
      BY <2>1, <2>2, <2>3
    <3>2. second = SubSeq(s, 3, 2)
      BY <1>3, <2>3, <3>1 DEF Npos
    <3> QED BY <3>2
  <2>4. CASE Len(s) # 2
    <3>1. 3 \in 1 .. Len(s) /\ s[3] = Comma
      <4>1. Len(s) >= 3
        BY <1>0, <2>4
      <4> QED BY <1>6, <2>4, <4>1
    <3>2. comma # Npos
      BY <2>1, <3>1
    <3>3. ~(comma > 3)
      <4>1. comma > 3 => 3 \in 1 .. comma - 1
        BY <2>2, <3>2
      <4> QED BY <2>1, <3>1, <3>2, <4>1
    <3>4. comma = 3
      BY <2>2, <3>2, <3>3
    <3>5. second = SubSeq(s, 3, 2)
      BY <1>3, <3>4
    <3> QED BY <3>5
  <2> QED BY <2>3, <2>4
<1> HIDE DEF first, second
<1> QED BY <1>4, <1>5, <1>6

LEMMA AnswersRight ==
  ASSUME Given, RangeHeader, UNCHANGED <<kind, input>>
  PROVE  StartsWhereAsked'
<1>1. kind = "range" /\ input \in RangeTexts /\ output' = answer(parseRanges(input))
  BY DEF Given, RangeHeader
<1>2. input \in Seq(Int)
  <2>1. input \in Seq(Position \cup {Dash, Comma})
    BY <1>1, SequencesAre, Zenon DEF RangeTexts
  <2>2. \A x \in Position \cup {Dash, Comma} : x \in Int
    BY ConversionsAssumption DEF Dash, Comma
  <2> QED BY <2>1, <2>2
<1>3. SUFFICES ASSUME Len(input) >= 2, input[1] >= 0, input[2] = Dash
               PROVE  /\ output'.baseoffset = input[1]
                      /\ Len(input) = 2 \/ input[3] = Comma => output'.size = Unknown
  BY DEF StartsWhereAsked
<1> DEFINE ranges == parseRanges(input)
<1>4. ranges[1] = RangeAt(input, 1)
  BY <1>2, FirstFirst
<1>5. /\ ranges[1][1] = input[1]
      /\ Len(input) = 2 \/ input[3] = Comma => ranges[1][2] = -1
  BY <1>2, <1>3, <1>4, StartIs
<1> HIDE DEF ranges
<1>6. output' = [baseoffset |-> ranges[1][1],
                 size |-> IF ranges[1][2] # -1 THEN ranges[1][2] - ranges[1][1] + 1
                          ELSE Unknown]
  BY <1>1 DEF answer, ranges
<1> QED BY <1>5, <1>6

-----------------------------------------------------------------------------
(* base64.                                                                 *)

\* A byte of the input, or the zero after its end, and the digits it becomes.
At(in, i) == IF i =< Len(in) THEN in[i] ELSE 0
QuadAt(in, g) == Quad(At(in, 3 * g + 1), At(in, 3 * g + 2), At(in, 3 * g + 3))
Digit(in, k) == QuadAt(in, (k - 1) \div 4)[1 + ((k - 1) % 4)]
Digits(in) == 4 * (Len(in) \div 3) + IF Len(in) % 3 = 0 THEN 0 ELSE 1 + (Len(in) % 3)

Sextet == 0 .. 63
LEMMA QuadIs ==
  ASSUME NEW a \in Octet, NEW b \in Octet, NEW c \in Octet
  PROVE  /\ \A j \in 1 .. 4 : Quad(a, b, c)[j] \in Sextet
         /\ Quad(a, b, c)[1] * 4 + Quad(a, b, c)[2] \div 16 = a
         /\ (Quad(a, b, c)[2] % 16) * 16 + Quad(a, b, c)[3] \div 4 = b
         /\ (Quad(a, b, c)[3] % 4) * 64 + Quad(a, b, c)[4] = c
<1> DEFINE p == a \div 4
           q == (a % 4) * 16 + b \div 16
           r == (b % 16) * 4 + c \div 64
           s == c % 64
<1>0. a \in Nat /\ a < 256 /\ b \in Nat /\ b < 256 /\ c \in Nat /\ c < 256
  BY DEF Octet
<1>1. /\ Quad(a, b, c)[1] = p /\ Quad(a, b, c)[2] = q
      /\ Quad(a, b, c)[3] = r /\ Quad(a, b, c)[4] = s
  BY Zenon DEF Quad
<1>2. p \in Nat /\ p < 64 /\ q \in Nat /\ q < 64 /\ r \in Nat /\ r < 64 /\ s \in Nat /\ s < 64
  BY <1>0, SMT
<1>3. p * 4 + q \div 16 = a
  <2>1. q \div 16 = a % 4
    BY <1>0, SMT
  <2> HIDE DEF q
  <2> QED BY <1>0, <2>1, SMT
<1>4. (q % 16) * 16 + r \div 4 = b
  <2>1. q % 16 = b \div 16
    BY <1>0, SMT
  <2>2. r \div 4 = b % 16
    BY <1>0, SMT
  <2> HIDE DEF q, r
  <2> QED BY <1>0, <2>1, <2>2, SMT
<1>5. (r % 4) * 64 + s = c
  <2>1. r % 4 = c \div 64
    BY <1>0, SMT
  <2>2. (c \div 64) * 64 + (c % 64) = c
    BY <1>0, SMT
  <2> HIDE DEF r
  <2> QED BY <2>1, <2>2
<1> HIDE DEF p, q, r, s
<1>6. \A j \in 1 .. 4 : Quad(a, b, c)[j] \in Sextet
  <2> DEFINE Q == Quad(a, b, c)
  <2>1. Q[1] = p /\ Q[2] = q /\ Q[3] = r /\ Q[4] = s
    BY <1>1
  <2> HIDE DEF Q
  <2>2. \A j \in 1 .. 4 : j = 1 \/ j = 2 \/ j = 3 \/ j = 4
    OBVIOUS
  <2>3. p \in Sextet /\ q \in Sextet /\ r \in Sextet /\ s \in Sextet
    BY <1>2 DEF Sextet
  <2>4. \A j \in 1 .. 4 : Q[j] \in Sextet
    BY <2>1, <2>2, <2>3, Zenon
  <2> QED BY <2>4 DEF Q
<1> QED BY <1>1, <1>3, <1>4, <1>5, <1>6

\* A part of a sequence and one more.
LEMMA OneMore ==
  ASSUME NEW S, NEW d \in Seq(S), NEW i \in 0 .. Len(d) - 1
  PROVE  Append(SubSeq(d, 1, i), d[i + 1]) = SubSeq(d, 1, i + 1)
<1>1. Len(d) \in Nat /\ \A j \in 1 .. Len(d) : d[j] \in S
  OBVIOUS
<1>2. SubSeq(d, 1, i) \in Seq(S) /\ Len(SubSeq(d, 1, i)) = i
        /\ \A j \in 1 .. i : SubSeq(d, 1, i)[j] = d[j]
  OBVIOUS
<1>3. SubSeq(d, 1, i + 1) \in Seq(S) /\ Len(SubSeq(d, 1, i + 1)) = i + 1
        /\ \A j \in 1 .. i + 1 : SubSeq(d, 1, i + 1)[j] = d[j]
  OBVIOUS
<1> DEFINE u == SubSeq(d, 1, i)
           w == SubSeq(d, 1, i + 1)
           x == d[i + 1]
<1> HIDE DEF u, w
<1>4. x \in S
  BY <1>1
<1>5. Append(u, x) \in Seq(S) /\ Len(Append(u, x)) = i + 1
        /\ \A j \in 1 .. i + 1 : Append(u, x)[j] = d[j]
  BY <1>2, <1>4 DEF u
<1> DEFINE v == Append(u, x)
<1> HIDE DEF v
<1>6. v = w
  BY <1>3, <1>5 DEF v, w
<1> QED BY <1>6 DEF u, v, w

\* What follows in a concatenation.
LEMMA JoinedParts ==
  ASSUME NEW S, NEW u \in Seq(S), NEW w \in Seq(S)
  PROVE  /\ u \o w \in Seq(S) /\ Len(u \o w) = Len(u) + Len(w)
         /\ \A k \in 1 .. Len(u) : (u \o w)[k] = u[k]
         /\ \A k \in 1 .. Len(w) : (u \o w)[Len(u) + k] = w[k]
OBVIOUS

\* The function that base64_decode() computes: the digits among the first i
\* characters.
Collects(u, t) ==
  u = [i \in 0 .. Len(t) |->
         IF i = 0 THEN <<>> ELSE IF t[i] = Space THEN u[i - 1] ELSE Append(u[i - 1], t[i])]

LEMMA Collected ==
  ASSUME NEW t, Len(t) \in Nat
  PROVE  \E u : Collects(u, t)
<1> DEFINE n == Len(t)
           S == {t[i] : i \in 1 .. n}
           V == Seq(S)
           step == [x \in (1 .. n) \X V |->
                      IF t[x[1]] = Space THEN x[2] ELSE Append(x[2], t[x[1]])]
<1>1. n \in Nat /\ \A i \in 1 .. n : t[i] \in S
  OBVIOUS
<1> HIDE DEF S, n
<1>2. << >> \in V /\ \A i \in 1 .. n, v \in V : Append(v, t[i]) \in V
  BY <1>1
<1> HIDE DEF V
<1>3. \A x \in (1 .. n) \X V : x[1] \in 1 .. n /\ x[2] \in V
  OBVIOUS
<1>4. step \in [(1 .. n) \X V -> V]
  BY <1>2, <1>3
<1>5. PICK u \in [0 .. n -> V] : Grows(u, n, << >>, step)
  <2> HIDE DEF step
  <2> QED BY <1>1, <1>2, <1>4, Recurses, Zenon
<1>6. ASSUME NEW i \in 1 .. n
      PROVE  u[i] = IF t[i] = Space THEN u[i - 1] ELSE Append(u[i - 1], t[i])
  <2>1. i - 1 \in 0 .. n
    BY <1>1
  <2>2. <<i, u[i - 1]>> \in (1 .. n) \X V
    BY <1>5, <2>1
  <2>3. u[i] = step[<<i, u[i - 1]>>]
    BY <1>5 DEF Grows
  <2> QED BY <2>2, <2>3
<1>7. \A i \in 0 .. n :
        u[i] = IF i = 0 THEN <<>> ELSE IF t[i] = Space THEN u[i - 1]
               ELSE Append(u[i - 1], t[i])
  <2> TAKE i \in 0 .. n
  <2>1. CASE i = 0
    BY <1>5, <2>1 DEF Grows
  <2>2. CASE i # 0
    <3>1. i \in 1 .. n
      BY <1>1, <2>2
    <3> QED BY <1>6, <2>2, <3>1
  <2> QED BY <2>1, <2>2
<1>8. u = [i \in 0 .. n |-> u[i]]
  OBVIOUS
<1>9. u = [i \in 0 .. n |-> IF i = 0 THEN <<>> ELSE IF t[i] = Space THEN u[i - 1]
                           ELSE Append(u[i - 1], t[i])]
  BY <1>7, <1>8
<1> QED BY <1>9, Zenon DEF Collects, n

\* The first e characters of t are the digits d with white space at p, or without
\* any when p is after them; they end with the text or at its padding.
Spread(t, d, e, p) ==
  /\ Len(t) \in Nat /\ e \in 0 .. Len(t) /\ p \in 1 .. e + 1
  /\ Len(d) = IF p =< e THEN e - 1 ELSE e
  /\ \A j \in 1 .. e : t[j] = IF j = p THEN Space ELSE d[IF j < p THEN j ELSE j - 1]
  /\ e = Len(t) \/ t[e + 1] = Pad
LEMMA DigitsCollected ==
  ASSUME NEW t, NEW h, Collects(h, t), NEW S, NEW d \in Seq(S), ~(Space \in S),
         NEW e, NEW p, Spread(t, d, e, p)
  PROVE  h[e] = d
<1>1. /\ Len(t) \in Nat /\ e \in Nat /\ e =< Len(t) /\ p \in Nat /\ 1 =< p /\ p =< e + 1
      /\ Len(d) = IF p =< e THEN e - 1 ELSE e
      /\ \A j \in 1 .. e : t[j] = IF j = p THEN Space ELSE d[IF j < p THEN j ELSE j - 1]
  BY DEF Spread
<1>2. h[0] = << >>
  <2>1. 0 \in 0 .. Len(t)
    BY <1>1
  <2> QED BY <2>1 DEF Collects
<1>3. \A i \in 1 .. e : h[i] = IF t[i] = Space THEN h[i - 1] ELSE Append(h[i - 1], t[i])
  <2> TAKE i \in 1 .. e
  <2>1. i \in 0 .. Len(t) /\ i # 0
    BY <1>1
  <2> QED BY <2>1 DEF Collects
<1> DEFINE upto(i) == IF i < p THEN i ELSE i - 1
           G == {i \in 0 .. e : h[i] = SubSeq(d, 1, upto(i))}
<1>4. 0 \in G
  <2>1. upto(0) = 0 /\ 0 \in 0 .. e
    BY <1>1
  <2>2. SubSeq(d, 1, 0) = << >>
    OBVIOUS
  <2> QED BY <1>2, <2>1, <2>2
<1>5. ASSUME NEW k \in 0 .. e - 1, k \in G PROVE k + 1 \in G
  <2>1. k + 1 \in 1 .. e /\ k + 1 \in 0 .. e /\ k + 1 - 1 = k
    BY <1>1
  <2>2. h[k] = SubSeq(d, 1, upto(k))
    BY <1>5
  <2>3. h[k + 1] = IF t[k + 1] = Space THEN h[k] ELSE Append(h[k], t[k + 1])
    BY <1>3, <2>1
  <2>4. CASE k + 1 = p
    <3>1. t[k + 1] = Space
      BY <1>1, <2>1, <2>4
    <3>2. upto(k + 1) = k /\ upto(k) = k
      BY <1>1, <2>4
    <3> QED BY <2>1, <2>2, <2>3, <3>1, <3>2
  <2>5. CASE k + 1 # p
    <3>1. upto(k) \in 0 .. Len(d) - 1 /\ upto(k + 1) = upto(k) + 1
      BY <1>1, <2>5
    <3>2. t[k + 1] = d[upto(k) + 1]
      <4>1. t[k + 1] = d[IF k + 1 < p THEN k + 1 ELSE k + 1 - 1]
        BY <1>1, <2>1, <2>5
      <4>2. upto(k) + 1 = IF k + 1 < p THEN k + 1 ELSE k + 1 - 1
        BY <1>1, <2>5
      <4> QED BY <4>1, <4>2, Zenon
    <3>3. t[k + 1] # Space
      <4>1. upto(k) + 1 \in 1 .. Len(d)
        BY <3>1
      <4> HIDE DEF upto
      <4>2. d[upto(k) + 1] \in S
        BY <4>1, ElementsIn, Zenon
      <4> QED BY <3>2, <4>2, Zenon
    <3> HIDE DEF upto
    <3>4. Append(SubSeq(d, 1, upto(k)), d[upto(k) + 1]) = SubSeq(d, 1, upto(k) + 1)
      BY <3>1, OneMore
    <3>5. h[k + 1] = SubSeq(d, 1, upto(k + 1))
      BY <2>2, <2>3, <3>1, <3>2, <3>3, <3>4
    <3> QED BY <2>1, <3>5
  <2> QED BY <2>4, <2>5
<1>6. e \in G
  <2>1. e \in 0 .. e
    BY <1>1
  <2> HIDE DEF G
  <2> QED BY <1>1, <1>4, <1>5, <2>1, Climbs
<1>7. upto(e) = Len(d)
  BY <1>1
<1>8. SubSeq(d, 1, Len(d)) = d
  OBVIOUS
<1> HIDE DEF upto
<1> QED BY <1>6, <1>7, <1>8

\* Decoding ends where the digits end.
LEMMA DecodeIs ==
  ASSUME NEW t, NEW S, NEW d \in Seq(S), ~(Space \in S), ~(Pad \in S), ~(Invalid \in S),
         NEW e, NEW p, Spread(t, d, e, p)
  PROVE  base64_decode(t) = Decoded(t, IF e = Len(t) THEN 0 ELSE e + 1, d)
<1>1. /\ Len(t) \in Nat /\ e \in Nat /\ e =< Len(t) /\ p \in Nat /\ 1 =< p /\ p =< e + 1
      /\ Len(d) = IF p =< e THEN e - 1 ELSE e
      /\ \A j \in 1 .. e : t[j] = IF j = p THEN Space ELSE d[IF j < p THEN j ELSE j - 1]
      /\ e = Len(t) \/ t[e + 1] = Pad
  BY DEF Spread
<1> DEFINE Ends == {j \in 1 .. Len(t) : t[j] \in {Pad, Invalid}}
           stop == IF Ends # {} THEN Min(Ends) ELSE 0
           h == CHOOSE u : Collects(u, t)
<1>2. base64_decode(t) = Decoded(t, stop, h[IF stop = 0 THEN Len(t) ELSE stop - 1])
  BY Zenon DEF base64_decode, SelectInSeq, Collects
<1>3. Collects(h, t)
  <2>1. \E u : Collects(u, t)
    BY <1>1, Collected, Zenon
  <2> QED BY <2>1, Zenon
<1> HIDE DEF h
<1>4. h[e] = d
  BY <1>3, DigitsCollected, Zenon
<1>5. \A j \in 1 .. e : ~(j \in Ends)
  <2> TAKE j \in 1 .. e
  <2>1. CASE j = p
    <3>1. Space # Pad /\ Space # Invalid
      BY DEF Space, Pad, Invalid
    <3> QED BY <1>1, <2>1, <3>1
  <2>2. CASE j # p
    <3> DEFINE k == IF j < p THEN j ELSE j - 1
    <3>1. k \in 1 .. Len(d)
      BY <1>1, <2>2
    <3>2. t[j] = d[k]
      BY <1>1, <2>2
    <3> HIDE DEF k
    <3>3. d[k] \in S
      BY <3>1, ElementsIn, Zenon
    <3> QED BY <3>2, <3>3
  <2> QED BY <2>1, <2>2
<1>6. stop = IF e = Len(t) THEN 0 ELSE e + 1
  <2>1. CASE e = Len(t)
    <3>1. Ends = {}
      BY <1>5, <2>1
    <3> QED BY <2>1, <3>1
  <2>2. CASE e # Len(t)
    <3>1. e + 1 \in Ends
      BY <1>1, <2>2
    <3>2. Ends \in SUBSET Nat
      BY <1>1
    <3>3. \A j \in Ends : j >= e + 1
      BY <1>1, <1>5
    <3> HIDE DEF Ends
    <3>4. Min(Ends) \in Ends /\ \A y \in Ends : Min(Ends) =< y
      BY <3>1, <3>2, MinIs
    <3>5. Min(Ends) = e + 1
      <4> DEFINE m == Min(Ends)
      <4>1. m \in Nat /\ m >= e + 1 /\ m =< e + 1
        BY <3>1, <3>2, <3>3, <3>4
      <4> HIDE DEF m
      <4>2. m = e + 1
        BY <1>1, <4>1
      <4> QED BY <4>2 DEF m
    <3> QED BY <2>2, <3>1, <3>5
  <2> QED BY <2>1, <2>2
<1> HIDE DEF stop
<1>7. (IF stop = 0 THEN Len(t) ELSE stop - 1) = e
  BY <1>1, <1>6
<1> QED BY <1>2, <1>4, <1>6, <1>7, Zenon

\* The end of a sequence.
LEMMA EndIs ==
  ASSUME NEW S, NEW s \in Seq(S), NEW i \in Nat, i >= 1, i =< Len(s) + 1
  PROVE  /\ Len(SubSeq(s, i, Len(s))) = Len(s) - i + 1
         /\ \A j \in 1 .. Len(s) - i + 1 : SubSeq(s, i, Len(s))[j] = s[i - 1 + j]
OBVIOUS

LEMMA QuadNats ==
  ASSUME NEW a \in Nat, NEW b \in Nat, NEW c \in Nat
  PROVE  \A j \in 1 .. 4 : Quad(a, b, c)[j] \in Nat
<1> DEFINE Q == Quad(a, b, c)
<1>1. Q[1] \in Nat /\ Q[2] \in Nat /\ Q[3] \in Nat /\ Q[4] \in Nat
  BY SMT DEF Quad
<1> HIDE DEF Q
<1>2. \A j \in 1 .. 4 : j = 1 \/ j = 2 \/ j = 3 \/ j = 4
  OBVIOUS
<1>3. \A j \in 1 .. 4 : Q[j] \in Nat
  BY <1>1, <1>2
<1> QED BY <1>3 DEF Q

\* The text of an input: its digits, then padding up to whole groups.
LEMMA EncodedIs ==
  ASSUME NEW in \in Seq(Octet)
  PROVE  LET text == base64_encode(in)
         IN  /\ text \in Seq(Nat)
             /\ Len(text) \in Nat /\ Digits(in) \in 0 .. Len(text) /\ Len(text) % 4 = 0
             /\ Len(text) = Digits(in) \/ Len(in) % 3 # 0
             /\ Len(in) % 3 # 0 => Len(text) > Digits(in)
             /\ \A k \in 1 .. Digits(in) : text[k] = Digit(in, k)
             /\ \A k \in Digits(in) + 1 .. Len(text) : text[k] = Pad
             /\ Digits(in) % 4 = IF Len(in) % 3 = 0 THEN 0 ELSE 1 + (Len(in) % 3)
             /\ (Digits(in) * 3) \div 4 = Len(in)
<1> DEFINE n == Len(in)
           w == n \div 3
           r == n % 3
           rest == SubSeq(in, 3 * w + 1, n)
           A == [k \in 1 .. 4 * w |->
                   Quad(in[3 * ((k - 1) \div 4) + 1], in[3 * ((k - 1) \div 4) + 2],
                        in[3 * ((k - 1) \div 4) + 3])[1 + ((k - 1) % 4)]]
           text == base64_encode(in)
<1>1. text = A \o Padding(rest)
  BY Zenon DEF base64_encode
<1>2. n \in Nat /\ \A i \in 1 .. n : in[i] \in Octet
  BY ElementsIn, Zenon
<1> HIDE DEF n
<1>3. w \in Nat /\ r \in {0, 1, 2} /\ n = 3 * w + r
  BY <1>2
<1> HIDE DEF w, r
<1>4. Len(rest) = r /\ \A i \in 1 .. r : rest[i] = in[3 * w + i]
  <2> DEFINE i == 3 * w + 1
  <2>1. i \in Nat /\ i >= 1 /\ i =< n + 1 /\ n - i + 1 = r
    BY <1>3
  <2> HIDE DEF i
  <2>2. /\ Len(SubSeq(in, i, Len(in))) = Len(in) - i + 1
        /\ \A j \in 1 .. Len(in) - i + 1 : SubSeq(in, i, Len(in))[j] = in[i - 1 + j]
    BY <2>1, EndIs DEF n
  <2>3. Len(rest) = r /\ \A j \in 1 .. r : rest[j] = in[i - 1 + j]
    BY <2>1, <2>2 DEF n, i
  <2>4. i - 1 = 3 * w
    BY <1>3 DEF i
  <2> HIDE DEF rest
  <2> QED BY <2>3, <2>4
<1> HIDE DEF rest
<1>5. Digits(in) = 4 * w + IF r = 0 THEN 0 ELSE 1 + r
  BY DEF Digits, n, w, r
<1>6. \A k \in 1 .. 4 * w : A[k] = Digit(in, k) /\ A[k] \in Nat
  <2> TAKE k \in 1 .. 4 * w
  <2> DEFINE g == (k - 1) \div 4
  <2>1. g \in Nat /\ g < w /\ 1 + ((k - 1) % 4) \in 1 .. 4
    BY <1>3
  <2> HIDE DEF g
  <2>2. 3 * g + 1 \in 1 .. n /\ 3 * g + 2 \in 1 .. n /\ 3 * g + 3 \in 1 .. n
    BY <1>3, <2>1
  <2>3. A[k] = Quad(in[3 * g + 1], in[3 * g + 2], in[3 * g + 3])[1 + ((k - 1) % 4)]
    BY DEF g
  <2> HIDE DEF A
  <2>4. /\ At(in, 3 * g + 1) = in[3 * g + 1] /\ At(in, 3 * g + 2) = in[3 * g + 2]
        /\ At(in, 3 * g + 3) = in[3 * g + 3]
    BY <1>2, <2>2 DEF At, n
  <2>5. A[k] = Digit(in, k)
    BY <2>3, <2>4, Zenon DEF Digit, QuadAt, g
  <2>6. /\ in[3 * g + 1] \in Nat /\ in[3 * g + 2] \in Nat /\ in[3 * g + 3] \in Nat
    <3>1. \A i \in 1 .. n : in[i] \in Nat
      BY BytesAre, Zenon DEF n
    <3> QED BY <2>2, <3>1, Zenon
  <2>7. A[k] \in Nat
    <3> DEFINE a == in[3 * g + 1]
               b == in[3 * g + 2]
               c == in[3 * g + 3]
    <3> HIDE DEF a, b, c
    <3>1. \A j \in 1 .. 4 : Quad(a, b, c)[j] \in Nat
      BY <2>6, QuadNats, Zenon DEF a, b, c
    <3> QED BY <2>1, <2>3, <3>1, Zenon DEF a, b, c
  <2> QED BY <2>5, <2>7
<1>7. A \in Seq(Nat) /\ Len(A) = 4 * w
  <2>1. 4 * w \in Nat
    BY <1>3
  <2>2. A = [k \in 1 .. 4 * w |-> A[k]]
    OBVIOUS
  <2> HIDE DEF A
  <2>3. A \in [1 .. 4 * w -> Nat]
    BY <1>6, <2>2
  <2> QED BY <2>1, <2>3, ArrayIs
<1> DEFINE P == Padding(rest)
           Q == QuadAt(in, w)
<1>8. P \in Seq(Nat) /\ Len(P) = (IF r = 0 THEN 0 ELSE 4)
        /\ \A j \in 1 .. Len(P) : P[j] = IF j =< 1 + r THEN Q[j] ELSE Pad
  <2>1. CASE r = 0
    <3>1. P = << >>
      BY <1>4, <2>1 DEF Padding
    <3> HIDE DEF P
    <3> QED BY <2>1, <3>1
  <2>2. CASE r = 1
    <3>1. /\ At(in, 3 * w + 1) = in[3 * w + 1] /\ At(in, 3 * w + 2) = 0
          /\ At(in, 3 * w + 3) = 0
      BY <1>2, <1>3, <2>2 DEF At, n
    <3>2. rest[1] = in[3 * w + 1]
      BY <1>4, <2>2
    <3>3. Q = Quad(rest[1], 0, 0)
      BY <3>1, <3>2, Zenon DEF QuadAt
    <3>4. P = <<Q[1], Q[2], Pad, Pad>>
      BY <1>4, <2>2, <3>3 DEF Padding
    <3>5. Q[1] \in Nat /\ Q[2] \in Nat
      <4>1. 3 * w + 1 \in 1 .. n
        BY <1>3, <2>2
      <4>2. rest[1] \in Nat
        BY <3>2, <4>1, BytesAre DEF n
      <4>3. \A j \in 1 .. 4 : Quad(rest[1], 0, 0)[j] \in Nat
        BY <4>2, QuadNats
      <4> HIDE DEF Q
      <4> QED BY <3>3, <4>3
    <3> HIDE DEF P, Q
    <3>6. Pad \in Nat
      BY DEF Pad
    <3> QED BY <2>2, <3>4, <3>5, <3>6
  <2>3. CASE r = 2
    <3>1. /\ At(in, 3 * w + 1) = in[3 * w + 1] /\ At(in, 3 * w + 2) = in[3 * w + 2]
          /\ At(in, 3 * w + 3) = 0
      BY <1>2, <1>3, <2>3 DEF At, n
    <3>2. rest[1] = in[3 * w + 1] /\ rest[2] = in[3 * w + 2]
      BY <1>4, <2>3
    <3>3. Q = Quad(rest[1], rest[2], 0)
      BY <3>1, <3>2, Zenon DEF QuadAt
    <3>4. P = <<Q[1], Q[2], Q[3], Pad>>
      BY <1>4, <2>3, <3>3 DEF Padding
    <3>5. Q[1] \in Nat /\ Q[2] \in Nat /\ Q[3] \in Nat
      <4>1. 3 * w + 1 \in 1 .. n /\ 3 * w + 2 \in 1 .. n
        BY <1>3, <2>3
      <4>2. rest[1] \in Nat /\ rest[2] \in Nat
        BY <3>2, <4>1, BytesAre DEF n
      <4>3. \A j \in 1 .. 4 : Quad(rest[1], rest[2], 0)[j] \in Nat
        BY <4>2, QuadNats
      <4> HIDE DEF Q
      <4> QED BY <3>3, <4>3
    <3> HIDE DEF P, Q
    <3>6. Pad \in Nat
      BY DEF Pad
    <3> QED BY <2>3, <3>4, <3>5, <3>6
  <2> QED BY <1>3, <2>1, <2>2, <2>3
<1> HIDE DEF A, P, Q
<1>9. /\ text \in Seq(Nat) /\ Len(text) = Len(A) + Len(P)
      /\ \A k \in 1 .. Len(A) : text[k] = A[k]
      /\ \A k \in 1 .. Len(P) : text[Len(A) + k] = P[k]
  <2>1. text = A \o P
    BY <1>1, Zenon DEF P
  <2> HIDE DEF text
  <2>2. /\ A \o P \in Seq(Nat) /\ Len(A \o P) = Len(A) + Len(P)
        /\ \A k \in 1 .. Len(A) : (A \o P)[k] = A[k]
        /\ \A k \in 1 .. Len(P) : (A \o P)[Len(A) + k] = P[k]
    <3>1. A \in Seq(Nat) /\ P \in Seq(Nat)
      BY <1>7, <1>8, Zenon
    <3>2. \A u \in Seq(Nat), x \in Seq(Nat) :
            /\ u \o x \in Seq(Nat) /\ Len(u \o x) = Len(u) + Len(x)
            /\ \A k \in 1 .. Len(u) : (u \o x)[k] = u[k]
            /\ \A k \in 1 .. Len(x) : (u \o x)[Len(u) + k] = x[k]
      BY JoinedParts
    <3> QED BY <3>1, <3>2, Zenon
  <2> QED BY <2>1, <2>2, Zenon
<1> HIDE DEF text
<1> DEFINE D == Digits(in)
<1> HIDE DEF D
<1>10. D = 4 * w + IF r = 0 THEN 0 ELSE 1 + r
  BY <1>5 DEF D
<1>11. /\ Len(text) \in Nat /\ D \in 0 .. Len(text) /\ Len(text) % 4 = 0
       /\ Len(text) = D \/ r # 0
       /\ r # 0 => Len(text) > D
       /\ D % 4 = IF r = 0 THEN 0 ELSE 1 + r
       /\ (D * 3) \div 4 = n
  <2>1. Len(text) = 4 * w + IF r = 0 THEN 0 ELSE 4
    BY <1>7, <1>8, <1>9, Zenon
  <2>2. CASE r = 0
    BY <1>3, <1>10, <2>1, <2>2
  <2>3. CASE r = 1
    BY <1>3, <1>10, <2>1, <2>3
  <2>4. CASE r = 2
    BY <1>3, <1>10, <2>1, <2>4
  <2> QED BY <1>3, <2>2, <2>3, <2>4
<1>12. \A k \in 1 .. D : text[k] = Digit(in, k)
  <2> TAKE k \in 1 .. D
  <2>1. CASE k =< 4 * w
    BY <1>3, <1>6, <1>7, <1>9, <1>10, <2>1
  <2>2. CASE k > 4 * w
    <3> DEFINE j == k - 4 * w
    <3>1. j \in 1 .. 1 + r /\ r # 0 /\ 4 * w + j = k /\ j \in 1 .. 4
      BY <1>3, <1>10, <2>2
    <3>2. (k - 1) \div 4 = w /\ 1 + ((k - 1) % 4) = j
      BY <1>3, <3>1
    <3> HIDE DEF j
    <3>3. text[4 * w + j] = P[j] /\ P[j] = Q[j]
      BY <1>7, <1>8, <1>9, <3>1
    <3>4. Digit(in, k) = Q[j]
      BY <3>2 DEF Digit, Q
    <3> QED BY <3>1, <3>3, <3>4
  <2> QED BY <1>3, <1>10, <2>1, <2>2
<1>13. \A k \in D + 1 .. Len(text) : text[k] = Pad
  <2> TAKE k \in D + 1 .. Len(text)
  <2> DEFINE j == k - 4 * w
  <2>1. j \in 1 .. Len(P) /\ 4 * w + j = k /\ ~(j =< 1 + r)
    BY <1>3, <1>7, <1>8, <1>9, <1>10
  <2> HIDE DEF j
  <2>2. text[4 * w + j] = P[j] /\ P[j] = Pad
    BY <1>7, <1>8, <1>9, <2>1
  <2> QED BY <2>1, <2>2
<1> QED BY <1>9, <1>11, <1>12, <1>13 DEF text, D, n, r

\* A digit has six bits.
LEMMA DigitIs ==
  ASSUME NEW in \in Seq(Octet)
  PROVE  /\ \A i \in Nat : i >= 1 => At(in, i) \in Octet
         /\ \A k \in 1 .. Digits(in) : Digit(in, k) \in Sextet
<1>1. Len(in) \in Nat /\ \A i \in 1 .. Len(in) : in[i] \in Octet
  BY ElementsIn, Zenon
<1>2. 0 \in Octet
  BY DEF Octet
<1>3. \A i \in Nat : i >= 1 => At(in, i) \in Octet
  BY <1>1, <1>2 DEF At
<1>4. \A k \in Nat : k >= 1 => Digit(in, k) \in Sextet
  <2> TAKE k \in Nat
  <2> HAVE k >= 1
  <2> DEFINE g == (k - 1) \div 4
             j == 1 + ((k - 1) % 4)
             i1 == 3 * g + 1
             i2 == 3 * g + 2
             i3 == 3 * g + 3
  <2>1. g \in Nat /\ j \in 1 .. 4
    OBVIOUS
  <2>2. Digit(in, k) = Quad(At(in, i1), At(in, i2), At(in, i3))[j]
    BY Zenon DEF Digit, QuadAt
  <2> HIDE DEF g, j
  <2>3. i1 \in Nat /\ i1 >= 1 /\ i2 \in Nat /\ i2 >= 1 /\ i3 \in Nat /\ i3 >= 1
    BY <2>1
  <2> HIDE DEF i1, i2, i3
  <2>4. At(in, i1) \in Octet /\ At(in, i2) \in Octet /\ At(in, i3) \in Octet
    BY <1>3, <2>3
  <2>5. \A a \in Octet, b \in Octet, c \in Octet : \A m \in 1 .. 4 : Quad(a, b, c)[m] \in Sextet
    BY QuadIs, Zenon
  <2> QED BY <2>1, <2>2, <2>4, <2>5, Zenon
<1>5. \A k \in 1 .. Digits(in) : k \in Nat /\ k >= 1
  BY <1>1 DEF Digits
<1> QED BY <1>3, <1>4, <1>5

\* The bytes of the digits are the input.
LEMMA BytesBack ==
  ASSUME NEW in \in Seq(Octet), NEW d, \A k \in 1 .. Digits(in) : d[k] = Digit(in, k)
  PROVE  \A i \in 1 .. Len(in) : ByteOf(d, i - 1) = in[i]
<1> DEFINE n == Len(in)
           D == Digits(in)
<1>1. n \in Nat
  OBVIOUS
<1>2. D \in Nat /\ D = 4 * (n \div 3) + IF n % 3 = 0 THEN 0 ELSE 1 + (n % 3)
  <2>1. D = 4 * (n \div 3) + IF n % 3 = 0 THEN 0 ELSE 1 + (n % 3)
    BY DEF Digits
  <2> HIDE DEF n, D
  <2> QED BY <1>1, <2>1
<1> HIDE DEF n, D
<1> SUFFICES ASSUME NEW i \in 1 .. n PROVE ByteOf(d, i - 1) = in[i]
  BY DEF n
<1> DEFINE g == (i - 1) \div 3
           m == (i - 1) % 3
<1>3. g \in Nat /\ m \in {0, 1, 2} /\ i = 3 * g + m + 1
  BY <1>1
<1>4. 4 * g + m + 2 =< D
  BY <1>1, <1>2
<1> HIDE DEF g, m
<1> DEFINE Q == QuadAt(in, g)
<1>5. \A j \in 1 .. m + 2 : d[4 * g + j] = Q[j]
  <2> TAKE j \in 1 .. m + 2
  <2>1. 4 * g + j \in 1 .. D /\ j \in 1 .. 4
    BY <1>2, <1>3, <1>4
  <2> DEFINE x == 4 * g + j
  <2>2. (x - 1) \div 4 = g /\ 1 + ((x - 1) % 4) = j
    BY <1>3, <2>1
  <2>3. d[x] = Digit(in, x)
    BY <2>1 DEF D
  <2> HIDE DEF x
  <2>4. Digit(in, x) = QuadAt(in, (x - 1) \div 4)[1 + ((x - 1) % 4)]
    BY Zenon DEF Digit
  <2>5. d[x] = Q[j]
    BY <2>2, <2>3, <2>4, Zenon
  <2> QED BY <2>5 DEF x
<1> DEFINE a == At(in, 3 * g + 1)
           b == At(in, 3 * g + 2)
           c == At(in, 3 * g + 3)
<1>6. a \in Octet /\ b \in Octet /\ c \in Octet /\ Q = Quad(a, b, c)
  <2>1. /\ 3 * g + 1 \in Nat /\ 3 * g + 1 >= 1 /\ 3 * g + 2 \in Nat /\ 3 * g + 2 >= 1
        /\ 3 * g + 3 \in Nat /\ 3 * g + 3 >= 1
    BY <1>3
  <2>2. \A k \in Nat : k >= 1 => At(in, k) \in Octet
    BY DigitIs, Zenon
  <2>3. Q = Quad(a, b, c)
    BY Zenon DEF QuadAt
  <2> QED BY <2>1, <2>2, <2>3, Zenon
<1>7. in[i] = At(in, 3 * g + m + 1)
  BY <1>1, <1>3 DEF At, n
<1> HIDE DEF a, b, c, Q
<1>8. /\ Q[1] * 4 + Q[2] \div 16 = a
      /\ (Q[2] % 16) * 16 + Q[3] \div 4 = b
      /\ (Q[3] % 4) * 64 + Q[4] = c
  BY <1>6, QuadIs
<1>9. ByteOf(d, i - 1) =
        CASE m = 0 -> d[4 * g + 1] * 4 + d[4 * g + 2] \div 16
          [] m = 1 -> (d[4 * g + 2] % 16) * 16 + d[4 * g + 3] \div 4
          [] m = 2 -> (d[4 * g + 3] % 4) * 64 + d[4 * g + 4]
  BY Zenon DEF ByteOf, g, m
<1>10. CASE m = 0
  <2>1. d[4 * g + 1] = Q[1] /\ d[4 * g + 2] = Q[2]
    BY <1>5, <1>10
  <2>2. ByteOf(d, i - 1) = Q[1] * 4 + Q[2] \div 16
    BY <1>9, <1>10, <2>1
  <2>3. in[i] = a
    BY <1>3, <1>7, <1>10 DEF a
  <2> QED BY <1>8, <2>2, <2>3
<1>11. CASE m = 1
  <2>1. d[4 * g + 2] = Q[2] /\ d[4 * g + 3] = Q[3]
    BY <1>5, <1>11
  <2>2. ByteOf(d, i - 1) = (Q[2] % 16) * 16 + Q[3] \div 4
    BY <1>9, <1>11, <2>1
  <2>3. in[i] = b
    BY <1>3, <1>7, <1>11 DEF b
  <2> QED BY <1>8, <2>2, <2>3
<1>12. CASE m = 2
  <2>1. d[4 * g + 3] = Q[3] /\ d[4 * g + 4] = Q[4]
    BY <1>5, <1>12
  <2>2. ByteOf(d, i - 1) = (Q[3] % 4) * 64 + Q[4]
    BY <1>9, <1>12, <2>1
  <2>3. in[i] = c
    BY <1>3, <1>7, <1>12 DEF c
  <2> QED BY <1>8, <2>2, <2>3
<1> QED BY <1>3, <1>10, <1>11, <1>12

\* All digits of an input.
DigitsOf(in) == [k \in 1 .. Digits(in) |-> Digit(in, k)]
LEMMA DigitsAre ==
  ASSUME NEW in \in Seq(Octet)
  PROVE  /\ DigitsOf(in) \in Seq(Sextet) /\ Len(DigitsOf(in)) = Digits(in)
         /\ \A k \in 1 .. Digits(in) : DigitsOf(in)[k] = Digit(in, k)
<1> DEFINE D == Digits(in)
           d == DigitsOf(in)
<1>1. D \in Nat
  BY EncodedIs
<1>2. \A k \in 1 .. D : Digit(in, k) \in Sextet
  BY DigitIs, Zenon
<1> HIDE DEF D
<1>3. d = [k \in 1 .. D |-> Digit(in, k)]
  BY Zenon DEF DigitsOf, D
<1> HIDE DEF d
<1>4. d \in [1 .. D -> Sextet] /\ \A k \in 1 .. D : d[k] = Digit(in, k)
  BY <1>2, <1>3
<1>5. d \in Seq(Sextet) /\ Len(d) = D
  BY <1>1, <1>4, ArrayIs, Zenon
<1> QED BY <1>4, <1>5 DEF d, D

\* A text with the digits of an input decodes to it.
LEMMA BackIs ==
  ASSUME NEW in \in Seq(Octet), NEW t, NEW e, NEW p, Spread(t, DigitsOf(in), e, p),
         e = Len(t) <=> Len(in) % 3 = 0
  PROVE  base64_decode(t) = [ok |-> TRUE, out |-> in]
<1> DEFINE d == DigitsOf(in)
           D == Digits(in)
           n == Len(in)
           r == n % 3
           stop == IF e = Len(t) THEN 0 ELSE e + 1
<1>1. d \in Seq(Sextet) /\ Len(d) = D /\ \A k \in 1 .. D : d[k] = Digit(in, k)
  BY DigitsAre, Zenon
<1> HIDE DEF d
<1>2. ~(Space \in Sextet) /\ ~(Pad \in Sextet) /\ ~(Invalid \in Sextet)
  BY DEF Space, Pad, Invalid, Sextet
<1>3. base64_decode(t) = Decoded(t, stop, d)
  BY <1>1, <1>2, DecodeIs, Zenon DEF d
<1>4. e \in Nat /\ (e = Len(t) \/ t[e + 1] = Pad)
  BY DEF Spread
<1>5. D % 4 = (IF r = 0 THEN 0 ELSE 1 + r) /\ (D * 3) \div 4 = n
  BY EncodedIs
<1>6. n \in Nat /\ r \in {0, 1, 2} /\ (e = Len(t) <=> r = 0)
  <2>1. n \in Nat
    OBVIOUS
  <2>2. e = Len(t) <=> r = 0
    OBVIOUS
  <2> HIDE DEF n
  <2> QED BY <2>1, <2>2
<1> HIDE DEF n, D, r
<1>7. Decoded(t, stop, d) = [ok |-> TRUE, out |-> [i \in 1 .. n |-> ByteOf(d, i - 1)]]
  <2>1. Decoded(t, stop, d) =
          IF stop # 0 /\ t[stop] = Invalid THEN Failed
          ELSE IF stop # 0 /\ D % 4 \in {0, 1} THEN Failed
          ELSE IF stop = 0 /\ D % 4 # 0 THEN Failed
          ELSE [ok |-> TRUE, out |-> [i \in 1 .. (D * 3) \div 4 |-> ByteOf(d, i - 1)]]
    BY <1>1, Zenon DEF Decoded
  <2>2. CASE r = 0
    <3>1. stop = 0 /\ D % 4 = 0
      BY <1>5, <1>6, <2>2
    <3> QED BY <1>5, <2>1, <3>1
  <2>3. CASE r # 0
    <3>1. stop # 0 /\ t[stop] = Pad
      BY <1>4, <1>6, <2>3
    <3>2. ~(D % 4 \in {0, 1}) /\ Pad # Invalid
      BY <1>5, <1>6, <2>3 DEF Pad, Invalid
    <3> QED BY <1>5, <2>1, <3>1, <3>2
  <2> QED BY <2>2, <2>3
<1>8. \A i \in 1 .. n : ByteOf(d, i - 1) = in[i]
  BY <1>1, BytesBack DEF n, D
<1>9. [i \in 1 .. n |-> ByteOf(d, i - 1)] = in
  <2>1. in = [i \in 1 .. n |-> in[i]]
    BY DEF n
  <2> QED BY <1>8, <2>1
<1> QED BY <1>3, <1>7, <1>9, Zenon

\* White space put into a text.
SpacedAt(text, i) == SubSeq(text, 1, i) \o <<Space>> \o SubSeq(text, i + 1, Len(text))
LEMMA SpacedIs ==
  ASSUME NEW text \in Seq(Nat), NEW i \in 0 .. Len(text)
  PROVE  /\ Len(SpacedAt(text, i)) = Len(text) + 1
         /\ \A j \in 1 .. i : SpacedAt(text, i)[j] = text[j]
         /\ SpacedAt(text, i)[i + 1] = Space
         /\ \A j \in i + 2 .. Len(text) + 1 : SpacedAt(text, i)[j] = text[j - 1]
<1> DEFINE n == Len(text)
           A == SubSeq(text, 1, i)
           B == <<Space>>
           C == SubSeq(text, i + 1, Len(text))
<1>1. n \in Nat /\ i \in Nat /\ i =< n
  OBVIOUS
<1>2. A \in Seq(Nat) /\ Len(A) = i /\ \A j \in 1 .. i : A[j] = text[j]
  OBVIOUS
<1>3. B \in Seq(Nat) /\ Len(B) = 1 /\ B[1] = Space
  BY DEF Space
<1>4. C \in Seq(Nat)
  OBVIOUS
<1>5. Len(C) = n - i /\ \A j \in 1 .. n - i : C[j] = text[i + j]
  <2> DEFINE k == i + 1
  <2>1. k \in Nat /\ k >= 1 /\ k =< n + 1
    BY <1>1
  <2> HIDE DEF k
  <2>2. /\ Len(SubSeq(text, k, Len(text))) = n - k + 1
        /\ \A j \in 1 .. n - k + 1 : SubSeq(text, k, Len(text))[j] = text[k - 1 + j]
    BY <2>1, EndIs
  <2>3. n - k + 1 = n - i /\ k - 1 = i
    BY <1>1 DEF k
  <2>4. C = SubSeq(text, k, Len(text))
    BY DEF k
  <2> HIDE DEF C, n
  <2> QED BY <2>2, <2>3, <2>4
<1> DEFINE s == SpacedAt(text, i)
<1>6. s = (A \o B) \o C
  BY Zenon DEF SpacedAt
<1> HIDE DEF A, B, C, s, n
<1>7. \A u \in Seq(Nat), x \in Seq(Nat) :
        /\ u \o x \in Seq(Nat) /\ Len(u \o x) = Len(u) + Len(x)
        /\ \A k \in 1 .. Len(u) : (u \o x)[k] = u[k]
        /\ \A k \in 1 .. Len(x) : (u \o x)[Len(u) + k] = x[k]
  BY JoinedParts
<1> DEFINE E == A \o B
<1>8. /\ E \in Seq(Nat) /\ Len(E) = i + 1 /\ E[i + 1] = Space
      /\ \A k \in 1 .. i : E[k] = text[k]
  <2>1. /\ E \in Seq(Nat) /\ Len(E) = Len(A) + Len(B)
        /\ \A k \in 1 .. Len(A) : E[k] = A[k]
        /\ \A k \in 1 .. Len(B) : E[Len(A) + k] = B[k]
    BY <1>2, <1>3, <1>7, Zenon
  <2> HIDE DEF E
  <2>2. 1 \in 1 .. Len(B)
    BY <1>3
  <2>3. E[i + 1] = Space
    BY <1>2, <1>3, <2>1, <2>2, Zenon
  <2> QED BY <1>2, <1>3, <2>1, <2>3
<1> HIDE DEF E
<1>9. /\ Len(s) = Len(E) + Len(C)
      /\ \A k \in 1 .. Len(E) : s[k] = E[k]
      /\ \A k \in 1 .. Len(C) : s[Len(E) + k] = C[k]
  BY <1>4, <1>6, <1>7, <1>8, Zenon DEF E
<1>10. Len(s) = n + 1
  BY <1>1, <1>5, <1>8, <1>9
<1>11. s[i + 1] = Space /\ \A j \in 1 .. i : s[j] = text[j]
  BY <1>1, <1>8, <1>9
<1>12. ASSUME NEW j \in i + 2 .. n + 1 PROVE s[j] = text[j - 1]
  <2> DEFINE k == j - (i + 1)
  <2>1. k \in 1 .. n - i /\ i + 1 + k = j /\ i + k = j - 1
    BY <1>1
  <2> HIDE DEF k
  <2>2. s[i + 1 + k] = C[k] /\ C[k] = text[i + k]
    BY <1>5, <1>8, <1>9, <2>1
  <2> QED BY <2>1, <2>2
<1> QED BY <1>10, <1>11, <1>12 DEF s, n

LEMMA SeqWider ==
  ASSUME NEW S, NEW T, S \subseteq T, NEW s \in Seq(S)
  PROVE  s \in Seq(T)
OBVIOUS

\* What is encoded decodes to what it was, with and without white space.
LEMMA TextBack ==
  ASSUME NEW in \in Seq(Octet)
  PROVE  LET text == base64_encode(in)
         IN  /\ base64_decode(text) = [ok |-> TRUE, out |-> in]
             /\ \A i \in 0 .. Len(text) :
                  base64_decode(SpacedAt(text, i)) = [ok |-> TRUE, out |-> in]
<1> DEFINE text == base64_encode(in)
           d == DigitsOf(in)
           D == Digits(in)
           L == Len(text)
<1>1. /\ text \in Seq(Nat) /\ L \in Nat /\ D \in 0 .. L
      /\ L = D \/ Len(in) % 3 # 0
      /\ Len(in) % 3 # 0 => L > D
      /\ \A k \in 1 .. D : text[k] = Digit(in, k)
      /\ \A k \in D + 1 .. L : text[k] = Pad
  BY EncodedIs
<1>2. Len(d) = D /\ \A k \in 1 .. D : d[k] = Digit(in, k)
  BY DigitsAre, Zenon
<1> HIDE DEF text, d, D
<1>3. D \in Nat /\ D =< L /\ (D = L <=> Len(in) % 3 = 0)
  BY <1>1
<1>4. /\ \A k \in 1 .. D : text[k] = d[k]
      /\ D = L \/ text[D + 1] = Pad
  <2>1. D # L => D + 1 \in D + 1 .. L
    BY <1>1, <1>3
  <2> QED BY <1>1, <1>2, <2>1
<1>5. base64_decode(text) = [ok |-> TRUE, out |-> in]
  <2>1. D \in 0 .. Len(text) /\ D + 1 \in 1 .. D + 1 /\ ~(D + 1 =< D)
    BY <1>1, <1>3
  <2>2. ASSUME NEW j \in 1 .. D
        PROVE  text[j] = IF j = D + 1 THEN Space ELSE d[IF j < D + 1 THEN j ELSE j - 1]
    <3>1. j # D + 1 /\ j < D + 1
      BY <1>3
    <3> QED BY <1>4, <3>1
  <2>3. Spread(text, d, D, D + 1)
    BY <1>1, <1>2, <1>4, <2>1, <2>2 DEF Spread
  <2> QED BY <1>3, <2>3, BackIs, Zenon DEF d
<1>6. ASSUME NEW i \in 0 .. L
      PROVE  base64_decode(SpacedAt(text, i)) = [ok |-> TRUE, out |-> in]
  <2> DEFINE t == SpacedAt(text, i)
  <2>1. /\ Len(t) = L + 1 /\ t[i + 1] = Space
        /\ \A j \in 1 .. i : t[j] = text[j]
        /\ \A j \in i + 2 .. L + 1 : t[j] = text[j - 1]
    BY <1>1, SpacedIs
  <2> HIDE DEF t, L
  <2>2. CASE i =< D
    <3> DEFINE e == D + 1
               p == i + 1
    <3>1. e \in 0 .. Len(t) /\ p \in 1 .. e + 1 /\ p =< e /\ e - 1 = D /\ Len(t) \in Nat
      BY <1>1, <1>3, <2>1, <2>2
    <3>2. ASSUME NEW j \in 1 .. e
          PROVE  t[j] = IF j = p THEN Space ELSE d[IF j < p THEN j ELSE j - 1]
      <4>1. CASE j < p
        <5>1. j \in 1 .. i /\ j \in 1 .. D
          BY <1>3, <2>2, <4>1
        <5> QED BY <1>4, <2>1, <4>1, <5>1
      <4>2. CASE j = p
        BY <2>1, <4>2
      <4>3. CASE j > p
        <5>1. j \in i + 2 .. L + 1 /\ j - 1 \in 1 .. D
          BY <1>1, <1>3, <2>2, <4>3
        <5> QED BY <1>4, <2>1, <4>3, <5>1
      <4> QED BY <4>1, <4>2, <4>3
    <3>3. e = Len(t) \/ t[e + 1] = Pad
      <4>1. CASE D = L
        BY <2>1, <4>1
      <4>2. CASE D # L
        <5> DEFINE k == e + 1
        <5>1. k \in i + 2 .. L + 1 /\ k - 1 = D + 1
          BY <1>1, <1>3, <2>2, <4>2
        <5> HIDE DEF k
        <5>2. t[k] = text[k - 1]
          BY <2>1, <5>1, Zenon
        <5>3. t[k] = Pad
          BY <1>4, <4>2, <5>1, <5>2, Zenon
        <5> QED BY <5>3 DEF k
      <4> QED BY <4>1, <4>2
    <3>4. e = Len(t) <=> Len(in) % 3 = 0
      BY <1>1, <1>3, <2>1
    <3> HIDE DEF e, p
    <3>5. Spread(t, d, e, p)
      BY <1>2, <3>1, <3>2, <3>3 DEF Spread
    <3> QED BY <3>4, <3>5, BackIs, Zenon DEF d, t
  <2>3. CASE i > D
    <3>1. D # L
      BY <1>1, <1>3, <2>3
    <3>2. D \in 0 .. Len(t) /\ D + 1 \in 1 .. D + 1 /\ ~(D + 1 =< D) /\ Len(t) \in Nat
      BY <1>1, <1>3, <2>1
    <3>3. ASSUME NEW j \in 1 .. D
          PROVE  t[j] = IF j = D + 1 THEN Space ELSE d[IF j < D + 1 THEN j ELSE j - 1]
      <4>1. j \in 1 .. i /\ j # D + 1 /\ j < D + 1
        BY <1>1, <1>3, <2>3
      <4> QED BY <1>4, <2>1, <4>1
    <3>4. t[D + 1] = Pad
      <4>1. D + 1 \in 1 .. i
        BY <1>1, <1>3, <2>3
      <4> QED BY <1>4, <2>1, <3>1, <4>1
    <3>5. Spread(t, d, D, D + 1)
      BY <1>2, <3>2, <3>3, <3>4 DEF Spread
    <3>6. D = Len(t) <=> Len(in) % 3 = 0
      BY <1>1, <1>3, <2>1, <3>1
    <3> QED BY <3>5, <3>6, BackIs, Zenon DEF d, t
  <2> QED BY <1>1, <1>3, <2>2, <2>3 DEF L
<1> QED BY <1>5, <1>6 DEF text

LEMMA EncodesRight ==
  ASSUME Given, Encode, UNCHANGED <<kind, input>>
  PROVE  RoundTrips'
<1> DEFINE text == base64_encode(input)
           whole == [ok |-> TRUE, out |-> input]
<1>1. kind = "base64" /\ input \in Sequences(Byte, MaxText)
  BY DEF Given, Encode
<1>2. input \in Seq(Octet)
  <2>1. input \in Seq(Byte)
    BY <1>1, SequencesAre, Zenon
  <2>2. Byte \subseteq Octet
    BY ConversionsAssumption, Zenon DEF Octet
  <2> QED BY <2>1, <2>2, SeqWider, Zenon
<1>3. output' = [text |-> text, back |-> base64_decode(text),
                 spaced |-> {base64_decode(SpacedAt(text, i)) : i \in 0 .. Len(text)}]
  BY Zenon DEF Encode, SpacedAt
<1>4. base64_decode(text) = whole
        /\ \A i \in 0 .. Len(text) : base64_decode(SpacedAt(text, i)) = whole
  BY <1>2, TextBack
<1>5. /\ Len(text) \in Nat /\ Digits(input) \in 0 .. Len(text) /\ Len(text) % 4 = 0
      /\ \A k \in 1 .. Digits(input) : text[k] = Digit(input, k)
      /\ \A k \in Digits(input) + 1 .. Len(text) : text[k] = Pad
  BY <1>2, EncodedIs
<1>6. \A k \in 1 .. Digits(input) : Digit(input, k) \in Sextet
  BY <1>2, DigitIs, Zenon
<1> HIDE DEF text, whole
<1>7. \A i \in 1 .. Len(text) : text[i] \in 0 .. 63 \cup {Pad}
  <2> TAKE i \in 1 .. Len(text)
  <2>1. i \in 1 .. Digits(input) \/ i \in Digits(input) + 1 .. Len(text)
    BY <1>5
  <2>2. \A x \in Sextet : x \in 0 .. 63
    BY Zenon DEF Sextet
  <2> QED BY <1>5, <1>6, <2>1, <2>2, Zenon
<1>8. {output'.back} \cup output'.spaced = {whole}
  <2>1. output'.back = whole
    BY <1>3, <1>4
  <2>2. output'.spaced = {base64_decode(SpacedAt(text, i)) : i \in 0 .. Len(text)}
    BY <1>3
  <2>3. \A x \in output'.spaced : x = whole
    BY <1>4, <2>2
  <2> QED BY <2>1, <2>3
<1>9. output'.text = text
  BY <1>3
<1> QED BY <1>5, <1>7, <1>8, <1>9, Zenon DEF RoundTrips, whole

-----------------------------------------------------------------------------
(* Conversions: the theorems.                                              *)

\* What is converted stays what it was, and a conversion that was done has its
\* property.
ConvInv == Given /\ RoundTrips /\ ReceiverUndoesSender /\ SamplesPlayed /\ StartsWhereAsked

LEMMA GivenStays ==
  ASSUME Given, UNCHANGED <<kind, input>>
  PROVE  Given'
BY Zenon DEF Given

LEMMA NothingDone ==
  ASSUME output = Nothing
  PROVE  RoundTrips /\ ReceiverUndoesSender /\ SamplesPlayed /\ StartsWhereAsked
BY DEF RoundTrips, ReceiverUndoesSender, SamplesPlayed, StartsWhereAsked, Done

\* A conversion of another kind has nothing to do with a property.
LEMMA OfAnotherKind ==
  /\ kind' # "base64" => RoundTrips'
  /\ kind' # "order" /\ kind' # "header" => ReceiverUndoesSender'
  /\ kind' # "play" => SamplesPlayed'
  /\ kind' # "range" => StartsWhereAsked'
BY DEF RoundTrips, ReceiverUndoesSender, SamplesPlayed, StartsWhereAsked, Done

LEMMA ConvStep ==
  ASSUME ConvInv, [ConvNext]_convVars
  PROVE  ConvInv'
<1>1. CASE UNCHANGED convVars
  BY <1>1, Zenon
     DEF convVars, ConvInv, Given, RoundTrips, ReceiverUndoesSender, SamplesPlayed,
         StartsWhereAsked, Done
<1>2. CASE ConvNext
  <2>1. UNCHANGED <<kind, input>> /\ Given
    BY <1>2 DEF ConvNext, ConvInv
  <2>2. Given'
    BY <2>1, GivenStays
  <2>3. CASE Encode
    <3>1. kind' = "base64"
      BY <2>1, <2>3 DEF Encode
    <3>2. RoundTrips'
      BY <2>1, <2>3, EncodesRight
    <3> QED BY <2>2, <3>1, <3>2, OfAnotherKind DEF ConvInv
  <2>4. CASE Swap
    <3>1. kind' = "order"
      BY <2>1, <2>4 DEF Swap
    <3>2. ReceiverUndoesSender'
      BY <2>1, <2>4, SwapUndoes
    <3> QED BY <2>2, <3>1, <3>2, OfAnotherKind DEF ConvInv
  <2>5. CASE Header
    <3>1. kind' = "header"
      BY <2>1, <2>5 DEF Header
    <3>2. ReceiverUndoesSender'
      BY <2>1, <2>5, HeaderUndoes
    <3> QED BY <2>2, <3>1, <3>2, OfAnotherKind DEF ConvInv
  <2>6. CASE Play
    <3>1. kind' = "play"
      BY <2>1, <2>6 DEF Play
    <3>2. SamplesPlayed'
      BY <2>1, <2>6, PlaysRight
    <3> QED BY <2>2, <3>1, <3>2, OfAnotherKind DEF ConvInv
  <2>7. CASE RangeHeader
    <3>1. kind' = "range"
      BY <2>1, <2>7 DEF RangeHeader
    <3>2. StartsWhereAsked'
      BY <2>1, <2>7, AnswersRight
    <3> QED BY <2>2, <3>1, <3>2, OfAnotherKind DEF ConvInv
  <2>8. CASE Reload \/ SaveValue \/ SaveCut
    <3>1. kind' \in {"conf", "value", "cut"}
      BY <2>1, <2>8 DEF Reload, SaveValue, SaveCut
    <3> QED BY <2>2, <3>1, OfAnotherKind DEF ConvInv
  <2> QED BY <1>2, <2>3, <2>4, <2>5, <2>6, <2>7, <2>8 DEF ConvNext
<1> QED BY <1>1, <1>2

THEOREM ConvInvariant == ConvSpec => []ConvInv
<1>1. ConvInit => ConvInv
  BY NothingDone DEF ConvInit, ConvInv
<1>2. ConvInv /\ [ConvNext]_convVars => ConvInv'
  BY ConvStep
<1> QED BY <1>1, <1>2, PTL DEF ConvSpec

\* base64: bytes of any number and any values come back from the text that mpd2sc
\* prints for them, with white space put anywhere in it or none.
THEOREM Base64RoundTrips == ConvSpec => []RoundTrips
<1>1. ConvInv => RoundTrips
  BY DEF ConvInv
<1> QED BY <1>1, ConvInvariant, PTL

\* However long a buffer of whole samples is, swapped by mpd2sc and by sc2mpd it
\* is as it was; and the header of the HTTP stream says what the audio message
\* said, for all numbers that its fields hold.
THEOREM Undone == ConvSpec => []ReceiverUndoesSender
<1>1. ConvInv => ReceiverUndoesSender
  BY DEF ConvInv
<1> QED BY <1>1, ConvInvariant, PTL

\* A sample of any value, and moved by the resampler by any distance, is played as
\* its 16 highest bits or as the end of the range that it left.
THEOREM PlayedAsSent == ConvSpec => []SamplesPlayed
<1>1. ConvInv => SamplesPlayed
  BY DEF ConvInv
<1> QED BY <1>1, ConvInvariant, PTL

\* However many ranges a request has, it is answered from the start of the first.
THEOREM AnsweredAsAsked == ConvSpec => []StartsWhereAsked
<1>1. ConvInv => StartsWhereAsked
  BY DEF ConvInv
<1> QED BY <1>1, ConvInvariant, PTL
=============================================================================
