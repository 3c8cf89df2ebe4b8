----------------------------- MODULE Conversions -----------------------------
(***************************************************************************)
(* The conversions of both programs on every input within bounds: each     *)
(* behaviour takes one input and converts it there and back.               *)
(***************************************************************************)
EXTENDS Base64, ByteOrder, ConfText, HttpRange, SampleFormat

CONSTANTS
  Byte,          \* the values of bytes
  MaxText,       \* bound: bytes to encode
  MaxSamples,    \* bound: bytes of samples to swap
  Freq, Bits, Chans, DataLen,   \* what a wav header may say
  Overshoot,     \* by how many 16 bits steps libsamplerate leaves the range
  Position,      \* numbers in a Range header
  MaxRange,      \* bound: numbers, dashes and commas in one
  MaxConf,       \* bound: characters of a configuration file, or of a value
  MaxCut         \* bound: the same, of a value in a file that is cut short

\* The numbers of a header are ints, which hold the byte rate, or have two bytes.
MaxInt == 2147483647
MaxWord == 65535
ASSUME ConversionsAssumption ==
  /\ Byte \subseteq 0 .. 255
  /\ {MaxText, MaxSamples, MaxRange, MaxConf, MaxCut} \subseteq Nat
  /\ Bits \subseteq {16, 24, 32}
  /\ Chans \cup Freq \cup DataLen \subseteq Nat
  /\ \A c \in Chans : c =< MaxWord
  /\ \A v \in Freq \cup DataLen : v =< MaxInt
  /\ \A f \in Freq, c \in Chans, b \in Bits : f * c * (b \div 8) =< MaxInt
  /\ Overshoot \cup Position \subseteq Nat

VARIABLES
  kind,     \* which conversion
  input,
  output    \* Nothing, until it is done

convVars == <<kind, input, output>>

Nothing == <<>>

Sequences(S, max) == UNION {[1 .. n -> S] : n \in 0 .. max}

Samples == [buf : Sequences(Byte, MaxSamples), bits : Bits]
Headers == [freq : Freq, bits : Bits, chans : Chans, datalen : DataLen]

\* One sample of a wav file, and where the resampler moves it.
Played ==
  UNION {[buf : [1 .. bits \div 8 -> Byte], bits : {bits},
          off : {d * s * Step(bits) : d \in {-1, 1}, s \in Overshoot}] : bits \in Bits}

\* A Range header has no two numbers in a row.
RangeTexts ==
  {s \in Sequences(Position \cup {Dash, Comma}, MaxRange) :
     \A i \in 1 .. Len(s) - 1 : s[i] < 0 \/ s[i + 1] < 0}

\* What may be set: a value without blanks around it or a backslash at its end,
\* which the text cannot say.
Letter == "x"
Settable(max) ==
  {s \in Sequences({Letter, Blank, Backslash, Hash, Equals}, max) :
     trimstring(s) = s /\ ~EndsWith(s, Backslash)}

\* What is converted. (Init, Next, Spec and vars are AudioSource's: see DataProofs.)
Given ==
  \/ kind = "base64" /\ input \in Sequences(Byte, MaxText)
  \/ kind = "order" /\ input \in Samples
  \/ kind = "header" /\ input \in Headers
  \/ kind = "play" /\ input \in Played
  \/ kind = "range" /\ input \in RangeTexts
  \/ /\ kind = "conf"
     /\ input \in Sequences({Letter, Blank, Backslash, Hash, Equals, EndLine}, MaxConf)
  \/ kind = "value" /\ input \in Settable(MaxConf)
  \/ kind = "cut" /\ input \in Settable(MaxCut)

ConvInit == Given /\ output = Nothing

\* base64: encoded, and the text decoded as it is and with white space in it.
Encode ==
  /\ kind = "base64"
  /\ LET text == base64_encode(input)
         spaced(i) == SubSeq(text, 1, i) \o <<Space>> \o SubSeq(text, i + 1, Len(text))
     IN  output' = [text |-> text, back |-> base64_decode(text),
                    spaced |-> {base64_decode(spaced(i)) : i \in 0 .. Len(text)}]

\* A buffer as mpd2sc swaps it, and as sc2mpd swaps it back for the HTTP reader.
Swap ==
  /\ kind = "order"
  /\ output' = copyswap(swapSamples(input.buf, input.bits \div 8), input.bits)

\* The header of the HTTP stream, read as mpd2sc reads a wav file.
Header ==
  /\ kind = "header"
  /\ output' =
       readHeader(makewavheader(input.freq, input.bits, input.chans, input.datalen))

\* From a wav file through both programs to the device: the bytes are swapped
\* twice, then converted.
Play ==
  /\ kind = "play"
  /\ LET bytes == copyswap(swapSamples(input.buf, input.bits \div 8), input.bits)
         f == data_in(bytes, input.bits) + input.off
     IN  output' = [f |-> f, shorts |-> short(f, input.bits)]

RangeHeader ==
  /\ kind = "range"
  /\ output' = answer(parseRanges(input))

\* A configuration file is read, written again and read by the next program.
Reload ==
  /\ kind = "conf"
  /\ LET held == Held(readItems(input))
         text == writeItems(held)
     IN  output' = [held |-> held, text |-> text, back |-> readItems(text)]

\* A value that was set, in a file with a comment before and another variable after it.
Saved(val) == <<CommentItem(<<Hash, Letter, Equals>>), VarItem(<<Letter>>, val),
                VarItem(<<Letter, Letter>>, <<Letter>>)>>
SaveValue ==
  /\ kind = "value"
  /\ output' = [back |-> readItems(writeItems(Saved(input)))]

\* The same file read when a crash has left any beginning of its text.
SaveCut ==
  /\ kind = "cut"
  /\ LET text == writeItems(Saved(input))
     IN  output' = [n \in 0 .. Len(text) |-> readItems(SubSeq(text, 1, n))]

ConvNext ==
  /\ output = Nothing
  /\ Encode \/ Swap \/ Header \/ Play \/ RangeHeader \/ Reload \/ SaveValue \/ SaveCut
  /\ UNCHANGED <<kind, input>>

ConvSpec == ConvInit /\ [][ConvNext]_convVars

-----------------------------------------------------------------------------
Done(k) == kind = k /\ output # Nothing

\* What mpd2sc prints decodes to what it encoded, whatever its length and with
\* white space anywhere; it has whole groups and no white space, which separates
\* the words of the line it is printed on (the round trip of base64.cxx:312-346).
RoundTrips ==
  Done("base64") =>
    /\ Len(output.text) % 4 = 0
    /\ \A i \in 1 .. Len(output.text) : output.text[i] \in 0 .. 63 \cup {Pad}
    /\ {output.back} \cup output.spaced = {[ok |-> TRUE, out |-> input]}

\* The receiver undoes the sender: samples of 16, 24 and 32 bits come out in the
\* byte order they went in, and the header sc2mpd puts before them says to a wav
\* reader what the message said.
ReceiverUndoesSender ==
  /\ Done("order") /\ Len(input.buf) % (input.bits \div 8) = 0 => output = input.buf
  /\ Done("header") =>
       output = [ok |-> TRUE, m_numChannels |-> input.chans,
                 m_sampleRate |-> input.freq,
                 m_byteRate |-> input.freq * input.chans * (input.bits \div 8),
                 m_bitsPerSample |-> input.bits, m_subChunk2Size |-> input.datalen]

\* A sample is played as its 16 highest bits, whatever its size and sign, but for
\* the rounding of 32 bits to a float; and one that the resampler pushed out of
\* the range is played as the end of the range it left and never wraps around to
\* the other sign (alsadirect.cpp:502-505).
SamplesPlayed ==
  Done("play") =>
    LET top == SignedSample(SubSeq(input.buf, Len(input.buf) - 1, Len(input.buf)))
        steps == input.off \div Step(input.bits)
        right == Clip(top + steps, Full(16))
    IN  \A s \in output.shorts :
          s = right \/ (input.bits = 32 /\ s = Clip(top + steps + 1, Full(16)))

\* A request whose first range starts at n is answered from n on, and to the end
\* of the stream if that range has no end, whatever ranges follow.
StartsWhereAsked ==
  Done("range") /\ Len(input) >= 2 /\ input[1] >= 0 /\ input[2] = Dash =>
    /\ output.baseoffset = input[1]
    /\ Len(input) = 2 \/ input[3] = Comma => output.size = Unknown

\* Whatever a configuration file has, continued lines, comments between them, no
\* last end of line, the next program reads from it what this one held when it
\* wrote it, unless a comment or a name was joined to a line longer than the buffer.
\* A value that was set is read back as it was, and what follows it is, however the
\* value is cut (conftree.cpp:337 "Splits long lines").
LinesFit(text) ==
  \A i \in 0 .. Len(text) - (LL - 1) : \E j \in i + 1 .. i + LL - 1 : text[j] = EndLine
WholeTextSurvives ==
  /\ Done("conf") /\ LinesFit(output.text) => output.back = output.held
  /\ Done("value") => output.back = Saved(input)

\* Of a file that was cut anywhere the next program reads the first variables: all as
\* they were but the last, whose value may be a beginning of what it was, without the
\* blanks that end it (what ConfSimple's Killed takes for granted).
Beginnings(val) == {trimstring(SubSeq(val, 1, n)) : n \in 0 .. Len(val)}
Variables(items) == SelectSeq(items, LAMBDA item : item.nm # <<>>)
CutReadsBeginning ==
  Done("cut") =>
    LET saved == Variables(Saved(input))
    IN  \A n \in DOMAIN output :
          LET back == Variables(output[n])
          IN  /\ Len(back) =< Len(saved)
              /\ \A i \in DOMAIN back :
                   /\ back[i].nm = saved[i].nm
                   /\ IF i < Len(back) THEN back[i].val = saved[i].val
                                       ELSE back[i].val \in Beginnings(saved[i].val)

\* A configuration survives being written and read, and a crash takes no more of it
\* than its end.
TextSurvives == WholeTextSurvives /\ CutReadsBeginning
=============================================================================
