-------------------------------- MODULE Base64 -------------------------------
(***************************************************************************)
(* base64_encode() and base64_decode() of src/mpd2src/base64.cxx, with     *)
(* which mpd2sc prints its URI and metadata.  A character of the text is   *)
(* the value b64values[] gives it: 0 to 63, Pad, Space or Invalid.  (The   *)
(* table has no entry for character 255, which is therefore not modelled.) *)
(***************************************************************************)
EXTENDS Integers, Sequences, SequencesExt

Pad == 254
Space == 255
Invalid == 256

\* Three bytes as four digits.
Quad(a, b, c) ==
  <<a \div 4, (a % 4) * 16 + b \div 16, (b % 16) * 4 + c \div 64, c % 64>>

\* What remains after the last whole triple is padded.
Padding(rest) ==
  CASE Len(rest) = 0 -> <<>>
    [] Len(rest) = 1 -> LET q == Quad(rest[1], 0, 0) IN <<q[1], q[2], Pad, Pad>>
    [] Len(rest) = 2 -> LET q == Quad(rest[1], rest[2], 0) IN <<q[1], q[2], q[3], Pad>>

base64_encode(in) ==
  LET whole == Len(in) \div 3
      group(i) == Quad(in[3 * i + 1], in[3 * i + 2], in[3 * i + 3])
  IN  [k \in 1 .. 4 * whole |-> group((k - 1) \div 4)[1 + ((k - 1) % 4)]]
        \o Padding(SubSeq(in, 3 * whole + 1, Len(in)))

\* The k-th byte that digits stand for, from 0.
ByteOf(digits, k) ==
  LET d(i) == digits[4 * (k \div 3) + i]
  IN  CASE k % 3 = 0 -> d(1) * 4 + d(2) \div 16
        [] k % 3 = 1 -> (d(2) % 16) * 16 + d(3) \div 4
        [] k % 3 = 2 -> (d(3) % 4) * 64 + d(4)

\* The loop ends at the first Pad, at the end, or at a character that is neither a
\* digit nor white; state is how many digits the last group has. A text that ends
\* without padding has whole groups; padding may follow two or three digits, and
\* neither what comes after the first Pad nor the bits beyond the last whole byte
\* matter.
Failed == [ok |-> FALSE, out |-> <<>>]
DecodedDropping(in, stop, digits) ==
  [ok |-> TRUE, out |-> [i \in 1 .. (Len(digits) \div 4) * 3 |-> ByteOf(digits, i - 1)]]
Decoded(in, stop, digits) ==
  LET state == Len(digits) % 4
      io == (Len(digits) * 3) \div 4
  IN  IF stop # 0 /\ in[stop] = Invalid THEN Failed
      ELSE IF stop # 0 /\ state \in {0, 1} THEN Failed
      ELSE IF stop = 0 /\ state # 0 THEN Failed
      ELSE [ok |-> TRUE, out |-> [i \in 1 .. io |-> ByteOf(digits, i - 1)]]
base64_decode(in) ==
  LET stop == SelectInSeq(in, LAMBDA v : v \in {Pad, Invalid})
      digits[i \in 0 .. Len(in)] ==
        IF i = 0 THEN <<>>
        ELSE IF in[i] = Space THEN digits[i - 1] ELSE Append(digits[i - 1], in[i])
  IN  Decoded(in, stop, digits[IF stop = 0 THEN Len(in) ELSE stop - 1])
=============================================================================
