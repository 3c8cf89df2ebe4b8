---------------------------- MODULE SampleFormat ----------------------------
(***************************************************************************)
(* What audioEater (alsadirect.cpp) makes of a sample: the integer of its  *)
(* bytes, a float, the float that libsamplerate returns, which may be      *)
(* beyond the range of the samples, and a short for the device.  A float   *)
(* has 24 bits of mantissa, so that samples of 32 bits are counted in      *)
(* units of 256.  The host is little endian.                               *)
(***************************************************************************)
EXTENDS Integers, Sequences, ByteOrder

Negative(bytes) == bytes[Len(bytes)] >= 128

SignedSample(bytes) ==
  Number(bytes) - IF ~Negative(bytes) THEN 0
                  ELSE IF Len(bytes) = 2 THEN 65536 ELSE 16777216

\* data_in: the short, the int with the sign put in its fourth byte, or the int
\* rounded to a float.
data_in(bytes, bits) ==
  IF bits < 32 THEN SignedSample(bytes)
  ELSE SignedSample(Tail(bytes)) + IF bytes[1] >= 128 THEN 1 ELSE 0

\* The largest sample and one more, and the part of it that is a 16 bits step.
Full(bits) == IF bits = 16 THEN 32768 ELSE 8388608
Step(bits) == IF bits = 16 THEN 1 ELSE 256

Clip(v, full) == IF v > full - 1 THEN full - 1 ELSE IF v < -full THEN -full ELSE v

\* A float that is out of the range of an int becomes the smallest int or the
\* nearest one, depending on the processor.
IntOf(f, full) == IF -full =< f /\ f < full THEN {f} ELSE {-full, Clip(f, full)}

Unwrapped(f, v, full) == v
Clip32(f, v, full) ==
  IF f > 0 /\ v < 0 THEN full - 1 ELSE IF f < 0 /\ v > 0 THEN -full ELSE v

\* The shorts that may come out for data_out = f.
short(f, bits) ==
  LET full == Full(bits)
      clipped == IF bits = 32 THEN {Clip32(f, v, full) : v \in IntOf(f, full)}
                              ELSE {Clip(f, full)}
  IN  {v \div Step(bits) : v \in clipped}
=============================================================================
