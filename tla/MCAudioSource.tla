--------------------------- MODULE MCAudioSource ----------------------------
(***************************************************************************)
(* Small instances of AudioSource for TLC.                                 *)
(***************************************************************************)
EXTENDS AudioSource

Line(fn, node, audioparams, needpace) ==
  [fn |-> fn, node |-> node, audioparams |-> audioparams, needpace |-> needpace]
Text(f, b, c, s) == <<f, Colon, b, Colon, c, Colon, s>>

\* The fifo as the sender script gives it; 8 bits from stdin with stray colons; a
\* paced source of 24 bits; a wav file; parameters that are not four, not numbers or
\* too small for the sender; and names that are no fifo.
CommandLines ==
  {Line("fifo", "fifo", Text(44100, 16, 2, 1), FALSE),
   Line("stdin", "none", <<Colon>> \o Text(8000, 8, 2, 0) \o <<Colon>>, FALSE),
   Line("fifo", "fifo", Text(48000, 24, 2, 1), TRUE),
   Line("wav", "other", <<>>, FALSE),
   Line("fifo", "fifo", <<44100, Colon, 16, Colon, 2>>, FALSE),
   Line("fifo", "fifo", Text(0, 16, 2, 1), FALSE),
   Line("fifo", "fifo", Text(44100, 16, 2, 2), FALSE),
   Line("stdin", "none", Text(44100, 4, 2, 0), FALSE),
   Line("fifo", "other", Text(44100, 16, 2, 1), FALSE),
   Line("other", "other", <<>>, FALSE)}
=============================================================================
