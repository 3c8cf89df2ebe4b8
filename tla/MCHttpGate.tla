----------------------------- MODULE MCHttpGate ------------------------------
(***************************************************************************)
(* Small instances of HttpGate for TLC.                                    *)
(***************************************************************************)
EXTENDS HttpGate

CONSTANTS k1, k2

\* Two clients with a frame of 16 bits stereo (halved), one with 24 bits.
BothFormats == {[frame |-> 2, clients |-> {k1, k2}], [frame |-> 3, clients |-> {k1}]}
=============================================================================
