---------------------------- MODULE MCRateControl ----------------------------
(***************************************************************************)
(* The rate control with the numbers of the code, for a stream of 44.1 kHz *)
(* in messages of 10 ms.                                                   *)
(***************************************************************************)
EXTENDS RateControl

\* A device that took 48 kHz instead, a good one, one that is 1% slow, and one
\* that took 44.1 kHz for a stream of 48.
DeviceSkews == {8844, 0, -1000, -8125}
=============================================================================
