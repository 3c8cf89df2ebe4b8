----------------------------- MODULE MCPcmSender -----------------------------
(***************************************************************************)
(* Small instances of PcmSender for TLC.                                   *)
(***************************************************************************)
EXTENDS PcmSender

\* The format of mpd's fifo: a packet lasts exactly one period.
CD == {[rate |-> 44100, bytes |-> 2, chans |-> 2]}

\* Also one whose packets are cut to whole frames below a period (as 22050 Hz is,
\* with a rate that keeps the offsets few), and one whose packets hit
\* kMaxPacketBytes.
Formats == CD \cup {[rate |-> 1250, bytes |-> 1, chans |-> 1],
                    [rate |-> 128000, bytes |-> 4, chans |-> 2]}
=============================================================================
