----------------------------- MODULE RateControl -----------------------------
(***************************************************************************)
(* The rate control of the ALSA output (alsadirect.cpp): audioEater        *)
(* resamples each message by a ratio computed from what is queued before   *)
(* it, so that a device whose clock is not the sender's neither runs dry   *)
(* nor fills the queue.  The threads are the ones of AlsaDirect, here      *)
(* prompt: a tick, the time of one message, passes when both wait.  Ratios *)
(* are integers in units of 1/K, queues are counted in frames.             *)
(***************************************************************************)
EXTENDS Integers, Sequences

CONSTANTS
  K,          \* the unit of ratios: K stands for 1.0
  FNS,        \* size of the filter
  qs_hi,      \* alsaqueue blocks at this length
  bufframes,  \* frames in a message
  Device,     \* frames the device buffers
  Skews,      \* how much faster than nominal the device may be, in 1/K
  Bursts,     \* how many messages the network may deliver at a time
  Losses,     \* for how many ticks the network may lose everything
  Delays,     \* for how many ticks it may hold everything back
  StallTicks, \* the ticks when it may do so
  Horizon,    \* bound: ticks
  Settling,   \* ticks after which the loop must have settled
  Tolerance   \* how far from the right ratio it may then be, in 1/K

ASSUME RateControlAssumption ==
  /\ {K, FNS, qs_hi, bufframes, Device} \cup Bursts \subseteq Nat \ {0}
  /\ Losses \cup Delays \cup StallTicks \subseteq Nat
  /\ {Horizon, Settling, Tolerance} \subseteq Nat
  /\ Skews \subseteq Int

VARIABLES
  env,        \* the clock and the network of this behaviour: skew, burst, when
              \* a stall comes, its length, and if its messages are lost or late
  tick,
  due,        \* messages that have arrived and that the eater has not taken
  alsaqueue,  \* the frames of each message in alsaqueue
  writing,    \* frames that snd_pcm_writei still holds
  device,     \* its state, and delay: the frames in it
  qinit,
  filter,     \* buf, idx and sum of the Filter
  ratio,      \* samplerate_ratio, filtered
  rest,       \* fractions of a frame: in the resampler, in the device
  since       \* the tick when qinit was last set

vars == <<env, tick, due, alsaqueue, writing, device, qinit, filter, ratio, rest, since>>

qstarg == qs_hi \div 2

Within(low, x, high) == IF x < low THEN low ELSE IF x > high THEN high ELSE x

Init ==
  /\ env \in [skew : Skews, burst : Bursts, at : StallTicks, stall : Losses, lost : {TRUE}]
       \cup [skew : Skews, burst : Bursts, at : StallTicks, stall : Delays, lost : {FALSE}]
  /\ tick = 0 /\ due = 0 /\ since = 0
  /\ alsaqueue = <<>> /\ writing = 0
  /\ device = [state |-> "prepared", delay |-> 0]
  /\ qinit = FALSE
  /\ filter = [buf |-> [i \in 0 .. FNS - 1 |-> K], idx |-> 0, sum |-> FNS * K]
  /\ ratio = K
  /\ rest = [src |-> 0, dac |-> 0]

-----------------------------------------------------------------------------
\* audioEater: one message

\* The variable to control, in frames.
qs == Len(alsaqueue) * bufframes + device.delay

CommandReversed ==
  LET target == qstarg * bufframes
  IN  IF qinit
      THEN Within(K - K \div 10, K + ((K \div 10) * (qs - target)) \div target, K + K \div 10)
      ELSE K

\* 1.0 + 0.1 times the relative error, limited; 1.0 until the writer has started.
Command ==
  LET target == qstarg * bufframes
  IN  IF qinit
      THEN Within(K - K \div 10, K + ((K \div 10) * (target - qs)) \div target, K + K \div 10)
      ELSE K

FilteredNewest(ns) ==
  LET idx == (filter.idx + 1) % FNS
      buf == [filter.buf EXCEPT ![filter.idx] = ns]
  IN  [buf |-> buf, idx |-> idx, sum |-> filter.sum + ns - buf[filter.idx]]

\* Filter::operator(): the new value goes in before the oldest is subtracted,
\* which is the one the next call will replace.
Filtered(ns) ==
  LET idx == (filter.idx + 1) % FNS
      buf == [filter.buf EXCEPT ![filter.idx] = ns]
  IN  [buf |-> buf, idx |-> idx, sum |-> filter.sum + ns - buf[idx]]

\* src_process: bufframes * ratio frames, the fraction left for the next time.
Resampled(r) == rest.src + bufframes * r

EaterReady == due > 0 /\ Len(alsaqueue) < qs_hi

\* Take, convert and put are one step: nothing else moves meanwhile.
Eater ==
  /\ EaterReady
  /\ due' = due - 1
  /\ filter' = Filtered(Command)
  /\ ratio' = filter'.sum \div FNS
  /\ alsaqueue' = Append(alsaqueue, Resampled(ratio') \div K)
  /\ rest' = [rest EXCEPT !.src = Resampled(ratio') % K]
  /\ UNCHANGED <<env, tick, writing, device, qinit, since>>

-----------------------------------------------------------------------------
\* alsawriter

\* It takes a message, the first ones and those after an underrun when there are
\* qstarg of them, or it goes on writing one.
WriterReady ==
  IF writing > 0 THEN device.delay < Device
  ELSE alsaqueue # <<>> /\ (qinit \/ Len(alsaqueue) >= qstarg)

\* A device that has run dry refuses the message: it is prepared again, and the
\* message is gone.
WriterFails ==
  /\ WriterReady /\ writing = 0 /\ device.state = "dry"
  /\ alsaqueue' = Tail(alsaqueue)
  /\ qinit' = FALSE
  /\ device' = [state |-> "prepared", delay |-> 0]
  /\ UNCHANGED <<env, tick, due, writing, filter, ratio, rest, since>>

WriterTakes ==
  /\ WriterReady /\ writing = 0 /\ device.state # "dry"
  /\ alsaqueue' = Tail(alsaqueue)
  /\ writing' = Head(alsaqueue)
  /\ UNCHANGED <<env, tick, due, device, qinit, filter, ratio, rest, since>>

\* snd_pcm_writei fills the device and returns when it holds the whole message;
\* the first write starts the device.
WriterWrites ==
  LET n == Within(0, writing, Device - device.delay)
  IN  /\ WriterReady /\ writing > 0
      /\ writing' = writing - n
      /\ device' = [state |-> "running", delay |-> device.delay + n]
      /\ qinit' = (qinit \/ n = writing)
      /\ since' = IF qinit' /\ ~qinit THEN tick ELSE since
      /\ UNCHANGED <<env, tick, due, alsaqueue, filter, ratio, rest>>

-----------------------------------------------------------------------------
\* The device plays and the network delivers while both threads wait.

Restart == env.at + env.stall
Stalled(t) == env.at <= t /\ t < Restart

\* What a tick brings: a burst every so many ticks, nothing while it stalls, and
\* after that what was late.
Arriving(t) ==
  (IF ~Stalled(t) /\ t % env.burst = 0 THEN env.burst ELSE 0)
  + (IF t = Restart /\ ~env.lost
     THEN (env.stall \div env.burst) * env.burst ELSE 0)

Played ==
  LET wanted == rest.dac + bufframes * (K + env.skew)
      n == wanted \div K
  IN  IF device.state # "running" THEN UNCHANGED <<device, rest>>
      ELSE /\ rest' = [rest EXCEPT !.dac = wanted % K]
           /\ device' = IF n >= device.delay
                        THEN [state |-> "dry", delay |-> 0]
                        ELSE [device EXCEPT !.delay = @ - n]

Tick ==
  /\ tick < Horizon
  /\ ~WriterReady /\ ~EaterReady
  /\ tick' = tick + 1
  /\ due' = due + Arriving(tick')
  /\ Played
  /\ UNCHANGED <<env, alsaqueue, writing, qinit, filter, ratio, since>>

\* When both threads could run the writer does.
Next ==
  \/ WriterFails \/ WriterTakes \/ WriterWrites
  \/ ~WriterReady /\ Eater
  \/ Tick

Spec == Init /\ [][Next]_vars

-----------------------------------------------------------------------------
Distance(x, y) == IF x < y THEN y - x ELSE x - y

\* Once the loop has settled the messages last as long as the device takes to
\* play them, whatever its clock, within the 10% the code allows: the delay is
\* constant.  This is so at the start, and again after messages were lost or
\* late and after an underrun (alsadirect.cpp:354-403).
RatioSettles ==
  /\ qinit /\ tick >= since + Settling
  /\ tick < env.at \/ tick >= Restart + Settling
  => Distance(ratio, K + env.skew) <= Tolerance

\* The level at which the loop settles: the command is proportional to the
\* distance from the target, so that a fast device leaves fewer frames queued.
Level == qstarg * bufframes - (qstarg * bufframes * env.skew) \div (K \div 10)

\* The eater never waits for room, and the device never runs dry, but in a stall
\* that outlasts what is queued at that level.
QueueHolds ==
  /\ Len(alsaqueue) < qs_hi
  /\ device.state = "dry" =>
       tick >= env.at /\ (env.stall + env.burst) * bufframes >= Level
=============================================================================
