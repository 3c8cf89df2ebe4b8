------------------------------ MODULE PcmSender ------------------------------
(***************************************************************************)
(* The paced sender of src/mpd2src/mpd2sc.cpp: class PcmSender driven by   *)
(* its timer, and the part of main that starts it, sleeps in pause() and   *)
(* destroys it.  (A source that blocks is not paced: main itself reads and *)
(* sends in busyRdWr, see FifoReader.)                                     *)
(*                                                                         *)
(* main     Start(), pause(), and after a signal the destructor;           *)
(* timer    the thread of the OpenHome timer manager, in TimerExpired with *)
(*          iMutex held;                                                   *)
(* control  a caller of Pause(); the program has none yet, the class is    *)
(*          written for one.                                               *)
(*                                                                         *)
(* External: FireIn arms the timer, replacing an earlier deadline; Cancel  *)
(* waits for a callback that is running; a signal to the process is        *)
(* handled by the main thread, as Linux does.                              *)
(*                                                                         *)
(* Times are in microseconds.  The absolute clock is not kept: a callback  *)
(* is late by a member of Late, and iLastTimeUs counts only as zero or     *)
(* not, with elapsed standing for now - iLastTimeUs.  Restart() sets       *)
(* iIndex, which nothing reads, so both are left out.                      *)
(***************************************************************************)
EXTENDS Integers, FiniteSets

CONSTANTS
  Format,      \* audio formats: records of rate, bytes (per sample) and chans
  Late,        \* how late a callback may run, in microseconds
  Stall,       \* a severe delay
  MaxUpsets,   \* bound: severe delays and backward steps of the clock
  MaxControls, \* bound: calls of Pause()
  MaxKills,    \* bound: SIGINT and SIGTERM from outside
  MayFail      \* TRUE if reading the source may fail

ASSUME PcmAssumption ==
  /\ Format \subseteq [rate : Nat \ (0 .. 9), bytes : 1 .. 4, chans : Nat \ {0}]
  /\ Late \subseteq Nat
  /\ {Stall, MaxUpsets, MaxControls, MaxKills} \subseteq Nat
  /\ MayFail \in BOOLEAN

VARIABLES
  format,
  iPaused,
  iTimeOffsetUs,  \* running offset from ideal time, negative when behind
  lastKnown,      \* iLastTimeUs # 0
  elapsed,        \* now - iLastTimeUs in the running callback
  timer,          \* milliseconds the timer was armed for, 0 if it is not
  callback,       \* where the timer thread is in TimerExpired
  sigsent,        \* the static flag of TimerExpired
  signals,        \* signals sent and not yet handled
  main,           \* where main is
  alive,          \* what the destructor has not yet destroyed
  upsets, controls, kills

pacing == <<iTimeOffsetUs, lastKnown, elapsed>>
bounds == <<upsets, controls, kills>>
vars == <<format, iPaused, pacing, timer, callback, sigsent, signals, main,
          alive, bounds>>

kPeriodMs == 10
kMaxPacketBytes == 4096

-----------------------------------------------------------------------------
(* Packet size and pacing arithmetic.                                      *)

AtMost(n, limit) == IF n > limit THEN limit ELSE n
bytesPerFrame(f) == f.bytes * f.chans

\* CalculatePacketBytes() at normal speed: every packet holds whole frames.
UnroundedBytes(f) ==
  AtMost((f.rate * bytesPerFrame(f) * kPeriodMs) \div 1000, kMaxPacketBytes)
PacketFrames(f) == UnroundedBytes(f) \div bytesPerFrame(f)
PacketTime(f) == ((PacketFrames(f) * 1000000) \div (f.rate \div 10) + 5) \div 10

\* The next deadline, in milliseconds, when the sender is offset microseconds
\* from ideal time. Division truncates towards zero.
NextTimerDeaf(offset) == kPeriodMs
NextTimerTimid(offset) ==
  IF offset < -1000 THEN kPeriodMs - 1
  ELSE IF offset > 1000 THEN kPeriodMs + 1
  ELSE kPeriodMs
NextTimer(offset) ==
  IF offset < -1000
  THEN LET late == (-offset) \div 1000
       IN  IF late > kPeriodMs - 1 THEN 1 ELSE kPeriodMs - late
  ELSE IF offset > 1000 THEN kPeriodMs + 1
  ELSE kPeriodMs

\* One callback is the latest, and the shortest period, a millisecond, leaves time
\* to catch up: a packet lasts longer than the period and the delay.
MaxLate == CHOOSE m \in Late : \A l \in Late : l =< m
ASSUME PaceAssumption ==
  /\ \E m \in Late : \A l \in Late : l =< m
  /\ \A f \in Format : 1000 + MaxLate =< PacketTime(f)

-----------------------------------------------------------------------------
Init ==
  /\ format \in Format
  /\ iPaused = FALSE
  /\ iTimeOffsetUs = 0
  /\ lastKnown = FALSE
  /\ elapsed = 0
  /\ timer = 0
  /\ callback = "idle"
  /\ sigsent = FALSE
  /\ signals = {}
  /\ main = "start"
  /\ alive = {"sender", "driver"}
  /\ upsets = 0 /\ controls = 0 /\ kills = 0

(* The main thread.                                                        *)

Start ==
  /\ main = "start"
  /\ timer' = kPeriodMs
  /\ main' = "started"
  /\ UNCHANGED <<format, iPaused, pacing, callback, sigsent, signals, alive, bounds>>

EnterPause ==
  /\ main = "started"
  /\ main' = "pause"
  /\ UNCHANGED <<format, iPaused, pacing, timer, callback, sigsent, signals,
                 alive, bounds>>

\* sigcatcher() does nothing; what ends a pause() is that a handler ran.
HandleSignalDeaf(s) ==
  /\ s \in signals
  /\ signals' = signals \ {s}
  /\ UNCHANGED <<format, iPaused, pacing, timer, callback, sigsent, main, alive,
                 bounds>>
HandleSignal(s) ==
  /\ s \in signals
  /\ signals' = signals \ {s}
  /\ main' = IF main = "pause" THEN "cancel" ELSE main
  /\ UNCHANGED <<format, iPaused, pacing, timer, callback, sigsent, alive, bounds>>

\* ~PcmSender: iTimer.Cancel(), then the sender and the driver are deleted.
CancelTimerOnly ==
  /\ main = "cancel"
  /\ timer' = 0
  /\ main' = "delete"
  /\ UNCHANGED <<format, iPaused, pacing, callback, sigsent, signals, alive,
                 bounds>>
Cancel ==
  /\ main = "cancel"
  /\ callback = "idle"
  /\ timer' = 0
  /\ main' = "delete"
  /\ UNCHANGED <<format, iPaused, pacing, callback, sigsent, signals, alive,
                 bounds>>

Delete ==
  /\ main = "delete"
  /\ alive' = {}
  /\ main' = "gone"
  /\ UNCHANGED <<format, iPaused, pacing, timer, callback, sigsent, signals,
                 bounds>>

(* The timer thread.                                                       *)

TimerExpired ==
  /\ timer > 0 /\ callback = "idle" /\ main # "gone"
  /\ timer' = 0
  /\ \/ /\ iPaused
        /\ UNCHANGED <<callback, elapsed, upsets>>
     \/ /\ ~iPaused
        /\ callback' = "data"
        /\ \/ \E l \in Late : elapsed' = 1000 * timer + l /\ UNCHANGED upsets
           \/ /\ upsets < MaxUpsets
              /\ elapsed' \in {1000 * timer + Stall, 0}
              /\ upsets' = upsets + 1
  /\ UNCHANGED <<format, iPaused, iTimeOffsetUs, lastKnown, sigsent, signals,
                 main, alive, controls, kills>>

SendPacket ==
  /\ callback = "data"
  /\ callback' = "rearm"
  /\ UNCHANGED <<format, iPaused, pacing, timer, sigsent, signals, main, alive,
                 bounds>>

\* data() returned 0: the process sends itself SIGUSR1, the first time only.
ReadFails ==
  /\ MayFail
  /\ callback = "data"
  /\ callback' = "rearm"
  /\ sigsent' = TRUE
  /\ signals' = IF sigsent THEN signals ELSE signals \cup {"USR1"}
  /\ UNCHANGED <<format, iPaused, pacing, timer, main, alive, bounds>>

\* The end of TimerExpired: the first packet, and any after the clock stepped
\* back, are not measured.
Measured == lastKnown /\ elapsed > 0
Rearm ==
  /\ callback = "rearm"
  /\ callback' = "idle"
  /\ iTimeOffsetUs' = IF Measured
                      THEN iTimeOffsetUs - (elapsed - PacketTime(format))
                      ELSE iTimeOffsetUs
  /\ timer' = IF Measured THEN NextTimer(iTimeOffsetUs') ELSE kPeriodMs
  /\ lastKnown' = TRUE
  /\ elapsed' = 0
  /\ UNCHANGED <<format, iPaused, sigsent, signals, main, alive, bounds>>

(* Whoever calls Pause(), and the user's signals.                          *)

Pause ==
  /\ main \in {"started", "pause"} /\ callback = "idle" /\ controls < MaxControls
  /\ controls' = controls + 1
  /\ iPaused' = ~iPaused
  /\ IF iPaused
     THEN lastKnown' = FALSE /\ iTimeOffsetUs' = 0 /\ timer' = kPeriodMs
     ELSE UNCHANGED <<lastKnown, iTimeOffsetUs, timer>>
  /\ UNCHANGED <<format, elapsed, callback, sigsent, signals, main, alive,
                 upsets, kills>>

Kill ==
  /\ kills < MaxKills /\ main # "gone"
  /\ kills' = kills + 1
  /\ signals' = signals \cup {"TERM"}
  /\ UNCHANGED <<format, iPaused, pacing, timer, callback, sigsent, main, alive,
                 upsets, controls>>

MainThread == Start \/ EnterPause \/ Cancel \/ Delete
              \/ \E s \in {"USR1", "TERM"} : HandleSignal(s)
TimerThread == TimerExpired \/ SendPacket \/ ReadFails \/ Rearm

\* The program rests when it is gone and while it is paused.
Next == MainThread \/ TimerThread \/ Pause \/ Kill

Spec == Init /\ [][Next]_vars

\* The scheduler runs both threads and signals are delivered; nobody has to
\* call Pause() or send a signal. Strong for Cancel: the timer manager's lock is
\* free for milliseconds between callbacks, and a waiting Cancel gets it.
FairSpec == Spec /\ WF_vars(MainThread) /\ WF_vars(TimerThread) /\ SF_vars(Cancel)

-----------------------------------------------------------------------------
TypeOK ==
  /\ format \in Format
  /\ iPaused \in BOOLEAN /\ lastKnown \in BOOLEAN /\ sigsent \in BOOLEAN
  /\ iTimeOffsetUs \in Int
  /\ elapsed \in Nat
  /\ timer \in 0 .. kPeriodMs + 1
  /\ callback \in {"idle", "data", "rearm"}
  /\ signals \subseteq {"USR1", "TERM"}
  /\ main \in {"start", "started", "pause", "cancel", "delete", "gone"}
  /\ alive \subseteq {"sender", "driver"}
  /\ upsets \in 0 .. MaxUpsets /\ controls \in 0 .. MaxControls /\ kills \in 0 .. MaxKills

\* How far behind and ahead the pacing lets the sender get when no callback is
\* later than MaxLate.
Behind(f) == (kPeriodMs + 1) * 1000 - PacketTime(f) + MaxLate
Ahead == 1005

\* The running offset stays within fixed bounds however long the sender plays:
\* what TimerExpired loses in one period it makes up in the next ones.
DriftBounded ==
  upsets = 0 => iTimeOffsetUs \in -Behind(format) .. Ahead

\* Playing never stops by itself: from Start to the destructor, unless paused,
\* a callback is due or running (a callback re-arms on every path, and Pause
\* re-arms after a callback that found the sender paused). The times stay in their
\* ranges (TypeOK): the timer is never asked for less than a millisecond.
AlwaysArmed ==
  /\ TypeOK
  /\ main \in {"started", "pause"} /\ ~iPaused => timer > 0 \/ callback # "idle"

\* A callback finds the sender and the driver, even when the destructor started
\* while it was running, and none comes after.
DriverUsedAlive ==
  callback # "idle" \/ timer > 0 => alive = {"sender", "driver"}

\* Both: as long as the sender plays a callback is to come, and none comes later.
ArmedWhileAlive == AlwaysArmed /\ DriverUsedAlive

\* After a severe delay the sender gets back within its bounds.
CatchesUp ==
  [](main = "pause" /\ iTimeOffsetUs < -Behind(format)
     => <>(main # "pause" \/ iPaused \/ iTimeOffsetUs >= -Behind(format)))

\* A signal that finds main in pause() ends the program, callbacks or not.
SignalEndsPause == [](main = "pause" /\ signals # {} => <>(main = "gone"))

\* mpd2sc.cpp:281: the handler exists "so that we can interrupt the pause()
\* which will be waiting for playing to end": a read that fails ends the program.
ReadFailureEndsProgram == [](sigsent => <>(main = "gone"))
=============================================================================
