--------------------------- MODULE PcmSenderProofs ---------------------------
(***************************************************************************)
(* Theorems about the paced sender, for every set of formats and delays,   *)
(* any number of upsets, pauses and signals.                               *)
(***************************************************************************)
EXTENDS PcmSender, TLAPS

LEMMA TimesMonotone ==
  ASSUME NEW a \in Nat, NEW b \in Nat, NEW c \in Nat, a =< b
  PROVE  a * c =< b * c
  OBVIOUS

\* A packet has whole frames and lasts at most one period: mpd2sc never sends
\* faster than the source is played (PcmSender::CalculatePacketBytes).
LEMMA PacketTimeType ==
  ASSUME NEW f \in Format
  PROVE  PacketTime(f) \in Nat /\ PacketTime(f) =< 10000
<1> DEFINE B == bytesPerFrame(f)
           X == UnroundedBytes(f)
           F == PacketFrames(f)
           k == f.rate \div 10
<1>1. f.rate \in Nat /\ f.rate >= 10 /\ f.bytes \in Nat /\ f.bytes >= 1
      /\ f.chans \in Nat /\ f.chans >= 1
  BY PcmAssumption
<1>2. B \in Nat /\ B >= 1
  BY <1>1 DEF bytesPerFrame
<1>3. f.rate * B * kPeriodMs \in Nat /\ f.rate * B * kPeriodMs = 10 * (f.rate * B)
  BY <1>1, <1>2 DEF kPeriodMs
<1>4. X \in Nat /\ 1000 * X =< 10 * (f.rate * B)
  BY <1>3 DEF UnroundedBytes, AtMost, kMaxPacketBytes
<1>5. F \in Nat /\ F * B =< X
  BY <1>2, <1>4 DEF PacketFrames
<1>6. 100 * F =< f.rate
  <2>1. SUFFICES ASSUME f.rate < 100 * F PROVE FALSE
    BY <1>1, <1>5
  <2>2. (100 * F) * B >= (f.rate + 1) * B
    BY <2>1, <1>1, <1>2, <1>5
  <2>3. QED
    BY <2>2, <1>1, <1>2, <1>4, <1>5
<1>7. k \in Nat /\ k >= 1 /\ 10 * F =< k
  BY <1>1, <1>5, <1>6
<1> HIDE DEF B, X, F, k
<1> DEFINE q == (F * 1000000) \div k
<1>8. q \in Nat /\ q =< 100000
  <2>1. q \in Nat /\ q * k =< F * 1000000
    BY <1>5, <1>7, SMT
  <2> HIDE DEF q
  <2>2. q * k =< 100000 * k
    BY <2>1, <1>5, <1>7, SMT
  <2>3. ASSUME q > 100000 PROVE FALSE
    <3>1. 100001 * k =< q * k
      BY <2>1, <2>3, <1>7, TimesMonotone, SMT
    <3>2. QED
      BY <3>1, <2>1, <2>2, <1>7, SMT
  <2>4. QED
    BY <2>1, <2>3, SMT
<1>9. PacketTime(f) = (q + 5) \div 10
  BY SMT DEF PacketTime, F, k
<1> HIDE DEF q
<1>10. QED
  BY <1>8, <1>9, SMT

\* The timer is never armed for less than a millisecond, nor for more than 11.
LEMMA NextTimerType ==
  ASSUME NEW n \in Int
  PROVE  NextTimer(n) \in 1 .. kPeriodMs + 1
  BY DEF NextTimer, kPeriodMs

-----------------------------------------------------------------------------
LEMMA InitTypeOK == Init => TypeOK
<1>1. MaxUpsets \in Nat /\ MaxControls \in Nat /\ MaxKills \in Nat
  BY PcmAssumption
<1>2. SUFFICES ASSUME Init PROVE TypeOK
  OBVIOUS
<1>3. iPaused \in BOOLEAN /\ lastKnown \in BOOLEAN /\ sigsent \in BOOLEAN
  BY <1>2 DEF Init
<1>4. upsets \in 0 .. MaxUpsets /\ controls \in 0 .. MaxControls /\ kills \in 0 .. MaxKills
  BY <1>1, <1>2 DEF Init
<1>5. timer \in 0 .. kPeriodMs + 1 /\ iTimeOffsetUs \in Int /\ elapsed \in Nat
  BY <1>2 DEF Init, kPeriodMs
<1>6. QED
  BY <1>2, <1>3, <1>4, <1>5 DEF Init, TypeOK

LEMMA NextTypeOK ==
  ASSUME TypeOK, [Next]_vars
  PROVE  TypeOK'
<1> USE DEF TypeOK, pacing, bounds, kPeriodMs
<1>1. CASE UNCHANGED vars
  BY <1>1 DEF vars
<1>2. CASE Start
  BY <1>2 DEF Start
<1>3. CASE EnterPause
  BY <1>3 DEF EnterPause
<1>4. CASE Cancel \/ Delete
  <2>1. timer' \in 0 .. kPeriodMs + 1 /\ main' \in {"delete", "gone"}
        /\ alive' \subseteq {"sender", "driver"}
    <3>1. CASE Cancel
      BY <3>1 DEF Cancel
    <3>2. CASE Delete
      BY <3>2 DEF Delete
    <3>3. QED
      BY <1>4, <3>1, <3>2
  <2>2. QED
    BY <1>4, <2>1 DEF Cancel, Delete
<1>5. ASSUME NEW s \in {"USR1", "TERM"}, HandleSignal(s)
      PROVE  TypeOK'
  BY <1>5 DEF HandleSignal
<1>6. CASE TimerExpired
  <2>1. 1000 * timer \in Nat
    OBVIOUS
  <2>2. elapsed' \in Nat /\ upsets' \in 0 .. MaxUpsets
    BY <1>6, <2>1, PcmAssumption DEF TimerExpired
  <2>3. QED
    BY <1>6, <2>2 DEF TimerExpired
<1>7. CASE SendPacket \/ ReadFails
  BY <1>7 DEF SendPacket, ReadFails
<1>8. CASE Rearm
  <2>1. iTimeOffsetUs' \in Int
    BY <1>8, PacketTimeType DEF Rearm
  <2>2. timer' \in 0 .. kPeriodMs + 1
    BY <1>8, <2>1, NextTimerType DEF Rearm
  <2>3. QED
    BY <1>8, <2>1, <2>2 DEF Rearm
<1>9. CASE Pause
  <2>1. /\ lastKnown' \in BOOLEAN
        /\ iTimeOffsetUs' \in Int /\ timer' \in 0 .. kPeriodMs + 1
    <3>1. CASE iPaused
      <4>1. lastKnown' = FALSE /\ iTimeOffsetUs' = 0 /\ timer' = kPeriodMs
        BY <1>9, <3>1 DEF Pause
      <4>2. lastKnown' \in BOOLEAN
        BY <4>1
      <4>3. iTimeOffsetUs' \in Int /\ timer' \in 0 .. kPeriodMs + 1
        BY <4>1
      <4>4. QED
        BY <4>2, <4>3
    <3>2. CASE ~iPaused
      BY <1>9, <3>2 DEF Pause
    <3>3. QED
      BY <3>1, <3>2
  <2>2. controls' \in 0 .. MaxControls
    BY <1>9, PcmAssumption DEF Pause
  <2>3. iPaused' \in BOOLEAN
    BY <1>9, Zenon DEF Pause
  <2>4. QED
    BY <1>9, <2>1, <2>2, <2>3 DEF Pause
<1>10. CASE Kill
  BY <1>10, PcmAssumption DEF Kill
<1>11. QED
  BY <1>1, <1>2, <1>3, <1>4, <1>5, <1>6, <1>7, <1>8, <1>9, <1>10
     DEF Next, MainThread, TimerThread

\* The state of the sender is always well typed; the timer is armed for 1 to 11
\* milliseconds or not at all.
THEOREM TypeCorrect == Spec => []TypeOK
<1>1. TypeOK /\ [Next]_vars => TypeOK'
  BY NextTypeOK
<1>2. QED
  BY InitTypeOK, <1>1, PTL DEF Spec

-----------------------------------------------------------------------------
(* The destructor stops the timer before it deletes what a callback uses,  *)
(* and only then.                                                          *)

TimerStopped ==
  /\ main \in {"delete", "gone"} => timer = 0 /\ callback = "idle"
  /\ main # "gone" => alive = {"sender", "driver"}

ArmedInv == AlwaysArmed /\ TimerStopped

LEMMA InitArmed == Init => ArmedInv
  BY InitTypeOK DEF Init, ArmedInv, AlwaysArmed, TimerStopped

LEMMA NextArmed ==
  ASSUME ArmedInv, [Next]_vars
  PROVE  ArmedInv'
<1> USE DEF ArmedInv, AlwaysArmed, TimerStopped, pacing, bounds
<1>1. TypeOK /\ TypeOK'
  BY NextTypeOK
<1>2. CASE UNCHANGED vars
  BY <1>1, <1>2 DEF vars
<1>3. CASE Start
  BY <1>1, <1>3 DEF Start, kPeriodMs
<1>4. CASE EnterPause
  BY <1>1, <1>4 DEF EnterPause
<1>5. CASE Cancel
  BY <1>1, <1>5 DEF Cancel
<1>6. CASE Delete
  BY <1>1, <1>6 DEF Delete
<1>7. ASSUME NEW s \in {"USR1", "TERM"}, HandleSignal(s)
      PROVE  ArmedInv'
  BY <1>1, <1>7 DEF HandleSignal
<1>8. CASE TimerExpired
  BY <1>1, <1>8 DEF TimerExpired
<1>9. CASE SendPacket \/ ReadFails
  BY <1>1, <1>9 DEF SendPacket, ReadFails
<1>10. CASE Rearm
  <2>1. timer' > 0
    BY <1>1, <1>10, NextTimerType DEF Rearm, TypeOK, kPeriodMs
  <2>2. QED
    BY <1>1, <1>10, <2>1 DEF Rearm
<1>11. CASE Pause
  <2>1. ~iPaused' => timer' > 0
    BY <1>1, <1>11 DEF Pause, kPeriodMs, TypeOK
  <2>2. QED
    BY <1>1, <1>11, <2>1 DEF Pause
<1>12. CASE Kill
  BY <1>1, <1>12 DEF Kill
<1>13. QED
  BY <1>2, <1>3, <1>4, <1>5, <1>6, <1>7, <1>8, <1>9, <1>10, <1>11, <1>12
     DEF Next, MainThread, TimerThread

\* As long as the sender plays a callback is due or running, and no callback comes
\* after the destructor: iTimer.Cancel() waits for a callback that runs and, being
\* first, leaves no timer for another (mpd2sc.cpp:274-279, 222-272).
THEOREM ArmedWhileItLives == Spec => []ArmedWhileAlive
<1>1. ArmedInv /\ [Next]_vars => ArmedInv'
  BY NextArmed
<1>2. ArmedInv => ArmedWhileAlive
  BY DEF ArmedInv, TimerStopped, AlwaysArmed, TypeOK, ArmedWhileAlive, DriverUsedAlive
<1>3. QED
  BY InitArmed, <1>1, <1>2, PTL DEF Spec

-----------------------------------------------------------------------------
(* The drift. While nothing severe happens the timer is armed for what the *)
(* running offset asks for, and the callback is at most MaxLate behind it. *)

LEMMA LatestDelay == MaxLate \in Late /\ (\A l \in Late : l =< MaxLate)
  BY PaceAssumption DEF MaxLate

OnSchedule ==
  /\ iTimeOffsetUs >= -Behind(format) /\ iTimeOffsetUs =< Ahead
  /\ ~lastKnown => iTimeOffsetUs = 0
  /\ main = "start" => ~lastKnown /\ timer = 0 /\ callback = "idle"
  /\ timer > 0 => timer = NextTimer(iTimeOffsetUs)
  /\ callback # "idle" =>
       /\ elapsed >= 1000 * NextTimer(iTimeOffsetUs)
       /\ elapsed =< 1000 * NextTimer(iTimeOffsetUs) + MaxLate

DriftInv == TypeOK /\ (upsets = 0 => OnSchedule)

\* One period: what the timer was set to for an offset within the bounds brings
\* the next offset within them.
LEMMA NextOffset ==
  ASSUME NEW f \in Format, NEW n \in Int, NEW e \in Int,
         n >= -Behind(f), n =< Ahead,
         e >= 1000 * NextTimer(n), e =< 1000 * NextTimer(n) + MaxLate
  PROVE  /\ n - (e - PacketTime(f)) >= -Behind(f)
         /\ n - (e - PacketTime(f)) =< Ahead
<1>1. MaxLate \in Nat
  BY LatestDelay, PcmAssumption
<1>2. PacketTime(f) \in Nat /\ PacketTime(f) =< 10000 /\ 1000 + MaxLate =< PacketTime(f)
  BY PacketTimeType, PaceAssumption
<1>3. QED
  BY <1>1, <1>2, SMT DEF Behind, Ahead, NextTimer, kPeriodMs

LEMMA AtRest ==
  ASSUME NEW f \in Format
  PROVE  0 >= -Behind(f) /\ 0 =< Ahead /\ NextTimer(0) = kPeriodMs
<1>1. MaxLate \in Nat
  BY LatestDelay, PcmAssumption
<1>2. PacketTime(f) \in Nat /\ PacketTime(f) =< 10000
  BY PacketTimeType
<1>3. QED
  BY <1>1, <1>2, SMT DEF Behind, Ahead, NextTimer, kPeriodMs

LEMMA InitDrift == Init => DriftInv
<1>1. SUFFICES ASSUME Init PROVE OnSchedule
  BY InitTypeOK DEF DriftInv
<1>2. QED
  BY <1>1, AtRest DEF Init, OnSchedule

LEMMA NextDrift ==
  ASSUME DriftInv, [Next]_vars
  PROVE  DriftInv'
<1>1. TypeOK /\ TypeOK'
  BY NextTypeOK DEF DriftInv
<1>2. upsets' = 0 => upsets = 0
  BY <1>1 DEF Next, MainThread, TimerThread, Start, EnterPause, HandleSignal, Cancel,
     Delete, TimerExpired, SendPacket, ReadFails, Rearm, Pause, Kill, vars, bounds, TypeOK
<1>3. SUFFICES ASSUME upsets' = 0, upsets = 0, OnSchedule
               PROVE  OnSchedule'
  BY <1>1, <1>2 DEF DriftInv
<1>4. /\ format \in Format /\ format' = format
      /\ iTimeOffsetUs \in Int /\ iTimeOffsetUs' \in Int
      /\ NextTimer(iTimeOffsetUs) \in 1 .. kPeriodMs + 1
  BY <1>1, NextTimerType
     DEF TypeOK, Next, MainThread, TimerThread, Start, EnterPause, HandleSignal, Cancel,
     Delete, TimerExpired, SendPacket, ReadFails, Rearm, Pause, Kill, vars, bounds
<1> USE DEF OnSchedule, pacing, bounds
<1>5. CASE UNCHANGED vars
  BY <1>3, <1>5 DEF vars
<1>6. CASE Start
  BY <1>3, <1>4, <1>6, AtRest DEF Start
<1>7. CASE EnterPause \/ Cancel \/ Delete
  BY <1>1, <1>3, <1>7 DEF EnterPause, Cancel, Delete
<1>8. ASSUME NEW s \in {"USR1", "TERM"}, HandleSignal(s)
      PROVE  OnSchedule'
  BY <1>3, <1>8 DEF HandleSignal
<1>9. CASE TimerExpired
  <2>1. CASE iPaused
    BY <1>1, <1>3, <1>9, <2>1 DEF TimerExpired
  <2>2. CASE ~iPaused
    <3>1. PICK l \in Late : elapsed' = 1000 * timer + l
      BY <1>1, <1>3, <1>9, <2>2 DEF TimerExpired, TypeOK
    <3>2. l \in Nat /\ l =< MaxLate /\ MaxLate \in Nat
      BY LatestDelay, PcmAssumption
    <3>3. QED
      BY <1>3, <1>4, <1>9, <2>2, <3>1, <3>2 DEF TimerExpired, kPeriodMs
  <2>3. QED
    BY <2>1, <2>2
<1>10. CASE SendPacket \/ ReadFails
  BY <1>3, <1>10 DEF SendPacket, ReadFails
<1>11. CASE Rearm
  <2>1. elapsed > 0
    BY <1>1, <1>3, <1>4, <1>11 DEF Rearm, TypeOK, kPeriodMs
  <2>2. CASE lastKnown
    <3>1. /\ iTimeOffsetUs' = iTimeOffsetUs - (elapsed - PacketTime(format))
          /\ timer' = NextTimer(iTimeOffsetUs')
      BY <1>11, <2>1, <2>2 DEF Rearm, Measured
    <3>2. iTimeOffsetUs' >= -Behind(format) /\ iTimeOffsetUs' =< Ahead
      BY <1>1, <1>3, <1>4, <1>11, <3>1, NextOffset DEF Rearm, TypeOK
    <3>3. lastKnown' = TRUE /\ callback' = "idle" /\ main' = main /\ main # "start"
      BY <1>3, <1>11 DEF Rearm
    <3>4. QED
      BY <1>4, <3>1, <3>2, <3>3
  <2>3. CASE ~lastKnown
    <3>1. iTimeOffsetUs' = 0 /\ timer' = kPeriodMs
      BY <1>3, <1>11, <2>3 DEF Rearm, Measured
    <3>2. QED
      BY <1>3, <1>4, <1>11, <3>1, AtRest DEF Rearm
  <2>4. QED
    BY <2>2, <2>3
<1>12. CASE Pause
  <2>1. CASE iPaused
    BY <1>3, <1>4, <1>12, <2>1, AtRest DEF Pause
  <2>2. CASE ~iPaused
    BY <1>3, <1>12, <2>2 DEF Pause
  <2>3. QED
    BY <2>1, <2>2
<1>13. CASE Kill
  BY <1>3, <1>13 DEF Kill
<1>14. QED
  BY <1>5, <1>6, <1>7, <1>8, <1>9, <1>10, <1>11, <1>12, <1>13
     DEF Next, MainThread, TimerThread

\* What TimerExpired loses in one period it makes up in the next ones: however long
\* the sender plays, with every delay the scheduler may cause up to MaxLate, the
\* running offset stays within fixed bounds (mpd2sc.cpp:222-272).
THEOREM DriftStaysBounded == Spec => []DriftBounded
<1>1. DriftInv /\ [Next]_vars => DriftInv'
  BY NextDrift
<1>2. DriftInv => DriftBounded
  <2>1. SUFFICES ASSUME TypeOK, OnSchedule PROVE iTimeOffsetUs \in -Behind(format) .. Ahead
    BY DEF DriftInv, DriftBounded
  <2>2. Behind(format) \in Int
    BY <2>1, PacketTimeType, LatestDelay, PcmAssumption DEF Behind, TypeOK, kPeriodMs
  <2>3. QED
    BY <2>1, <2>2 DEF TypeOK, OnSchedule, Ahead
<1>3. QED
  BY InitDrift, <1>1, <1>2, PTL DEF Spec
=============================================================================
