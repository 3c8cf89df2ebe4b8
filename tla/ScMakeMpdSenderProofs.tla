----------------------- MODULE ScMakeMpdSenderProofs -----------------------
(***************************************************************************)
(* Proof that the script leaves no fifo behind when it ends with status 0, *)
(* whichever programs are missing, whichever children die, and however     *)
(* many signals arrive.                                                    *)
(*                                                                         *)
(* That ~fifo holds at the end is not inductive: an mpd that is still      *)
(* starting could create the fifo after cleanup removed it.  The point is  *)
(* that the script gets as far as status 0 only after it has seen the fifo *)
(* (FifoAppeared), so mpd is past its creation by then (FifoSeen), and     *)
(* that mpd is started once.                                               *)
(***************************************************************************)
EXTENDS ScMakeMpdSender, TLAPS

\* mpd may still create its fifo, now or once it is started.
MpdIsStarting == proc["mpd"] \in {"none", "new"}

\* Where the script can only be after it has seen the fifo.
PastWait == {"sender", "senderForked", "readline", "upmpdcli", "upmpdcliForked",
             "tell", "wait", "cleanup0"}

MpdMakesFifo == fifo => ~MpdIsStarting
FifoSeen == pc \in PastWait \/ xval = 0 => ~MpdIsStarting
MpdNotYet == pc = "mpd" => proc["mpd"] = "none"
EndsClean ==
  /\ xval # -1 <=> pc = "exited"
  /\ xval = 0 => ~fifo

FifoInv ==
  /\ TypeOK
  /\ MpdMakesFifo
  /\ FifoSeen
  /\ MpdNotYet
  /\ EndsClean

USE DEF Child, Running, setup, script

\* At the start there is no fifo and the script has not ended.
LEMMA InitFifo == ASSUME Init PROVE FifoInv
<1>1. -1 \in {-1, 0, 1} /\ -1 # 0
  OBVIOUS
<1>2. signalled \in 0 .. MaxSignals
  BY ScriptAssumption DEF Init
<1> QED
  BY <1>1, <1>2 DEF Init, FifoInv, TypeOK, MpdMakesFifo, FifoSeen, MpdNotYet, EndsClean,
     MpdIsStarting, PastWait

\* An exit status is not that of a running script.
LEMMA Statuses ==
  /\ 0 \in {-1, 0, 1} /\ 0 # -1
  /\ 1 \in {-1, 0, 1} /\ 1 # 0 /\ 1 # -1
<1>1. -1 \in Int
  OBVIOUS
<1> QED
  BY <1>1

\* Starting a child keeps it: only the step at "mpd" starts mpd, which was "none",
\* so there is no fifo yet.
LEMMA PopenKeepsFifo ==
  ASSUME FifoInv, StartMpd \/ StartSender \/ StartUpmpdcli
  PROVE  FifoInv'
<1> USE DEF FifoInv, TypeOK, MpdMakesFifo, FifoSeen, MpdNotYet, EndsClean, MpdIsStarting, PastWait
<1>1. ASSUME Fork("mpd", "mpd", "mpdForked")
      PROVE  FifoInv'
  BY <1>1 DEF Fork
<1>2. ASSUME Fork("sender", "sender", "senderForked")
      PROVE  FifoInv'
  BY <1>2 DEF Fork
<1>3. ASSUME Fork("upmpdcli", "upmpdcli", "upmpdcliForked")
      PROVE  FifoInv'
  BY <1>3 DEF Fork
<1>4. ASSUME NEW c \in Child, PopenFails(c, c)
      PROVE  FifoInv'
  BY <1>4 DEF PopenFails
<1>5. ASSUME Assign("mpd", "mpdForked", "waitFifo")
      PROVE  FifoInv'
  BY <1>5 DEF Assign
<1>6. ASSUME Assign("sender", "senderForked", "readline")
      PROVE  FifoInv'
  BY <1>6 DEF Assign
<1>7. ASSUME Assign("upmpdcli", "upmpdcliForked", "tell")
      PROVE  FifoInv'
  BY <1>7 DEF Assign
<1> QED
  BY <1>1, <1>2, <1>3, <1>4, <1>5, <1>6, <1>7 DEF StartMpd, StartSender, StartUpmpdcli

\* The other steps of the script keep it: the wait is left with the fifo there,
\* and cleanup removes it.
LEMMA ScriptKeepsFifo ==
  ASSUME FifoInv, Script
  PROVE  FifoInv'
<1> USE DEF FifoInv, TypeOK, MpdMakesFifo, FifoSeen, MpdNotYet, EndsClean, MpdIsStarting, PastWait
<1>1. CASE StartMpd \/ StartSender \/ StartUpmpdcli
  BY <1>1, PopenKeepsFifo
<1>2. CASE FifoAppeared
  BY <1>2 DEF FifoAppeared
<1>3. CASE FifoMissing
  BY <1>3 DEF FifoMissing
<1>4. CASE PollMpd
  <2>1. CASE Running("mpd")
    BY <1>4, <2>1 DEF PollMpd
  <2>2. CASE ~Running("mpd")
    <3>1. xval' = 1 /\ pc' = "exited"
      BY <1>4, <2>2 DEF PollMpd
    <3> QED
      BY <1>4, <3>1, Statuses DEF PollMpd
  <2> QED
    BY <2>1, <2>2
<1>5. CASE ReadUri
  BY <1>5 DEF ReadUri
<1>6. CASE Tell
  BY <1>6 DEF Tell
<1>7. CASE LeaveWait
  BY <1>7 DEF LeaveWait
<1>8. CASE Cleanup
  <2>1. CASE pc = "cleanup0"
    <3>1. xval' = 0 /\ fifo' = FALSE /\ pc' = "exited" /\ UNCHANGED proc
      BY <1>8, <2>1 DEF Cleanup
    <3>2. xval' \in {-1, 0, 1} /\ xval' # -1
      BY <3>1, Statuses
    <3>3. TypeOK'
      BY <1>8, <2>1, <3>1, <3>2 DEF Cleanup
    <3>4. ~MpdIsStarting
      BY <2>1
    <3> QED
      BY <3>1, <3>2, <3>3, <3>4
  <2>2. CASE pc = "cleanup1"
    <3>1. xval' = 1
      BY <1>8, <2>2 DEF Cleanup
    <3>2. xval' \in {-1, 0, 1} /\ xval' # 0 /\ xval' # -1
      BY <3>1, Statuses
    <3> QED
      BY <1>8, <2>2, <3>1, <3>2 DEF Cleanup
  <2> QED
    BY <1>8, <2>1, <2>2 DEF Cleanup
<1> QED
  BY <1>1, <1>2, <1>3, <1>4, <1>5, <1>6, <1>7, <1>8 DEF Script

\* The children keep it: mpd creates the fifo while it is starting, which it is not
\* any more when the script has ended with 0.
LEMMA ChildrenKeepFifo ==
  ASSUME FifoInv, Children \/ \E c \in Child : Dies(c)
  PROVE  FifoInv'
<1> USE DEF FifoInv, TypeOK, MpdMakesFifo, FifoSeen, MpdNotYet, EndsClean, MpdIsStarting, PastWait
<1>1. CASE MpdCreatesFifo
  BY <1>1 DEF MpdCreatesFifo
<1>2. CASE MpdOpensFifo
  BY <1>2 DEF MpdOpensFifo
<1>3. CASE SenderCallsOpen
  BY <1>3 DEF SenderCallsOpen
<1>4. CASE SenderOpens
  BY <1>4 DEF SenderOpens
<1>5. CASE SenderPrints
  BY <1>5 DEF SenderPrints
<1>6. CASE SenderCatches
  BY <1>6 DEF SenderCatches
<1>7. CASE SenderEnds
  BY <1>7 DEF SenderEnds
<1>8. ASSUME NEW c \in Child, TermReaches(c)
      PROVE  FifoInv'
  BY <1>8, ZenonT(40) DEF TermReaches
<1>9. ASSUME NEW c \in Child, Dies(c)
      PROVE  FifoInv'
  BY <1>9, ZenonT(40) DEF Dies
<1> QED
  BY <1>1, <1>2, <1>3, <1>4, <1>5, <1>6, <1>7, <1>8, <1>9 DEF Children

\* A signal sends the script to cleanup(1), which is not past the wait, or leaves it
\* in cleanup(0).
LEMMA SignalKeepsFifo ==
  ASSUME FifoInv, Signalled
  PROVE  FifoInv'
<1>1. signalled' \in 0 .. MaxSignals
  <2>1. signalled \in 0 .. MaxSignals
    BY DEF FifoInv, TypeOK
  <2>2. signalled < MaxSignals /\ signalled' = signalled + 1
    BY DEF Signalled
  <2> QED
    BY <2>1, <2>2, ScriptAssumption
<1>2. pc' = "cleanup1" \/ (pc = "cleanup0" /\ pc' = pc)
  BY DEF Signalled
<1> QED
  BY <1>1, <1>2 DEF Signalled, FifoInv, TypeOK, MpdMakesFifo, FifoSeen, MpdNotYet, EndsClean,
     MpdIsStarting, PastWait

\* A script that ended with status 0 leaves no fifo, not even one that an mpd still
\* shutting down could bring back.
THEOREM NoFifoLeft == Spec => []NormalExitRemovesFifo
<1>1. Init => FifoInv
  BY InitFifo
<1>2. FifoInv /\ [Next]_vars => FifoInv'
  <2> SUFFICES ASSUME FifoInv, [Next]_vars PROVE FifoInv'
    OBVIOUS
  <2>1. CASE UNCHANGED vars
    BY <2>1 DEF vars, FifoInv, TypeOK, MpdMakesFifo, FifoSeen, MpdNotYet, EndsClean, MpdIsStarting
  <2>2. CASE Next
    BY <2>2, ScriptKeepsFifo, ChildrenKeepFifo, SignalKeepsFifo DEF Next
  <2> QED
    BY <2>1, <2>2
<1>3. FifoInv => NormalExitRemovesFifo
  BY DEF FifoInv, EndsClean, NormalExitRemovesFifo
<1> QED
  BY <1>1, <1>2, <1>3, PTL DEF Spec
=============================================================================
