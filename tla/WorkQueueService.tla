-------------------------- MODULE WorkQueueService ---------------------------
(***************************************************************************)
(* What a WorkQueue promises its users (the comments of                    *)
(* src/sc2src/workqueue.h), with neither mutex, condition variables nor    *)
(* counters: a FIFO that is open or closed, workers that each hold at most *)
(* one task, and clients whose calls are answered only when the answer is  *)
(* true.  WorkQueueRefinement shows that the code implements it.           *)
(***************************************************************************)
EXTENDS Naturals, Sequences

CONSTANTS Client, Worker, Task, NoTask, High, Low

VARIABLES
  open,      \* tasks are accepted and handed out
  pending,   \* accepted tasks, oldest first
  live,      \* the workers that run
  hand,      \* worker -> the task it has, or NoTask
  op,        \* client -> the call it is in, or "idle"
  arg,       \* client -> the task and flush flag of its put
  ret        \* client -> the answer to its last call

vars == <<open, pending, live, hand, op, arg, ret>>

NoArg == [task |-> NoTask, flush |-> FALSE]

Init ==
  /\ open = FALSE
  /\ pending = <<>>
  /\ live = {}
  /\ hand = [w \in Worker |-> NoTask]
  /\ op = [c \in Client |-> "idle"]
  /\ arg = [c \in Client |-> NoArg]
  /\ ret = [c \in Client |-> "none"]

Call(c, method, a) ==
  /\ op[c] = "idle"
  /\ op' = [op EXCEPT ![c] = method]
  /\ arg' = [arg EXCEPT ![c] = a]
  /\ ret' = [ret EXCEPT ![c] = "none"]
  /\ UNCHANGED <<open, pending, live, hand>>

Answer(c, answer) ==
  /\ op' = [op EXCEPT ![c] = "idle"]
  /\ arg' = [arg EXCEPT ![c] = NoArg]
  /\ ret' = [ret EXCEPT ![c] = answer]

Accept(c) ==
  /\ op[c] = "put"
  /\ open
  /\ High > 0 => Len(pending) < High
  /\ pending' = Append(IF arg[c].flush THEN <<>> ELSE pending, arg[c].task)
  /\ Answer(c, "true")
  /\ UNCHANGED <<open, live, hand>>

Refuse(c) ==
  /\ op[c] \in {"put", "waitIdle"}
  /\ ~open
  /\ Answer(c, "false")
  /\ UNCHANGED <<open, pending, live, hand>>

\* All work is done: nothing pending, and no worker has anything in hand.
AnswerIdle(c) ==
  /\ op[c] = "waitIdle"
  /\ open
  /\ pending = <<>>
  /\ \A w \in live : hand[w] = NoTask
  /\ Answer(c, "true")
  /\ UNCHANGED <<open, pending, live, hand>>

Close(c) ==
  /\ op[c] = "terminate"
  /\ open' = FALSE
  /\ UNCHANGED <<pending, live, hand, op, arg, ret>>

\* Termination is answered when every worker has gone.
AnswerTerminated(c, answer) ==
  /\ op[c] = "terminate"
  /\ live = {}
  /\ answer = "false" => ~open
  /\ open' = FALSE
  /\ Answer(c, answer)
  /\ UNCHANGED <<pending, live, hand>>

Start(ws) ==
  /\ live = {}
  /\ ~open
  /\ live' = ws
  /\ open' = (ws # {})
  /\ UNCHANGED <<pending, hand, op, arg, ret>>

\* Tasks are handed out in order, each to one worker.
Deliver(w) ==
  /\ w \in live
  /\ open
  /\ hand[w] = NoTask
  /\ Len(pending) >= Low
  /\ hand' = [hand EXCEPT ![w] = Head(pending)]
  /\ pending' = Tail(pending)
  /\ UNCHANGED <<open, live, op, arg, ret>>

Finish(w) ==
  /\ hand[w] # NoTask
  /\ hand' = [hand EXCEPT ![w] = NoTask]
  /\ UNCHANGED <<open, pending, live, op, arg, ret>>

\* A worker leaves after a fatal error or because the queue is closed, and
\* closes the queue for everyone.
Leave(w) ==
  /\ w \in live
  /\ hand[w] = NoTask
  /\ live' = live \ {w}
  /\ open' = FALSE
  /\ UNCHANGED <<pending, hand, op, arg, ret>>

Next ==
  \/ \E c \in Client :
       \/ \E x \in Task, flush \in BOOLEAN :
            Call(c, "put", [task |-> x, flush |-> flush])
       \/ \E method \in {"waitIdle", "terminate"} : Call(c, method, NoArg)
       \/ Accept(c) \/ Refuse(c) \/ AnswerIdle(c) \/ Close(c)
       \/ \E answer \in {"true", "false"} : AnswerTerminated(c, answer)
  \/ \E ws \in SUBSET Worker : Start(ws)
  \/ \E w \in Worker : Deliver(w) \/ Finish(w) \/ Leave(w)

Spec == Init /\ [][Next]_vars
=============================================================================
