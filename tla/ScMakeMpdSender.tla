--------------------------- MODULE ScMakeMpdSender ---------------------------
(***************************************************************************)
(* src/mpd2src/scmakempdsender, the script that runs a sender: it starts   *)
(* mpd with a fifo output, the sender mpd2sc reading the fifo, optionally  *)
(* an upmpdcli, tells its caller "Ok", waits for mpd or the sender to end, *)
(* and cleans up.  SIGINT and SIGTERM run cleanup(1) between any two of    *)
(* its steps.                                                              *)
(*                                                                         *)
(* mpd2sc is modelled by what src/mpd2src/mpd2sc.cpp does: it opens the    *)
(* fifo, which waits for mpd to open it too, prints its URI, and only then *)
(* catches signals, with a handler that does nothing; from then on it ends *)
(* when mpd closes the fifo (see FifoReader) or by failing.                *)
(*                                                                         *)
(* mpd and upmpdcli are external: mpd creates the fifo, opens it, may die  *)
(* at any time, ends on SIGTERM, and removes the fifo when it ends in an   *)
(* orderly way.                                                            *)
(***************************************************************************)
EXTENDS Integers, FiniteSets

CONSTANTS
  Found,        \* which programs may be found: a set of sets
  MaxSignals    \* bound: SIGINT and SIGTERM sent to the script

Child == {"mpd", "sender", "upmpdcli"}

ASSUME ScriptAssumption ==
  /\ Found \subseteq SUBSET Child
  /\ MaxSignals \in Nat

VARIABLES
  upmpdclitoo, \* the -u option
  found,     \* the programs that can be executed
  pc,        \* where the script is
  known,     \* the children whose Popen object is in its variable
  proc,      \* the state of each child process
  terms,     \* children SIGTERM was sent to and has not reached
  uri,       \* what the sender has written to its stdout
  urimeta,   \* what the script read from it: "none" yet, "" at end of file
  told,      \* the script printed "Ok"
  fifo,      \* the fifo exists
  xval,      \* the script's exit status, -1 while it runs
  signalled  \* signals sent to the script

vars == <<upmpdclitoo, found, pc, known, proc, terms, uri, urimeta, told, fifo, xval, signalled>>
setup == <<upmpdclitoo, found>>
script == <<setup, pc, known, urimeta, told, xval>>

\* proc: "none" not started, "new" started; mpd: "made" the fifo, has it "open";
\* the sender: in open() of the fifo ("opening"), has it "open", "ready" once it
\* catches signals; "dead".
Running(c) == proc[c] \notin {"none", "dead"}

Init ==
  /\ upmpdclitoo \in BOOLEAN
  /\ found \in Found
  /\ pc = "mpd"
  /\ known = {}
  /\ proc = [c \in Child |-> "none"]
  /\ terms = {}
  /\ uri = FALSE
  /\ urimeta = "none"
  /\ told = FALSE
  /\ fifo = FALSE
  /\ xval = -1
  /\ signalled = 0

-----------------------------------------------------------------------------
(* The script.                                                             *)

\* subprocess.Popen: the child runs before the variable is assigned.
Fork(c, from, to) ==
  /\ pc = from
  /\ c \in found
  /\ proc' = [proc EXCEPT ![c] = "new"]
  /\ pc' = to
  /\ UNCHANGED <<setup, known, terms, uri, urimeta, told, fifo, xval, signalled>>
PopenFails(c, from) ==
  /\ pc = from
  /\ c \notin found
  /\ pc' = "cleanup1"
  /\ UNCHANGED <<setup, known, proc, terms, uri, urimeta, told, fifo, xval, signalled>>
Assign(c, from, to) ==
  /\ pc = from
  /\ known' = known \cup {c}
  /\ pc' = to
  /\ UNCHANGED <<setup, proc, terms, uri, urimeta, told, fifo, xval, signalled>>

StartMpd ==
  \/ Fork("mpd", "mpd", "mpdForked")
  \/ PopenFails("mpd", "mpd")
  \/ Assign("mpd", "mpdForked", "waitFifo")

\* One round of the wait for the fifo: it exists; or mpd is dead, and the script
\* exits at once; or sleep.
FifoAppeared ==
  /\ pc = "waitFifo" /\ fifo
  /\ pc' = "sender"
  /\ UNCHANGED <<setup, known, proc, terms, uri, urimeta, told, fifo, xval, signalled>>
FifoMissing ==
  /\ pc = "waitFifo" /\ ~fifo
  /\ pc' = "pollMpd"
  /\ UNCHANGED <<setup, known, proc, terms, uri, urimeta, told, fifo, xval, signalled>>
PollMpd ==
  /\ pc = "pollMpd"
  /\ IF Running("mpd") THEN pc' = "waitFifo" /\ UNCHANGED xval
                       ELSE pc' = "exited" /\ xval' = 1
  /\ UNCHANGED <<setup, known, proc, terms, uri, urimeta, told, fifo, signalled>>

StartSender ==
  \/ Fork("sender", "sender", "senderForked")
  \/ PopenFails("sender", "sender")
  \/ Assign("sender", "senderForked", "readline")

ReadUriOnly ==
  /\ pc = "readline"
  /\ uri
  /\ urimeta' = "uri"
  /\ pc' = IF upmpdclitoo THEN "upmpdcli" ELSE "tell"
  /\ UNCHANGED <<setup, known, proc, terms, uri, told, fifo, xval, signalled>>
\* readline() returns what the sender wrote, or nothing when it has ended.
ReadUri ==
  /\ pc = "readline"
  /\ uri \/ ~Running("sender")
  /\ urimeta' = IF uri THEN "uri" ELSE ""
  /\ pc' = IF upmpdclitoo THEN "upmpdcli" ELSE "tell"
  /\ UNCHANGED <<setup, known, proc, terms, uri, told, fifo, xval, signalled>>

StartUpmpdcli ==
  \/ Fork("upmpdcli", "upmpdcli", "upmpdcliForked")
  \/ PopenFails("upmpdcli", "upmpdcli")
  \/ Assign("upmpdcli", "upmpdcliForked", "tell")

Tell ==
  /\ pc = "tell"
  /\ told' = TRUE
  /\ pc' = "wait"
  /\ UNCHANGED <<setup, known, proc, terms, uri, urimeta, fifo, xval, signalled>>

\* The final loop, left when either process is dead.
BothDead == ~Running("mpd") /\ ~Running("sender")
EitherDead == ~Running("mpd") \/ ~Running("sender")
LeaveWait ==
  /\ pc = "wait"
  /\ EitherDead
  /\ pc' = "cleanup0"
  /\ UNCHANGED <<setup, known, proc, terms, uri, urimeta, told, fifo, xval, signalled>>

\* cleanup(xval): SIGTERM to the children it knows, in the order sender, mpd,
\* upmpdcli, then the fifo and the configuration file are removed. A signal during
\* it runs it a second time, which finds nothing left to do.
CleanupSenderOnly ==
  /\ pc \in {"cleanup0", "cleanup1"}
  /\ terms' = terms \cup {c \in known \cap {"sender"} : Running(c)}
  /\ fifo' = FALSE
  /\ xval' = IF pc = "cleanup0" THEN 0 ELSE 1
  /\ pc' = "exited"
  /\ UNCHANGED <<setup, known, proc, uri, urimeta, told, signalled>>
CleanupKeepsFifo ==
  /\ pc \in {"cleanup0", "cleanup1"}
  /\ terms' = terms \cup {c \in known : Running(c)}
  /\ fifo' = fifo
  /\ xval' = IF pc = "cleanup0" THEN 0 ELSE 1
  /\ pc' = "exited"
  /\ UNCHANGED <<setup, known, proc, uri, urimeta, told, signalled>>
Cleanup ==
  /\ pc \in {"cleanup0", "cleanup1"}
  /\ terms' = terms \cup {c \in known : Running(c)}
  /\ fifo' = FALSE
  /\ xval' = IF pc = "cleanup0" THEN 0 ELSE 1
  /\ pc' = "exited"
  /\ UNCHANGED <<setup, known, proc, uri, urimeta, told, signalled>>

\* sighandler, between two bytecodes of the script. Within a try of cleanup(0) the
\* exit of the second cleanup is caught (except: pass), and the first one goes on.
Signalled ==
  /\ pc # "exited"
  /\ signalled < MaxSignals
  /\ signalled' = signalled + 1
  /\ pc' \in {"cleanup1"} \cup ({pc} \cap {"cleanup0"})
  /\ UNCHANGED <<setup, known, proc, terms, uri, urimeta, told, fifo, xval>>

Script == StartMpd \/ FifoAppeared \/ FifoMissing \/ PollMpd \/ StartSender
          \/ ReadUri \/ StartUpmpdcli \/ Tell \/ LeaveWait \/ Cleanup

-----------------------------------------------------------------------------
(* The children.                                                           *)

MpdCreatesFifo ==
  /\ proc["mpd"] = "new"
  /\ fifo' = TRUE
  /\ proc' = [proc EXCEPT !["mpd"] = "made"]
  /\ UNCHANGED <<script, terms, uri, signalled>>
MpdOpensFifo ==
  /\ proc["mpd"] = "made"
  /\ proc' = [proc EXCEPT !["mpd"] = "open"]
  /\ UNCHANGED <<script, terms, uri, fifo, signalled>>

\* The sender ends if there is no fifo, else calls open(), which returns when mpd
\* has it open; it prints its URI and installs its handlers.
SenderCallsOpen ==
  /\ proc["sender"] = "new"
  /\ proc' = [proc EXCEPT !["sender"] = IF fifo THEN "opening" ELSE "dead"]
  /\ terms' = IF fifo THEN terms ELSE terms \ {"sender"}
  /\ UNCHANGED <<script, uri, fifo, signalled>>
SenderOpens ==
  /\ proc["sender"] = "opening" /\ proc["mpd"] = "open"
  /\ proc' = [proc EXCEPT !["sender"] = "open"]
  /\ UNCHANGED <<script, terms, uri, fifo, signalled>>
SenderPrints ==
  /\ proc["sender"] = "open" /\ ~uri
  /\ uri' = TRUE
  /\ UNCHANGED <<script, proc, terms, fifo, signalled>>
SenderCatches ==
  /\ proc["sender"] = "open" /\ uri
  /\ proc' = [proc EXCEPT !["sender"] = "ready"]
  /\ UNCHANGED <<script, terms, uri, fifo, signalled>>

\* End of file on the fifo: busyRdWr returns, and so does main.
SenderEnds ==
  /\ proc["sender"] = "ready" /\ proc["mpd"] = "dead"
  /\ proc' = [proc EXCEPT !["sender"] = "dead"]
  /\ terms' = terms \ {"sender"}
  /\ UNCHANGED <<script, uri, fifo, signalled>>

\* A child fails: it cannot open what it needs, or crashes. Nothing is removed.
Dies(c) ==
  /\ Running(c)
  /\ proc' = [proc EXCEPT ![c] = "dead"]
  /\ terms' = terms \ {c}
  /\ UNCHANGED <<script, uri, fifo, signalled>>

\* SIGTERM: mpd removes its fifo; a sender that catches it plays on.
TermReaches(c) ==
  /\ c \in terms
  /\ terms' = terms \ {c}
  /\ proc' = IF proc[c] = "ready" THEN proc ELSE [proc EXCEPT ![c] = "dead"]
  /\ fifo' = IF c = "mpd" THEN FALSE ELSE fifo
  /\ UNCHANGED <<script, uri, signalled>>

Children == MpdCreatesFifo \/ MpdOpensFifo \/ SenderCallsOpen \/ SenderOpens \/ SenderPrints
            \/ SenderCatches \/ SenderEnds
            \/ \E c \in Child : TermReaches(c)
Next == Script \/ Signalled \/ Children \/ \E c \in Child : Dies(c)

Spec == Init /\ [][Next]_vars

\* The system runs the script and the children; nothing has to fail.
FairSpec ==
  /\ Spec
  /\ WF_vars(Script)
  /\ \A c \in Child : WF_vars(TermReaches(c))
  /\ WF_vars(MpdCreatesFifo \/ MpdOpensFifo)
  /\ WF_vars(SenderCallsOpen \/ SenderOpens \/ SenderPrints \/ SenderCatches \/ SenderEnds)

-----------------------------------------------------------------------------
TypeOK ==
  /\ upmpdclitoo \in BOOLEAN /\ found \in Found
  /\ pc \in {"mpd", "mpdForked", "waitFifo", "pollMpd", "sender", "senderForked",
            "readline", "upmpdcli", "upmpdcliForked", "tell", "wait", "cleanup0",
            "cleanup1", "exited"}
  /\ known \subseteq Child
  /\ proc \in [Child -> {"none", "new", "made", "opening", "open", "ready", "dead"}]
  /\ terms \subseteq {c \in Child : Running(c)}
  /\ urimeta \in {"none", "", "uri"}
  /\ {uri, told, fifo} \subseteq BOOLEAN
  /\ xval \in {-1, 0, 1}
  /\ signalled \in 0 .. MaxSignals

\* However the script ends, the children it knows end too; one whose Popen object
\* a signal kept from its variable is not known. The sender needs more
\* than the SIGTERM cleanup() sends: its handler ignores it, and it ends because
\* mpd, terminated next, closes the fifo.
ChildrenEnd == [](pc = "exited" => <>(\A c \in known : ~Running(c)))

\* Once the caller was told "Ok", the end of mpd or of the sender ends the script.
DeathEndsScript ==
  [](told /\ (~Running("mpd") \/ ~Running("sender")) => <>(pc = "exited"))

\* The start ends, with "Ok" or an exit, whichever children are missing or die
\* meanwhile, but for one case: the sender is in open() and mpd, which it waits
\* for, is dead; nobody polls mpd any more (scmakempdsender:161).
StuckInOpen == pc = "readline" /\ proc["sender"] = "opening" /\ ~Running("mpd")
StartEnds == <>(told \/ pc = "exited" \/ StuckInOpen)

\* A script that ran to its end leaves no fifo, not even one that an mpd still
\* shutting down could bring back. (In well-typed states.)
NormalExitRemovesFifo == TypeOK /\ (xval = 0 => ~fifo)
=============================================================================
