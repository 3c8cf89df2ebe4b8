# A verification project for sc2mpd

sc2mpd joins OpenHome *Songcast* audio streams to mpd. The repository has two
programs and a script:

- **sc2mpd** (`src/sc2src`) receives a Songcast stream and plays it, either
  through a small HTTP server that mpd reads, or directly on an ALSA device;
- **mpd2sc** (`src/mpd2src`) reads audio from a file or from an mpd fifo and
  sends it as a Songcast stream;
- **scmakempdsender** (`src/mpd2src/scmakempdsender`, Python) starts a private
  mpd, an mpd2sc that reads its fifo and, with `-u`, an upmpdcli, and looks
  after them.

The modules of this directory model the parts of these programs whose
correctness depends on order: threads and their condition variables, timers and
signals, child processes, a control loop, buffers consumed in pieces, a layout that
must follow its data. TLC checks them on small instances; TLAPS proves, for every
instance, the invariants of the queue, that it implements its abstract specification,
what both outputs promise of messages and frames, that the paced sender stays armed and on
time and takes its source in order and cut between frames, how the script ends, that a
configuration file and what is held of it in memory agree, and how a stack of
configurations answers.

Source lines are quoted as `file:line`, files under `src/sc2src` or
`src/mpd2src`. `PROJECT.json` maps each definition to the lines it models.


## 1. Inventory

| component | state | operations | used by |
|---|---|---|---|
| `WorkQueue` (`workqueue.h`, `ptmutex.h`) | `m_queue`, `m_ok`, `m_worker_threads`, `m_workers_exited`, `m_clients_waiting`, `m_workers_waiting`, one mutex, `m_ccond`, `m_wcond` | `start`, `put`, `waitIdle`, `setTerminateAndWait` (and the destructor), `take`, `waitminsz`, `workerExit`, `ok` | receiver, both outputs |
| receiver driver and main of sc2mpd (`sc2mpd.cpp`, `rcvqueue.h`) | the static queue `audioqueue` (limit 4), the interactive loop | `Process(OhmMsgAudio)`, `main`, exit | OpenHome threads |
| ALSA output (`alsadirect.cpp`) | second queue `alsaqueue` (limit 100), `qinit`, `pcm`, `src_state` | `audioEater`, `alsawriter`, `alsa_init` | `audioqueue` |
| HTTP output (`httpgate.cpp`) | `dataqueue` with its mutex and condition variable, one `ContentReader` context per response | `audioEater`, `answer_to_connection`, `data_generator`, the free callback | `audioqueue`, libmicrohttpd |
| `AudioMessage`, byte swap, wav header (`rcvqueue.h`, `wav.cpp`) | `m_curoffs` of a message | conversions | both outputs |
| `PcmSender` and main of mpd2sc (`mpd2sc.cpp`, `audioreader.h`) | `iPaused`, `iTimeOffsetUs`, `iLastTimeUs`, the timer, the driver, `sigsent` | `Start`, `Pause`, `TimerExpired`, `busyRdWr`, destructor, `sigcatcher`, `pause()` | OpenHome timer thread, readers |
| `WavReader` (`wavreader.cpp`) | the data segment, `m_index` | `open`, `data` | `PcmSender` |
| `FifoReader` (`fiforeader.cpp`) | the descriptor, `m_tmpbuf` | `open`, `data` | `PcmSender`, mpd at the other end |
| `openAudio`, `swapSamples` (`openaudio.cpp`) | none | parameter parsing, byte swap | main of mpd2sc |
| `scmakempdsender` | three `Popen` variables, the fifo, the handler | the script's steps, `cleanup`, `sighandler` | user or upmpdcli |
| `ConfSimple`, `ConfTree`, `ConfStack` (`conftree.h/.cpp`) | `m_submaps`, `m_order`, `status`, `m_holdWrites`; `m_confs`, `m_ok` | parsing, `get`, `set`, `erase`, `eraseKey`, `holdWrites`, `write`, copying; the stack's own | main of sc2mpd |
| base64 (`base64.cxx`) | none | `base64_encode`, `base64_decode` | main of mpd2sc |
| logger, chrono, icon, packaging | none that others depend on | | |

How they interact:

    OpenHome thread --put--> audioqueue --take--> audioEater
         ALSA:  audioEater --put--> alsaqueue --take--> alsawriter --> device
         HTTP:  audioEater --push, broadcast--> dataqueue <--data_generator-- mpd

    mpd --fifo--> FifoReader --data--> PcmSender (timer, or busyRdWr) --> OpenHome driver
    scmakempdsender --Popen, SIGTERM--> mpd, mpd2sc, upmpdcli

What is hard in each, and what makes it correct:

- **WorkQueue.** Two condition variables under one mutex; `put` and `take` signal
  only when a counter says that somebody waits, and the counters lag behind
  the wakeups; `ccond` serves three kinds of waiters but is signalled one at a
  time. Correct when no wakeup is lost, the counters tell the truth, the answers
  of `waitIdle` and `setTerminateAndWait` are true, and calls return.
- **Both outputs.** Two or three threads in a chain, every one of which may fail,
  in a process that ends by running static destructors that wait for them.
  Correct when messages are neither lost, duplicated nor reordered, the device
  is used only when it is open, buffers are bounded, and the process can end.
- **data_generator.** Several connections consume the same messages in pieces.
  Correct when the bytes stay aligned on audio frames and nobody sleeps on data.
- **Rate control.** The length of a queue steers, through a filter of 128 messages, how
  many frames each message becomes; the sender's clock and the device's differ, the
  network bursts, stalls and loses. Correct when the ratio settles and the queue holds.
- **PcmSender.** A timer that re-arms itself against a `Pause`, a destructor and a
  signal; pacing by signed differences of unsigned clocks.
- **Readers.** Wrap-around at the end of a track; partial reads; silence.
- **Script.** Children that die, signals at any point, a sender that ignores
  SIGTERM and dies only because mpd does.
- **Configuration.** An order list and maps that must agree after any sequence
  of calls, on disk too when the program is killed in a write; lines joined, trimmed and
  cut; a stack whose front file may or may not need an entry.

The `hazards` of `PROJECT.json` list these at their lines with the properties that
cover them.


## 2. Modules and how they correspond to the code

### The queue

`WorkQueue` holds the queue's variables, with the code's names, and one operator
per method. It has no `Next`: the modules that use a queue supply the threads.
An operator is one critical section, from the lock (or from the return of
`pthread_cond_wait`) to the next wait or the return; its last argument says how
it ends ("wait", "true", "false"). The sets `m_ccond` and `m_wcond` are the
threads inside `pthread_cond_wait`, `woken` those of them that have been woken and
must get the mutex back. So `m_workers_waiting` lags behind exactly as in the code:
a woken worker is counted until it runs. `pthread_cond_signal` wakes any one
sleeper, and `SpuriousWakeup` is an action of its own.

| code | operator |
|---|---|
| `start` 74-94 | `Start(created)`: `pthread_create` may fail after some threads |
| `put` 96-130 | `Put` = `PutFails`, `PutSleeps`, `PutPushes` |
| `waitIdle` 148-169 | `WaitIdle` |
| `setTerminateAndWait` 172-217 | `TerminateFindsNobody`, `TerminateSleeps`, `TerminateJoins` |
| `take` 224-255 | `Take` = `WorkerFails`, `WorkerSleeps`, `TakePops` |
| `waitminsz` 257-275 | `WaitMinSz` |
| `workerExit` 285-291 | `WorkerExit` |

`WorkQueueClients` composes the queue with any number of clients and workers, each
worker in the loop that `alsawriter` and both `audioEater` have. `WorkQueueService`
is the abstract specification: a FIFO, open or closed, workers with at most one
task in hand, calls answered only when the answer is true, with neither mutex,
condition variables nor counters. `WorkQueueRefinement` gives the mapping (open is
`ok()`, a worker is live between its creation and its `workerExit`) and states
the implementation; `MCWorkQueue` is the instance for TLC; `WorkQueueProofs` has the
proofs, those of the refinement included.

### The receiver

`AlsaDirect` composes two instances of `WorkQueue` (`A!`, `audioqueue`; `S!`,
`alsaqueue`) with the OpenHome thread, the eater, the writer and main. Each `continue`,
`return` and `exit` of the eater and the writer is a branch; `Faults` enumerates the
failures: a thread that cannot be created, an empty message, `alsa_init`, `src_new`,
an unknown sample size, `src_process`, memory, a short write and an underrun.
`freed` and `leaked` record what happens to each message. Leaving the process runs
`~audioqueue`, then `~alsaqueue`, and it is over when both have returned.
`AlsaDirectProofs` has its proofs.

`RateControl` is the same pair of threads seen as a control loop: the threads are prompt,
and what is counted is frames, in the queue, in the message that `snd_pcm_writei` still
holds and in the device. `Command` and `Filtered` are `alsadirect.cpp:354-403` and the class
`Filter` with its incremental sum, `Resampled` what `src_process` makes of a message with the
fraction it keeps. The environment of a behaviour is the skew of the device's clock, the
size of the network's bursts, and one stall, whose messages are lost or late.

`HttpGate` composes one instance of `WorkQueue` with `dataqueue` and the connections.
A message is its `m_curoffs`. `Fill` is one turn of the copying loop of
`data_generator`, `WaitForData` and `Resume` its wait, `Fixes` the discarding of a
partial message at the beginning of a stream, `HeaderBytes` the wav header, `From` and
`To` where the copy starts in the message and in the block. libmicrohttpd is
external: a request opens a response, one thread per connection asks for block
after block, and `MHD_stop_daemon` waits for all of them. `HttpGateProofs` has the proofs.

### The sender

`PcmSender` has main, the OpenHome timer thread and a caller of `Pause`. The pacing
arithmetic is the code's (`CalculatePacketBytes`, the offset, the choice of the
next timer, in integers of microseconds), the clock is not kept: a callback is late
by a member of `Late`, once in a while by `Stall`, or finds that the clock went
back. Signals are a set of pending ones, handled by main at any point.

`AudioSource` is main opening its source: `openAudio` chooses a reader by the name of
the file, and the text of `-A` is cut into tokens and checked as the code does. It
composes `WavReader`, which has every size of a track and of a packet (a packet is the
sequence of the offsets its bytes come from), and `FifoReader`, where mpd writes
numbered bytes into a pipe and the reader takes them in any pieces; it includes the
caller of `data`, which fixes the packet size, and the byte swap. Both meet the sender
through the packet size only. `DataProofs` has the proofs.

`ScMakeMpdSender` has the script, its three children and the signals. `Popen` is
split in two, the fork and the assignment of the variable, because the signal
handler may run between them; mpd2sc is modelled by what `main` in `mpd2sc.cpp` does
until it catches signals, and by `FifoReader`'s end of file after that.
`PcmSenderProofs` and `ScMakeMpdSenderProofs` have the proofs of these two.

### Conversions

Five modules of operators hold the algorithms without state: `ByteOrder` (`swapSamples`,
`copyswap`, `makewavheader`, `readHeader`), `SampleFormat` (a sample from its bytes to the
float the resampler gets, and from what it returns to a short), `Base64` (`base64_encode`,
`base64_decode`), `HttpRange` (`parseRanges` and what `answer_to_connection` makes of it) and
`ConfText` (`getline`, the joining and trimming of `parseinput`, the cutting of `varprinter`). A
byte is a number, a four letter tag a string, a character of base64 its value in
`b64values`, a Range header its numbers, dashes and commas, a configuration file the
characters that its parser tells apart and a letter. `Conversions` takes one input in each
behaviour and converts it, there and back where there is a way back. `DataProofs` proves
about it and `AudioSource` together, because both rest on the same facts about numbers,
sequences and swapped bytes; so its initial states, steps and specification are called
`ConvInit`, `ConvNext` and `ConvSpec`.

### The configuration

`ConfMap` has the maps of values (`getIn`, `With`, `Without`, `WithoutKey`), `ConfSimple` the
file, the maps and `m_order`, parsed one line at a time and written after each change as the
code does, with `holdWrites`, `reparse` and copies. `Killed` is a crash in the middle of a write
and the restart that parses what is left. The write truncates the file first; comments and
headers are flushed with each line (`endl`), variables, which `varprinter` ends with a plain
`"\n"` and cuts into several lines when they are long, wherever the buffer of the stream is
full. So what is left is a beginning of the text that may end anywhere in a line, and `CutShort`
is what its last line may then be: a variable that has lost the end of its value (`Truncated`),
or all of it, or its equal sign; a comment without its end of line; a header that selects
nothing. `Conversions` has the same at the level of characters (`SaveCut`). `Output` is what
`write` makes of the layout, line by line. `ConfSimpleProofs` has the proofs. `ConfStack` is a
stack of such maps, plain or trees, with `set` choosing between the front entry, its removal and
doing nothing, and the listings (`getNames1`, `getSubKeys`, `hasNameAnywhere`). A stack's
elements are their maps: what each does with its own file is `ConfSimple`'s subject, and what
its characters do is `ConfText`'s. What a file holds is arbitrary, so a stack starts with any
map for each file that opens; a subkey is the sequence of its parts. `ConfStackProofs` has the
proofs.


## 3. Runs

Each property of a passing run has a mutant in `PROJECT.json`: a plausible bug
in one definition that makes TLC report that property.

| run | module | bounds | states |
|---|---|---|---|
| WorkQueue | MCWorkQueue | 2 clients that put, a third that starts, waits for idle and terminates; 2 workers that call `waitminsz` first, as alsawriter, one of which may fail; limit 1; 3 tasks; 1 start | 106k |
| AlsaDirect | AlsaDirect | 5 messages, limits 2 and 2, qstarg 2, all faults | 55k |
| RateControl | MCRateControl | the code's numbers: 100 messages, 128 values, 441 frames, a device of 8192 frames; 4 clocks; bursts of 1 and 8; one stall of 0.4 or 2 s lost, or 0.2 or 0.4 s late; 42 s | 1.6 M |
| HttpGate | MCHttpGate | 16 bits with two connections, 24 bits with one; 4 messages, 2 requests | 152k |
| HttpGateStart | MCHttpGate | the same | violation |
| PcmSender | MCPcmSender | three formats, lateness 0, 0.7 and 2.5 ms, one severe delay or clock step, two `Pause`, one kill, failing reads | 310k |
| PcmReadFails | MCPcmSender | CD format, on time, failing reads | violation |
| AudioSource | MCAudioSource | ten command lines; wav tracks up to 24 bytes, packets up to 12, frames of 3; fifos of 48 bytes, pipe of 24, writes of 1, 4 and 6 | 39k |
| Conversions | Conversions | texts up to 5 bytes of 5 values, buffers up to 4 bytes, samples of every size, 108 wav headers, Range headers up to 7 parts, configuration files and values up to 6 characters, values up to 4 in a file cut anywhere | 182k |
| Script | ScMakeMpdSender | any program missing, any child dying at any time, 2 signals | 1,946 |
| ConfSimple | MCConfSimple | several files, 2 sections, 2 names, 2 values and the empty one, order list up to 8 lines, 1 copy, 1 crash anywhere in a line and restart | 173k |
| ConfStack | MCConfStack | 3 files, any of which may not open, nested sections of depth 2, plain and tree | 37k |

What they show:

- **WorkQueue.** `WorkersCounted`: the two worker counters are exact at every
  release of the mutex. `NoLostWorkerWakeup`: on a live queue, tasks never lie in the queue
  while the workers that should take them all sleep. `ClientsServed`: until the first
  termination `m_clients_waiting` is exact and no client of `put` sleeps while there is room
  that no woken client is coming to take, and with one start no thread sleeps in
  `setTerminateAndWait` when all workers have left. `WaitIdleMeansIdle`, `TerminateMeansGone`:
  the two calls return true only when it is so. `ImplementsService`: order, exactly-once
  delivery, the bound on the queue and the truth of every answer, as a refinement.
  `NobodyWaitsForever`: `put`, `waitIdle` and `setTerminateAndWait` return, and a queued task is
  taken unless the queue dies.
- **AlsaDirect.** `MessagesKept`: messages keep their order through both queues and
  each is in one place, deleted or dropped, never two of these. `DeviceReady`,
  `RefillsFirst`: the writer uses the device only after `alsa_init` and starts only with
  qstarg messages, although `qinit` and `pcm` are shared without a lock.
  `NobodyOutlivesQueues`: the destructors free the queues only after the workers have
  left. `NobodyStuck`: the wait for qstarg messages and the wait for room do not meet
  (`PutReturns`); a dead eater ends the process at the next message, and the end of
  the process is reached.
- **RateControl.** `RatioSettles`: 19 s after the start, an underrun or a stall, the ratio is
  within 0.2% of what the device's clock needs, for every clock within the 10% that the
  code allows, and stays there. `QueueHolds`: the queue never fills, and the device never
  runs dry but in a stall that outlasts what is queued.
- **HttpGate.** `DataqueueServes`: at most three messages are kept for the readers, and none of
  them sleeps while there is data. `Aligned`: when the frame divides the header and the
  block (16 bits stereo: 4 divides 44 and 5292) and the client asks for the beginning of a
  frame, every byte it gets is at its place in a frame, whatever the other connections do
  and ask for; in 24 bits a single client that restarts at offset 44 gets the beginning of
  a frame. `NobodyStuck`: the receiving thread never
  waits for clients, and the process ends.
- **HttpGateStart.** The comment at `httpgate.cpp:127-130` does not hold for a request
  at offset 0 after another reader left part of a message, in 24 bits: the
  correction is tested at position 44 exactly (`:139`), and the first block jumps over it.
- **PcmSender.** `ArmedWhileAlive`: playing never stops for want of a timer, and no callback
  meets a deleted sender or driver. `DriftBounded`, `CatchesUp`: the offset from ideal time
  stays within bounds that do not grow, and returns to them after a severe delay.
  `SignalEndsPause`: a signal that arrives in `pause()` ends the program.
- **PcmReadFails.** The signal that a failing read sends is sent once
  (`mpd2sc.cpp:202-206`); handled before `pause()` (`:431`), it leaves the program there for
  ever, against the comment at `:281-282`.
- **AudioSource.** `FramesWhole`: for tracks of at least one packet, the position of a wav
  reader stays in the track, channels never shift, and a packet has bytes from behind the track
  only if it begins less than half a packet before its end (which the code does then, see
  section 5); the packets of a fifo are cut between frames, for a reader that does not block as
  long as mpd writes whole frames. The code does not ensure that: it pads with silence wherever
  the bytes of mpd end (`fiforeader.cpp:92-99`), so the model has writes of any size, remembers
  in `wholeWrites` whether they were whole frames so far, and the property says what follows if
  they were. `SourceKept`: a track of whole packets repeats without a gap; packets from a fifo
  carry mpd's bytes in order, swapped in place, padded with silence on the non-blocking path
  only and only when all that mpd has written was taken. `EndsWithMpd`: when mpd closes, a
  blocking sender ends with at most part of a packet unsent.
- **Conversions.** `RoundTrips`: base64 text decodes to what was encoded, with white space
  anywhere. `ReceiverUndoesSender`: what mpd2sc swapped sc2mpd swaps back, and the wav header
  of sc2mpd says to the header reader of mpd2sc what the message said. `SamplesPlayed`: a
  sample of 16, 24 or 32 bits is played as its 16 highest bits, and one that the resampler
  pushed out of the range does not change its sign. `StartsWhereAsked`: a request is answered
  from where its first range starts, and to the end of the stream when that range has no
  end. `TextSurvives`: whatever is in a configuration file, the next program reads from it
  what this one held when it rewrote it, and a value that was set is read back as it was
  wherever it was cut, with what follows it; of a file that a crash cut (`CutReadsBeginning`)
  at any character the next program reads the first variables, all as they were but the last,
  whose value may be a beginning of what it was.
- **Script.** `ChildrenEnd`: after the script, every child it knew ends, the sender too.
  `DeathEndsScript`: after "Ok", the death of mpd or of the sender ends the script.
  `StartEnds`: the start comes to an end, but for one case that section 5 describes.
  `NormalExitRemovesFifo`.
- **ConfSimple.** `FileSaysIt`: reading the file again gives the values held in memory.
  `LayoutFits`: each section with variables has its line in `m_order`, each variable is
  written once, and `set` never reaches the "should not happen" `abort()` on an object
  that is not a copy. `KeepsComments`: comments survive every rewriting. `CrashLosesEnd`: what
  a crash in a write leaves has for each variable its value or none, but for the last one left,
  whose value may be cut short, which nothing tells from a whole one.
- **ConfStack.** `SetTakes`: a successful `set` is what `get` returns. `NoUnneededEntry`: the
  front file never repeats what the deeper ones say. `LookupsAgree`: a section of a tree has
  the values of the section around it for what it does not define, the listings name
  what lookups find, and a shallow listing is about the file whose values count. The first
  part is about files whose section names do not end in a slash (section 5).

### Why these bounds

The queue's hazards need two waiters of one kind and one of another on the same
condition variable, and a limit that is reached; the run has them. Limit 1 makes every
second `put` block and every `take` signal. Restarts of a queue are left to the theorems,
which hold for any number of them (liveness with three clients leaves no room for a second
start), and so are puts that flush, which no code of the repository makes
(`Flushes = {FALSE}`). In the receivers five messages fill both queues, leave one in each hand,
and let an underrun happen with messages queued; qstarg is equal to the limit, the worst
case for the two waits (in the code it is half of it). The rate control is checked with
the code's own numbers, for a clock that is exact, one 1% slow, and two devices that took
44.1 kHz for 48 or the reverse, which is as far as the 10% go; `Horizon` leaves time to settle,
stall at the start or later, and settle again; `Settling` (19 s) is some ten times the delay of
the filter, `Tolerance` (0.2%) the rounding of `qs` to what the queue and the device hold. In
HttpGate sizes are scaled so that the divisibilities of the code (`frame | header`,
`frame | block`, block not a multiple of header) are kept for both formats. For PcmSender a
period is the code's 10 ms; the three formats are one whose packet lasts exactly a period,
one whose packet is cut to whole frames below it, and one cut at the largest size; offsets
stay finite because the pacing works, which is `DriftBounded` itself. A WavReader's
behaviour depends on the track and packet sizes only through their quotient and
remainder, of which the run has all small ones, also a track shorter than a packet. In
ConfText pieces are of 2 characters and lines of 7, so that values of 6 are cut twice, at
blanks and backslashes too, and would not fit a line uncut; six characters are enough for a
continued line, a comment and a variable after it. A value of four in a file that is cut
(`MaxCut`) has two pieces and is cut at every character of both. Three files are the smallest stack
with a deeper file behind a deeper file. `MaxLines`, `FewLines`, `MaxCopies` and `MaxRestarts`
bound the order list, which only grows by names not seen before.

`CHECK_DEADLOCK FALSE` is set where the program may rest: it ended, waits for messages
or requests that need not come, sleeps in `pause()`, or could not open its file.

### Fairness

Only what the scheduler or the operating system gives is assumed: weak fairness of
each thread's steps (a thread that is not blocked runs), in the receivers while the
process exists, and of the children's own steps in the script. In PcmSender `Cancel`
has strong fairness: it waits for a callback in progress, callbacks recur, and the
timer manager's lock is granted again and again between them. Nothing is assumed of
messages, requests, the letter q, signals, spurious wakeups, failures, deaths of
children, the bytes mpd writes, or clients calling again.


## 4. Proofs

| module | theorem | states |
|---|---|---|
| `WorkQueueProofs` | `TypeCorrect` | `Spec => []TypeOK` |
| | `CountersExact` | `Spec => []WorkersCounted` |
| | `WaitIdleCorrect` | `Spec => WaitIdleMeansIdle` |
| | `TerminateCorrect` | `Spec => TerminateMeansGone` |
| | `NoWorkerWakeupLost` | `Spec => []NoLostWorkerWakeup` |
| | `ClientsAreServed` | `Spec => []ClientsServed` |
| | `QueueImplementsService` | `Spec => ImplementsService` |
| `AlsaDirectProofs` | `DeviceIsReady` | `Spec => []DeviceReady` |
| | `WorkersEndFirst` | `Spec => []NobodyOutlivesQueues` |
| | `KeepsMessages` | `Spec => []MessagesKept` |
| | `RefillsBeforePlaying` | `Spec => RefillsFirst` |
| `HttpGateProofs` | `ServesReaders` | `Spec => []DataqueueServes` |
| | `ServesFrames` | `Spec => Aligned` |
| `PcmSenderProofs` | `ArmedWhileItLives` | `Spec => []ArmedWhileAlive` |
| | `DriftStaysBounded` | `Spec => []DriftBounded` |
| `DataProofs` | `WholeFramesOnly` | `Spec => []FramesWhole` |
| | `InOrder` | `Spec => SourceKept` |
| | `Base64RoundTrips` | `ConvSpec => []RoundTrips` |
| | `Undone` | `ConvSpec => []ReceiverUndoesSender` |
| | `PlayedAsSent` | `ConvSpec => []SamplesPlayed` |
| | `AnsweredAsAsked` | `ConvSpec => []StartsWhereAsked` |
| `ScMakeMpdSenderProofs` | `NoFifoLeft` | `Spec => []NormalExitRemovesFifo` |
| `ConfStackProofs` | `NothingUnneeded` | `Spec => []NoUnneededEntry` |
| | `SetIsTaken` | `Spec => SetTakes` |
| | `LookupsAndListings` | `Spec => []LookupsAgree` |
| `ConfSimpleProofs` | `LayoutAlwaysFits` | `Spec => []LayoutFits` |
| | `FileSaysAll` | `Spec => []FileSaysIt` |
| | `CommentsKept` | `Spec => KeepsComments` |
| | `OnlyTheEndIsLost` | `Spec => CrashLosesEnd` |

They use the assumptions that the modules state about their constants, and no other:
`WorkQueueAssumption` (threads are finitely many and fit an unsigned counter, `Low > 0`),
`ClientsAssumption` (clients and workers are different threads), `AlsaAssumption`,
`HttpAssumption` (a message is a whole number of frames of every format, `Nobody` is not a
connection), `PcmAssumption` (formats with a rate of at least 10), `PaceAssumption` (the largest
lateness is a member of `Late`, and a period's excess makes up for it), `SourceAssumption`
(sizes of a wav file are positive, a period of a fifo has room for a frame, samples have at most
32 bits), `ConversionsAssumption` (bytes are 0 to 255, samples have 16, 24 or 32 bits, the
numbers of a wav header fit their fields and their product an `int`), `ScriptAssumption`,
`ConfMapAssumption`, `ConfSimpleAssumption` (the files that are read are lines of text in which
no section starts twice and only the last is cut short; what is left of a value is a value),
`ConfStackAssumption` and `SubkeyAssumption` (a subkey is a sequence in which separators are
apart from names). They hold for any numbers of threads, tasks, messages, connections, restarts,
pauses, signals, bytes, files, lines and sections, and for texts, buffers and Range headers of
any length. That no section starts twice is needed: of a file in which one does the code loses
variables (section 5), and a file that the code writes never has one (`OutputOnce`).

**The queue's counters.** They are not inductive by themselves. That `m_workers_waiting` goes
down by one, and does not wrap, when a worker comes back from its wait needs to know that it
was counted, hence `WorkersWaitingExact` as an equation with a set. That the equation survives
`setTerminateAndWait`, which sets the counter to 0, needs that no worker is inside the
wait when all have exited, hence `ExitedExact`, and that the workers that left are
not in `m_wcond` while those in `m_wcond` are in the two wait loops, hence `Discipline`,
which also keeps clients out of `m_wcond`. `CountingInv` is the conjunction. The step
lemma has one case per method (`ClientSectionCounts`, `TerminateCounts`,
`WorkerSectionCounts`, `ExitCounts`), and `WaitersCounted` does the arithmetic of
cardinalities once, from `CountMember`. `WaitIdleCorrect` and `TerminateCorrect` follow from
`CountingInv` alone; `AllExitedMeansGone` is the bridge from the counter to the threads.

**Wakeups of workers.** `NoLostWorkerWakeup` is inductive relative to `CountingInv`
(`InductiveInv`): a `put` that adds a task wakes a sleeper because the counter, being exact, is
positive; a woken worker that takes a task uses up its own wakeup; a worker that falls asleep
does so on a short queue.

**Clients.** `ClientsInv` adds to `CountingInv` that nobody waits before the first start and
`m_clients_waiting` is exact until the workers were joined (`ClientsCounted`), that whoever sleeps
in `setTerminateAndWait` has closed the queue (`TerminatorCloses`), and that workers which all
sleep on an empty queue have woken the clients blocked in `put` (`IdleWakesPutters`). The balance of
room and woken clients is then the same argument as for workers (`ClientBalanceKept`).

**The refinement.** `RefinementInv` adds `Agreement` to `CountingInv`: a worker has a task in
hand exactly when it is busy, an idle client has no arguments, and a queue without workers is
open. Then every section of every method is a step of `WorkQueueService` or leaves its
variables alone (`PutMaps`, `WaitIdleMaps`, `TerminateMaps`, `StartMaps`, `TakeMaps`, `ExitMaps`).

**The ALSA output.** `DeviceInv` follows a message: the converter exists only with the device,
and a message is in the second queue or in the writer's hand only with the converter. `EndInv`
has for both queues that the exited workers are the registered threads that are gone, so
that a destructor that returned has joined its worker; the queue methods enter by the
lemmas `AudioqueueTerminated` and `AlsaqueueTerminated`, restated for the instances.

`MessagesInv` says where a message can be: in `audioqueue`, in the eater's hand, in
`alsaqueue` or in the writer's hand, four stages that are disjoint sets and follow each
other in time, each queue increasing, everything in a later stage older than everything in an
earlier one (`InLine`), and all that arrived either in a stage, or freed, or leaked, never two
of these (`Books`). The order of a queue is kept by operator lemmas on `Append` and on what
`take` leaves (`Shortened`); each action moves one message between two stages
(`BooksSteps`). `MessagesKept` follows. `Refilled` relates `qinit` and the place of the
writer to the length of `alsaqueue`: past the wait for qstarg messages and until it takes
the next one, only the writer shortens the queue.

**The HTTP output.** `GateInv` is inductive with `DataqueueServes`: of the messages of
`dataqueue` only the first may be partly read, since a reader consumes the front and goes on
to the next only when it has all of it; the eater adds whole messages and drops the front
beyond three; who sleeps found nothing, and the eater's broadcast wakes all. `FramesInv` adds what
the alignment needs: `m_curoffs` of the first message and the places of the readers in their
blocks are whole frames when header and block are (`InFrames`, by `WholeFrames`, the one
lemma of arithmetic), and for the single client in 24 bits, that after it discarded a partial
message the next one is whole (`StartsWhole`), as nobody else reads (`OnlyClients`).

**The stack of configurations.** `StackInv` is `NoUnneededEntry` with the fact that a stack
that is good or writable has a front element (`OpenedCount` counts the files that open). `get`
is unfolded once, in `GetFrontFirst`: the front element, then the rest of the stack, which `set`
leaves alone; both results of `set` follow. For a tree, `FoundLongest` says that a lookup
ends (of the places that have the variable one is longest), `ParentsOfPlain` and
`BeforeAround` which places they are for a section and for the one around it, and
`Inherits` that they are the same but for the section itself.

**A configuration file.** The properties speak of rest; what is inductive must also
speak of a file that is half read and of an object whose writes are held. `ParseFits` says that
what parsing has made of the first lines *follows* from them (`Follows`): the values are those
these lines give, every value has its line in the layout under its own section (`Placed`) and
only one (`Once`), the layout has as many comments, and new variables of the section being
parsed belong at its end. One lemma for each kind of line keeps this (`FollowsComment`,
`FollowsSection`, `FollowsAgain`, `FollowsVariable`). At rest `ReadyFits` keeps `Placed` and
`Once`, saved or not: `set` finds where the section of a new variable starts because a
variable with a value has its line, and a line of a section has its header
(`PlacedHeader`), so it cannot abort; and it inserts before the next header, so all other lines
keep their sections (`InsertVar`, `ZoneIs`, `SetOrder`). `SavedFits` is what a write makes of
that: `OutputIs` describes the file as the lines of the layout that are shown, in
order; a variable that is written is under the section it has in memory, because that
section has a value and its header is therefore written, and none between (`OutputSection`).
Hence the file says all that is held (`OutputSaysAll`), its first lines say nothing else
(`OutputSays`), of the line a crash cuts nothing is left but what `CutShortIs` says, a value of
which is under the same name and in the same section (`KilledFile`), and every comment is in it
(`OutputComments`, by a one-to-one map of the places). The recursive function in `Output` and the
searches for a first or a last line are dealt with by least counterexample
(`Climbs`, `MinIs`, `MaxIs`), which needs no induction over data.

**The paced sender.** `ArmedInv` says where main, the callback and the timer can be together,
and who is alive then. `DriftInv` is the bound on `iTimeOffsetUs` at rest and, inside a
callback, on what the elapsed time will make of it; its step rests on `PacketTimeType` (a packet
never lasts longer than a period) and `NextOffset`.

**The source.** For a wav file, `WavInv` has `m_index` and the data segment at whole frames, and
at whole packets when packets divide the track. So a packet from one place of the track is
aligned (`FromAligned`), one over its end too, as what remains of it is whole frames
(`StraddleAligned`), although the code takes the two sizes the wrong way round: the first piece
runs from `m_index` for as many bytes as do not fit, hence behind the end exactly when these are
more than what is left of the track (`NearTheEnd`); and when packets divide the track the case
over the end cannot occur (`AcrossStep`, by `WholeBetween`), which is why such a track repeats
without a gap. For a fifo, `BytesInLine` says that what mpd wrote is consumed, in the buffer and
in the pipe, in this order; `FifoInv` adds that packets begin between frames if the reader
blocks or mpd's writes were whole frames, and that for a reader that does not block the buffer
is empty and the pipe then holds whole frames. A read moves the cut between buffer and pipe
(`BytesRead`); a packet that is delivered is whole samples, so that swapping mirrors every byte
within its own (`SwapMirrors`).

**The conversions.** `ConvInv` is what is given and the four properties that are proved; each
conversion has a lemma of its own, and of the other kinds a state says nothing
(`OfAnotherKind`). For base64, `EncodedIs` has the text place by place, `QuadIs` and `BytesBack`
take four characters back to three bytes, `TextBack` the padded end, and `Spread` shows that
white space at any place leaves what is decoded (`DecodeIs`). Swapping mirrors each byte within
its sample (`Mirror`), so swapping twice is nothing (`SwapTwice`); a number of a header is read
as it was written (`Number4Written`). A sample is its 16 high bits and a remainder (`TopIs`,
`SignedIs`), and clipping and then taking the high bits is taking them and then clipping, in 24
bits and, after the rounding to a float, in 32 (`Clip24Is`, `Clip32Is`). Of a Range header
`FindIs` and `Parsed` give what is recorded up to the first comma, and `FirstFirst` that later
ranges do not change it. What the code does in a loop is a recursive function here; where its
value is needed at every place, the least place at which it is another one is refuted (`Climbs`,
`Recurses`, `MinIs`).

**The script.** `FifoInv`: the fifo exists only if mpd is past its creation, the script is past
its wait only if mpd is, and mpd is started once. So no mpd can bring the fifo back after
cleanup removed it.

Only model-checked: liveness and every property under fairness (`NobodyWaitsForever`,
`NobodyStuck`, `CatchesUp`, `SignalEndsPause`, `EndsWithMpd`, `ChildrenEnd`, `DeathEndsScript`,
`StartEnds`), which is out of the prover's reach; the control loop of RateControl (`RatioSettles`,
`QueueHolds`), whose bounds are facts about one set of numbers and a filter of 128 values; and
`TextSurvives`, where the joining, trimming and cutting of lines are recursions over the text
that is read and over the one that is written, with no form of the result in between that a
least counterexample could be taken of.


## 5. What was met while modelling and has no run of its own

The code's behaviour is in the models; the properties are stated so as to leave these
cases out, as their comments say.

- `workqueue.h:212`: `setTerminateAndWait` zeroes `m_clients_waiting` while a client woken by
  `workerExit` may still be on its way out of the wait; its decrement wraps the counter.
  `ClientsServed` therefore speaks of the time up to the first termination. The program
  terminates a queue only to exit.
- `workqueue.h:195`: two threads may be in `setTerminateAndWait`; if the queue is started again
  while the second is on its way out of its wait, it finds `m_ok` true and live workers and
  sleeps until these leave. `TerminatorNotStranded` speaks of one start.
- `workqueue.h:56` says of `hi` that -1 "disables the queue", the test at `:107` is for
  values above 0, and the value is unsigned: -1 is a limit that is never reached.
- `httpgate.cpp:331` and `:116`: the eater calls `MHD_stop_daemon` when its queue is
  terminated; the daemon waits for a connection that waits for data that only the eater
  brings. `q` (`sc2mpd.cpp:449`) then does not end the process; `NobodyStuck` excludes this.
- `wavreader.cpp:67`: at the wrap-around the two sizes are computed the wrong way round
  (the case does not occur when the track is a whole number of packets). The packet then has
  `remaining` bytes from `m_index` on, `remaining` being what does *not* fit before the end
  (`:72`): when the packet begins less than half a packet before the end these go beyond the
  data segment. With a track of 15 bytes, packets of 12 and `m_index` 12, the offsets are 12 to
  20. Whether there is anything to read there depends on the file, which may end at the data;
  `BehindOnlyNearEnd` says that no other packet does this. The packet is not the continuation
  of the track either, so `SourceKept` speaks of tracks of whole packets. For a track shorter
  than a packet the unsigned differences wrap (`:72`).
- `fiforeader.cpp:93`: silence is put wherever `read()` stopped, in the middle of a frame or a
  sample when mpd's bytes end there; what follows is then shifted.
- `alsadirect.cpp:231-247`: of the 128 places of the filter one keeps its first value, 1.0, as
  the sum subtracts the value that the next call overwrites; the loop settles all the
  same, at the length of the queue where the other values make up for it.
- `alsadirect.cpp:28`: `BSWAP16` of the fallback macros loses the low byte; the 24 bits sample is
  put together for a little endian host only.
- `alsadirect.cpp:363`: a steady queue is shorter than its target by ten times the skew of the
  clocks, as the command is proportional: at 10% it is empty or full. That `alsa_init` ignores the
  rate that the device took is made up for by the same loop, up to 10%.
- `sc2mpd.cpp:246`: an empty message returns before the observer sees it, which then reports
  a missed frame at the next one (a line of log).
- `sc2mpd.cpp:413`: `config` is a local of main, to which the context of the eater points; the
  eater reads it when it opens its device or its port, which may be after main returned at q.
- `mpd2sc.cpp:292` gives `-A` as `[44100:16:2]`; `openaudio.cpp:50` refuses anything but four
  fields. Less than 8 bits, or a rate below 10, pass its checks and main then divides by
  zero (`mpd2sc.cpp:169`, `:170`).
- `httpgate.cpp:185` reads the end of a range from its first part: a range with an end gets
  the size 1. `StartsWhereAsked` therefore speaks of the size only when there is no end.
- `sc2mpd.cpp:258-282`: `copyswap` leaves the buffer as malloc gave it when samples have 8 bits.
- `base64.cxx:50`: the table has no entry for the character 255. The programs do not decode.
- `scmakempdsender`: "Ok" is printed with an empty URI when the sender dies early (`:177`);
  mpd's death before the fifo is opened goes unnoticed (`:161`), and the script waits for the
  URI of a sender that waits for mpd, for ever (`StuckInOpen`); the exit at `:146` leaves a fifo
  that was just created; a signal between the fork and the assignment of the variable (`:135`) leaves
  a child that `cleanup` does not know; and one that arrives within a `try` of `cleanup(0)` runs
  `cleanup(1)`, whose exit the bare `except` catches, so that the status is 0 after all.
- `conftree.cpp:434`: when a section starts twice in a file with another one between, parsing
  appends the variables of the second start to the layout without their header, as it is
  there already; they stand under the other section, where `write` does not find them, and the
  next write loses them. `ConfSimpleAssumption` leaves such files out, and with them an
  empty header, `[]`, which goes back to the variables without a section;
- `conftree.h:242`: a copy has maps and no order and `set` on it can abort (`conftree.h:248`,
  `conftree.cpp:449`); `eraseKey` and `holdWrites(false)` write the file of a read-only object
  too (`conftree.cpp:504`, `conftree.h:122`); `set` on a stack whose front is read-only returns
  1 when the deeper files hold the value (`conftree.h:434`); a parent section of the front tree
  hides what a deeper file says of the section itself.
- `conftree.cpp:689`: a lookup in `/a` tries the section `/a/` first; one in `/a/b` does not come
  to `/a/` on its way up (`:700`), only to `/a`. A file that writes its sections with a final slash
  is therefore not searched as a tree; `SectionsInherit` leaves it out.
- `conftree.cpp:549`: a crash in `write` loses the variables whose lines come last, and may
  leave the last one of those that are left with an empty value or with a beginning of its
  value: `parseinput` takes an unterminated last line (`:137-140`).
- `conftree.h:35` says that `#var = value` assigns a variable named `#var`: `parseinput` takes each
  line that begins with `#` as a comment first (`conftree.cpp:160`). A name that begins with `#` or
  has an equal sign in it can be set, and is written so that it is not read back; the names
  of the models are none of these.
- `conftree.cpp:160`: a comment or an empty line ends no continuation. After a line of only
  a backslash, a comment is joined to what follows, and so are all further lines: the
  rest of the file becomes comments. `TextSurvives` holds of what was read.
- `conftree.cpp:128`: a line of more than 2046 characters ends the file for the parser; what
  follows is lost at the next `set`. Values are cut, but comments that were joined from
  continued lines, and names, are written on one line. A comment on the last line without an
  end of line is dropped.


## 6. Left out

Tilde expansion of section names and `sourceChanged` of the configuration (no program of the
repository uses the second) and input errors in the middle of a file;
the test driver of `conftree.cpp`; the interpolation of the sample rate converter; the statistics
counters of the queue (logged only) and the receiver's `Observer` (logged only); `Restart()` of
PcmSender, whose index nobody reads; a non-blocking fifo after mpd's end, which sends silence
for ever by design; negative numbers in `-A` and samples of more than 32 bits; the branch of the
timer for a source that is not paced, which main never uses; the parsing of the command
lines and the choice of a network adapter, which set nothing the modelled threads change; the
OpenHome stack, libmicrohttpd, ALSA, libsamplerate, mpd and upmpdcli, modelled only from how the
code uses them; logger, chrono, icon and packaging.


## 7. Plan

Order of the work, the most important behaviour first:

1. *(done)* the queue with its clients, its service and refinement, its proofs;
2. *(done)* the receivers, which compose the queue; the rate control; the sender, the readers,
   the script; the configuration classes, with a crash and a restart;
3. *(done)* the algorithms as operators: base64, the byte swaps, the sample formats, the wav
   header, the Range header, the parameter string, the text of a configuration;
4. proofs: *(done)* the queue with its clients and refinement, the ALSA output, the HTTP
   output, the sender and its sources, the script, the stack of configurations, a configuration
   file; the conversions; *(left)* `TextSurvives`, the control loop of the resampler;
5. input errors and tilde expansion in the configuration.
