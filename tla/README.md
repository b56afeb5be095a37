# A TLA+ model of lwes-journaller

`lwes-journaller` listens for LWES events (UDP datagrams) and writes every
datagram, with a 22-byte header, to journal files that are rotated by a
`Command::Rotate` event, by SIGHUP or by an interval timer. This directory holds
TLA+ modules that model the program, the TLC configurations that check them on
small instances and eight modules of theorems that TLAPS proves for every instance.
Paths below are relative to the repository's `src/` directory.

## 1. Inventory

| Component | State | Operations | Interacts with |
|---|---|---|---|
| enqueuer, `xport_to_queue.c` | message buffer, result of the last read, statistics | read the transport, add the header, test the switches, rotate statistics, write the queue, finish | transport, queue, switches |
| dequeuer, `queue_to_journal.c` | message buffer, current journal, statistics, drain counter | read the queue, count, rotate (report, close, rename, open the next), write the journal, drain and finish at shutdown | queue, journals, switches |
| message queue, `queue_mqueue.c`, `queue_msg.c` | kernel queue, handle | open, read (with or without timeout), write (waiting, or with 99 retries), destructor (nothing, or removal of the queue) | both workers; survives the process (POSIX) or is removed under the other worker (System V) |
| thread model, `thread_model.c` | four threads | block all signals, turn them into switches in one thread, poll `gbl_done`, join | workers through `gbl_*` |
| process model, `process_model.c` | pids of two children | start, wait, forward signals, restart, kill the group | workers as processes |
| serial model, `serial_model.c` | one buffer, one journal, `count`, `pending` | read, depth test to itself, write, rotate, finish | transport, journal, signal handlers |
| journal files, `journal_file.c`, `journal_gz.c`, `rename_journal.c` | file at the path, opening time, stdio or zlib buffer | open (rename what a crash left, truncate), write, close and rename | file system, clock |
| signals, `sig.c` | six switches | set by handlers or the signal thread, cleared by CAS_OFF, interval timer | everything that loops |
| statistics, `stats.c` | counts since the last rotation and in total, bursts | record, erase, rotate (report and restart) | workers, log, mondemand |
| header, `header.c`, `marshal.h` | - | add, test for `Command::Rotate`, decode | workers, journal tools |
| transport, `xport_udp.c` | socket of the lwes library | read with timeout | workers |
| interval arithmetic, `time_utils.c` | - | time to the next round interval, difference of two times | `sig.c`, emitter |
| log files, `log.c` | log stream of each thread or process | open, reopen on SIGUSR1, close, print | all |
| program and options, `lwes-journaller.c`, `opt.c` | options, pid file, exit status | parse and validate, fork twice, detach, write and delete the pid file, run a model | models, log, other journallers |
| mondemand client, `lwes_mondemand.c` | client with its values | create, set, flush, destroy | statistics |
| journal tools, `lwes-journal-split.c`, `-emitter.c`, `-stats.c` | files, counts, times, `gbl_sig` | split, re-emit at a rate or with the original timings, count | journal files, clock, signals |
| rotate command, `lwes-journaller-rotate.c` | - | send `Command::Rotate` | workers |
| `libut` | vendored containers | - | `lwes-journal-stats.c` |

What is hard here: the switches are read several times in one iteration while
another thread or a handler sets them; a packet is counted, then rotates the
journal, then is written; at shutdown the enqueuer still sends while the dequeuer
empties the queue; a System V queue is removed by whoever finishes first; a full
queue blocks or drops; a POSIX queue carries packets over to the next run; a crash
leaves a journal file that the next opening must not truncate; names have a
resolution of one second; calls fail one at a time; statistics are rotated in the
middle of a burst; message buffers are reused and only partly cleared; a log is
reopened by a switch that several parties set and clear; a pid file is shared by
whoever names it; sleeps are computed from sleeps. `PROJECT.json` lists these
hazards with the line where each of them bites and the property that would catch it.

What makes the components correct: packets are journalled in the order of receipt
and at most once; every packet is journalled, in some worker's hands, in the queue,
or was given up where the code says so; nothing is discarded before the shutdown was
requested; a rotation happens only for a reason and no request is forgotten; the
statistics count every packet once; what has reached a file stays in a file; the
depth test measures the socket buffer; what a header says is what was received, and
bytes of an earlier packet are never taken for a command; the pid file names the
process that runs the model; a log is reopened once for each signal; the timer goes
off at round times; splitting and re-emission keep events and their order; and every
signal is served eventually.

## 2. Modules

* **EventStore** is the abstract specification: a bounded FIFO pipe from the network
  to an append-only journal that is cut into files. It says exactly where a packet
  may be lost: refused by a full pipe that does not wait, spoilt by a failed journal
  write, discarded once the shutdown has been requested, when any packets that follow
  each other in the pipe may go (a queue is emptied from its head, or removed between the
  hands of the workers). `ThreadModel` and `SerialModel` are checked to implement it
  (property `ImplementsStore`), and `ThreadModel` is proved to.
* **Pipeline** has the two workers and the kernel queue. One action per step of the
  code between two accesses to shared state; the control points `epc` and `dpc` are
  named after the place in the loop (`check` the test of `gbl_done`, `read`, `stat`
  the query of the queue's attributes after the read, `rot` the test of the rotate
  condition, `stats` the rotation, `off` CAS_OFF, `write`, then `close`, `drain` and
  `fini` after the loop). The switches are parameters of the actions because they
  live in the address space of the worker, which differs between the thread and the
  process model. A datagram is its number in order of receipt and whether it is a
  rotate command; the zeroed buffer is number 0.
  `written` is the concatenation of all journals and `cuts` its length at each close.
* **ThreadModel** composes the workers with the signal thread, the main thread and
  the sender of signals, adds the switches, and states the properties.
* **ProcessModel** composes the same workers as processes under the supervisor of
  `process_model.c`, whose control points follow its loop (test of `gbl_done`, the two
  starts, `wait`, passing on of a rotate signal, `sleep` and SIGQUIT, final `wait`). Each
  worker has a process state: `fork` (handlers of the parent, in a memory that exec throws
  away), `boot` (after exec, before its own handlers: any signal kills), `run`, and dead,
  either exited or killed. Signals are pending until the process takes them; one that
  arrives during a blocking call of the worker may end the call with EINTR, which makes
  `mq_send` give its packet up. A worker can be killed at any moment with what it holds.
  The run of this module identifies states that differ only in statistics
  (`VIEW WithoutStatistics`), which no step and no property of it reads.
* **SerialModel** has `serial_model.c`. A signal handler runs to its end between two
  steps of the loop. The clock that paces depth tests is abstracted: after a receipt
  a test may be due.
* **Journal** has the files on disk below `written` and `cuts`: the path of each
  journal, archived names, the buffer of the process, a clock in seconds, crashes at
  any point and failed renames. The constant `Apart` says whether starts, rotations
  and stops lie at least a second apart.
* **Stats** has both structures of `stats.c` with every counter, and the mondemand
  client, driven by an enqueuer and a dequeuer reduced to the order in which they call
  them: receipt and count, loss at a full queue, socket errors, rotation at any moment
  (between the count of a packet and its write too), both finishes. `counted` is the
  history the burst properties are stated over. The time of the last rotation and the
  rates, which are only printed, are left out.
* **Header** has the codec byte by byte in base `Base`, the two reused message buffers
  with what each clearing leaves, the queue and the journal as byte sequences, and the
  rotate command as one of the datagrams. Field widths, the cleared length and the
  command names are constants; **MCHeader** gives them small values in the same relation
  as in the code (22 header bytes, 20 cleared bytes of the body, a 16-byte rotate name,
  a 23-byte depth name).
* **JournalFiles**, **Split**, **Emitter**, **EventStats** and **Tools**: journals as
  sequences of events that may end in a cut one; the three tools, one module each;
  and a user who runs one tool after the other on one disk, so that the emitter reads
  the pieces that the splitter wrote. A file name is the pair of times in it.
  **MCTools** gives the journals. The clock advances by the work between two reads of
  it and by what `usleep` sleeps, which a signal cuts short.
* **Interval**, **LogFiles** and **Journaller**: the arithmetic of the rotation timer
  with the clock and the timer it sets; the log streams, which are shared, reopened and
  closed; and the program around its three models: command lines, validation, both
  forks, pid file, handlers, the reopening of the logs by SIGUSR1 in each of the models,
  the end. **MCJournaller** gives the command lines. `missed` is the set of writers whose
  signal was lost in one of the windows described below.
* **PipelineProofs** has the lemmas about the workers' steps, which **ThreadModelProofs** and
  **ProcessModelProofs** share; **SerialModelProofs**, **JournalProofs**, **StatsProofs**,
  **HeaderProofs** and **JournallerProofs** have the theorems about the module they are
  named after.

Operators called `Mut...` are wrong variants of the operator that follows them, each
a plausible slip in the code; replacing the original by one of them makes TLC report
the property named with it in `PROJECT.json`. They are used by no specification.

## 3. Runs

| Run | What it shows | Bounds |
|---|---|---|
| `thread_mq` | default configuration, all safety properties | queue of 2, 3 datagrams of both kinds, 1 HUP, TERM at any time |
| `thread_msg` | System V queue, its removal and its retries, failing calls; the refinement | queue of 1, 2 datagrams, 1 retry, 1 HUP |
| `thread_live` | liveness, with failing journal calls and a packet left by an earlier run | queue of 1, 2 datagrams, 1 HUP |
| `process` | the supervisor, starts and restarts, signals at every stage, failing fork and exec | queue of 1, 2 datagrams, 1 HUP, 1 killed worker |
| `process_term` | finding | queue of 1, 1 datagram, no faults |
| `journal` | durability, no duplicates, names | 2 paths, both types, 4 seconds, 3 packets, 2 crashes, 1 failed rename |
| `journal_same_second` | finding | 1 path, 4 seconds, 4 packets, no faults |
| `serial` | the serial model, safety, liveness, failing calls | socket buffer of 2, 2 datagrams, 2 depth tests, 1 failed read, 2 HUPs |
| `stats` | all counters of both workers, bursts, reports to mondemand | queue of 2, 4 packets, 1 socket error, 2 rotations of each worker, 2 times |
| `header` | packets through both buffers, the queue and the journal | base 4, 9 header bytes, 3 cleared bytes, 3 packets out of 7 datagrams of 0 to 5 bytes |
| `tools` | the three tools, alone and one after the other | journals of up to 3 events, 2 times, pieces of 1 or 2, rates, timings, repetition, 4 emissions |
| `program` | start-up, pid file, logs, timer, in all models | about 200 command lines, 2 renames of the log, 2 SIGUSR1, 1 failed open, a day of 6 seconds of 2 milliseconds of 2 microseconds, intervals 1 to 4 |

The bounds are the smallest with which the interesting cases happen: a queue of two
with three datagrams is empty, partly filled and full with one packet in each
worker's hands; a HUP and rotate commands (in `serial` two HUPs) are needed for a
request to arrive while another is served; a
second crash hits the recovery from the first; four seconds separate start, two
rotations and a stop; two rotations of the statistics put one before, inside and after a
burst of two; three packets let a long one leave bytes behind for a short one and this one
for a third; a day of 6 seconds has intervals that divide it and one (4) that does not.
Retries (99 in the code) only need to be none, one and used up.
Deadlock is checked wherever the program cannot stop: not for the System V queue,
where the dequeuer can hang (see below), not for `Journal`, `Stats`, `Header` and
`Journaller`, whose bounds end (as the program does), not for `tools`, which end, and not for
`process`: a supervisor that cannot fork exits and leaves a worker behind, perhaps blocked
in `mq_send`.

### Properties

`InOrder`, `Accounted`, `LossOnlyAtShutdown` and `LeftoverBound` say where packets are;
`NoSpuriousRotation` and `RequestServed` that rotations happen for a reason and
requests are not forgotten (a HUP that arrives while another one is being served may
be merged with it, but then everything written before it is in a closed journal);
`ReportsExact` (`StatsAddUp` and `ReportsFollowJournals`) relates the statistics to the
journals: the count in a report differs from the content of its journal by the packet that the
dequeuer holds, which is counted before a rotation and written after it.
`LeftoverBound` is the exact form of the comment "Empty the journaller system queue
upon shutdown" (`src/queue_to_journal.c:221`): the enqueuer may send one packet after
the drain, and the POSIX queue keeps it for the next run.
In `ProcessModel`, `LossExplained` gives the cause of every loss before SIGQUIT is sent (a
killed worker, a failed write, a signal that interrupts `mq_send`), `NoSpuriousRotation`
says that a rotate signal passed on rotates at most once, and `Supervised` that the
supervisor never waits with a worker missing that it does not know of.
`PacketsKept` is type, order and accounting across restarts.
In `SerialModel`, `CountsExact` has the type, the sums of the statistics and the reasons of
rotations; `DepthExact` says that the depth test measures the socket buffer.
In `Journal`, `DurableOnce` is the type, `DurableIfTolerable` and `NoDuplicates`.
`DurableIfTolerable` holds for any number of crashes without a failed rename and for
one failed rename without a crash. `IntervalCovers` is about plain files only: a
compressed journal left by a crash is named from `st_ctime`
(`src/journal_gz.c:80`), which is later than its packets although the comment above
says "Crashed files may include data from the past."

In `Stats`, `CountsAgree` compares the two workers' counts in packets and bytes across the
queue and bounds the losses of a period; `EveryPeriodSentOnce` says that mondemand gets
every period exactly once, although both a rotation and the destructor send; and
`BurstsReported` compares high-water mark, burst and burst times with a definition over the
history of all packets.
In `Header`, `CodecSound` says that the records of the journal are read back with the length,
time, address, port and body of what was received, and that the reserved bytes are zero;
`NamesFromOwnBytes` that a packet is taken for a command because of its own bytes. For
the depth name only the cleared prefix can be claimed: the last three of its 23
bytes may stem from an earlier packet.
In `Tools`, `SplitCorrect` has: a split that reports success has all events in order
(`SplitComplete`), pieces have the events their names say (`PiecesFaithful`), and a piece is
replaced only by one with the same times. `EmissionCorrect` has order, exit status and at
most one emission after a signal; `EmissionPaced` the rate of `-r` and the distances of `-t`;
`TablesExact` the table and the totals of `lwes-journal-stats` while sizes fit a short;
`SplitThenEmit` composes the tools; `SignalEnds` is liveness.
In `Journaller`, `PidFileCorrect` says which process the pid file names and who may leave or
remove it, `StatusMeans` what the caller may conclude from the exit status, `LogNotForgotten`
and `LogsSound` that a log is reopened for each SIGUSR1, once, and not used after it was
closed, and `TimerRound` that the timer goes off at round times of the day and is off only
when it was set in the first millisecond of a second.

### Fairness

`ThreadModel!Fairness` is weak fairness of each of the four threads: the kernel runs a
thread that can run. A worker that waits for the network or for a POSIX queue can
always run, because its wait ends by the timeout `arg_wakeup_interval_ms`; a worker
that waits in `msgrcv` or in `mq_send` on a full queue cannot, which is what the
System V findings are about. Nothing is assumed of the arrival of datagrams or
signals. In `SerialModel` the only process is scheduled. In `ProcessModel` the supervisor
and each worker are scheduled and pending signals are delivered; kills and signals from
outside need not come. In `Tools` the tool that runs is scheduled. `Stats`, `Header`,
`Journal` and `Journaller` have safety properties only and assume no fairness.

### Findings

* `process_term`: a termination signal between the supervisor's test of `gbl_done` and
  its `wait` is not acted on.
* `journal_same_second`: two rotations in one second overwrite an archived journal.

Four more are seen by changing a configuration:

* With a System V queue and no traffic a rotate signal is not served
  (`src/queue_msg.c:174`): `HupArchives` under `FairSpec` with `QueueType = "msg"`.
* With a System V queue a termination signal during start-up can leave the dequeuer
  blocked in the drain: `ShutdownCompletes`, likewise.
* A journal left by a crash is truncated when its rename fails (`src/journal_file.c:79`):
  `Durable` in `Journal` with one crash and one failed rename.
* A HUP between two tests of a switch makes the serial model rotate the journal without its
  report: `ReportMatchesJournal` in `SerialModel` with three datagrams.

Further observations made while modelling, each of them visible in the definition named:

* `Stats`: what the log calls "Highest burst since last rotate" (`src/stats.c:236`) is the
  last one that ended (`EndBurst`); a burst that a rotation cuts keeps its packets and its
  high-water mark for the next period.
* `Header`: on a little-endian machine the address is stored byte by byte the other way
  round, and turned again when it is printed (`HostLong`, `InetNtoa`).
* `Split`: pieces with the same first and last time replace each other; a journal whose
  number of events is a multiple of the size of a piece ends with a file without events,
  whose first time is 0; the result of `gzclose` is ignored, and after a failed rename the
  closed file is closed again.
* `Emitter`: `-t` together with `-r` keeps the timings but not the rate; with `-d` and
  journals without events nobody looks at `gbl_sig`; a sleep of more than 2^32
  microseconds is cut off.
* `EventStats`: with 59 added bytes, sizes from 65477 wrap in the unsigned short that
  holds minimum and maximum.
* `Interval`: in the first millisecond of a second `tv_usec` becomes 1000000, `setitimer`
  refuses it and no timer runs; intervals that do not divide a day start anew at midnight.
* `Journaller`: the pid file is written before handlers are installed, so an early signal
  leaves it behind; a second journaller overwrites and then deletes it; an unknown
  `--thread-type` is logged and then ends as a normal shutdown; after `chdir ("/")` a
  relative `argv[0]` makes `execvp` fail; only the first journal's name is validated; exit
  status 0 of a daemon means that it forked.
* `Journaller`: a SIGUSR1 is lost between `get_log` and CAS_OFF, to a supervisor outside
  `wait`, and to a child before `execvp`; the children of a daemon log to /dev/null until
  their first SIGUSR1; the serial model never switches `gbl_rotate_main_log` off
  (`src/serial_model.c:300`) and reopens its log in every iteration; threads without
  `--log-file` share one stdout, which each of them closes.

## 4. Proofs

The assumptions on constants are the ones the modules state (`PipelineAssumption`,
`ThreadAssumption` and so on); TLC evaluates each of them in a run. Nothing else is assumed,
with one exception that is a hypothesis of the theorems it is needed for (`Apart`, below).
Every property is proved as its run checks it, from an inductive invariant that is a
conjunction of named parts, with one step for each action or for each group of actions that
leave the part alone.

### The workers: `PipelineProofs`

Lemmas about single steps of the enqueuer and the dequeuer, with the switches they read as
arbitrary Booleans, so that they hold in threads and in processes. `TypeInv` adds to the
types that the counter of the drain is not negative while the drain goes on; `OrderInv` that
no packet has a number above `nrecv`; `AccountInv` that the seven places a packet can be in
are disjoint and hold exactly `1..nrecv`. Lemma `Move` shows that moving packets from one
place to another keeps this; each action is such a move, the receipt of a new packet, or
moves nothing (`Stay`). `InLoops` says that a worker in its loop has the handle of the one
queue that exists.

### `ThreadModelProofs`

For every queue type, capacity, number of retries, datagrams and signals, and every set of
failing calls:

* `TypeCorrect`, `OrderCorrect`, `AccountCorrect`: the invariants above.
* `LossCorrect` (`LossOnlyAtShutdown`). `LossInv` says why nothing is lost before `gbl_done`:
  neither worker has left its loop, so no destructor has removed the queue, and
  `DeqStatFails` is not enabled.
* `RequestCorrect` (`RequestServed`, an action property): `ServedInv` says that between the
  rotation and CAS_OFF everything written is in a closed journal, unless the shutdown
  has begun.
* `RotationsCorrect` (`NoSpuriousRotation`): an amortised count. `Balance` adds to the journals
  closed one credit for each rotation still to come: for a rotate command in the
  dequeuer's hands that it has not yet rotated for (`CommandHeld`), for the switch that is
  on and not yet served (`Switched`), for a signal that is pending (`Pending`) or between
  the two switches (`Turning`); the sum never exceeds commands taken and signals sent.
  `Justified` says that a dequeuer about to rotate has one of the first two.
* `LeftoverCorrect` (`LeftoverBound`): `LastInHand` says that the packet the enqueuer holds is
  the last one received, `Phases` how far the drain has come, `Handles` which handles are
  usable, and `Room` that the reads left to the drain suffice for what is in the queue and
  what the enqueuer may still send.
* `ReportsCorrect` (`ReportsExact`): `Even` and `Odd` say in
  which states the dequeuer's counts are complete, or lack the one packet forgotten at the
  removal of a System V queue; `Paired` and `Follow` relate each report to its journal.
* `StoreImplemented`: `Spec => ImplementsStore`, the refinement of `EventStore`. What is
  in flight is a concatenation of three parts, the dequeuer's hands, the queue and the
  enqueuer's hands (`FlightIs`). Sending and taking move a packet across the border of
  two parts and leave the whole as it is (`SendKeeps`, `TakeKeeps`); a write removes the
  head (`OldestGoes`); the lemmas `StoreAccepts`, `StoreRefuses` and `StoreDiscards` are
  the steps of the pipe on the parts. `LossInv` gives the guard of `Discard`.

### `ProcessModelProofs`

For any number of kills, restarts and signals:

* `PacketsCorrect` (`PacketsKept`): `KeptInv`; what a killed worker held moves to the place
  for packets given up, in the one step of its death.
* `SupervisedCorrect` (`Supervised`): `SupervisedInv` relates the supervisor's control point
  and its two pids to the states of the processes.
* `LossCorrect` (`LossExplained`): `SignalInv` says which signals can be pending where (SIGQUIT
  only once the supervisor has sent it), `LossInv` which causes have occurred.
* `RotationsCorrect` (`NoSpuriousRotation`): the same kind of `Balance`, with credits for the
  supervisor's switch, a signal pending at the dequeuer, the dequeuer's switch, and the
  close after SIGQUIT;
  `Parked` and `Fresh` say that a worker that is being started has none of them.

### `SerialModelProofs`

* `DepthCorrect` (`DepthExact`, an action property): `DepthInv` says of every test in the
  socket buffer that what had been received and what was ahead of it at its sending are
  what has been received and what is ahead of it now.
* `CountsCorrect` (`CountsExact`): `EventInv` (identifiers in the buffer are new),
  `StatsInv` (the sums), and a `Balance` with credits for a rotation begun, a switch
  that will cause another one, and a rotate command just read.
* `StoreImplemented` (`ImplementsStore`): the refinement of `EventStore`. What is in flight
  is `EventsOf(sock)`, the events among the datagrams of the socket buffer. Lemmas
  `EventsAppend`, `EventsHead` and `EventsEmpty` say what an arrival and a read change in it,
  for buffers of any length; a depth test that comes or goes is a stutter of the pipe.

### `JournalProofs`

* `DurableCorrect` (`DurableOnce`) and `NamesCorrect` (`NamesInOrder`) have the hypothesis
  `Apart = TRUE`: starts, rotations and stops lie at least a second apart. Without it both
  fail; run `journal_same_second` has the counterexample. `NameInv` says that the last
  opening of a file that is about to be renamed was in an earlier second and that no name of
  this second is in the archive then, `RecoverInv` that a path about to be truncated has no
  packets (`Tolerable`: after any number of crashes without a failed rename, or one failed
  rename without a crash), `OrderInv` and `TimeInv` relate files to the order and
  times of their packets, `BufferInv` and `FileInv` the buffer to the files.
* `IntervalCorrect` (`IntervalCovers`) needs no hypothesis.

### `StatsProofs`

* `PeriodsCorrect` (`EveryPeriodSentOnce`): `StatsInv` adds that a client is gone only when
  its worker has finished. Lemmas `FlushAgrees` and `DestroyAgrees` say that setting the
  values and then flushing, or destroying the client, sends a period exactly once.
* `PacketsCorrect` (`PacketsAgree`) and `LossesCorrect` (`LossBound`), two parts of
  `CountsAgree`. The bound of the losses needs the finer `LossInv`: while the
  dequeuer holds a packet that it has counted, or a period has just begun, the losses
  do not exceed the packets at all.
* `BurstsCorrect` (`BurstsReported`): `BurstsInv` says what the fields of `dst` mean in terms
  of the history. `CurrentBurst`: the packets since the last one that left the queue empty
  are the current burst, and `hiq` is their highest number of messages left.
  `HighWaterInv`: `hiq_since_last_rotate` bounds the bursts that reach into the period and is
  attained in one. `LastBurst`: the burst in the report is the one before the last packet of
  the period that emptied the queue. `StartsInv`: the times are those of the last two first
  packets. The step that matters is the count of a packet, in the cases "goes on with
  the burst or starts one" (`RecordInBurst`), "ends it" (`RecordEndsBurst`) and "no burst"
  (`RecordNoBurst`).
* `CountsCorrect` (`CountsAgree`): all counters, those of bytes too. `RangesInv` says
  what numbers the fields can be; `BytesInv` that the bytes received are a header for each
  packet and the bytes written, lost, in the queue and in the dequeuer's hands. The bytes of
  the queue are a fold (`Total`), and lemmas say what appending to the queue and taking its
  head do to it.

Lemmas on each function of `stats.c` (`EnqRecordCounts`, `DeqRecordCounts` and so on) say
what it does to the counts.

### `HeaderProofs`

For every base of the bytes, widths of the fields, names, datagrams and byte order that
`HeaderAssumption` admits (a name's first byte is its length, the cleared part of the buffer
reaches over the rotate name, values fit their fields), and any number of packets:

* `NamesCorrect` (`NamesFromOwnBytes`): `BufferInv` says of both buffers that the bytes
  behind the packet that was written last are zero as far as the buffer is cleared (`Clean`).
  The rotate name lies within what is cleared, and no name has a zero byte, so a match cannot
  use what an earlier packet left.
* `CodecCorrect` (`CodecSound`): `QueueInv` says that the queue holds the messages (`Message`) of
  the packets received last; `JournalInv` that the journal can be cut (`Cuts`) into the
  messages of those before, and that the reader is at a cut and has read those before it.
  Lemma `Layout` says where in a message each field and the body are;
  `UnmarshalMarshal` and `MarshalUnmarshal` that the two codecs undo each other on what fits.

### `JournallerProofs`

For every set of command lines and failing calls (`JournallerAssumption`,
`LogFilesAssumption`, `IntervalAssumption`):

* `PidCorrect` (`PidFileCorrect`) and `StatusCorrect` (`StatusMeans`): `StageInv` relates
  control point, processes and exit status, `PidInv` the pid file to both.
* `NotForgottenCorrect` (`LogNotForgotten`): `ServedInv` says of each writer that is behind where
  its reopening comes from: its switch, a signal pending, a supervisor that will pass
  the signal on, a step that is about to reopen, or an entry in `missed`. `ModeInv` says which
  processes and threads there are in each model, `StreamInv` who shares a stream.
* `LogsCorrect` (`LogsSound`): `OnceInv` says that the reopenings of a writer, its switch
  if it is on and the signal if it is on its way are at most the SIGUSR1 sent.
* `RoundCorrect` (`TimerRound`): lemmas about quotients and remainders give the time of the
  next round interval, and `TimerInv` that the timer is set for it.

### Induction over data

The theorems on sums, on codecs and on what is in flight need inductions over numbers and
sequences, and the library's induction rules take an operator, which the provers cannot
instantiate. Lemma `SetInduction` is a rule without one: a set that has 0, and with each
number the next one, includes `Nat`. It follows from the well-foundedness of `<`, and each
use of it defines the set of lengths for which the claim holds. The recursive functions are
shown to exist and to be unique in the same way (`TableExists`, `PowersExist`,
`EventsExist`). The rule is stated in each of the three modules that use it: `HeaderProofs`,
`StatsProofs` and `SerialModelProofs`.

### Only model-checked

* Liveness under fairness (`EventuallyJournalled`, `HupArchives`, `ShutdownCompletes`,
  `SignalEnds`): the prover has no rule for ENABLED.
* The properties of `Tools` (`SplitCorrect`, `EmissionCorrect`, `EmissionPaced`, `TablesExact`,
  `SplitThenEmit`). All but `EmissionPaced` are about pieces sorted by their names, joined
  sequences and sums over sets of names, which are folds whose order is an arbitrary choice,
  and need first a theory of those folds, by the induction above. The tools are sequential
  and write nothing the journaller reads, so the workers and the journals came first.

## 5. Not modelled, and the plan

Not modelled on purpose: the text and level of log messages, real-time scheduling, message
sizes and resource limits of the queues, `chown` and the test for free disk space, the
reading side of the journal classes, the choice of the mondemand host (`src/opt.c:374`),
`header_fingerprint` (which nothing calls), the vendored `libut`, and calls whose
result is undefined: a file name with fewer than three parts given to the splitter, an
emitter without `-o`. The deadline of `mq_timedreceive` (`src/queue_mqueue.c:132`) is
computed from whole seconds and is often in the past; `Pipeline` has no time, so
a read of an empty queue may end at any moment, which covers it.

Next, in this order:

1. Theorems about `Tools`, the pacing of the emitter first, which needs no fold.
2. More of **ProcessModel**: children that outlive the supervisor, and the System V queue,
   which a finishing worker removes and a restarted one creates again.
