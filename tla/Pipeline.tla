------------------------------ MODULE Pipeline ------------------------------
(***************************************************************************)
(* The two workers of the journaller and the kernel message queue between  *)
(* them: xport_to_queue (the enqueuer) reads datagrams from the UDP        *)
(* transport and writes them to the queue, queue_to_journal (the dequeuer) *)
(* reads the queue and writes the journal.                                 *)
(*                                                                         *)
(* The same two functions run as threads of one process (ThreadModel) and  *)
(* as child processes of a supervisor.  The global switches they test      *)
(* (gbl_done and gbl_rotate_...) live in the address space of the worker,  *)
(* so they are parameters of the actions here and variables of the module  *)
(* that composes the workers.  Every test of a switch is a step of its     *)
(* own: a signal may be delivered between any two of them.                 *)
(*                                                                         *)
(* A datagram is abstracted to its order of receipt and to whether it is a *)
(* Command::Rotate event.  The journal is the sequence of all the packets  *)
(* written to it, cut where a journal file was closed and renamed; how     *)
(* files and names implement that is the subject of module Journal.        *)
(* Rotation of the log file (gbl_rotate_..._log) is left out.              *)
(***************************************************************************)
EXTENDS Integers, Sequences, FiniteSets, Functions

CONSTANTS
  QueueType,    \* arg_queue_type: "mq" (POSIX) or "msg" (System V)
  QueueMaxCnt,  \* arg_queue_max_cnt: messages the queue holds
  MaxRetry,     \* retries of msgsnd on a full queue (99 in queue_msg.c)
  Kinds,        \* whether the datagrams that arrive are rotate commands
  MaxEvents,    \* bound: datagrams received in a behaviour
  MaxLeftover,  \* bound: packets an earlier run left in a POSIX queue
  Faults        \* the calls that may fail in a behaviour

AllFaults == {"queue_open", "socket", "journal_open", "journal_close",
              "journal_write", "fork"}

ASSUME PipelineAssumption ==
  /\ QueueType \in {"mq", "msg"}
  /\ QueueMaxCnt \in Nat \ {0}
  /\ MaxRetry \in Nat
  /\ Kinds \subseteq BOOLEAN
  /\ MaxEvents \in Nat
  /\ MaxLeftover \in 0..(IF QueueType = "mq" THEN QueueMaxCnt ELSE 0)
  /\ Faults \subseteq AllFaults

Event == [id: Nat, rotate: BOOLEAN]

\* The message buffer after memset(buf, 0, HEADER_LENGTH+20).
Zeroed == [id |-> 0, rotate |-> FALSE]

VARIABLES
  \* enqueuer: control point, message buffer, result of the last read,
  \* retries left in the current queue write, queue handle
  epc, ebuf, eret, retry, eq,
  \* dequeuer: the same, and the counter of the shutdown drain
  dpc, dbuf, dret, dq, max,
  \* kernel queue: contents, generation (a new one each time a removed
  \* System V queue is created again), whether it exists
  mq, mqGen, mqLive,
  \* packets that left the queue unread: discarded by the drain at shutdown
  \* or removed together with the queue
  discarded,
  \* number of datagrams received
  nrecv,
  \* journal: every packet written; the length of written at each close
  written, cuts,
  \* packets_received_since_last_rotate and what was reported of it so far
  esince, ereported,
  \* packets_written_since_last_rotate, and what the counts reported so far
  \* come to, after each report
  dsince, reports,
  \* packets given up: not accepted by the queue, taken from the queue and
  \* not written to the journal
  dropped, unwritten

eloc == <<ebuf, eret, retry, eq>>
ecnt == <<nrecv, esince, ereported, dropped>>
evars == <<epc, eloc, ecnt>>
jvars == <<written, cuts, dsince, reports, unwritten>>
dloc == <<dbuf, dret, dq, max>>
dvars == <<dpc, dloc, jvars>>
qvars == <<mq, mqGen, mqLive, discarded>>
pvars == <<evars, dvars, qvars>>

EnqPC == {"start", "check", "read", "rot", "stats", "off", "write", "fini",
          "done", "exit"}
DeqPC == {"start", "check", "read", "stat", "rot", "stats", "off", "write",
          "close", "drain", "fini", "done", "exit"}

\* No handle: ppriv->mq == -1.
Closed == 0

\* A POSIX queue survives the process: it may still hold packets received
\* by an earlier run, numbered here before the ones of this run.
PipelineInit ==
  /\ epc = "start" /\ ebuf = Zeroed /\ eret = "intr" /\ retry = 0
  /\ eq = Closed
  /\ dpc = "start" /\ dbuf = Zeroed /\ dret = "intr" /\ max = 0
  /\ dq = Closed
  /\ nrecv \in 0..MaxLeftover
  /\ \E kind \in [1..nrecv -> Kinds] :
       mq = [i \in 1..nrecv |-> [id |-> i, rotate |-> kind[i]]]
  /\ mqLive = (nrecv > 0) /\ mqGen = IF mqLive THEN 1 ELSE 0
  /\ written = <<>> /\ cuts = <<>>
  /\ esince = 0 /\ ereported = nrecv /\ dsince = 0 /\ reports = <<>>
  /\ dropped = {} /\ unwritten = {} /\ discarded = {}

-----------------------------------------------------------------------------
(* The kernel queue.  A POSIX queue outlives every process that opened it: *)
(* nothing calls mq_close or mq_unlink.  A System V queue is removed by    *)
(* the destructor of whichever worker finishes first.                      *)

\* The generation that opening the queue with O_CREAT or IPC_CREAT yields.
OpenGen == IF mqLive THEN mqGen ELSE mqGen + 1

OpenQueue ==
  mqGen' = OpenGen /\ mqLive' = TRUE /\ UNCHANGED <<mq, discarded>>

\* A handle is usable as long as the queue it was opened on exists.
Usable(h) == mqLive /\ h = mqGen

\* queue_mqueue.c frees its memory and leaves the queue alone.
DestroyMqueue == UNCHANGED qvars

\* queue_msg.c removes the queue (IPC_RMID); errors are ignored.
DestroyMsg(h) ==
  IF Usable(h)
    THEN /\ mq' = <<>> /\ discarded' = discarded \cup Range(mq)
         /\ mqLive' = FALSE /\ UNCHANGED mqGen
    ELSE UNCHANGED qvars

DestroyQueue(h) == IF QueueType = "mq" THEN DestroyMqueue ELSE DestroyMsg(h)

\* A read that takes the oldest message.
TakeMessage(h) == Usable(h) /\ mq # <<>> /\ mq' = Tail(mq)

\* mq_timedreceive on an empty queue ends with ETIMEDOUT or EINTR: both are
\* QUEUE_INTR.  A message that is there is always returned.
MqueueInterrupted == QueueType = "mq" /\ mq = <<>>

\* msgrcv has no timeout: without a message it waits until a signal or the
\* removal of the queue (EIDRM) ends it, which is QUEUE_INTR too.
MsgInterrupted(h, signal) ==
  QueueType = "msg" /\ (~Usable(h) \/ (signal /\ mq = <<>>))

\* msgrcv called after the removal fails with EINVAL, as does msgctl.
MsgFails(h) == QueueType = "msg" /\ ~Usable(h)

-----------------------------------------------------------------------------
(* xport_to_queue *)

HeaderIsRotate(buf) == buf.rotate

\* Statistics, queue, transport and buffer are set up.
EnqStart ==
  /\ epc = "start"
  /\ OpenQueue
  /\ eq' = OpenGen
  /\ epc' = "check"
  /\ UNCHANGED <<ebuf, eret, retry, ecnt, dvars>>

\* The queue or the transport cannot be opened: exit(EXIT_FAILURE).
EnqStartFails ==
  /\ epc = "start" /\ "queue_open" \in Faults
  /\ epc' = "exit"
  /\ UNCHANGED <<eloc, ecnt, dvars, qvars>>

\* while ( ! gbl_done )
EnqCheck(done) ==
  /\ epc = "check"
  /\ epc' = IF done THEN "fini" ELSE "read"
  /\ UNCHANGED <<eloc, ecnt, dvars, qvars>>

\* A datagram arrives: the buffer was cleared, it now holds the packet with
\* its header, and the packet is counted.
EnqReceive(rotate) ==
  /\ epc = "read" /\ nrecv < MaxEvents
  /\ nrecv' = nrecv + 1
  /\ ebuf' = [id |-> nrecv + 1, rotate |-> rotate]
  /\ eret' = "event"
  /\ esince' = esince + 1
  /\ epc' = "rot"
  /\ UNCHANGED <<retry, eq, ereported, dropped, dvars, qvars>>

\* The wait for a datagram times out or is interrupted (XPORT_INTR); the
\* buffer was cleared before it.
EnqInterrupted ==
  /\ epc = "read"
  /\ ebuf' = Zeroed /\ eret' = "intr"
  /\ epc' = "rot"
  /\ UNCHANGED <<retry, eq, ecnt, dvars, qvars>>

\* Any other result of the read is counted as a socket error and skipped.
EnqSocketError ==
  /\ epc = "read" /\ "socket" \in Faults
  /\ ebuf' = Zeroed
  /\ epc' = "check"
  /\ UNCHANGED <<eret, retry, eq, ecnt, dvars, qvars>>

\* if ( header_is_rotate (buf) || gbl_rotate_enqueue || gbl_done)
EnqTestRotate(done, rotate) ==
  /\ epc = "rot"
  /\ epc' = IF HeaderIsRotate(ebuf) \/ rotate \/ done THEN "stats" ELSE "write"
  /\ retry' = MaxRetry
  /\ UNCHANGED <<ebuf, eret, eq, ecnt, dvars, qvars>>

\* enqueuer_stats_rotate: the counts are reported and restarted.
EnqStatsRotate == ereported' = ereported + esince /\ esince' = 0

\* if (! gbl_done ) rotate and flush the statistics
EnqRotateStats(done) ==
  /\ epc = "stats"
  /\ IF done THEN UNCHANGED <<esince, ereported>> ELSE EnqStatsRotate
  /\ epc' = "off"
  /\ UNCHANGED <<eloc, nrecv, dropped, dvars, qvars>>

\* Mutant: the loop continues after a rotation, without the queue write.
MutEnqSwitchOff ==
  /\ epc = "off"
  /\ epc' = "check"
  /\ UNCHANGED <<eloc, ecnt, dvars, qvars>>

\* The step after which the switch gbl_rotate_enqueue is off.
EnqSwitchOff ==
  /\ epc = "off"
  /\ epc' = "write"
  /\ UNCHANGED <<eloc, ecnt, dvars, qvars>>

\* An interrupted read has nothing to write.
EnqSkipWrite ==
  /\ epc = "write" /\ eret = "intr"
  /\ epc' = "check"
  /\ UNCHANGED <<eloc, ecnt, dvars, qvars>>

\* mq_send or msgsnd accepts the packet.  On a full POSIX queue mq_send
\* waits, that is, no action is enabled.
EnqSend ==
  /\ epc = "write" /\ eret = "event"
  /\ Usable(eq) /\ Len(mq) < QueueMaxCnt
  /\ mq' = Append(mq, ebuf)
  /\ epc' = "check"
  /\ UNCHANGED <<eloc, ecnt, dvars, mqGen, mqLive, discarded>>

\* msgsnd with IPC_NOWAIT finds the queue full (EAGAIN) and is tried again.
EnqSendAgain ==
  /\ QueueType = "msg"
  /\ epc = "write" /\ eret = "event"
  /\ Usable(eq) /\ Len(mq) >= QueueMaxCnt /\ retry > 0
  /\ retry' = retry - 1
  /\ UNCHANGED <<epc, ebuf, eret, eq, ecnt, dvars, qvars>>

\* The retries are used up or the queue is gone: the packet is given up.
EnqSendFails ==
  /\ QueueType = "msg"
  /\ epc = "write" /\ eret = "event"
  /\ \/ ~Usable(eq)
     \/ Len(mq) >= QueueMaxCnt /\ retry = 0
  /\ dropped' = dropped \cup {ebuf}
  /\ epc' = "check"
  /\ UNCHANGED <<eloc, nrecv, esince, ereported, dvars, qvars>>

\* Mutant: an interrupted mq_send is taken for a success.
MutEnqSendInterrupted ==
  /\ QueueType = "mq"
  /\ epc = "write" /\ eret = "event"
  /\ Usable(eq) /\ Len(mq) >= QueueMaxCnt
  /\ epc' = "check"
  /\ UNCHANGED <<eloc, ecnt, dvars, qvars>>

\* A signal handler that runs while mq_send waits on a full queue ends the
\* call with EINTR, which is a write error like any other: the packet is
\* given up.  Only a worker that takes signals itself meets it.
EnqSendInterrupted ==
  /\ QueueType = "mq"
  /\ epc = "write" /\ eret = "event"
  /\ Usable(eq) /\ Len(mq) >= QueueMaxCnt
  /\ dropped' = dropped \cup {ebuf}
  /\ epc' = "check"
  /\ UNCHANGED <<eloc, nrecv, esince, ereported, dvars, qvars>>

\* After the loop: the queue object is destroyed, the last counts reported.
EnqFinish ==
  /\ epc = "fini"
  /\ DestroyQueue(eq)
  /\ EnqStatsRotate
  /\ epc' = "done"
  /\ UNCHANGED <<eloc, nrecv, dropped, dvars>>

-----------------------------------------------------------------------------
(* queue_to_journal *)

\* Statistics, queue, journal objects and buffer are set up, the first
\* journal is open.
DeqStart ==
  /\ dpc = "start"
  /\ OpenQueue
  /\ dq' = OpenGen
  /\ dpc' = "check"
  /\ UNCHANGED <<dbuf, dret, max, jvars, evars>>

\* The queue or the journal cannot be opened: exit(EXIT_FAILURE).
DeqStartFails ==
  /\ dpc = "start" /\ {"queue_open", "journal_open"} \cap Faults # {}
  /\ dpc' = "exit"
  /\ UNCHANGED <<dloc, jvars, evars, qvars>>

\* Mutant: an interrupted read ends the loop.
MutDeqCheck(done) ==
  /\ dpc = "check"
  /\ dpc' = IF done \/ dbuf = Zeroed THEN "close" ELSE "read"
  /\ UNCHANGED <<dloc, jvars, evars, qvars>>

\* while ( ! gbl_done )
DeqCheck(done) ==
  /\ dpc = "check"
  /\ dpc' = IF done THEN "close" ELSE "read"
  /\ UNCHANGED <<dloc, jvars, evars, qvars>>

\* The cleared buffer receives the oldest packet (mq_timedreceive, msgrcv).
DeqReceive ==
  /\ dpc = "read"
  /\ TakeMessage(dq)
  /\ dbuf' = Head(mq) /\ dret' = "event"
  /\ dpc' = "stat"
  /\ UNCHANGED <<dq, max, jvars, evars, mqGen, mqLive, discarded>>

\* The number of pending messages is asked for (mq_getattr, msgctl), then
\* dequeuer_stats_record counts the packet.
DeqStat ==
  /\ dpc = "stat"
  /\ Usable(dq)
  /\ dsince' = dsince + 1
  /\ dpc' = "rot"
  /\ UNCHANGED <<dloc, written, cuts, reports, unwritten, evars, qvars>>

\* The queue was removed after msgrcv: the read returns QUEUE_ERROR although
\* the packet has left the queue, and the worker forgets it.
DeqStatFails ==
  /\ dpc = "stat"
  /\ MsgFails(dq)
  /\ unwritten' = unwritten \cup {dbuf}
  /\ dpc' = "check"
  /\ UNCHANGED <<dloc, written, cuts, dsince, reports, evars, qvars>>

\* Mutant: the buffer is not cleared before the read.
MutDeqInterrupted(signal) ==
  /\ dpc = "read"
  /\ MqueueInterrupted \/ MsgInterrupted(dq, signal)
  /\ dret' = "intr"
  /\ dpc' = "rot"
  /\ UNCHANGED <<dbuf, dq, max, jvars, evars, qvars>>

\* QUEUE_INTR: the buffer stays cleared.
DeqInterrupted(signal) ==
  /\ dpc = "read"
  /\ MqueueInterrupted \/ MsgInterrupted(dq, signal)
  /\ dbuf' = Zeroed /\ dret' = "intr"
  /\ dpc' = "rot"
  /\ UNCHANGED <<dq, max, jvars, evars, qvars>>

\* Any other error of the read: back to the test of gbl_done.
DeqReadFails ==
  /\ dpc = "read"
  /\ MsgFails(dq)
  /\ dbuf' = Zeroed
  /\ dpc' = "check"
  /\ UNCHANGED <<dret, dq, max, jvars, evars, qvars>>

\* if ( header_is_rotate(buf) || gbl_rotate_dequeue || gbl_done )
DeqTestRotate(done, rotate) ==
  /\ dpc = "rot"
  /\ dpc' = IF HeaderIsRotate(dbuf) \/ rotate \/ done THEN "stats" ELSE "write"
  /\ UNCHANGED <<dloc, jvars, evars, qvars>>

\* What was reported until now.
LastReport == IF reports = <<>> THEN 0 ELSE reports[Len(reports)]

\* dequeuer_stats_rotate: the count is reported and restarted.
DeqStatsRotate ==
  reports' = Append(reports, LastReport + dsince) /\ dsince' = 0

\* Mutant: an interrupted read does not rotate the journal.
MutDeqRotateSkips(done) ==
  /\ dpc = "stats"
  /\ IF done \/ dret = "intr"
       THEN UNCHANGED <<cuts, dsince, reports>>
       ELSE DeqStatsRotate /\ cuts' = Append(cuts, Len(written))
  /\ dpc' = "off"
  /\ UNCHANGED <<dloc, written, unwritten, evars, qvars>>

\* Mutant: the count is restarted at shutdown without being reported.
MutDeqRotateResets(done) ==
  /\ dpc = "stats"
  /\ dsince' = 0
  /\ IF done
       THEN UNCHANGED <<cuts, reports>>
       ELSE /\ reports' = Append(reports, LastReport + dsince)
            /\ cuts' = Append(cuts, Len(written))
  /\ dpc' = "off"
  /\ UNCHANGED <<dloc, written, unwritten, evars, qvars>>

\* if (! gbl_done ) report the statistics, close and rename the journal and
\* open the next one
DeqRotate(done) ==
  /\ dpc = "stats"
  /\ IF done
       THEN UNCHANGED <<cuts, dsince, reports>>
       ELSE DeqStatsRotate /\ cuts' = Append(cuts, Len(written))
  /\ dpc' = "off"
  /\ UNCHANGED <<dloc, written, unwritten, evars, qvars>>

\* rotate() cannot close the journal or open the next: exit(EXIT_FAILURE).
DeqRotateFails(done) ==
  /\ dpc = "stats" /\ ~done
  /\ DeqStatsRotate
  /\ \/ "journal_close" \in Faults /\ UNCHANGED cuts
     \/ "journal_open" \in Faults /\ cuts' = Append(cuts, Len(written))
  /\ dpc' = "exit"
  /\ UNCHANGED <<dloc, written, unwritten, evars, qvars>>

\* Mutant: the loop continues after a rotation, without the journal write.
MutDeqSwitchOff ==
  /\ dpc = "off"
  /\ dpc' = "check"
  /\ UNCHANGED <<dloc, jvars, evars, qvars>>

\* The step after which the switch gbl_rotate_dequeue is off.
DeqSwitchOff ==
  /\ dpc = "off"
  /\ dpc' = "write"
  /\ UNCHANGED <<dloc, jvars, evars, qvars>>

\* Mutant: the buffer of an interrupted read is written.
MutDeqSkipWrite ==
  /\ dpc = "write" /\ dret = "intr"
  /\ written' = Append(written, dbuf)
  /\ dpc' = "check"
  /\ UNCHANGED <<dloc, cuts, dsince, reports, unwritten, evars, qvars>>

\* An interrupted read has nothing to write.
DeqSkipWrite ==
  /\ dpc = "write" /\ dret = "intr"
  /\ dpc' = "check"
  /\ UNCHANGED <<dloc, jvars, evars, qvars>>

\* The packet is written to the current journal.
DeqWrite ==
  /\ dpc = "write" /\ dret = "event"
  /\ written' = Append(written, dbuf)
  /\ dpc' = "check"
  /\ UNCHANGED <<dloc, cuts, dsince, reports, unwritten, evars, qvars>>

\* A short write is logged and counted (dequeuer_stats_record_loss).
DeqWriteFails ==
  /\ dpc = "write" /\ dret = "event" /\ "journal_write" \in Faults
  /\ unwritten' = unwritten \cup {dbuf}
  /\ dpc' = "check"
  /\ UNCHANGED <<dloc, written, cuts, dsince, reports, evars, qvars>>

\* Mutant: the drain is off by one.
MutDeqCloseOneMore ==
  /\ dpc = "close"
  /\ \/ cuts' = Append(cuts, Len(written))
     \/ "journal_close" \in Faults /\ UNCHANGED cuts
  /\ max' = QueueMaxCnt + 1
  /\ dpc' = "drain"
  /\ UNCHANGED <<dbuf, dret, dq, written, dsince, reports, unwritten,
                 evars, qvars>>

\* Mutant: the drain reads one message only.
MutDeqCloseDrainsOne ==
  /\ dpc = "close"
  /\ \/ cuts' = Append(cuts, Len(written))
     \/ "journal_close" \in Faults /\ UNCHANGED cuts
  /\ max' = 0
  /\ dpc' = "drain"
  /\ UNCHANGED <<dbuf, dret, dq, written, dsince, reports, unwritten,
                 evars, qvars>>

\* After the loop the journal is closed and renamed (a failure is only
\* logged) and the emptying of the queue begins.
DeqClose ==
  /\ dpc = "close"
  /\ \/ cuts' = Append(cuts, Len(written))
     \/ "journal_close" \in Faults /\ UNCHANGED cuts
  /\ max' = QueueMaxCnt
  /\ dpc' = "drain"
  /\ UNCHANGED <<dbuf, dret, dq, written, dsince, reports, unwritten,
                 evars, qvars>>

\* while ( read >= 0 && max-- ): one message is read and discarded.
DeqDrain ==
  /\ dpc = "drain"
  /\ TakeMessage(dq)
  /\ dbuf' = Head(mq)
  /\ discarded' = discarded \cup {Head(mq)}
  /\ max' = max - 1
  /\ dpc' = IF max = 0 THEN "fini" ELSE "drain"
  /\ UNCHANGED <<dret, dq, jvars, evars, mqGen, mqLive>>

\* Mutant: the drain loop ignores an interrupted read.
MutDeqDrainEnds(signal) ==
  /\ dpc = "drain"
  /\ MqueueInterrupted \/ MsgInterrupted(dq, signal) \/ MsgFails(dq)
  /\ UNCHANGED <<dvars, evars, qvars>>

\* The read of the drain loop returns an error, which ends the loop.
DeqDrainEnds(signal) ==
  /\ dpc = "drain"
  /\ MqueueInterrupted \/ MsgInterrupted(dq, signal) \/ MsgFails(dq)
  /\ dpc' = "fini"
  /\ UNCHANGED <<dloc, jvars, evars, qvars>>

\* The queue object is destroyed, the last statistics are reported.
DeqFinish ==
  /\ dpc = "fini"
  /\ DestroyQueue(dq)
  /\ DeqStatsRotate
  /\ dpc' = "done"
  /\ UNCHANGED <<dloc, written, cuts, unwritten, evars>>

-----------------------------------------------------------------------------
(* What a worker holds that it has received and not yet passed on. *)

EnqHolds == epc \in {"rot", "stats", "off", "write"} /\ eret = "event"
DeqHolds ==
  dpc \in {"stat", "rot", "stats", "off", "write", "exit"} /\ dret = "event"

EnqHand == IF EnqHolds THEN {ebuf} ELSE {}
DeqHand == IF DeqHolds THEN {dbuf} ELSE {}

Ids(S) == {e.id : e \in S}

EnqTypeOK ==
  /\ epc \in EnqPC /\ ebuf \in Event /\ eret \in {"event", "intr"}
  /\ retry \in 0..MaxRetry /\ eq \in Nat
  /\ nrecv \in Nat /\ esince \in Nat /\ ereported \in Nat
  /\ dropped \subseteq Event

DeqTypeOK ==
  /\ dpc \in DeqPC /\ dbuf \in Event /\ dret \in {"event", "intr"}
  /\ max \in -1..QueueMaxCnt /\ dq \in Nat

QueueTypeOK ==
  /\ mq \in Seq(Event) /\ Len(mq) <= QueueMaxCnt
  /\ mqGen \in Nat /\ mqLive \in BOOLEAN
  /\ discarded \subseteq Event

JournalTypeOK ==
  /\ written \in Seq(Event) /\ cuts \in Seq(Nat)
  /\ dsince \in Nat /\ reports \in Seq(Nat)
  /\ unwritten \subseteq Event

PipelineTypeOK == EnqTypeOK /\ DeqTypeOK /\ QueueTypeOK /\ JournalTypeOK

-----------------------------------------------------------------------------
(* Where packets are, for every composition of the workers. *)

\* Identifiers grow along a sequence, and from one set to another.
Increasing(s) == \A i, j \in DOMAIN s : i < j => s[i].id < s[j].id

Before(S, T) == \A s \in S, t \in T : s.id < t.id

\* Packets are journalled in the order of their receipt, each at most once:
\* identifiers grow from the journal over the packet the dequeuer holds and
\* the queue to the packet the enqueuer holds, whatever is lost on the way.
InOrder ==
  /\ Increasing(written) /\ Increasing(mq)
  /\ Before(Range(written), DeqHand \cup Range(mq) \cup EnqHand)
  /\ Before(DeqHand, Range(mq) \cup EnqHand)
  /\ Before(Range(mq), EnqHand)

\* The places a packet can be in.
Places ==
  <<Range(written), DeqHand, Range(mq), EnqHand, dropped, unwritten, discarded>>

\* No packet disappears silently or is in two places: every packet received
\* is in a journal, in a worker's hands, in the queue, or in exactly one of
\* the sets of packets whose loss the code accepts.
Accounted ==
  /\ UNION {Ids(Places[k]) : k \in DOMAIN Places} = 1..nrecv
  /\ \A j, k \in DOMAIN Places :
       j # k => Ids(Places[j]) \cap Ids(Places[k]) = {}

\* The rotate commands the dequeuer has taken from the queue.
RotateCommandsTaken ==
  {e \in Range(written) \cup unwritten \cup DeqHand : e.rotate}

\* The packets in closed journals are the first LastCut ones.
LastCut == IF cuts = <<>> THEN 0 ELSE cuts[Len(cuts)]

=============================================================================
