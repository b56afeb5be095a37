---------------------------- MODULE ThreadModel ----------------------------
(***************************************************************************)
(* thread_model.c: the journaller as one process of four threads.  The     *)
(* main thread blocks every signal and starts a signal thread, which turns *)
(* signals into the global switches, the dequeuer and the enqueuer; then   *)
(* it polls gbl_done and joins the others.  Signals never interrupt the    *)
(* system calls of the workers: only the signal thread takes them.         *)
(*                                                                         *)
(* SIGINT, SIGQUIT and SIGTERM are "TERM"; SIGHUP and SIGALRM, the timer   *)
(* of --journal-rotate-interval, are "HUP".  A signal that is pending is   *)
(* not queued a second time.                                               *)
(***************************************************************************)
EXTENDS Pipeline

CONSTANT MaxHup    \* bound: rotate signals sent in a behaviour

ASSUME ThreadAssumption == MaxHup \in Nat

VARIABLES
  gbl_done, gbl_rotate_enqueue, gbl_rotate_dequeue,
  sigpend,   \* signals pending for the process
  spc,       \* control point of the signal thread
  mpc,       \* control point of the main thread
  nhup       \* rotate signals sent

gvars == <<gbl_done, gbl_rotate_enqueue, gbl_rotate_dequeue>>
svars == <<sigpend, spc>>
vars == <<pvars, gvars, svars, mpc, nhup>>

Signals == {"TERM", "HUP"}

Init ==
  /\ PipelineInit
  /\ gbl_done = FALSE
  /\ gbl_rotate_enqueue = FALSE /\ gbl_rotate_dequeue = FALSE
  /\ sigpend = {} /\ spc = "check"
  /\ mpc = "loop"
  /\ nhup = 0

\* exit(EXIT_FAILURE) in a worker ends every thread.
Exited == epc = "exit" \/ dpc = "exit"

AllJoined == mpc = "done"

-----------------------------------------------------------------------------
(* The environment sends signals. *)

\* SIGHUP, or the SIGALRM of the interval timer.
SendHup ==
  /\ nhup < MaxHup
  /\ nhup' = nhup + 1
  /\ sigpend' = sigpend \cup {"HUP"}
  /\ UNCHANGED <<pvars, gvars, spc, mpc>>

SendTerm ==
  /\ "TERM" \notin sigpend /\ ~gbl_done
  /\ sigpend' = sigpend \cup {"TERM"}
  /\ UNCHANGED <<pvars, gvars, spc, mpc, nhup>>

-----------------------------------------------------------------------------
(* signal_thread *)

\* while (! gbl_done )
SigCheck ==
  /\ spc = "check"
  /\ spc' = IF gbl_done THEN "done" ELSE "wait"
  /\ UNCHANGED <<pvars, gvars, sigpend, mpc, nhup>>

\* sigwait returns SIGINT, SIGQUIT or SIGTERM: CAS_ON(gbl_done).
SigTerm ==
  /\ spc = "wait" /\ "TERM" \in sigpend
  /\ sigpend' = sigpend \ {"TERM"}
  /\ gbl_done' = TRUE
  /\ spc' = "check"
  /\ UNCHANGED <<pvars, gbl_rotate_enqueue, gbl_rotate_dequeue, mpc, nhup>>

\* sigwait returns SIGHUP or SIGALRM: the switches are set one by one.
SigHup ==
  /\ spc = "wait" /\ "HUP" \in sigpend
  /\ sigpend' = sigpend \ {"HUP"}
  /\ gbl_rotate_enqueue' = TRUE
  /\ spc' = "hup"
  /\ UNCHANGED <<pvars, gbl_done, gbl_rotate_dequeue, mpc, nhup>>

SigHupDequeue ==
  /\ spc = "hup"
  /\ gbl_rotate_dequeue' = TRUE
  /\ spc' = "check"
  /\ UNCHANGED <<pvars, gbl_done, gbl_rotate_enqueue, sigpend, mpc, nhup>>

SignalThread == SigCheck \/ SigTerm \/ SigHup \/ SigHupDequeue

-----------------------------------------------------------------------------
(* The workers, with the switches they read and clear.  No system call of  *)
(* theirs is interrupted by a signal: the parameter signal is FALSE.       *)

\* CAS_OFF(gbl_rotate_enqueue)
EnqCasOff ==
  EnqSwitchOff /\ gbl_rotate_enqueue' = FALSE
               /\ UNCHANGED <<gbl_done, gbl_rotate_dequeue>>

\* CAS_OFF(gbl_rotate_dequeue)
DeqCasOff ==
  DeqSwitchOff /\ gbl_rotate_dequeue' = FALSE
               /\ UNCHANGED <<gbl_done, gbl_rotate_enqueue>>

EnqStep ==
  \/ EnqStart \/ EnqStartFails
  \/ EnqCheck(gbl_done)
  \/ \E rotate \in Kinds : EnqReceive(rotate)
  \/ EnqInterrupted \/ EnqSocketError
  \/ EnqTestRotate(gbl_done, gbl_rotate_enqueue)
  \/ EnqRotateStats(gbl_done)
  \/ EnqSkipWrite \/ EnqSend \/ EnqSendAgain \/ EnqSendFails
  \/ EnqFinish

DeqStep ==
  \/ DeqStart \/ DeqStartFails
  \/ DeqCheck(gbl_done)
  \/ DeqReceive \/ DeqStat \/ DeqStatFails
  \/ DeqInterrupted(FALSE) \/ DeqReadFails
  \/ DeqTestRotate(gbl_done, gbl_rotate_dequeue)
  \/ DeqRotate(gbl_done) \/ DeqRotateFails(gbl_done)
  \/ DeqSkipWrite \/ DeqWrite \/ DeqWriteFails
  \/ DeqClose \/ DeqDrain \/ DeqDrainEnds(FALSE)
  \/ DeqFinish

Enqueuer ==
  /\ (EnqStep /\ UNCHANGED gvars) \/ EnqCasOff
  /\ UNCHANGED <<svars, mpc, nhup>>

Dequeuer ==
  /\ (DeqStep /\ UNCHANGED gvars) \/ DeqCasOff
  /\ UNCHANGED <<svars, mpc, nhup>>

-----------------------------------------------------------------------------
(* thread_model, after it has created the threads *)

\* while ( ! gbl_done ) sleep(1)
MainLoop ==
  /\ mpc = "loop" /\ gbl_done
  /\ mpc' = "join_xport_to_queue"
  /\ UNCHANGED <<pvars, gvars, svars, nhup>>

\* pthread_join of one thread after the other
MainJoin ==
  /\ \/ mpc = "join_xport_to_queue" /\ epc = "done"
        /\ mpc' = "join_queue_to_journal"
     \/ mpc = "join_queue_to_journal" /\ dpc = "done"
        /\ mpc' = "join_signal"
     \/ mpc = "join_signal" /\ spc = "done"
        /\ mpc' = "done"
  /\ UNCHANGED <<pvars, gvars, svars, nhup>>

MainThread == MainLoop \/ MainJoin

-----------------------------------------------------------------------------
\* The process has ended: nothing happens any more.
Ended == (AllJoined \/ Exited) /\ UNCHANGED vars

Running ==
  SendHup \/ SendTerm \/ SignalThread \/ Enqueuer \/ Dequeuer \/ MainThread

Next == (~AllJoined /\ ~Exited /\ Running) \/ Ended

\* The kernel schedules every thread that can run.  Nothing is assumed of
\* the arrival of datagrams or signals.
Fairness ==
  /\ WF_vars(~Exited /\ SignalThread)
  /\ WF_vars(~Exited /\ Enqueuer)
  /\ WF_vars(~Exited /\ Dequeuer)
  /\ WF_vars(~Exited /\ MainThread)

Spec == Init /\ [][Next]_vars

FairSpec == Spec /\ Fairness

-----------------------------------------------------------------------------
SwitchTypeOK ==
  /\ gbl_done \in BOOLEAN
  /\ gbl_rotate_enqueue \in BOOLEAN /\ gbl_rotate_dequeue \in BOOLEAN

SignalTypeOK ==
  /\ sigpend \subseteq Signals
  /\ spc \in {"check", "wait", "hup", "done"}
  /\ mpc \in {"loop", "join_xport_to_queue", "join_queue_to_journal",
              "join_signal", "done"}
  /\ nhup \in Nat

TypeOK == PipelineTypeOK /\ SwitchTypeOK /\ SignalTypeOK

-----------------------------------------------------------------------------
(* Safety *)

\* Packets are discarded from the queue, or forgotten between the queue and
\* the journal, only once the shutdown was requested; before that only a
\* full System V queue (retries used up) or a failed journal write loses one.
LossOnlyAtShutdown ==
  ~gbl_done =>
    /\ discarded = {}
    /\ "journal_write" \notin Faults => unwritten = {}

\* The emptying of a POSIX queue at shutdown leaves at most one packet for
\* the next run, the last one received: the enqueuer sends at most one more
\* after gbl_done, and the drain makes up to QueueMaxCnt + 1 reads.
LeftoverBound ==
  AllJoined => Len(mq) <= 1 /\ (\A e \in Range(mq) : e.id = nrecv)

\* The close at shutdown.
Closings == IF dpc \in {"drain", "fini", "done"} THEN 1 ELSE 0

\* A journal is rotated only for a reason: as many rotations, the close at
\* shutdown aside, as rotate commands taken from the queue and rotate
\* signals sent.  A command left in the buffer would rotate again and again.
NoSpuriousRotation ==
  Len(cuts) <= Cardinality(RotateCommandsTaken) + nhup + Closings

\* The packet the dequeuer has counted and not yet written, and all packets
\* it has taken from the queue and counted.
InHand == IF DeqHolds /\ dpc # "stat" THEN 1 ELSE 0

Counted == Len(written) + Cardinality(unwritten) + InHand

\* What the two workers report at their rotations adds up: no datagram is
\* counted twice or left out of every report, and the dequeuer's reports
\* cover exactly the packets it took from the queue before the drain.  The
\* one exception is a packet that is read while the other worker removes a
\* System V queue at shutdown: it is forgotten before it is counted.
StatsAddUp ==
  /\ ereported + esince = nrecv
  /\ \/ LastReport + dsince = Counted
     \/ QueueType = "msg" /\ gbl_done /\ LastReport + dsince + 1 = Counted

\* A request to rotate is withdrawn only when everything written so far is
\* in a closed journal, or the journal is about to be closed for good.
RequestServed ==
  [][gbl_rotate_dequeue /\ ~gbl_rotate_dequeue'
       => LastCut = Len(written) \/ gbl_done]_vars

\* At each closing of a journal the reports have counted what is in the
\* closed journals, and at most one packet more: the one the dequeuer holds,
\* a rotate command for example, is counted before the rotation and written
\* to the next journal.
ReportsFollowJournals ==
  "journal_write" \notin Faults =>
    \A k \in DOMAIN cuts \cap DOMAIN reports :
      reports[k] - cuts[k] \in {0, 1}

\* The statistics of both workers: every datagram is in one report, and the
\* reports and the journals keep step.
ReportsExact == StatsAddUp /\ ReportsFollowJournals

-----------------------------------------------------------------------------
(* Liveness *)

\* A packet received is written to the journal, unless the write fails or
\* the process is shut down or fails first.
EventuallyJournalled ==
  \A i \in 1..MaxEvents :
    i \in Ids(EnqHand \cup Range(mq) \cup DeqHand)
      ~> i \in Ids(Range(written) \cup unwritten) \/ gbl_done \/ Exited

\* After a HUP every packet journalled before it comes to be in a closed
\* journal ("This one triggers a journal rotate").
HupArchives ==
  \A n \in 1..MaxEvents :
    "HUP" \in sigpend /\ Len(written) = n ~> LastCut >= n \/ Exited

\* A termination signal ends the process ("All threads should notice the
\* gbl_done and finish on their own").
ShutdownCompletes == "TERM" \in sigpend ~> AllJoined \/ Exited

-----------------------------------------------------------------------------
(* Refinement: the threads implement the pipe of module EventStore.  The   *)
(* packets in flight are the one the dequeuer holds, those in the queue    *)
(* and the one the enqueuer holds, in this order.                          *)

InFlight ==
  (IF DeqHolds THEN <<dbuf>> ELSE <<>>) \o mq
    \o (IF EnqHolds THEN <<ebuf>> ELSE <<>>)

Store == INSTANCE EventStore WITH
  Capacity <- QueueMaxCnt + 2, NoWait <- QueueType = "msg",
  Fallible <- "journal_write" \in Faults,
  Packet <- LAMBDA n, r : [id |-> n, rotate |-> r],
  accepted <- nrecv, flight <- InFlight, journal <- written, files <- cuts,
  closing <- gbl_done

\* Seen from outside, the threads behave like one FIFO pipe: nothing is
\* reordered or duplicated, and nothing is lost but where EventStore says.
ImplementsStore == Store!Spec

=============================================================================
