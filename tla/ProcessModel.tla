---------------------------- MODULE ProcessModel ----------------------------
(***************************************************************************)
(* process_model.c: the journaller as three processes.  A supervisor       *)
(* starts queue_to_journal and xport_to_queue, waits for its children,     *)
(* restarts one that was killed, passes rotate signals on, and at the end  *)
(* sends SIGQUIT to its process group and waits for the children.          *)
(*                                                                         *)
(* Every process has switches of its own, set by its signal handlers.      *)
(* What a handler finds depends on how far a new process has come: between *)
(* fork and exec it runs in a memory that exec throws away, between exec   *)
(* and the installation of the handlers a signal kills.  A signal that     *)
(* reaches a process in a blocking system call ends the call with EINTR.   *)
(*                                                                         *)
(* SIGINT, SIGQUIT and SIGTERM are "TERM"; SIGHUP and SIGALRM are "HUP".   *)
(* The environment signals the supervisor, and may kill a worker (SIGKILL, *)
(* a fault).  cuts are the closings by the dequeuer; the file that a       *)
(* killed dequeuer leaves is the subject of module Journal.  Rotation of   *)
(* the log files (SIGUSR1, SIGUSR2) is left out.                           *)
(***************************************************************************)
EXTENDS Pipeline

CONSTANTS
  MaxHup,    \* bound: rotate signals sent to the supervisor
  MaxKill    \* bound: workers killed from outside

ASSUME ProcessAssumption == MaxHup \in Nat /\ MaxKill \in Nat

Workers == {"enq", "deq"}

VARIABLES
  \* supervisor: control point, gbl_done, gbl_rotate_enqueue/_dequeue
  spc, sdone, srotate,
  \* workers: state of the process, signals pending, gbl_done, the rotate
  \* switch that the worker tests
  proc, pending, done, rotate,
  nhup, nkill    \* rotate signals sent, workers killed

wvars == <<proc, pending, done, rotate>>
supvars == <<spc, sdone, srotate>>
bounds == <<nhup, nkill>>
vars == <<pvars, wvars, supvars, bounds>>

\* The process of a worker: not started; forked; executing the program
\* without handlers; running with handlers; dead and not yet waited for;
\* waited for.  A worker that has returned or called exit is still "run".
ProcState == {"none", "fork", "boot", "run", "exited", "killed", "reaped"}

Init ==
  /\ PipelineInit
  /\ spc = "check" /\ sdone = FALSE /\ srotate = [w \in Workers |-> FALSE]
  /\ proc = [w \in Workers |-> "none"]
  /\ pending = [w \in Workers |-> {}]
  /\ done = [w \in Workers |-> FALSE] /\ rotate = [w \in Workers |-> FALSE]
  /\ nhup = 0 /\ nkill = 0

PC(w) == IF w = "enq" THEN epc ELSE dpc

\* WIFEXITED and WIFSIGNALED of a child that has ended.
HasExited(w) ==
  proc[w] = "exited" \/ (proc[w] = "run" /\ PC(w) \in {"done", "exit"})

WasKilled(w) == proc[w] = "killed"

Live(w) == proc[w] \in {"fork", "boot", "run"} /\ ~HasExited(w)

-----------------------------------------------------------------------------
(* The supervisor *)

\* Where it deals with each child, in the order of the code: the starts, the
\* rotate signal passed on, the switch cleared after that.
StartAt == [deq |-> "start_deq", enq |-> "start_enq"]
ForwardAt == [deq |-> "hup_deq", enq |-> "hup_enq"]
OffAt == [deq |-> "off_deq", enq |-> "off_enq"]
NextForward == [deq |-> "hup_enq", enq |-> "check"]

\* while ( ! gbl_done )
SupCheck ==
  /\ spc = "check"
  /\ spc' = IF sdone THEN "sleep" ELSE "start_deq"
  /\ UNCHANGED <<pvars, wvars, sdone, srotate, bounds>>

\* Mutant: only a worker that was never started is started.
MutMustStart(w) == proc[w] = "none"

\* The pid is -1 or the one the last wait returned: a child waited for is
\* the only one that is not restarted yet.
MustStart(w) == proc[w] \in {"none", "reaped"}

\* start_program, in the parent: the child is a copy with nothing pending.
SupStart(w) ==
  /\ spc = StartAt[w]
  /\ IF MustStart(w)
       THEN /\ proc' = [proc EXCEPT ![w] = "fork"]
            /\ pending' = [pending EXCEPT ![w] = {}]
            /\ done' = [done EXCEPT ![w] = FALSE]
            /\ rotate' = [rotate EXCEPT ![w] = FALSE]
       ELSE UNCHANGED wvars
  /\ spc' = IF w = "deq" THEN "start_enq" ELSE "wait"
  /\ UNCHANGED <<pvars, sdone, srotate, bounds>>

\* fork fails: exit(EXIT_FAILURE), whatever the other child does.
SupForkFails(w) ==
  /\ spc = StartAt[w] /\ MustStart(w) /\ "fork" \in Faults
  /\ spc' = "exit"
  /\ UNCHANGED <<pvars, wvars, sdone, srotate, bounds>>

\* wait returns a child: one that exited ends the loop, one that was killed
\* is restarted in the next turn.
SupWait(w) ==
  /\ spc = "wait"
  /\ HasExited(w) \/ WasKilled(w)
  /\ proc' = [proc EXCEPT ![w] = "reaped"]
  /\ spc' = IF HasExited(w) THEN "sleep" ELSE "check"
  /\ UNCHANGED <<pvars, pending, done, rotate, sdone, srotate, bounds>>

\* After EINTR: if ( gbl_rotate_... ) signal_pid (SIGHUP, ...)
SupForward(w) ==
  /\ spc = ForwardAt[w]
  /\ IF srotate[w]
       THEN /\ pending' = [pending EXCEPT ![w] = IF Live(w) THEN @ \cup {"HUP"} ELSE @]
            /\ spc' = OffAt[w]
       ELSE UNCHANGED pending /\ spc' = NextForward[w]
  /\ UNCHANGED <<pvars, proc, done, rotate, sdone, srotate, bounds>>

\* Mutant: the switch stays on.
MutSupOff(w) ==
  /\ spc = OffAt[w]
  /\ spc' = NextForward[w]
  /\ UNCHANGED <<pvars, wvars, sdone, srotate, bounds>>

\* CAS_OFF(gbl_rotate_...)
SupOff(w) ==
  /\ spc = OffAt[w]
  /\ srotate' = [srotate EXCEPT ![w] = FALSE]
  /\ spc' = NextForward[w]
  /\ UNCHANGED <<pvars, wvars, sdone, bounds>>

\* sleep(1), then kill(0, SIGQUIT): to the children and to the supervisor
\* itself.  "We give the children a chance to run before we kill them", but
\* time is not modelled: the sleep may be too short.
SupQuit ==
  /\ spc = "sleep"
  /\ pending' = [w \in Workers |->
       IF Live(w) THEN pending[w] \cup {"TERM"} ELSE pending[w]]
  /\ sdone' = TRUE
  /\ spc' = "reap"
  /\ UNCHANGED <<pvars, proc, done, rotate, srotate, bounds>>

\* while ( wait(0) > 0 ): a child is waited for, whatever its status.
SupReap(w) ==
  /\ spc = "reap"
  /\ HasExited(w) \/ WasKilled(w)
  /\ proc' = [proc EXCEPT ![w] = "reaped"]
  /\ UNCHANGED <<pvars, pending, done, rotate, supvars, bounds>>

\* wait fails with ECHILD.
SupFinish ==
  /\ spc = "reap" /\ \A w \in Workers : proc[w] \in {"none", "reaped"}
  /\ spc' = "done"
  /\ UNCHANGED <<pvars, wvars, sdone, srotate, bounds>>

Supervisor ==
  \/ SupCheck \/ SupQuit \/ SupFinish
  \/ \E w \in Workers : \/ SupStart(w) \/ SupForkFails(w) \/ SupWait(w)
                        \/ SupForward(w) \/ SupOff(w) \/ SupReap(w)

-----------------------------------------------------------------------------
(* Signals to the supervisor.  A handler that runs while wait blocks ends  *)
(* it with EINTR: the loop looks at the switches, the final loop ends.     *)
(* At any other point, or when wait returns a child that has just ended,   *)
(* the handler sets the switch and nothing else.                           *)

Interrupt == [wait |-> "hup_deq", reap |-> "done"]

SupInterrupted ==
  \/ spc \in DOMAIN Interrupt /\ spc' = Interrupt[spc]
  \/ /\ \/ spc \notin DOMAIN Interrupt
        \/ \E w \in Workers : HasExited(w) \/ WasKilled(w)
     /\ UNCHANGED spc

SupAlive == spc \notin {"done", "exit"}

SendHup ==
  /\ SupAlive /\ nhup < MaxHup
  /\ nhup' = nhup + 1
  /\ srotate' = [w \in Workers |-> TRUE]
  /\ SupInterrupted
  /\ UNCHANGED <<pvars, wvars, sdone, nkill>>

SendTerm ==
  /\ SupAlive /\ ~sdone
  /\ sdone' = TRUE
  /\ SupInterrupted
  /\ UNCHANGED <<pvars, wvars, srotate, bounds>>

-----------------------------------------------------------------------------
(* The workers *)

\* execvp, then main of the worker up to the installation of the handlers.
Exec(w) ==
  /\ proc[w] \in {"fork", "boot"}
  /\ proc' = [proc EXCEPT ![w] = IF @ = "fork" THEN "boot" ELSE "run"]
  /\ UNCHANGED <<pvars, pending, done, rotate, supvars, bounds>>

\* execvp returns: the child exits with EXIT_FAILURE.
ExecFails(w) ==
  /\ proc[w] = "fork" /\ "fork" \in Faults
  /\ proc' = [proc EXCEPT ![w] = "exited"]
  /\ UNCHANGED <<pvars, pending, done, rotate, supvars, bounds>>

\* The blocking calls of a worker that a signal ends.
Interrupted(w) ==
  \/ w = "enq" /\ EnqSendInterrupted
  \/ w = "deq" /\ (DeqInterrupted(TRUE) \/ DeqDrainEnds(TRUE))

\* Mutant: the handler of SIGHUP ends the worker.
MutHandle(w, s) ==
  /\ proc[w] = "run"
  /\ done' = [done EXCEPT ![w] = TRUE]
  /\ Interrupted(w) \/ UNCHANGED pvars
  /\ UNCHANGED <<proc, rotate>>

\* The handlers of sig.c, in a worker that has installed them; the worker
\* is in a blocking call or not.
Handle(w, s) ==
  /\ proc[w] = "run"
  /\ done' = [done EXCEPT ![w] = @ \/ s = "TERM"]
  /\ rotate' = [rotate EXCEPT ![w] = @ \/ s = "HUP"]
  /\ Interrupted(w) \/ UNCHANGED pvars
  /\ UNCHANGED proc

\* Before exec the handler sets a switch in a memory that is thrown away.
HandleInFork(w) == proc[w] = "fork" /\ UNCHANGED <<pvars, proc, done, rotate>>

\* After exec the default action of every signal is to kill.
HandleInBoot(w) ==
  /\ proc[w] = "boot"
  /\ proc' = [proc EXCEPT ![w] = "killed"]
  /\ UNCHANGED <<pvars, done, rotate>>

TakeSignal(w, s) ==
  /\ Live(w) /\ s \in pending[w]
  /\ pending' = [pending EXCEPT ![w] = @ \ {s}]
  /\ HandleInFork(w) \/ HandleInBoot(w) \/ Handle(w, s)
  /\ UNCHANGED <<supvars, bounds>>

\* The memory of a killed worker is lost: the packet it holds, and the
\* counts it has not reported.
EnqDies ==
  /\ epc' = "start" /\ ebuf' = Zeroed /\ eret' = "intr" /\ retry' = 0
  /\ eq' = Closed /\ esince' = 0
  /\ dropped' = dropped \cup EnqHand
  /\ UNCHANGED <<nrecv, ereported, dvars, qvars>>

DeqDies ==
  /\ dpc' = "start" /\ dbuf' = Zeroed /\ dret' = "intr" /\ max' = 0
  /\ dq' = Closed /\ dsince' = 0
  /\ unwritten' = unwritten \cup DeqHand
  /\ UNCHANGED <<written, cuts, reports, evars, qvars>>

Kill(w) ==
  /\ Live(w) /\ nkill < MaxKill
  /\ nkill' = nkill + 1
  /\ proc' = [proc EXCEPT ![w] = "killed"]
  /\ IF w = "enq" THEN EnqDies ELSE DeqDies
  /\ UNCHANGED <<pending, done, rotate, supvars, nhup>>

EnqStep ==
  \/ EnqStart \/ EnqStartFails
  \/ EnqCheck(done["enq"])
  \/ \E r \in Kinds : EnqReceive(r)
  \/ EnqInterrupted \/ EnqSocketError
  \/ EnqTestRotate(done["enq"], rotate["enq"])
  \/ EnqRotateStats(done["enq"])
  \/ EnqSkipWrite \/ EnqSend \/ EnqSendAgain \/ EnqSendFails
  \/ EnqFinish

DeqStep ==
  \/ DeqStart \/ DeqStartFails
  \/ DeqCheck(done["deq"])
  \/ DeqReceive \/ DeqStat \/ DeqStatFails
  \/ DeqInterrupted(FALSE) \/ DeqReadFails
  \/ DeqTestRotate(done["deq"], rotate["deq"])
  \/ DeqRotate(done["deq"]) \/ DeqRotateFails(done["deq"])
  \/ DeqSkipWrite \/ DeqWrite \/ DeqWriteFails
  \/ DeqClose \/ DeqDrain \/ DeqDrainEnds(FALSE)
  \/ DeqFinish

Step(w) == IF w = "enq" THEN EnqStep ELSE DeqStep

\* CAS_OFF(gbl_rotate_enqueue), CAS_OFF(gbl_rotate_dequeue)
CasOff(w) ==
  /\ IF w = "enq" THEN EnqSwitchOff ELSE DeqSwitchOff
  /\ rotate' = [rotate EXCEPT ![w] = FALSE]

Run(w) ==
  /\ proc[w] = "run"
  /\ (Step(w) /\ UNCHANGED rotate) \/ CasOff(w)
  /\ UNCHANGED <<proc, pending, done, supvars, bounds>>

Worker(w) == Exec(w) \/ ExecFails(w) \/ Run(w)

-----------------------------------------------------------------------------
\* The supervisor and the workers have ended.
Ended ==
  /\ ~SupAlive /\ \A w \in Workers : ~Live(w)
  /\ UNCHANGED vars

Next ==
  \/ Supervisor \/ SendHup \/ SendTerm
  \/ \E w \in Workers : Worker(w)
  \/ \E w \in Workers, s \in {"TERM", "HUP"} : TakeSignal(w, s)
  \/ \E w \in Workers : Kill(w)
  \/ Ended

Spec == Init /\ [][Next]_vars

\* The kernel schedules every process and delivers every signal.  Nothing
\* is assumed of datagrams, of signals from outside or of kills.
Fairness ==
  /\ WF_vars(Supervisor)
  /\ \A w \in Workers :
       /\ WF_vars(Worker(w))
       /\ WF_vars(\E s \in {"TERM", "HUP"} : TakeSignal(w, s))

FairSpec == Spec /\ Fairness

-----------------------------------------------------------------------------
TypeOK ==
  /\ PipelineTypeOK
  /\ spc \in {"check", "start_deq", "start_enq", "wait", "hup_deq", "off_deq",
              "hup_enq", "off_enq", "sleep", "reap", "done", "exit"}
  /\ sdone \in BOOLEAN /\ srotate \in [Workers -> BOOLEAN]
  /\ proc \in [Workers -> ProcState]
  /\ pending \in [Workers -> SUBSET {"TERM", "HUP"}]
  /\ done \in [Workers -> BOOLEAN] /\ rotate \in [Workers -> BOOLEAN]
  /\ nhup \in 0..MaxHup /\ nkill \in 0..MaxKill

\* For TLC: the statistics influence no step and no property of this module,
\* states that differ in them alone count as one.
WithoutStatistics ==
  <<epc, eloc, nrecv, dropped, dpc, dloc, written, cuts, unwritten, qvars,
    wvars, supvars, bounds>>

\* The supervisor has sent SIGQUIT.
QuitSent == spc \in {"reap", "done"}

\* Packets stay in order and none gets lost unnoticed or doubled, although
\* the workers die, are started again and find the queue as it was left.
PacketsKept == TypeOK /\ InOrder /\ Accounted

\* Until the supervisor sends SIGQUIT the queue loses nothing.  A packet is
\* lost on its way to the journal only when a worker was killed or the
\* journal write failed, and on its way to a POSIX queue only when a worker
\* was killed or a rotate signal interrupted mq_send.
LossExplained ==
  ~QuitSent =>
    /\ discarded = {}
    /\ nkill = 0 /\ "journal_write" \notin Faults => unwritten = {}
    /\ nkill = 0 /\ nhup = 0 /\ QueueType = "mq" => dropped = {}

\* One rotate signal to the supervisor rotates the journal at most once,
\* however it is passed on: the other rotations are those of the rotate
\* commands taken from the queue and the close at shutdown.
NoSpuriousRotation ==
  Len(cuts) <= Cardinality(RotateCommandsTaken) + nhup
                 + IF QuitSent THEN 1 ELSE 0

\* While the supervisor waits, each worker runs or is a child to wait for:
\* it never waits with a worker missing ("loop to restart any program that
\* dies"), so the death of either worker ends the wait.
Supervised ==
  spc = "wait" =>
    \A w \in Workers : Live(w) \/ HasExited(w) \/ WasKilled(w)

\* A termination signal ends the supervisor ("Any of these signals shuts us
\* down").
ShutdownCompletes == sdone ~> ~SupAlive

=============================================================================
