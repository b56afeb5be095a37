----------------------------- MODULE Journaller ------------------------------
(***************************************************************************)
(* The program lwes-journaller around its three models: the options        *)
(* (opt.c), becoming a daemon, the log, the pid file, the rotation timer,  *)
(* the reopening of the logs on SIGUSR1 in each model, and the end         *)
(* (lwes-journaller.c).  What the models do with packets is the subject of *)
(* ThreadModel, ProcessModel and SerialModel.                              *)
(***************************************************************************)
EXTENDS Interval, LogFiles, Sequences

CONSTANTS
  CommandLines,    \* what the program may be started with
  StartFaults      \* calls that may fail: "fork", "setsid", "fds", "pidfile",
                   \* "unlink", "model"

\* what popt, getpwnam and the open of a transport make of a command line
CommandLine ==
  [type: STRING, nodaemonize: BOOLEAN, log_file: BOOLEAN, pid_file: BOOLEAN,
   interval: Int, journals: Seq({"path", "name"}),
   info: {"none", "version", "args"},
   errors: SUBSET {"option", "user", "transport"}, relative: BOOLEAN]

ASSUME JournallerAssumption ==
  /\ CommandLines \subseteq CommandLine
  /\ StartFaults \subseteq {"fork", "setsid", "fds", "pidfile", "unlink", "model"}

VARIABLES
  cmd,             \* the command line
  jpc,
  pid,             \* which process: 0 as started, then 1 and 2
  status,          \* exit status that the caller sees
  pidfile,         \* pid in the pid file: of this program, Other or NoPid
  last_pidfile,    \* history: who wrote or deleted it last
  other,           \* another journaller with the same pid file
  gbl_done,
  pending,         \* SIGUSR1 is blocked and pending (thread model)
  wpc,             \* where each thread or child is
  mpc              \* where the main process is in its model

startvars == <<cmd, jpc, pid, status>>
pidvars == <<pidfile, last_pidfile, other>>
modelvars == <<gbl_done, pending, wpc, mpc>>
vars == <<startvars, pidvars, modelvars, timervars, logvars>>

NoPid == -1
Other == 9
Success == 0
Failure == 1
Unknown == 2    \* the program has not ended for its caller

Init ==
  /\ cmd \in CommandLines
  /\ jpc = "options" /\ pid = 0 /\ status = Unknown
  /\ pidfile = NoPid /\ last_pidfile = "nobody" /\ other = "idle"
  /\ gbl_done = FALSE /\ pending = FALSE
  /\ wpc = [w \in Writers |-> "off"] /\ mpc = "boot"
  /\ TimerInit /\ LogInit

Goto(to) == jpc' = to

\* the process ends; the caller waits for the one it started
ExitWith(code) ==
  /\ Goto("gone")
  /\ status' = IF pid = 0 THEN code ELSE status

-----------------------------------------------------------------------------
(* Options *)

\* what the program runs with when nothing else is said
Defaults ==
  [type |-> "thread", nodaemonize |-> FALSE, log_file |-> FALSE, pid_file |-> TRUE,
   interval |-> 0, journals |-> <<>>, info |-> "none", errors |-> {},
   relative |-> FALSE]

\* /tmp/all_events.log.gz without a journal on the command line
ArgJournals == IF cmd.journals = <<>> THEN <<"path">> ELSE cmd.journals

\* poptGetNextOpt does not know an option, or not its value
ParseErrors == cmd.errors \cap {"option"}

\* getpwnam does not know the owner of the journals
UserErrors == cmd.errors \cap {"user"}

\* only the first journal is looked at, and the type of model not at all
CheckErrors ==
  (cmd.errors \cap {"transport"})
    \cup (IF ArgJournals[1] # "path" THEN {"journal"} ELSE {})
    \cup (IF cmd.interval < 0 THEN {"interval"} ELSE {})

VersionAsked == cmd.info = "version"
ArgsAsked == cmd.info = "args"

\* --version and --args end the program before the last checks and
\* whatever was wrong before
ProcessOptions ==
  IF VersionAsked \/ ArgsAsked THEN Success
  ELSE IF ParseErrors \cup UserErrors \cup CheckErrors # {} THEN Failure
  ELSE Unknown

StartUp ==
  /\ jpc = "options"
  /\ IF ProcessOptions # Unknown THEN ExitWith(ProcessOptions)
     ELSE Goto(IF cmd.nodaemonize THEN "log" ELSE "fork") /\ UNCHANGED status
  /\ IF ProcessOptions = Unknown /\ ~cmd.nodaemonize
     THEN CloseLog("main") ELSE UNCHANGED streams
  /\ UNCHANGED <<cmd, pid, pidvars, modelvars, timervars, renames, exists,
                 switch, fails, usr1, asked, missed, reopened>>

-----------------------------------------------------------------------------
(* Daemon *)

MutDoForkStatus ==
  /\ jpc \in {"fork", "fork_again"}
  /\ pid' = pid + 1
  /\ status' = IF pid = 0 THEN Failure ELSE status
  /\ Goto(IF jpc = "fork" THEN "setsid" ELSE "fds")
  /\ UNCHANGED <<cmd, pidvars, modelvars, timervars, logvars>>

\* do_fork: the parent ends at once
DoFork ==
  /\ jpc \in {"fork", "fork_again"}
  /\ pid' = pid + 1
  /\ status' = IF pid = 0 THEN Success ELSE status
  /\ Goto(IF jpc = "fork" THEN "setsid" ELSE "fds")
  /\ UNCHANGED <<cmd, pidvars, modelvars, timervars, logvars>>

ForkFails ==
  /\ jpc \in {"fork", "fork_again"} /\ "fork" \in StartFaults
  /\ ExitWith(Failure)
  /\ UNCHANGED <<cmd, pid, pidvars, modelvars, timervars, logvars>>

\* setsid; and umask, chdir and the descriptors
Detach ==
  /\ \/ jpc = "setsid" /\ Goto("fork_again") /\ UNCHANGED status
     \/ jpc = "setsid" /\ "setsid" \in StartFaults /\ ExitWith(Failure)
     \/ jpc = "fds" /\ Goto("log") /\ UNCHANGED status
     \/ jpc = "fds" /\ "fds" \in StartFaults /\ ExitWith(Failure)
  /\ UNCHANGED <<cmd, pid, pidvars, modelvars, timervars, logvars>>

\* the log was stdout while the options were read
ReopenLog ==
  /\ jpc = "log"
  /\ GetLog("main", cmd.log_file, "main")
  /\ Goto("pid")
  /\ UNCHANGED <<cmd, pid, status, pidvars, modelvars, timervars, renames,
                 switch, usr1, asked, missed, reopened>>

MutWritePidFile ==
  /\ jpc = "pid"
  /\ \/ cmd.pid_file /\ pidfile' = 0 /\ last_pidfile' = "self"
     \/ ~cmd.pid_file /\ UNCHANGED <<pidfile, last_pidfile>>
  /\ Goto("model")
  /\ UNCHANGED <<cmd, pid, status, other, modelvars, timervars, logvars>>

\* without a pid file the program goes on
WritePidFile ==
  /\ jpc = "pid"
  /\ \/ cmd.pid_file /\ pidfile' = pid /\ last_pidfile' = "self"
     \/ (~cmd.pid_file \/ "pidfile" \in StartFaults)
        /\ UNCHANGED <<pidfile, last_pidfile>>
  /\ Goto("model")
  /\ UNCHANGED <<cmd, pid, status, other, modelvars, timervars, logvars>>

-----------------------------------------------------------------------------
(* The models *)

Type == cmd.type
Stdout(w) == IF Type = "process" THEN w ELSE "main"

\* handlers are installed, or in the thread model all signals blocked
Install ==
  /\ jpc = "model" /\ mpc = "boot"
  /\ Type \in {"thread", "process", "serial"}
  /\ mpc' = IF Type = "process" THEN "check" ELSE "loop"
  /\ UNCHANGED <<startvars, pidvars, gbl_done, pending, wpc, timervars, logvars>>

\* a name that is none of the three runs nothing
NoModel ==
  /\ jpc = "model" /\ mpc = "boot"
  /\ Type \notin {"thread", "process", "serial"}
  /\ Goto("unlink")
  /\ UNCHANGED <<cmd, pid, status, pidvars, modelvars, timervars, logvars>>

\* exit (EXIT_FAILURE) in a model: a journal, queue or socket cannot be
\* opened, or serial_model gets more than one journal
ModelFails ==
  /\ jpc = "model" /\ mpc \notin {"boot"}
  /\ "model" \in StartFaults \/ (Type = "serial" /\ Len(ArgJournals) # 1)
  /\ ExitWith(Failure)
  /\ UNCHANGED <<cmd, pid, pidvars, modelvars, timervars, logvars>>

InModel == jpc = "model" /\ mpc # "boot"

InstallTimer ==
  /\ InModel /\ cmd.interval > 0
  /\ Type = "thread" => wpc["signal"] = "loop"
  /\ GetTimeOfDay \/ SetTimer(cmd.interval)
  /\ UNCHANGED <<startvars, pidvars, modelvars, logvars>>

Time ==
  /\ InModel /\ cmd.interval > 0
  /\ Tick \/ Alarm(cmd.interval)
  /\ UNCHANGED <<startvars, pidvars, modelvars, logvars>>

\* thread model: each thread opens a log of its own
StartThread(w) ==
  /\ InModel /\ Type = "thread" /\ w # "main" /\ wpc[w] = "off"
  /\ NewLog(w, cmd.log_file)
  /\ wpc' = [wpc EXCEPT ![w] = "loop"]
  /\ UNCHANGED <<startvars, pidvars, gbl_done, pending, mpc, timervars, renames,
                 switch, usr1, asked, missed, reopened>>

\* sigwait returns SIGUSR1
SignalThread ==
  /\ InModel /\ wpc["signal"] = "loop" /\ pending
  /\ pending' = FALSE
  /\ Reopen("signal", cmd.log_file, "main")
  /\ switch' = [w \in Writers |-> w # "signal"]
  /\ UNCHANGED <<startvars, pidvars, gbl_done, wpc, mpc, timervars>>

\* the workers as threads or as children, at the test of their switch
WorkerReopen(w) ==
  /\ InModel /\ w \in {"enq", "deq"} /\ wpc[w] = "loop" /\ switch[w]
  /\ Reopen(w, cmd.log_file, Stdout(w))
  /\ wpc' = [wpc EXCEPT ![w] = "off_switch"]
  /\ UNCHANGED <<startvars, pidvars, gbl_done, pending, mpc, timervars, switch>>

WorkerOff(w) ==
  /\ InModel /\ wpc[w] = "off_switch"
  /\ SwitchOff(w)
  /\ wpc' = [wpc EXCEPT ![w] = "loop"]
  /\ UNCHANGED <<startvars, pidvars, gbl_done, pending, mpc, timervars, renames,
                 exists, streams, fails, usr1, asked, reopened>>

\* the main thread, which wakes up every second, and serial_model, which
\* leaves the switch on
MainReopen ==
  /\ InModel /\ Type # "process" /\ mpc = "loop" /\ switch["main"]
  /\ Reopen("main", cmd.log_file, "main")
  /\ mpc' = IF Type = "serial" THEN "loop" ELSE "off_switch"
  /\ UNCHANGED <<startvars, pidvars, gbl_done, pending, wpc, timervars, switch>>

MainOff ==
  /\ InModel /\ Type # "process" /\ mpc = "off_switch"
  /\ SwitchOff("main")
  /\ mpc' = "loop"
  /\ UNCHANGED <<startvars, pidvars, gbl_done, pending, wpc, timervars, renames,
                 exists, streams, fails, usr1, asked, reopened>>

Children == {"enq", "deq"}

\* process model: children have the descriptor 1 of the parent, which is
\* /dev/null in a daemon; they take it for their log, since get_log comes
\* before the options.  Only a SIGUSR1 makes them open the file.
StartChild(w) ==
  /\ InModel /\ Type = "process" /\ mpc = "start"
  /\ w \in Children /\ wpc[w] \in {"off", "dead"}
  /\ wpc' = [wpc EXCEPT ![w] = "fork"]
  /\ stream' = [stream EXCEPT ![w] = w]
  /\ file' = [file EXCEPT ![w] = IF cmd.nodaemonize THEN file["main"] ELSE NoLog]
  /\ open' = open \cup {w}
  /\ switch' = [switch EXCEPT ![w] = FALSE]
  /\ missed' = IF cmd.nodaemonize /\ "main" \notin missed THEN missed \ {w}
               ELSE missed \cup {w}
  /\ UNCHANGED <<startvars, pidvars, gbl_done, pending, mpc, timervars, renames,
                 exists, fails, usr1, asked, reopened>>

\* a relative path of the program means nothing to a daemon, whose
\* directory is /
ExecWorks == cmd.nodaemonize \/ ~cmd.relative

\* execvp, and later the child's own handlers
ChildStep(w) ==
  /\ InModel /\ Type = "process"
  /\ wpc[w] = "boot" \/ (wpc[w] = "fork" /\ ExecWorks)
  /\ wpc' = [wpc EXCEPT ![w] = IF @ = "fork" THEN "boot" ELSE "loop"]
  /\ UNCHANGED <<startvars, pidvars, gbl_done, pending, mpc, timervars, logvars>>

\* the test of gbl_done; wait blocks; a dead child is started again
Wait ==
  /\ InModel /\ Type = "process"
  /\ LET missing == {w \in Children : wpc[w] \in {"off", "dead"}}
     IN  \/ mpc = "check" /\ ~gbl_done /\ mpc' = "start"
         \/ mpc = "start" /\ missing = {} /\ mpc' = "wait"
         \/ mpc = "wait" /\ missing # {} /\ mpc' = "check"
  /\ UNCHANGED <<startvars, pidvars, gbl_done, pending, wpc, timervars, logvars>>

\* a child that exits by itself, as one does whose execvp fails, ends the
\* program in the normal way
ChildExits ==
  /\ InModel /\ mpc = "wait"
  /\ \E w \in Children :
       \/ wpc[w] = "fork" /\ ~ExecWorks
       \/ wpc[w] = "loop" /\ "model" \in StartFaults
  /\ Goto("unlink")
  /\ UNCHANGED <<cmd, pid, status, pidvars, modelvars, timervars, logvars>>

\* wait ended with EINTR
SupervisorReopen ==
  /\ InModel /\ mpc = "eintr"
  /\ IF switch["main"]
     THEN Reopen("main", cmd.log_file, "main") /\ mpc' = "off_switch"
     ELSE mpc' = "check" /\ UNCHANGED <<renames, exists, streams, fails, usr1, asked,
                                       missed, reopened>>
  /\ UNCHANGED <<startvars, pidvars, gbl_done, pending, wpc, timervars, switch>>

MutForward ==
  /\ InModel /\ Type = "process" /\ mpc = "off_switch"
  /\ mpc' = "check"
  /\ switch' = [switch EXCEPT !["main"] = FALSE, !["enq"] = @ \/ wpc["enq"] = "loop"]
  /\ wpc' = [w \in Writers |-> IF w \in Children /\ wpc[w] = "boot" THEN "dead"
                              ELSE wpc[w]]
  /\ missed' = missed \cup {w \in Children : wpc[w] = "fork"}
  /\ UNCHANGED <<startvars, pidvars, gbl_done, pending, timervars, renames,
                 exists, streams, fails, usr1, asked, reopened>>

\* SIGUSR1 and SIGUSR2 to the children: lost on one that has not called
\* execvp, deadly for one that has not installed its handlers
Forward ==
  /\ InModel /\ Type = "process" /\ mpc = "off_switch"
  /\ mpc' = "check"
  /\ switch' = [w \in Writers |->
                  IF w \in Children THEN switch[w] \/ wpc[w] \in {"loop", "off_switch"}
                  ELSE FALSE]
  /\ wpc' = [w \in Writers |-> IF w \in Children /\ wpc[w] = "boot" THEN "dead"
                              ELSE wpc[w]]
  /\ missed' = missed \cup {w \in Children : wpc[w] = "fork"}
  /\ UNCHANGED <<startvars, pidvars, gbl_done, pending, timervars, renames,
                 exists, streams, fails, usr1, asked, reopened>>

\* SIGUSR1 to the main process: before its handlers it ends it; wait is
\* left, any other place is not.  It is sent where there is a log file.
Signal ==
  /\ jpc \in {"log", "pid", "model"} /\ cmd.log_file /\ Usr1
  /\ IF ~InModel
     THEN ExitWith(Failure) /\ UNCHANGED <<pending, mpc, switch, missed>>
     ELSE /\ UNCHANGED <<jpc, status>>
          /\ pending' = (pending \/ Type = "thread")
          /\ switch' = [switch EXCEPT !["main"] = @ \/ Type # "thread"]
          /\ mpc' = IF mpc = "wait" THEN "eintr" ELSE mpc
          /\ missed' = IF Type = "process" /\ mpc # "wait"
                       THEN missed \cup {"main", "enq", "deq"} ELSE missed
  /\ UNCHANGED <<cmd, pid, pidvars, gbl_done, wpc, timervars>>

\* any other signal with a handler ends the wait as well
OtherSignal ==
  /\ InModel /\ mpc = "wait" /\ mpc' = "eintr"
  /\ UNCHANGED <<startvars, pidvars, gbl_done, pending, wpc, timervars, logvars>>

LogRotate ==
  /\ Rename
  /\ UNCHANGED <<startvars, pidvars, modelvars, timervars>>

-----------------------------------------------------------------------------
(* The end *)

\* a signal that terminates
Terminate ==
  /\ jpc \notin {"unlink", "end", "ended", "gone"} /\ ~gbl_done
  /\ IF InModel
     THEN /\ gbl_done' = TRUE /\ UNCHANGED <<jpc, status>>
          /\ mpc' = IF mpc = "wait" THEN "eintr" ELSE mpc
     ELSE ExitWith(Failure) /\ UNCHANGED <<gbl_done, mpc>>
  /\ UNCHANGED <<cmd, pid, pidvars, pending, wpc, timervars, logvars>>

\* a thread closes its log and ends
EndThread(w) ==
  /\ InModel /\ Type = "thread" /\ gbl_done /\ w # "main" /\ wpc[w] = "loop"
  /\ wpc' = [wpc EXCEPT ![w] = "end"]
  /\ CloseLog(w)
  /\ UNCHANGED <<startvars, pidvars, gbl_done, pending, mpc, timervars, renames,
                 exists, switch, fails, usr1, asked, missed, reopened>>

\* all threads have been joined; the supervisor has waited for its children
EndModel ==
  /\ InModel /\ gbl_done /\ mpc \in {"loop", "check"}
  /\ Type = "thread" => \A w \in Writers \ {"main"} : wpc[w] = "end"
  /\ Goto("unlink")
  /\ UNCHANGED <<cmd, pid, status, pidvars, modelvars, timervars, logvars>>

\* unlink removes whatever has the name; its error is never logged, since
\* errno is not negative
DeletePidFile ==
  /\ jpc = "unlink"
  /\ \/ cmd.pid_file /\ pidfile' = NoPid /\ last_pidfile' = "self"
     \/ (~cmd.pid_file \/ "unlink" \in StartFaults)
        /\ UNCHANGED <<pidfile, last_pidfile>>
  /\ Goto("end")
  /\ UNCHANGED <<cmd, pid, status, other, modelvars, timervars, logvars>>

\* Normal shutdown complete
Finish ==
  /\ jpc = "end"
  /\ Goto("ended")
  /\ status' = IF pid = 0 THEN Success ELSE status
  /\ CloseLog("main")
  /\ UNCHANGED <<cmd, pid, pidvars, modelvars, timervars, renames, exists,
                 switch, fails, usr1, asked, missed, reopened>>

\* another journaller that uses the same pid file starts and ends
OtherJournaller ==
  /\ cmd.pid_file
  /\ \/ other = "idle" /\ other' = "runs" /\ pidfile' = Other
     \/ other = "runs" /\ other' = "ended" /\ pidfile' = NoPid
  /\ last_pidfile' = "other"
  /\ UNCHANGED <<startvars, modelvars, timervars, logvars>>

Main ==
  \/ StartUp \/ DoFork \/ ForkFails \/ Detach \/ ReopenLog \/ WritePidFile
  \/ Install \/ NoModel \/ MainReopen \/ MainOff
  \/ \E w \in Writers : StartChild(w)
  \/ Wait \/ ChildExits \/ SupervisorReopen \/ Forward
  \/ EndModel \/ DeletePidFile \/ Finish

Worker(w) ==
  \/ StartThread(w) \/ WorkerReopen(w) \/ WorkerOff(w) \/ ChildStep(w)
  \/ w = "signal" /\ SignalThread
  \/ EndThread(w)

Next ==
  \/ Main \/ ModelFails \/ InstallTimer \/ Time
  \/ \E w \in Writers : Worker(w)
  \/ Signal \/ OtherSignal \/ LogRotate \/ Terminate \/ OtherJournaller

Spec == Init /\ [][Next]_vars

-----------------------------------------------------------------------------
(* Properties *)

TypeOK ==
  /\ jpc \in {"options", "fork", "setsid", "fork_again", "fds", "log", "pid",
              "model", "unlink", "end", "ended", "gone"}
  /\ pid \in 0..2 /\ status \in {Success, Failure, Unknown}
  /\ pidfile \in {NoPid, Other} \cup 0..2
  /\ gbl_done \in BOOLEAN /\ pending \in BOOLEAN
  /\ wpc \in [Writers -> {"off", "fork", "boot", "loop", "off_switch", "dead", "end"}]
  /\ mpc \in {"boot", "check", "start", "wait", "eintr", "loop", "off_switch"}
  /\ stream \in [Writers -> Writers] /\ open \subseteq Writers
  /\ file \in [Writers -> NoLog..MaxRenames] /\ missed \subseteq Writers
  /\ switch \in [Writers -> BOOLEAN]
  /\ clock \in Nat /\ timer \in Nat \cup {NoTime}

(* The pid file is for signalling: while a model runs, the file holds the  *)
(* pid of the process that runs it, the last of the two forks, and not of  *)
(* one that has ended, unless another journaller has touched the file.     *)
PidFileNames ==
  jpc = "model" /\ last_pidfile = "self" => pidfile = IF cmd.nodaemonize THEN 0 ELSE 2

(* A pid file is left behind only by a program that did not get to its     *)
(* normal end; and one of another journaller disappears only because this  *)
(* program has ended in the meantime.                                      *)
PidFileLeft ==
  /\ jpc = "ended" /\ "unlink" \notin StartFaults => pidfile \in {NoPid, Other}
  /\ other = "runs" /\ pidfile = NoPid => jpc \in {"end", "ended"}

(* The exit status that the caller sees: an error means that no process is *)
(* left running, and without --nodaemonize also that there is no pid file  *)
(* of this program; success of a daemon means no more than that it forked. *)
StatusMeans ==
  /\ status = Failure => jpc = "gone" /\ (~cmd.nodaemonize => last_pidfile # "self")
  /\ status = Success /\ jpc = "gone" => pid > 0 \/ cmd.info # "none"

(* SIGUSR1 is not forgotten: a writer that still logs to a file renamed    *)
(* before the signal has its reopening before it, in the pending signal,   *)
(* in its switch, in the supervisor's hands, or because it has yet to be   *)
(* started.  The exceptions are those of missed: a signal between          *)
(* reopening and CAS_OFF, one to a supervisor that is not in wait or to a  *)
(* child before execvp, and the children of a daemon, which log to         *)
(* /dev/null until their first SIGUSR1.                                    *)
LogNotForgotten ==
  InModel /\ cmd.log_file =>
    \A w \in Writers :
      Behind(w) =>
        \/ pending \/ switch[w]
        \/ mpc \in {"eintr", "off_switch"} /\ Type = "process"
        \/ w # "main" /\ wpc[w] \in {"off", "dead", "end"}

(* A signal reopens each log once.  Not in the serial model, which leaves  *)
(* gbl_rotate_main_log on and reopens its log in every iteration.          *)
OncePerSignal == Type # "serial" => \A w \in Writers : reopened[w] <= usr1

(* Nobody logs to a stream that somebody closed, if the log file was given *)
(* and could be opened.  Without it the threads share stdout, which a      *)
(* daemon has closed before and the first thread to end closes again.      *)
NoClosedStream ==
  cmd.log_file /\ fails = 0 =>
    /\ jpc \in {"pid", "model", "unlink", "end"} => stream["main"] \in open
    /\ \A w \in Writers : InModel /\ wpc[w] \in {"loop", "off_switch"} => stream[w] \in open

AlarmOnRound == cmd.interval > 0 => AlarmsOnRound(cmd.interval)

(* The pid file names the process to signal, while there is one.           *)
PidFileCorrect == TypeOK /\ PidFileNames /\ PidFileLeft

(* A log is reopened once per signal and never written to after its close. *)
LogsSound == OncePerSignal /\ NoClosedStream

(* The interval timer is on, and on round intervals, unless it was set in  *)
(* the first millisecond of a second.                                      *)
TimerRound == AlarmOnRound /\ OffOnlyAtExactSecond

=============================================================================
