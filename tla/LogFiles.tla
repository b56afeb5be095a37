------------------------------ MODULE LogFiles -------------------------------
(***************************************************************************)
(* The log streams of the journaller and their reopening (log.c).  An      *)
(* administrator renames the log file and sends SIGUSR1; every writer of a *)
(* log must then open the path again.  A log file is known by the number   *)
(* of renames before it was created.  A stream is known by the writer that *)
(* opened it; "main" is stdout of the main process.                        *)
(***************************************************************************)
EXTENDS Integers, FiniteSets

CONSTANTS
  MaxRenames, MaxUsr1,   \* bounds: what the administrator does
  MaxFails               \* bound: openings of the log that fail

ASSUME LogFilesAssumption == {MaxRenames, MaxUsr1, MaxFails} \subseteq Nat

VARIABLES
  renames,    \* renames so far
  exists,     \* there is a file at the path
  stream,     \* the stream that each writer logs to
  file,       \* the log file behind each stream, or NoLog
  open,       \* streams that are open
  switch,     \* gbl_rotate_main_log, gbl_rotate_enqueue_log, .._dequeue_log
  fails, usr1,
  asked,      \* history: renames before the last SIGUSR1
  missed,     \* history: writers for which the last SIGUSR1 had no effect
  reopened    \* history: how often each writer reopened its log

streams == <<stream, file, open>>
logvars == <<renames, exists, streams, switch, fails, usr1, asked, missed, reopened>>

Writers == {"main", "signal", "enq", "deq"}
NoLog == -1

LogInit ==
  /\ renames = 0 /\ exists = FALSE /\ fails = 0 /\ usr1 = 0 /\ asked = 0
  /\ stream = [w \in Writers |-> "main"]
  /\ file = [w \in Writers |-> NoLog] /\ open = {"main"}
  /\ switch = [w \in Writers |-> FALSE]
  /\ missed = {} /\ reopened = [w \in Writers |-> 0]

\* the stream s now writes to the file at the path, which is created
ToPath(s) ==
  /\ file' = [file EXCEPT ![s] = renames]
  /\ open' = open \cup {s}
  /\ exists' = TRUE
  /\ UNCHANGED fails

CannotOpen == fails < MaxFails /\ fails' = fails + 1 /\ UNCHANGED exists

\* get_log (NULL): fopen, or else stdout
NewLog(w, given) ==
  \/ given /\ stream' = [stream EXCEPT ![w] = w] /\ ToPath(w)
  \/ /\ \/ given /\ CannotOpen
        \/ ~given /\ UNCHANGED <<exists, fails>>
     /\ stream' = [stream EXCEPT ![w] = "main"]
     /\ UNCHANGED <<file, open>>

\* get_log (log): freopen, which closes the stream even if it fails; or
\* else the stdout of the process
GetLog(w, given, stdout) ==
  \/ given /\ ToPath(stream[w]) /\ UNCHANGED stream
  \/ /\ given /\ CannotOpen
     /\ stream' = [stream EXCEPT ![w] = stdout]
     /\ file' = [file EXCEPT ![stream[w]] = NoLog]
     /\ open' = open \ {stream[w]}
  \/ ~given /\ stream' = [stream EXCEPT ![w] = stdout] /\ UNCHANGED <<file, open, exists, fails>>

CloseLog(w) == open' = open \ {stream[w]} /\ UNCHANGED <<stream, file>>

\* a log that is reopened while a signal is served
Reopen(w, given, stdout) ==
  /\ GetLog(w, given, stdout)
  /\ reopened' = [reopened EXCEPT ![w] = IF @ > MaxUsr1 THEN @ ELSE @ + 1]
  /\ missed' = missed \ {w}
  /\ UNCHANGED <<renames, usr1, asked>>

MutSwitchOff(w) == UNCHANGED <<switch, missed>>

\* CAS_OFF after the reopening: a signal in between is forgotten
SwitchOff(w) ==
  /\ switch' = [switch EXCEPT ![w] = FALSE]
  /\ missed' = IF file[stream[w]] < asked THEN missed \cup {w} ELSE missed

\* the administrator
Rename ==
  /\ exists /\ renames < MaxRenames
  /\ renames' = renames + 1 /\ exists' = FALSE
  /\ UNCHANGED <<streams, switch, fails, usr1, asked, missed, reopened>>

Usr1 ==
  /\ usr1 < MaxUsr1
  /\ usr1' = usr1 + 1 /\ asked' = renames
  /\ UNCHANGED <<renames, exists, streams, fails, reopened>>

-----------------------------------------------------------------------------

\* the writer still logs to a file that was renamed before the signal, not
\* for one of the known reasons
Behind(w) == file[stream[w]] < asked /\ w \notin missed /\ fails = 0

=============================================================================
