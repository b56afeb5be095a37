---------------------------- MODULE MCJournaller -----------------------------
(***************************************************************************)
(* Command lines for each of the questions: what is wrong with them; the   *)
(* pid file; the logs; the timer.                                          *)
(***************************************************************************)
EXTENDS Journaller

Plain == [Defaults EXCEPT !.pid_file = FALSE]

MCCommandLines ==
  {[Plain EXCEPT !.type = "fast", !.errors = e, !.journals = j, !.interval = i,
                 !.info = b] :
     e \in SUBSET {"option", "user", "transport"},
     j \in {<<>>, <<"path">>, <<"name">>, <<"path", "name">>},
     i \in {-1, 0}, b \in {"none", "version", "args"}}
  \cup {[Plain EXCEPT !.type = t, !.nodaemonize = b, !.pid_file = TRUE, !.journals = j] :
          t \in {"serial", "fast"}, b \in BOOLEAN,
          j \in {<<"path">>, <<"path", "path">>}}
  \cup {[Plain EXCEPT !.type = "process", !.nodaemonize = b, !.pid_file = TRUE,
                      !.relative = TRUE] : b \in BOOLEAN}
  \cup {[Plain EXCEPT !.type = t, !.nodaemonize = b, !.log_file = TRUE] :
          t \in {"thread", "process", "serial"}, b \in BOOLEAN}
  \cup {[Plain EXCEPT !.type = "serial", !.interval = i] : i \in 1..4}
=============================================================================
