------------------------------- MODULE Emitter -------------------------------
(***************************************************************************)
(* lwes-journal-emitter: sends the events of journals again, all of them   *)
(* or a number, once or over and over (-d), as fast as it can, at a rate   *)
(* (-r) or with the timing of the journal (-t).  SIGINT, SIGTERM and       *)
(* SIGPIPE only set gbl_sig, which is looked at after an emission.         *)
(*                                                                         *)
(* now counts microseconds, of which there are MicrosPerMilli in a         *)
(* millisecond; sending takes a while and usleep sleeps as long as asked,  *)
(* unless a signal ends it.                                                *)
(***************************************************************************)
EXTENDS JournalFiles

CONSTANTS
  MicrosPerMilli,
  Delay,        \* delay_micros for the rate asked for
  MaxWork,      \* bound: time that an emission takes
  MaxEmitted,   \* bound: events sent
  Width,        \* numbers are unsigned long long, modulo Width
  UsleepWidth   \* and those that usleep takes are unsigned int

VARIABLES
  epc, args, opts,    \* options -n, -r, -t, -d
  offset, done, filename, epos,
  now, start_emit_time, current_emit_time, previous_emit_time, time_to_sleep,
  start_timestamp,    \* start_file_timestamp
  total_count, eret,
  gbl_sig,
  emitted             \* history: event, time of emission, first of its file,
                      \* sleep cut short

efile == <<args, opts, offset, done, filename>>
etime == <<start_emit_time, current_emit_time, previous_emit_time,
           time_to_sleep, start_timestamp>>
emitvars == <<epc, efile, epos, now, etime, total_count, eret, gbl_sig, emitted>>

NoTime == -1

EmitterInit ==
  /\ epc = "idle" /\ args = <<>>
  /\ opts = [number |-> 0, rate |-> FALSE, timings |-> FALSE, repeat |-> FALSE]
  /\ offset = 0 /\ done = FALSE /\ filename = Missing /\ epos = 1
  /\ now = 0 /\ start_emit_time = 0 /\ current_emit_time = 0
  /\ previous_emit_time = NoTime /\ time_to_sleep = 0 /\ start_timestamp = 0
  /\ total_count = 0 /\ eret = 0 /\ gbl_sig = FALSE /\ emitted = <<>>

\* options; handle_transport_arg fails without a known transport, an address
\* and a port, and a journal is required
EmitterStart(files, o, transport) ==
  /\ epc = "idle"
  /\ args' = files /\ opts' = o
  /\ IF transport /\ files # <<>> THEN epc' = "open" /\ UNCHANGED eret
                                  ELSE epc' = "done" /\ eret' = 1
  /\ UNCHANGED <<disk, offset, done, filename, epos, now, etime, total_count,
                 gbl_sig, emitted>>

NextOffset == (offset + 1) % Len(args)

MutEmitterOpen ==
  /\ epc = "open" /\ ~done
  /\ filename' = args[offset + 1]
  /\ done' = (~opts.repeat /\ offset + 1 = Len(args) - 1)
  /\ offset' = NextOffset
  /\ epos' = 1
  /\ start_emit_time' = now /\ current_emit_time' = 0
  /\ previous_emit_time' = NoTime
  /\ time_to_sleep' = 0 /\ start_timestamp' = 0
  /\ epc' = "read"
  /\ UNCHANGED <<disk, args, opts, now, total_count, eret, gbl_sig, emitted>>

\* while (! done): the next file, the first again after the last
EmitterOpen ==
  /\ epc = "open" /\ ~done
  /\ filename' = args[offset + 1]
  /\ done' = (~opts.repeat /\ offset = Len(args) - 1)
  /\ offset' = NextOffset
  /\ epos' = 1
  /\ start_emit_time' = now /\ current_emit_time' = 0
  /\ previous_emit_time' = NoTime
  /\ time_to_sleep' = 0 /\ start_timestamp' = 0
  /\ epc' = "read"
  /\ UNCHANGED <<disk, args, opts, now, total_count, eret, gbl_sig, emitted>>

\* reaching the number asked for (2) is not an error
EmitterFinish ==
  /\ epc = "open" /\ done
  /\ eret' = IF eret = 2 THEN 0 ELSE eret
  /\ epc' = "done"
  /\ UNCHANGED <<disk, efile, epos, now, etime, total_count, gbl_sig, emitted>>

EmitterEof ==
  /\ epc = "read" /\ ~HasHeader(filename, epos)
  /\ epc' = "open"
  /\ UNCHANGED <<disk, efile, epos, now, etime, total_count, eret, gbl_sig, emitted>>

EmitterRead ==
  /\ epc = "read" /\ HasHeader(filename, epos) /\ HasBody(filename, epos)
  /\ start_timestamp' = IF start_timestamp = 0 THEN Content(filename)[epos].time
                        ELSE start_timestamp
  /\ current_emit_time' = now
  /\ epc' = "timings"
  /\ UNCHANGED <<disk, efile, epos, now, start_emit_time, previous_emit_time,
                 time_to_sleep, total_count, eret, gbl_sig, emitted>>

EmitterReadFails ==
  /\ epc = "read" /\ HasHeader(filename, epos) /\ ~HasBody(filename, epos)
  /\ done' = TRUE /\ eret' = 1 /\ epc' = "open"
  /\ UNCHANGED <<disk, args, opts, offset, filename, epos, now, etime,
                 total_count, gbl_sig, emitted>>

\* micro_timediff: never negative
MicroTimediff(from, to) == IF to < from THEN 0 ELSE to - from

\* usleep: a signal ends it early
Sleep(micros) ==
  LET slept == micros % UsleepWidth
  IN  \/ now' = now + slept /\ UNCHANGED gbl_sig
      \/ slept > 0 /\ ~gbl_sig /\ now' \in now..(now + slept - 1) /\ gbl_sig' = TRUE

\* the time of this event after the first of its file
FileMicros ==
  ((Content(filename)[epos].time - start_timestamp) * MicrosPerMilli) % Width

EmitterTimings ==
  LET spent == MicroTimediff(start_emit_time, current_emit_time)
      pause == IF FileMicros > spent THEN FileMicros - spent ELSE 0
  IN  /\ epc = "timings"
      /\ IF opts.timings THEN time_to_sleep' = pause /\ Sleep(pause)
                         ELSE UNCHANGED <<time_to_sleep, now, gbl_sig>>
      /\ epc' = "rate"
      /\ UNCHANGED <<disk, efile, epos, start_emit_time, current_emit_time,
                     previous_emit_time, start_timestamp, total_count, eret, emitted>>

MutWorked == MicroTimediff(previous_emit_time, current_emit_time)

\* what was not spent sleeping since the last event was read
Worked ==
  (MicroTimediff(previous_emit_time, current_emit_time) - time_to_sleep) % Width

\* a rate is kept between the events of one file
EmitterRate ==
  LET pause == IF Delay > Worked THEN Delay - Worked ELSE 0
  IN  /\ epc = "rate"
      /\ IF opts.rate /\ previous_emit_time # NoTime
         THEN time_to_sleep' = pause /\ Sleep(pause)
         ELSE UNCHANGED <<time_to_sleep, now, gbl_sig>>
      /\ epc' = "emit"
      /\ UNCHANGED <<disk, efile, epos, start_emit_time, current_emit_time,
                     previous_emit_time, start_timestamp, total_count, eret, emitted>>

MutAfterEmission ==
  IF opts.number > 0 /\ opts.number = total_count'
  THEN done' = TRUE /\ eret' = 2 /\ epc' = "open"
  ELSE epc' = "read" /\ UNCHANGED <<done, eret>>

\* the number asked for is tested before the signal
AfterEmission ==
  IF opts.number > 0 /\ opts.number = total_count'
  THEN done' = TRUE /\ eret' = 2 /\ epc' = "open"
  ELSE IF gbl_sig THEN done' = TRUE /\ eret' = 3 /\ epc' = "open"
  ELSE epc' = "read" /\ UNCHANGED <<done, eret>>

EmitterEmit(work) ==
  /\ epc = "emit" /\ total_count < MaxEmitted
  /\ emitted' = Append(emitted, [id |-> Content(filename)[epos].id, at |-> now,
                                 after |-> now - start_emit_time,
                                 file |-> (Content(filename)[epos].time
                                             - start_timestamp) * MicrosPerMilli,
                                 first |-> previous_emit_time = NoTime,
                                 intr |-> gbl_sig])
  /\ now' = now + work
  /\ epos' = epos + 1
  /\ total_count' = total_count + 1
  /\ previous_emit_time' = current_emit_time
  /\ AfterEmission
  /\ UNCHANGED <<disk, args, opts, offset, filename, start_emit_time,
                 current_emit_time, time_to_sleep, start_timestamp, gbl_sig>>

EmitterEmitFails ==
  /\ epc = "emit" /\ total_count < MaxEmitted
  /\ done' = TRUE /\ eret' = 1 /\ epc' = "open"
  /\ UNCHANGED <<disk, args, opts, offset, filename, epos, now, etime,
                 total_count, gbl_sig, emitted>>

\* signal_handler
EmitterSignal ==
  /\ epc \notin {"idle", "done"} /\ ~gbl_sig
  /\ gbl_sig' = TRUE
  /\ UNCHANGED <<disk, epc, efile, epos, now, etime, total_count, eret, emitted>>

EmitterStep ==
  \/ EmitterOpen \/ EmitterFinish \/ EmitterEof \/ EmitterRead \/ EmitterReadFails
  \/ EmitterTimings \/ EmitterRate
  \/ \E work \in 0..MaxWork : EmitterEmit(work)
  \/ EmitterEmitFails

-----------------------------------------------------------------------------
(* Properties *)

\* the events of one pass over the files
Pass == FlattenSeq([i \in DOMAIN args |-> Whole(Content(args[i]))])

EmittedIds == [i \in DOMAIN emitted |-> emitted[i].id]

(* Events are sent in the order of the journals, none left out and none    *)
(* twice, and with -d the first journal follows the last.                  *)
EmittedInOrder ==
  /\ emitted # <<>> => Pass # <<>>
  /\ \A i \in DOMAIN emitted : emitted[i].id = Pass[((i - 1) % Len(Pass)) + 1].id
  /\ ~opts.repeat => Len(emitted) <= Len(Pass)

(* An exit status of 0 means that all was sent, or exactly the number      *)
(* asked for; 3 means that a signal came.  (A journal that cannot be       *)
(* opened counts as empty.)                                                *)
ExitStatusMeans ==
  epc = "done" =>
    /\ eret \in {0, 1, 3}
    /\ eret = 0 =>
         \/ opts.number > 0 /\ Len(emitted) = opts.number
         \/ /\ ~opts.repeat /\ Len(emitted) = Len(Pass)
            /\ \A f \in ToSet(args) : Content(f) = Whole(Content(f))
    /\ eret = 3 => gbl_sig

(* "sleep time plus processing time should equal delay_ms": with a rate    *)
(* alone, two events of a file are sent no closer than the delay, although *)
(* the time kept of an event is the one before the sleep.  Not so with -t  *)
(* in addition, whose sleep takes the place of the previous one.           *)
RateKept ==
  opts.rate /\ ~opts.timings =>
    \A i \in DOMAIN emitted :
      ~emitted[i].first /\ ~emitted[i].intr =>
        emitted[i].at - emitted[i - 1].at >= Delay

(* With -t an event is not sent before its time, counted from the opening  *)
(* of its file, also if sending the ones before took long; unless it is    *)
(* more than 71 minutes, which usleep does not sleep.                      *)
TimingsKept ==
  opts.timings =>
    \A i \in DOMAIN emitted :
      ~emitted[i].intr /\ emitted[i].file < UsleepWidth =>
        emitted[i].after >= emitted[i].file

(* After a signal at most one more event is sent.                          *)
StopsAfterSignal ==
  Cardinality({i \in DOMAIN emitted : emitted[i].intr}) <= 1

(* A signal ends the program, unless it goes over journals without events  *)
(* again and again: gbl_sig is looked at after an emission only.           *)
SignalEnds ==
  (gbl_sig /\ total_count < MaxEmitted /\ (opts.repeat => Pass # <<>>))
    ~> epc = "done"

=============================================================================
