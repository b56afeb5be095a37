----------------------------- MODULE SerialModel -----------------------------
(***************************************************************************)
(* serial_model.c: one thread reads datagrams from the transport and       *)
(* writes them to a single journal, without a queue.  Signal handlers set  *)
(* the global switches between any two steps of the loop; a handler runs   *)
(* to its end before the loop goes on, so a rotate signal sets both rotate *)
(* switches in one step.                                                   *)
(*                                                                         *)
(* From time to time the journaller sends itself an Internal::Queue::Depth *)
(* event that carries the count of events received, to find out from the   *)
(* count at its receipt how many events wait in the socket buffer.  The    *)
(* clock that paces these tests is abstracted: after a receipt a test may  *)
(* be due or not.                                                          *)
(***************************************************************************)
EXTENDS Integers, Sequences, FiniteSets, Functions

CONSTANTS
  SockCap,    \* datagrams the socket buffer holds
  MaxEvents,  \* bound: datagrams that arrive
  MaxTests,   \* bound: depth tests sent
  MaxErrors,  \* bound: failed reads of the socket
  MaxHup,     \* bound: rotate signals
  Faults      \* the calls that may fail: "journal_close", "journal_open",
              \* "journal_write"

ASSUME SerialAssumption ==
  /\ SockCap \in Nat \ {0}
  /\ {MaxEvents, MaxTests, MaxErrors, MaxHup} \subseteq Nat
  /\ Faults \subseteq {"journal_close", "journal_open", "journal_write"}

VARIABLES
  gbl_done, gbl_rotate_enqueue, gbl_rotate_dequeue,
  pc, is_rotate_event,
  sock,               \* socket buffer
  narrived,           \* datagrams that have arrived, depth tests aside
  count,              \* events received, depth tests included
  pending,            \* result of the last depth test
  fresh,              \* tm was set since the last depth test was sent
  written, cuts,      \* journal, and its length at each close
  lost,               \* packets whose journal write failed
  esince, ereported,  \* enqueuer_stats since the last rotate, and reported
  dsince, reports,    \* dequeuer_stats since the last rotate, and what the
                      \* reports come to, after each report
  ntests, nerrors, nhup,
  asked               \* history: packets journalled when the last HUP came

gvars == <<gbl_done, gbl_rotate_enqueue, gbl_rotate_dequeue>>
svars == <<sock, narrived>>
depth == <<count, pending, fresh>>
jvars == <<written, cuts, lost>>
stats == <<esince, ereported, dsince, reports>>
bounds == <<ntests, nerrors, nhup, asked>>
vars == <<gvars, pc, is_rotate_event, svars, depth, jvars, stats, bounds>>

Datagram ==
  [kind: {"event"}, id: Nat, rotate: BOOLEAN]
    \cup [kind: {"depth"}, count: Nat, ahead: Nat]

Init ==
  /\ gbl_done = FALSE
  /\ gbl_rotate_enqueue = FALSE /\ gbl_rotate_dequeue = FALSE
  /\ pc = "read" /\ is_rotate_event = FALSE
  /\ sock = <<>> /\ narrived = 0
  /\ count = 0 /\ pending = 0 /\ fresh = FALSE
  /\ written = <<>> /\ cuts = <<>> /\ lost = {}
  /\ esince = 0 /\ ereported = 0 /\ dsince = 0 /\ reports = <<>>
  /\ ntests = 0 /\ nerrors = 0 /\ nhup = 0 /\ asked = 0

-----------------------------------------------------------------------------
(* The environment: datagrams and signals.  A datagram that finds the      *)
(* buffer full is dropped by the kernel and never known to the program.    *)

Arrive(rotate) ==
  /\ narrived < MaxEvents /\ Len(sock) < SockCap
  /\ narrived' = narrived + 1
  /\ sock' = Append(sock, [kind |-> "event", id |-> narrived + 1,
                           rotate |-> rotate])
  /\ UNCHANGED <<gvars, pc, is_rotate_event, depth, jvars, stats, bounds>>

\* rotate_signal_handler
RotateSignal ==
  /\ nhup < MaxHup
  /\ nhup' = nhup + 1 /\ asked' = Len(written)
  /\ gbl_rotate_enqueue' = TRUE /\ gbl_rotate_dequeue' = TRUE
  /\ UNCHANGED <<gbl_done, pc, is_rotate_event, svars, depth, jvars, stats,
                 ntests, nerrors>>

\* terminate_signal_handler
TerminateSignal ==
  /\ ~gbl_done
  /\ gbl_done' = TRUE
  /\ UNCHANGED <<gbl_rotate_enqueue, gbl_rotate_dequeue, pc, is_rotate_event,
                 svars, depth, jvars, stats, bounds>>

-----------------------------------------------------------------------------
(* serial_read, serial_handle_depth_test and serial_write: no switch is    *)
(* tested between them.                                                    *)

\* An event or a command is received, written to the journal and counted;
\* a failed write is counted as written and as lost.
ReadEvent ==
  /\ pc = "read" /\ sock # <<>> /\ Head(sock).kind = "event"
  /\ sock' = Tail(sock)
  /\ count' = count + 1 /\ fresh' = TRUE
  /\ \/ written' = Append(written, Head(sock)) /\ UNCHANGED lost
     \/ /\ "journal_write" \in Faults
        /\ lost' = lost \cup {Head(sock)} /\ UNCHANGED written
  /\ esince' = esince + 1 /\ dsince' = dsince + 1
  /\ is_rotate_event' = Head(sock).rotate
  /\ pc' = "test"
  /\ UNCHANGED <<gvars, narrived, pending, cuts, ereported, reports, bounds>>

\* Mutant: the depth test itself is not counted as received.
MutReadDepth ==
  /\ pc = "read" /\ sock # <<>> /\ Head(sock).kind = "depth"
  /\ sock' = Tail(sock)
  /\ fresh' = TRUE
  /\ pending' = count - Head(sock).count - 1
  /\ pc' = "check"
  /\ UNCHANGED <<gvars, is_rotate_event, narrived, count, jvars, stats, bounds>>

\* Mutant: the depth test stays in the statistics of the enqueuer.
MutReadDepthKeeps ==
  /\ pc = "read" /\ sock # <<>> /\ Head(sock).kind = "depth"
  /\ sock' = Tail(sock)
  /\ count' = count + 1 /\ fresh' = TRUE
  /\ pending' = count' - Head(sock).count - 1
  /\ esince' = esince + 1
  /\ pc' = "check"
  /\ UNCHANGED <<gvars, is_rotate_event, narrived, jvars, ereported, dsince,
                 reports, bounds>>

\* A depth test comes back: it is taken out of the statistics again, and
\* the events that came in between are counted.
ReadDepth ==
  /\ pc = "read" /\ sock # <<>> /\ Head(sock).kind = "depth"
  /\ sock' = Tail(sock)
  /\ count' = count + 1 /\ fresh' = TRUE
  /\ pending' = count' - Head(sock).count - 1
  /\ pc' = "check"
  /\ UNCHANGED <<gvars, is_rotate_event, narrived, jvars, stats, bounds>>

\* Mutant: the cleared buffer is written after an interruption.
MutReadInterrupted ==
  /\ pc = "read" /\ sock = <<>>
  /\ is_rotate_event' = FALSE
  /\ written' = Append(written, [kind |-> "event", id |-> 0, rotate |-> FALSE])
  /\ pc' = "test"
  /\ UNCHANGED <<gvars, svars, depth, cuts, lost, stats, bounds>>

\* The wait times out or is interrupted; the buffer was cleared before.
ReadInterrupted ==
  /\ pc = "read" /\ sock = <<>>
  /\ is_rotate_event' = FALSE
  /\ pc' = "test"
  /\ UNCHANGED <<gvars, svars, depth, jvars, stats, bounds>>

\* Any other failure of the read skips the rest of the loop body.
ReadError ==
  /\ pc = "read" /\ nerrors < MaxErrors
  /\ nerrors' = nerrors + 1
  /\ pc' = "check"
  /\ UNCHANGED <<gvars, is_rotate_event, svars, depth, jvars, stats, ntests,
                 nhup, asked>>

-----------------------------------------------------------------------------
(* serial_rotate and serial_dtor: serial_close_journal, then open *)

\* Mutant: only a rotate command makes the journal rotate.
MutTestRotate ==
  /\ pc = "test"
  /\ pc' = IF is_rotate_event THEN "enqueue" ELSE "depth"
  /\ UNCHANGED <<gvars, is_rotate_event, svars, depth, jvars, stats, bounds>>

\* if (is_rotate_event || gbl_rotate_dequeue || gbl_rotate_enqueue)
TestRotate ==
  /\ pc = "test"
  /\ pc' = IF is_rotate_event \/ gbl_rotate_dequeue \/ gbl_rotate_enqueue
             THEN "enqueue" ELSE "depth"
  /\ UNCHANGED <<gvars, is_rotate_event, svars, depth, jvars, stats, bounds>>

\* if (gbl_done || gbl_rotate_enqueue || is_rotate_event)
CloseEnqueuer ==
  /\ pc = "enqueue"
  /\ IF gbl_done \/ gbl_rotate_enqueue \/ is_rotate_event
       THEN /\ ereported' = ereported + esince /\ esince' = 0
            /\ pc' = "enqueue_off"
       ELSE pc' = "dequeue" /\ UNCHANGED <<esince, ereported>>
  /\ UNCHANGED <<gvars, is_rotate_event, svars, depth, jvars, dsince, reports,
                 bounds>>

\* CAS_OFF(gbl_rotate_enqueue)
CasOffEnqueue ==
  /\ pc = "enqueue_off"
  /\ gbl_rotate_enqueue' = FALSE
  /\ pc' = "dequeue"
  /\ UNCHANGED <<gbl_done, gbl_rotate_dequeue, is_rotate_event, svars, depth,
                 jvars, stats, bounds>>

\* What dequeuer_stats has reported until now.
LastReport == IF reports = <<>> THEN 0 ELSE reports[Len(reports)]

\* if (gbl_done || gbl_rotate_dequeue || is_rotate_event)
CloseDequeuer ==
  /\ pc = "dequeue"
  /\ IF gbl_done \/ gbl_rotate_dequeue \/ is_rotate_event
       THEN /\ reports' = Append(reports, LastReport + dsince) /\ dsince' = 0
            /\ pc' = "dequeue_off"
       ELSE pc' = "close" /\ UNCHANGED <<dsince, reports>>
  /\ UNCHANGED <<gvars, is_rotate_event, svars, depth, jvars, esince,
                 ereported, bounds>>

\* CAS_OFF(gbl_rotate_dequeue)
CasOffDequeue ==
  /\ pc = "dequeue_off"
  /\ gbl_rotate_dequeue' = FALSE
  /\ pc' = "close"
  /\ UNCHANGED <<gbl_done, gbl_rotate_enqueue, is_rotate_event, svars, depth,
                 jvars, stats, bounds>>

\* The journal is closed and renamed; then the rotation opens the next one.
\* A failure of either is fatal.
CloseJournal ==
  /\ pc = "close"
  /\ \/ pc' = "open" /\ cuts' = Append(cuts, Len(written))
     \/ pc' = "exit" /\ "journal_close" \in Faults /\ UNCHANGED cuts
  /\ UNCHANGED <<gvars, is_rotate_event, svars, depth, written, lost, stats,
                 bounds>>

OpenJournal ==
  /\ pc = "open"
  /\ \/ pc' = "depth"
     \/ pc' = "exit" /\ "journal_open" \in Faults
  /\ is_rotate_event' = FALSE
  /\ UNCHANGED <<gvars, svars, depth, jvars, stats, bounds>>

-----------------------------------------------------------------------------
(* serial_send_buffer_depth_test and the end of the loop *)

\* if (tm >= depth_tm + depth_dtm): the test joins the socket buffer, unless
\* that is full.  A test is due at most once per receipt.
SendDepthTest ==
  /\ pc = "depth" /\ fresh /\ ntests < MaxTests
  /\ ntests' = ntests + 1
  /\ sock' = IF Len(sock) < SockCap
               THEN Append(sock, [kind |-> "depth", count |-> count,
                                  ahead |-> Len(sock)])
               ELSE sock
  /\ fresh' = FALSE
  /\ pc' = "check"
  /\ UNCHANGED <<gvars, is_rotate_event, narrived, count, pending, jvars, stats,
                 nerrors, nhup, asked>>

NoDepthTest ==
  /\ pc = "depth"
  /\ pc' = "check"
  /\ UNCHANGED <<gvars, is_rotate_event, svars, depth, jvars, stats, bounds>>

\* Mutant: the loop waits for the last depth test to have seen no events.
MutCheck ==
  /\ pc = "check"
  /\ pc' = IF gbl_done /\ pending = 0 THEN "fini" ELSE "read"
  /\ UNCHANGED <<gvars, is_rotate_event, svars, depth, jvars, stats, bounds>>

\* while (!gbl_done), then serial_dtor closes the journal
Check ==
  /\ pc = "check"
  /\ pc' = IF gbl_done THEN "fini" ELSE "read"
  /\ UNCHANGED <<gvars, is_rotate_event, svars, depth, jvars, stats, bounds>>

\* serial_close_journal with gbl_done set: both statistics are rotated, both
\* switches cleared, the journal is closed.
Fini ==
  /\ pc = "fini"
  /\ ereported' = ereported + esince /\ esince' = 0
  /\ reports' = Append(reports, LastReport + dsince) /\ dsince' = 0
  /\ gbl_rotate_enqueue' = FALSE /\ gbl_rotate_dequeue' = FALSE
  /\ \/ pc' = "done" /\ cuts' = Append(cuts, Len(written))
     \/ pc' = "exit" /\ "journal_close" \in Faults /\ UNCHANGED cuts
  /\ UNCHANGED <<gbl_done, is_rotate_event, svars, depth, written, lost, bounds>>

Ended == pc \in {"done", "exit"}

Program ==
  \/ ReadEvent \/ ReadDepth \/ ReadInterrupted \/ ReadError
  \/ TestRotate \/ CloseEnqueuer \/ CasOffEnqueue \/ CloseDequeuer
  \/ CasOffDequeue \/ CloseJournal \/ OpenJournal
  \/ SendDepthTest \/ NoDepthTest \/ Check \/ Fini

Environment ==
  (\E rotate \in BOOLEAN : Arrive(rotate)) \/ RotateSignal \/ TerminateSignal

Next ==
  \/ ~Ended /\ (Program \/ Environment)
  \/ Ended /\ UNCHANGED vars

Spec == Init /\ [][Next]_vars

\* The process is scheduled; the read of the transport ends by its timeout.
FairSpec == Spec /\ WF_vars(Program)

-----------------------------------------------------------------------------
TypeOK ==
  /\ gbl_done \in BOOLEAN
  /\ gbl_rotate_enqueue \in BOOLEAN /\ gbl_rotate_dequeue \in BOOLEAN
  /\ pc \in {"read", "test", "enqueue", "enqueue_off", "dequeue",
             "dequeue_off", "close", "open", "depth", "check", "fini",
             "done", "exit"}
  /\ is_rotate_event \in BOOLEAN
  /\ sock \in Seq(Datagram) /\ Len(sock) <= SockCap /\ narrived \in Nat
  /\ count \in Nat /\ pending \in Nat /\ fresh \in BOOLEAN
  /\ written \in Seq(Datagram) /\ cuts \in Seq(Nat) /\ lost \subseteq Datagram
  /\ esince \in Nat /\ ereported \in Nat /\ dsince \in Nat
  /\ reports \in Seq(Nat)
  /\ {ntests, nerrors, nhup, asked} \subseteq Nat

\* The depth test measures what it is meant to: the number of datagrams in
\* the socket buffer when it was sent ("It represents the number of events in
\* the recv buffer of the operating system"), whatever arrives, is dropped,
\* or is tested again in the meantime.
DepthExact ==
  [][sock # <<>> /\ sock' = Tail(sock) /\ Head(sock).kind = "depth"
       => pending' = Head(sock).ahead]_vars

\* Depth tests are in no statistics, every other datagram is in exactly one
\* report or still counted, on both sides.
StatsAddUp ==
  LET received == Len(written) + Cardinality(lost)
  IN  /\ ereported + esince = received
      /\ LastReport + dsince = received

\* A journal is rotated only for a command or a signal, the close at
\* shutdown aside; a signal that comes during a rotation causes at most one
\* rotation more.
NoSpuriousRotation ==
  Len(cuts) <= Cardinality({e \in Range(written) \cup lost : e.rotate}) + nhup
                 + IF pc = "done" THEN 1 ELSE 0

\* The statistics of the serial model leave out the depth tests and nothing
\* else, and its rotations have a reason each.
CountsExact == TypeOK /\ StatsAddUp /\ NoSpuriousRotation

\* What has been reported at each closing ("packets in this journal") is what
\* is in the closed journals.  This is not an invariant: a signal between the
\* two tests of serial_close_journal rotates the journal once more without a
\* report.
ReportMatchesJournal ==
  \A k \in DOMAIN cuts \cap DOMAIN reports : reports[k] = cuts[k]

\* After a rotate signal every packet journalled before it comes to be in a
\* closed journal.
LastCut == IF cuts = <<>> THEN 0 ELSE cuts[Len(cuts)]

HupArchives ==
  \A n \in 1..MaxEvents : asked = n ~> LastCut >= n \/ pc = "exit"

\* A termination signal ends the program.
ShutdownCompletes == gbl_done ~> Ended

\* The loop implements the pipe of module EventStore: what is in flight are
\* the events in the socket buffer, depth tests left out.
IsEvent(d) == d.kind = "event"

EventsOf(s) ==
  LET events[n \in 0..Len(s)] ==
        IF n = 0 THEN <<>>
        ELSE IF IsEvent(s[n]) THEN Append(events[n - 1], s[n]) ELSE events[n - 1]
  IN  events[Len(s)]

Store == INSTANCE EventStore WITH
  Capacity <- SockCap, NoWait <- FALSE, Fallible <- "journal_write" \in Faults,
  Packet <- LAMBDA n, r : [kind |-> "event", id |-> n, rotate |-> r],
  accepted <- narrived, flight <- EventsOf(sock),
  journal <- written, files <- cuts, closing <- gbl_done

ImplementsStore == Store!Spec

=============================================================================
