----------------------------- MODULE EventStore -----------------------------
(***************************************************************************)
(* What the journaller promises, whatever its threads and queues: a FIFO   *)
(* pipe of bounded length between the network and an append-only journal   *)
(* that is cut into files.  A packet that was accepted is journalled in    *)
(* its turn.  It is lost only when the shutdown has begun, when a queue    *)
(* that does not wait is full (the newest packet is refused), or when the  *)
(* journal cannot be written (the oldest packet is spoilt).                *)
(***************************************************************************)
EXTENDS Integers, Sequences

CONSTANTS
  Capacity,   \* packets in flight
  NoWait,     \* TRUE if a full pipe refuses packets instead of waiting
  Fallible,   \* TRUE if writing the journal may fail
  Packet(_, _)  \* the packet with a given number, a rotate command or not

VARIABLES
  accepted,   \* number of packets accepted
  flight,     \* packets accepted and not yet journalled, oldest first
  journal,    \* packets journalled
  files,      \* length of the journal at each closing of a file
  closing     \* the shutdown has been requested

vars == <<accepted, flight, journal, files, closing>>

Init ==
  /\ accepted \in 0..Capacity
  /\ Len(flight) = accepted
  /\ \A i \in 1..accepted : flight[i].id = i
  /\ journal = <<>> /\ files = <<>>
  /\ closing = FALSE

Accept(rotate) ==
  /\ Len(flight) < Capacity
  /\ accepted' = accepted + 1
  /\ flight' = Append(flight, Packet(accepted + 1, rotate))
  /\ UNCHANGED <<journal, files, closing>>

Commit ==
  /\ flight # <<>>
  /\ journal' = Append(journal, Head(flight))
  /\ flight' = Tail(flight)
  /\ UNCHANGED <<accepted, files, closing>>

Cut ==
  /\ files' = Append(files, Len(journal))
  /\ UNCHANGED <<accepted, flight, journal, closing>>

Close ==
  /\ closing' = TRUE
  /\ UNCHANGED <<accepted, flight, journal, files>>

\* The newest packet does not fit: the queue holds two packets less than
\* the whole pipe, which also counts one in the hands of each worker.
Refuse ==
  /\ NoWait /\ Len(flight) + 1 >= Capacity
  /\ flight' = SubSeq(flight, 1, Len(flight) - 1)
  /\ UNCHANGED <<accepted, journal, files, closing>>

Spoil ==
  /\ Fallible /\ flight # <<>>
  /\ flight' = Tail(flight)
  /\ UNCHANGED <<accepted, journal, files, closing>>

\* Once the shutdown has begun any packets that follow each other in flight
\* may be thrown away.
Discard ==
  /\ closing
  /\ \E i \in 0..Len(flight) : \E j \in i..Len(flight) :
       flight' = SubSeq(flight, 1, i) \o SubSeq(flight, j + 1, Len(flight))
  /\ UNCHANGED <<accepted, journal, files, closing>>

Next ==
  \/ \E rotate \in BOOLEAN : Accept(rotate)
  \/ Commit \/ Cut \/ Close \/ Refuse \/ Spoil \/ Discard

Spec == Init /\ [][Next]_vars

=============================================================================
