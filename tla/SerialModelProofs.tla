-------------------------- MODULE SerialModelProofs --------------------------
(***************************************************************************)
(* Proofs about the serial model, for any socket buffer, any number of     *)
(* datagrams, depth tests, failed reads and signals and any faults:        *)
(*                                                                         *)
(*   DepthCorrect   a depth test measures the socket buffer                *)
(*   CountsCorrect  statistics without the tests, a reason per rotation    *)
(*   StoreImplemented  the events are in a pipe that keeps their order     *)
(***************************************************************************)
EXTENDS SerialModel, FiniteSetTheorems, SequenceTheorems, WellFoundedInduction, TLAPS

USE SerialAssumption

-----------------------------------------------------------------------------
(* Sequences and datagrams *)

EventRec == [kind: {"event"}, id: Nat, rotate: BOOLEAN]
DepthRec == [kind: {"depth"}, count: Nat, ahead: Nat]

LEMMA DatagramType ==
  ASSUME NEW d \in Datagram
  PROVE  /\ d.kind = "event" => d \in EventRec /\ d.id \in Nat /\ d.rotate \in BOOLEAN
         /\ d.kind = "depth" => d.count \in Nat /\ d.ahead \in Nat
         /\ d.kind \in {"event", "depth"}
  BY DEF Datagram, EventRec

LEMMA TailElements ==
  ASSUME NEW S, NEW s \in Seq(S), s # <<>>
  PROVE  /\ Head(s) \in S /\ Head(s) = s[1] /\ 1 \in DOMAIN s
         /\ Tail(s) \in Seq(S) /\ Len(Tail(s)) = Len(s) - 1
         /\ \A i \in DOMAIN Tail(s) : i + 1 \in DOMAIN s /\ Tail(s)[i] = s[i + 1]
  OBVIOUS

LEMMA AppendElements ==
  ASSUME NEW S, NEW s \in Seq(S), NEW d \in S
  PROVE  /\ Append(s, d) \in Seq(S) /\ Len(Append(s, d)) = Len(s) + 1
         /\ \A i \in DOMAIN Append(s, d) :
              \/ i \in DOMAIN s /\ Append(s, d)[i] = s[i]
              \/ i = Len(s) + 1 /\ Append(s, d)[i] = d
  OBVIOUS

LEMMA RangeAppend ==
  ASSUME NEW S, NEW s \in Seq(S), NEW d \in S
  PROVE  Range(Append(s, d)) = Range(s) \cup {d}
<1>1. /\ DOMAIN Append(s, d) = 1..(Len(s) + 1) /\ DOMAIN s = 1..Len(s)
      /\ \A i \in 1..Len(s) : Append(s, d)[i] = s[i]
      /\ Append(s, d)[Len(s) + 1] = d
  OBVIOUS
<1>2. QED
  BY <1>1 DEF Range

LEMMA LastReportType ==
  ASSUME reports \in Seq(Nat)
  PROVE  LastReport \in Nat
<1>1. reports # <<>> => Len(reports) \in 1..Len(reports)
  OBVIOUS
<1>2. QED
  BY <1>1 DEF LastReport

\* What a step does to the socket buffer and to what has left it.
LEMMA SockMoves ==
  ASSUME TypeOK, [Next]_vars
  PROVE  \/ sock' = sock /\ UNCHANGED <<narrived, count, written, lost>>
         \/ \E rotate \in BOOLEAN : Arrive(rotate)
         \/ ReadEvent \/ ReadDepth
         \/ SendDepthTest /\ Len(sock) < SockCap
<1>1. CASE Arrive(TRUE) \/ Arrive(FALSE)
  BY <1>1
<1>2. CASE SendDepthTest
  BY <1>2 DEF SendDepthTest, jvars
<1>3. CASE RotateSignal \/ TerminateSignal \/ UNCHANGED vars
  BY <1>3 DEF RotateSignal, TerminateSignal, vars, svars, depth, jvars
<1>4. CASE \/ ReadInterrupted \/ ReadError \/ TestRotate \/ CloseEnqueuer
           \/ CasOffEnqueue \/ CloseDequeuer \/ CasOffDequeue \/ CloseJournal
           \/ OpenJournal \/ NoDepthTest \/ Check \/ Fini
  BY <1>4 DEF ReadInterrupted, ReadError, TestRotate, CloseEnqueuer,
              CasOffEnqueue, CloseDequeuer, CasOffDequeue, CloseJournal,
              OpenJournal, NoDepthTest, Check, Fini, svars, depth, jvars
<1>5. QED
  BY <1>1, <1>2, <1>3, <1>4 DEF Next, Program, Environment

-----------------------------------------------------------------------------
(* The depth test *)

\* A test in the buffer lies behind as many datagrams, tests included, as
\* were there when it was sent less those received since.
DepthInv ==
  \A i \in DOMAIN sock : sock[i].kind = "depth" =>
    \E c, a \in Nat :
      sock[i].count = c /\ sock[i].ahead = a /\ c + a = count + i - 1

\* What a test reports at its receipt.
LEMMA DepthMeasured ==
  ASSUME TypeOK, DepthInv, ReadDepth
  PROVE  pending' = Head(sock).ahead /\ pending' \in Nat
<1>1. /\ sock # <<>> /\ Head(sock).kind = "depth" /\ count \in Nat
      /\ sock \in Seq(Datagram)
  BY DEF ReadDepth, TypeOK
<1>2. Head(sock) = sock[1] /\ 1 \in DOMAIN sock
  BY <1>1, TailElements
<1>3. PICK c \in Nat, a \in Nat :
        sock[1].count = c /\ sock[1].ahead = a /\ c + a = count + 1 - 1
  BY <1>1, <1>2 DEF DepthInv
<1>4. PICK n \in Nat : n = count + 1
  BY <1>1
<1>5. count' = n
  BY <1>4 DEF ReadDepth
<1>6. pending' = n - c - 1
  BY <1>2, <1>3, <1>5, Zenon DEF ReadDepth
<1>7. n - c - 1 = a
  BY <1>1, <1>3, <1>4
<1>8. QED
  BY <1>2, <1>3, <1>6, <1>7

LEMMA DepthStep ==
  ASSUME TypeOK, DepthInv, [Next]_vars
  PROVE  DepthInv'
<1>1. /\ count \in Nat /\ sock \in Seq(Datagram) /\ narrived \in Nat
  BY DEF TypeOK
<1>2. CASE sock' = sock /\ count' = count
  BY <1>2 DEF DepthInv
<1>3. ASSUME NEW d \in Datagram, sock' = Append(sock, d), count' = count,
             d.kind = "depth" => d.count = count /\ d.ahead = Len(sock)
      PROVE  DepthInv'
  <2> SUFFICES ASSUME NEW i \in DOMAIN sock', sock'[i].kind = "depth"
               PROVE  \E c, a \in Nat : /\ sock'[i].count = c /\ sock'[i].ahead = a
                                        /\ c + a = count + i - 1
    BY <1>3 DEF DepthInv
  <2>1. \/ i \in DOMAIN sock /\ sock'[i] = sock[i]
        \/ i = Len(sock) + 1 /\ sock'[i] = d
    BY <1>1, <1>3, AppendElements
  <2>2. CASE i \in DOMAIN sock /\ sock'[i] = sock[i]
    BY <2>2 DEF DepthInv
  <2>3. CASE i = Len(sock) + 1 /\ sock'[i] = d
    <3>1. d.count = count /\ d.ahead = Len(sock)
      BY <1>3, <2>3
    <3>2. count + Len(sock) = count + i - 1 /\ Len(sock) \in Nat
      BY <1>1, <2>3
    <3>3. QED
      BY <1>1, <2>3, <3>1, <3>2
  <2>4. QED
    BY <2>1, <2>2, <2>3
<1>4. CASE \E rotate \in BOOLEAN : Arrive(rotate)
  <2>1. PICK rotate \in BOOLEAN : Arrive(rotate)
    BY <1>4
  <2> DEFINE d == [kind |-> "event", id |-> narrived + 1, rotate |-> rotate]
  <2>2. d \in Datagram /\ d.kind # "depth"
    BY <1>1, <2>1 DEF Datagram
  <2>3. sock' = Append(sock, d) /\ count' = count
    BY <2>1 DEF Arrive, depth
  <2> HIDE DEF d
  <2>4. QED
    BY <1>3, <2>2, <2>3
<1>5. CASE SendDepthTest /\ Len(sock) < SockCap
  <2> DEFINE d == [kind |-> "depth", count |-> count, ahead |-> Len(sock)]
  <2>1. d \in Datagram /\ d.count = count /\ d.ahead = Len(sock)
    BY <1>1 DEF Datagram
  <2>2. sock' = Append(sock, d) /\ count' = count
    BY <1>5 DEF SendDepthTest
  <2> HIDE DEF d
  <2>3. QED
    BY <1>3, <2>1, <2>2
<1>6. CASE ReadEvent \/ ReadDepth
  <2>1. sock # <<>> /\ sock' = Tail(sock) /\ count' = count + 1
    BY <1>6 DEF ReadEvent, ReadDepth
  <2> SUFFICES ASSUME NEW i \in DOMAIN sock', sock'[i].kind = "depth"
               PROVE  \E c, a \in Nat : /\ sock'[i].count = c /\ sock'[i].ahead = a
                                        /\ c + a = count' + i - 1
    BY DEF DepthInv
  <2>2. i + 1 \in DOMAIN sock /\ sock'[i] = sock[i + 1]
    BY <1>1, <2>1, TailElements
  <2>3. PICK c \in Nat, a \in Nat : /\ sock[i + 1].count = c /\ sock[i + 1].ahead = a
                                    /\ c + a = count + (i + 1) - 1
    BY <2>2 DEF DepthInv
  <2>4. i \in Nat
    BY <1>1, <2>1
  <2>5. c + a = count' + i - 1
    BY <1>1, <2>1, <2>3, <2>4
  <2>6. QED
    BY <2>2, <2>3, <2>5
<1>7. QED
  BY <1>2, <1>4, <1>5, <1>6, SockMoves

-----------------------------------------------------------------------------
(* Types *)

LEMMA StatsStay ==
  ASSUME [Next]_vars, ~ReadEvent, ~CloseEnqueuer, ~CloseDequeuer, ~Fini
  PROVE  UNCHANGED <<esince, ereported, dsince, reports>>
<1>1. UNCHANGED stats
  BY DEF Next, Program, Environment, Arrive, RotateSignal, TerminateSignal,
         ReadDepth, ReadInterrupted, ReadError, TestRotate, CasOffEnqueue,
         CasOffDequeue, CloseJournal, OpenJournal, SendDepthTest, NoDepthTest,
         Check, vars
<1>2. QED
  BY <1>1 DEF stats

LEMMA TypeStep ==
  ASSUME TypeOK, DepthInv, [Next]_vars
  PROVE  TypeOK'
<1>1. /\ sock \in Seq(Datagram) /\ Len(sock) <= SockCap /\ narrived \in Nat
      /\ count \in Nat /\ pending \in Nat
      /\ written \in Seq(Datagram) /\ cuts \in Seq(Nat)
      /\ lost \subseteq Datagram /\ reports \in Seq(Nat)
      /\ esince \in Nat /\ ereported \in Nat /\ dsince \in Nat
      /\ ntests \in Nat /\ nerrors \in Nat /\ nhup \in Nat /\ asked \in Nat
      /\ LastReport \in Nat
  BY LastReportType DEF TypeOK
<1>2. /\ Len(written) \in Nat
      /\ Append(cuts, Len(written)) \in Seq(Nat)
      /\ Append(reports, LastReport + dsince) \in Seq(Nat)
      /\ ereported + esince \in Nat
  BY <1>1
<1>3. ASSUME sock # <<>>
      PROVE  /\ Head(sock) \in Datagram /\ Tail(sock) \in Seq(Datagram)
             /\ Len(Tail(sock)) <= SockCap
             /\ Append(written, Head(sock)) \in Seq(Datagram)
  BY <1>1, <1>3
<1>4. ASSUME NEW d \in Datagram, Len(sock) < SockCap, sock' = Append(sock, d)
      PROVE  sock' \in Seq(Datagram) /\ Len(sock') <= SockCap
  <2>1. sock' \in Seq(Datagram) /\ Len(sock') = Len(sock) + 1
    BY <1>1, <1>4, AppendElements
  <2>2. QED
    BY <1>1, <1>4, <2>1
<1>5. /\ sock' \in Seq(Datagram) /\ Len(sock') <= SockCap
  <2>1. CASE \E rotate \in BOOLEAN : Arrive(rotate)
    <3>1. PICK rotate \in BOOLEAN : Arrive(rotate)
      BY <2>1
    <3> DEFINE d == [kind |-> "event", id |-> narrived + 1, rotate |-> rotate]
    <3>2. d \in Datagram
      BY <1>1, <3>1 DEF Datagram
    <3>3. sock' = Append(sock, d) /\ Len(sock) < SockCap
      BY <3>1 DEF Arrive
    <3> HIDE DEF d
    <3>4. QED
      BY <1>4, <3>2, <3>3
  <2>2. CASE SendDepthTest /\ Len(sock) < SockCap
    <3> DEFINE d == [kind |-> "depth", count |-> count, ahead |-> Len(sock)]
    <3>1. d \in Datagram
      BY <1>1 DEF Datagram
    <3>2. sock' = Append(sock, d)
      BY <2>2 DEF SendDepthTest
    <3> HIDE DEF d
    <3>3. QED
      BY <1>4, <2>2, <3>1, <3>2
  <2>3. CASE ReadEvent \/ ReadDepth
    BY <1>3, <2>3 DEF ReadEvent, ReadDepth
  <2>4. QED
    BY <1>1, <2>1, <2>2, <2>3, SockMoves
<1>6. /\ gbl_done' \in BOOLEAN /\ fresh' \in BOOLEAN
      /\ gbl_rotate_enqueue' \in BOOLEAN /\ gbl_rotate_dequeue' \in BOOLEAN
  BY DEF TypeOK, Next, Program, Environment, Arrive, RotateSignal,
         TerminateSignal, ReadEvent, ReadDepth, ReadInterrupted, ReadError,
         TestRotate, CloseEnqueuer, CasOffEnqueue, CloseDequeuer,
         CasOffDequeue, CloseJournal, OpenJournal, SendDepthTest, NoDepthTest,
         Check, Fini, vars, gvars, depth
<1>7. is_rotate_event' \in BOOLEAN
  <2>1. CASE ReadEvent
    BY <1>3, <2>1, DatagramType DEF ReadEvent
  <2>2. CASE ~ReadEvent
    BY <2>2
       DEF TypeOK, Next, Program, Environment, Arrive, RotateSignal,
           TerminateSignal, ReadDepth, ReadInterrupted, ReadError, TestRotate,
           CloseEnqueuer, CasOffEnqueue, CloseDequeuer, CasOffDequeue,
           CloseJournal, OpenJournal, SendDepthTest, NoDepthTest, Check, Fini,
           vars
  <2>3. QED
    BY <2>1, <2>2
<1>8. pc' \in {"read", "test", "enqueue", "enqueue_off", "dequeue",
               "dequeue_off", "close", "open", "depth", "check", "fini",
               "done", "exit"}
  BY DEF TypeOK, Next, Program, Environment, Arrive, RotateSignal,
         TerminateSignal, ReadEvent, ReadDepth, ReadInterrupted, ReadError,
         TestRotate, CloseEnqueuer, CasOffEnqueue, CloseDequeuer,
         CasOffDequeue, CloseJournal, OpenJournal, SendDepthTest, NoDepthTest,
         Check, Fini, vars
<1>9. narrived' \in Nat /\ count' \in Nat
  <2>1. CASE \E rotate \in BOOLEAN : Arrive(rotate)
    BY <1>1, <2>1 DEF Arrive, depth
  <2>2. CASE ReadEvent \/ ReadDepth
    BY <1>1, <2>2 DEF ReadEvent, ReadDepth
  <2>3. CASE SendDepthTest
    BY <1>1, <2>3 DEF SendDepthTest
  <2>4. QED
    BY <1>1, <2>1, <2>2, <2>3, SockMoves
<1>10. pending' \in Nat
  <2>1. CASE ~ReadDepth
    BY <1>1, <2>1
       DEF Next, Program, Environment, Arrive, RotateSignal, TerminateSignal,
           ReadEvent, ReadInterrupted, ReadError, TestRotate, CloseEnqueuer,
           CasOffEnqueue, CloseDequeuer, CasOffDequeue, CloseJournal,
           OpenJournal, SendDepthTest, NoDepthTest, Check, Fini, vars, depth
  <2>2. QED
    BY <2>1, DepthMeasured
<1>11. /\ written' \in Seq(Datagram) /\ lost' \subseteq Datagram
  BY <1>1, <1>3, SockMoves
     DEF ReadEvent, ReadDepth, Arrive, SendDepthTest, jvars
<1>12. cuts' \in Seq(Nat)
  BY <1>1, <1>2
     DEF Next, Program, Environment, Arrive, RotateSignal, TerminateSignal,
         ReadEvent, ReadDepth, ReadInterrupted, ReadError, TestRotate,
         CloseEnqueuer, CasOffEnqueue, CloseDequeuer, CasOffDequeue,
         CloseJournal, OpenJournal, SendDepthTest, NoDepthTest, Check, Fini,
         vars, jvars
<1>13. /\ esince' \in Nat /\ ereported' \in Nat /\ dsince' \in Nat
       /\ reports' \in Seq(Nat)
  <2>1. CASE ReadEvent
    BY <1>1, <2>1 DEF ReadEvent
  <2>2. CASE CloseEnqueuer
    BY <1>1, <1>2, <2>2 DEF CloseEnqueuer
  <2>3. CASE CloseDequeuer
    <3>1. /\ \/ reports' = Append(reports, LastReport + dsince)
             \/ reports' = reports
          /\ dsince' = 0 \/ dsince' = dsince
          /\ UNCHANGED <<esince, ereported>>
      BY <2>3, Zenon DEF CloseDequeuer
    <3>2. reports' \in Seq(Nat)
      BY <1>1, <1>2, <3>1, Zenon
    <3>3. dsince' \in Nat
      BY <1>1, <3>1
    <3>4. QED
      BY <1>1, <3>1, <3>2, <3>3
  <2>4. CASE Fini
    BY <1>1, <1>2, <2>4 DEF Fini
  <2>5. CASE ~ReadEvent /\ ~CloseEnqueuer /\ ~CloseDequeuer /\ ~Fini
    BY <1>1, <2>5, StatsStay
  <2>6. QED
    BY <2>1, <2>2, <2>3, <2>4, <2>5
<1>14. ntests' \in Nat /\ nerrors' \in Nat /\ nhup' \in Nat /\ asked' \in Nat
  <2>1. CASE RotateSignal
    BY <1>1, <1>2, <2>1 DEF RotateSignal
  <2>2. CASE ReadError
    BY <1>1, <2>2 DEF ReadError
  <2>3. CASE SendDepthTest
    BY <1>1, <2>3 DEF SendDepthTest
  <2>4. CASE ~RotateSignal /\ ~ReadError /\ ~SendDepthTest
    <3>1. UNCHANGED bounds
      BY <2>4
         DEF Next, Program, Environment, Arrive, TerminateSignal, ReadEvent,
             ReadDepth, ReadInterrupted, TestRotate, CloseEnqueuer,
             CasOffEnqueue, CloseDequeuer, CasOffDequeue, CloseJournal,
             OpenJournal, NoDepthTest, Check, Fini, vars
    <3>2. QED
      BY <1>1, <3>1 DEF bounds
  <2>5. QED
    BY <2>1, <2>2, <2>3, <2>4
<1>15. QED
  BY <1>5, <1>6, <1>7, <1>8, <1>9, <1>10, <1>11, <1>12, <1>13, <1>14 DEF TypeOK

-----------------------------------------------------------------------------
(* The events *)

\* Events wait in the order of their arrival, behind all that were written
\* or lost: each is received once.
EventInv ==
  /\ IsFiniteSet(Range(written)) /\ IsFiniteSet(lost)
  /\ \A e \in Range(written) \cup lost : e \in EventRec /\ e.id <= narrived
  /\ \A i \in DOMAIN sock : sock[i].kind = "event" => sock[i].id <= narrived
  /\ \A i, k \in DOMAIN sock :
       i < k /\ sock[i].kind = "event" /\ sock[k].kind = "event" =>
         sock[i].id < sock[k].id
  /\ \A e \in Range(written) \cup lost : \A i \in DOMAIN sock :
       sock[i].kind = "event" => e.id < sock[i].id

Waits == \A i \in DOMAIN sock : sock[i].kind = "event" => sock[i].id <= narrived
Sorted == \A i, k \in DOMAIN sock :
            i < k /\ sock[i].kind = "event" /\ sock[k].kind = "event" =>
              sock[i].id < sock[k].id
Behind == \A e \in Range(written) \cup lost : \A i \in DOMAIN sock :
            sock[i].kind = "event" => e.id < sock[i].id

\* The event read is not among those read before.
LEMMA HeadIsNew ==
  ASSUME TypeOK, EventInv, sock # <<>>, Head(sock).kind = "event"
  PROVE  /\ Head(sock) \in EventRec
         /\ Head(sock) \notin Range(written) /\ Head(sock) \notin lost
<1>1. sock \in Seq(Datagram)
  BY DEF TypeOK
<1>2. Head(sock) \in Datagram /\ Head(sock) = sock[1] /\ 1 \in DOMAIN sock
  BY <1>1, TailElements
<1>3. Head(sock) \in EventRec /\ Head(sock).id \in Nat
  BY <1>2, DatagramType
<1>4. \A e \in Range(written) \cup lost : e.id < Head(sock).id
  BY <1>2 DEF EventInv
<1>5. QED
  BY <1>3, <1>4

LEMMA EventStep ==
  ASSUME TypeOK, EventInv, [Next]_vars
  PROVE  EventInv'
<1>1. /\ sock \in Seq(Datagram) /\ narrived \in Nat
      /\ written \in Seq(Datagram)
  BY DEF TypeOK
<1>2. /\ IsFiniteSet(Range(written)) /\ IsFiniteSet(lost)
      /\ \A e \in Range(written) \cup lost : e \in EventRec /\ e.id <= narrived
      /\ Waits /\ Sorted /\ Behind
  BY DEF EventInv, Waits, Sorted, Behind
<1>3. \A e \in Range(written) \cup lost : e.id \in Nat
  BY <1>2 DEF EventRec
<1>4. \A i \in DOMAIN sock : sock[i] \in Datagram
  BY <1>1
<1>5. \A i \in DOMAIN sock : sock[i].kind = "event" => sock[i].id \in Nat
  BY <1>4, DatagramType
<1>6. CASE sock' = sock /\ UNCHANGED <<narrived, written, lost>>
  BY <1>6 DEF EventInv
<1>7. CASE \E rotate \in BOOLEAN : Arrive(rotate)
  <2>1. PICK rotate \in BOOLEAN : Arrive(rotate)
    BY <1>7
  <2> DEFINE d == [kind |-> "event", id |-> narrived + 1, rotate |-> rotate]
  <2>2. d \in Datagram /\ d.kind = "event" /\ d.id = narrived + 1
    BY <1>1 DEF Datagram
  <2>3. sock' = Append(sock, d) /\ narrived' = narrived + 1
        /\ UNCHANGED <<written, lost>>
    BY <2>1 DEF Arrive, jvars
  <2> HIDE DEF d
  <2>4. \A i \in DOMAIN sock' : \/ i \in DOMAIN sock /\ sock'[i] = sock[i]
                                \/ i = Len(sock) + 1 /\ sock'[i] = d
    <3>1. d \in Datagram /\ sock' = Append(sock, d)
      BY <2>2, <2>3
    <3>2. QED
      BY <1>1, <3>1, AppendElements
  <2>5. \A e \in Range(written) \cup lost :
          e \in EventRec /\ e.id <= narrived + 1 /\ e.id < d.id
    BY <1>1, <1>2, <1>3, <2>2
  <2>6. \A i \in DOMAIN sock : sock[i].kind = "event" => sock[i].id < d.id
    BY <1>1, <1>2, <1>5, <2>2 DEF Waits
  <2>7. \A i \in DOMAIN sock' : sock'[i].kind = "event" => sock'[i].id <= narrived + 1
    BY <1>1, <1>5, <2>2, <2>4, <2>6
  <2>8. Sorted'
    <3> SUFFICES ASSUME NEW i \in DOMAIN sock', NEW k \in DOMAIN sock', i < k,
                        sock'[i].kind = "event", sock'[k].kind = "event"
                 PROVE  sock'[i].id < sock'[k].id
      BY DEF Sorted
    <3>1. i \in DOMAIN sock /\ sock'[i] = sock[i]
      <4>1. DOMAIN sock' = 1..(Len(sock) + 1)
        BY <1>1, <2>2, <2>3, AppendElements
      <4>2. QED
        BY <1>1, <2>4, <4>1
    <3>2. CASE k \in DOMAIN sock /\ sock'[k] = sock[k]
      BY <1>2, <3>1, <3>2 DEF Sorted
    <3>3. CASE sock'[k] = d
      BY <2>6, <3>1, <3>3
    <3>4. QED
      BY <2>4, <3>2, <3>3
  <2>9. \A e \in Range(written) \cup lost : \A i \in DOMAIN sock' :
          sock'[i].kind = "event" => e.id < sock'[i].id
    BY <1>2, <2>4, <2>5 DEF Behind
  <2>10. QED
    BY <1>2, <2>3, <2>5, <2>7, <2>8, <2>9 DEF EventInv, Sorted
<1>8. CASE SendDepthTest /\ Len(sock) < SockCap
  <2> DEFINE d == [kind |-> "depth", count |-> count, ahead |-> Len(sock)]
  <2>1. d \in Datagram /\ d.kind # "event"
    BY <1>1 DEF Datagram, TypeOK
  <2>2. sock' = Append(sock, d) /\ UNCHANGED <<narrived, written, lost>>
    BY <1>8 DEF SendDepthTest, jvars
  <2> HIDE DEF d
  <2>3. \A i \in DOMAIN sock' : \/ i \in DOMAIN sock /\ sock'[i] = sock[i]
                                \/ sock'[i] = d
    BY <1>1, <2>1, <2>2, AppendElements
  <2>4. QED
    BY <2>1, <2>2, <2>3 DEF EventInv
<1>9. CASE ReadEvent \/ ReadDepth
  <2>1. sock # <<>> /\ sock' = Tail(sock) /\ narrived' = narrived
    BY <1>9 DEF ReadEvent, ReadDepth
  <2>2. /\ \A i \in DOMAIN sock' : i + 1 \in DOMAIN sock /\ sock'[i] = sock[i + 1]
        /\ Head(sock) = sock[1] /\ 1 \in DOMAIN sock
        /\ Len(sock') = Len(sock) - 1 /\ DOMAIN sock' \subseteq Nat \ {0}
    BY <1>1, <2>1, TailElements
  <2>3. Waits'
    BY <1>2, <2>1, <2>2 DEF Waits
  <2>4. Sorted'
    <3> SUFFICES ASSUME NEW i \in DOMAIN sock', NEW k \in DOMAIN sock', i < k,
                        sock'[i].kind = "event", sock'[k].kind = "event"
                 PROVE  sock'[i].id < sock'[k].id
      BY DEF Sorted
    <3>1. i + 1 < k + 1
      BY <2>2
    <3>2. QED
      BY <1>2, <2>2, <3>1 DEF Sorted
  <2>5. CASE UNCHANGED <<written, lost>>
    <3>1. Behind'
      BY <1>2, <2>2, <2>5 DEF Behind
    <3>2. QED
      BY <1>2, <2>1, <2>3, <2>4, <2>5, <3>1 DEF EventInv, Waits, Sorted, Behind
  <2>6. CASE ReadEvent
    <3> DEFINE e == Head(sock)
    <3>1. e \in EventRec /\ e.kind = "event" /\ e = sock[1] /\ e \in Datagram
      BY <1>1, <2>2, <2>6, HeadIsNew, TailElements DEF ReadEvent
    <3>2. \/ written' = Append(written, e) /\ lost' = lost
          \/ lost' = lost \cup {e} /\ written' = written
      BY <2>6 DEF ReadEvent
    <3> HIDE DEF e
    <3>3. /\ Range(written') \cup lost' = (Range(written) \cup lost) \cup {e}
          /\ Range(written') \in {Range(written), Range(written) \cup {e}}
          /\ lost' \in {lost, lost \cup {e}}
      <4>1. CASE written' = Append(written, e) /\ lost' = lost
        <5>1. Range(written') = Range(written) \cup {e}
          BY <1>1, <3>1, <4>1, RangeAppend
        <5>2. QED
          BY <4>1, <5>1
      <4>2. CASE lost' = lost \cup {e} /\ written' = written
        BY <4>2
      <4>3. QED
        BY <3>2, <4>1, <4>2
    <3>4. IsFiniteSet(Range(written')) /\ IsFiniteSet(lost')
      BY <1>2, <3>3, FS_AddElement
    <3>5. e.id <= narrived
      BY <1>2, <2>2, <3>1 DEF Waits
    <3>6. \A i \in DOMAIN sock' : sock'[i].kind = "event" => e.id < sock'[i].id
      <4> SUFFICES ASSUME NEW i \in DOMAIN sock', sock'[i].kind = "event"
                   PROVE  e.id < sock'[i].id
        OBVIOUS
      <4>1. 1 < i + 1
        BY <2>2
      <4>2. QED
        BY <1>2, <2>2, <3>1, <4>1 DEF Sorted
    <3>7. \A i \in DOMAIN sock' : \A x \in Range(written) \cup lost :
            sock'[i].kind = "event" => x.id < sock'[i].id
      BY <1>2, <2>2 DEF Behind
    <3>8. Behind'
      BY <3>3, <3>6, <3>7 DEF Behind
    <3>9. \A x \in Range(written') \cup lost' : x \in EventRec /\ x.id <= narrived
      BY <1>2, <3>1, <3>3, <3>5
    <3>10. QED
      BY <2>1, <2>3, <2>4, <3>4, <3>8, <3>9 DEF EventInv, Waits, Sorted, Behind
  <2>7. QED
    BY <1>9, <2>5, <2>6 DEF ReadDepth, jvars
<1>10. QED
  BY <1>6, <1>7, <1>8, <1>9, SockMoves

-----------------------------------------------------------------------------
(* The statistics *)

Received == Len(written) + Cardinality(lost)
EnqTotal == ereported + esince
DeqTotal == LastReport + dsince

StatsInv == EnqTotal = Received /\ DeqTotal = Received

LEMMA JournalStays ==
  ASSUME TypeOK, [Next]_vars, ~ReadEvent
  PROVE  UNCHANGED <<written, lost>>
  BY SockMoves DEF Arrive, ReadDepth, SendDepthTest, jvars

LEMMA TotalTypes ==
  ASSUME TypeOK, EventInv
  PROVE  /\ Len(written) \in Nat /\ Cardinality(lost) \in Nat /\ Received \in Nat
         /\ ereported \in Nat /\ esince \in Nat /\ dsince \in Nat
         /\ LastReport \in Nat /\ reports \in Seq(Nat)
         /\ EnqTotal \in Nat /\ DeqTotal \in Nat
<1>1. /\ written \in Seq(Datagram) /\ reports \in Seq(Nat) /\ dsince \in Nat
      /\ ereported \in Nat /\ esince \in Nat
  BY DEF TypeOK
<1>2. Cardinality(lost) \in Nat
  BY FS_CardinalityType DEF EventInv
<1>3. Len(written) \in Nat /\ LastReport \in Nat
  BY <1>1, LastReportType
<1>4. EnqTotal \in Nat
  BY <1>1 DEF EnqTotal
<1>5. DeqTotal \in Nat
  BY <1>1, <1>3 DEF DeqTotal
<1>6. Received \in Nat
  BY <1>2, <1>3 DEF Received
<1>7. QED
  BY <1>1, <1>2, <1>3, <1>4, <1>5, <1>6

\* An event read is received once more than before.
LEMMA ReceivesOne ==
  ASSUME TypeOK, EventInv, ReadEvent
  PROVE  Received' = Received + 1
<1>1. /\ Len(written) \in Nat /\ Cardinality(lost) \in Nat
      /\ written \in Seq(Datagram) /\ IsFiniteSet(lost)
  BY TotalTypes DEF TypeOK, EventInv
<1>2. sock # <<>> /\ Head(sock).kind = "event"
  BY DEF ReadEvent
<1> DEFINE e == Head(sock)
<1>3. e \notin lost
  BY <1>2, HeadIsNew
<1>4. Cardinality(lost \cup {e}) = Cardinality(lost) + 1
  BY <1>1, <1>3, FS_AddElement
<1>5. \/ written' = Append(written, e) /\ lost' = lost
      \/ lost' = lost \cup {e} /\ written' = written
  BY DEF ReadEvent
<1> HIDE DEF e
<1>6. CASE written' = Append(written, e) /\ lost' = lost
  <2>1. Len(written') = Len(written) + 1
    BY <1>1, <1>6
  <2>2. Received' = (Len(written) + 1) + Cardinality(lost)
    BY <1>6, <2>1 DEF Received
  <2>3. QED
    BY <1>1, <2>2 DEF Received
<1>7. CASE lost' = lost \cup {e} /\ written' = written
  <2>1. Received' = Len(written) + (Cardinality(lost) + 1)
    BY <1>4, <1>7 DEF Received
  <2>2. QED
    BY <1>1, <2>1 DEF Received
<1>8. QED
  BY <1>5, <1>6, <1>7

LEMMA ReportAppended ==
  ASSUME reports \in Seq(Nat), LastReport \in Nat, dsince \in Nat,
         reports' = Append(reports, LastReport + dsince), dsince' = 0
  PROVE  DeqTotal' = DeqTotal
<1>1. reports' # <<>> /\ reports'[Len(reports')] = LastReport + dsince
  OBVIOUS
<1>2. LastReport' = LastReport + dsince
  BY <1>1 DEF LastReport
<1>3. DeqTotal' = (LastReport + dsince) + 0
  BY <1>2 DEF DeqTotal
<1>4. QED
  BY <1>3 DEF DeqTotal

LEMMA ReportAdded ==
  ASSUME ereported \in Nat, esince \in Nat,
         ereported' = ereported + esince, esince' = 0
  PROVE  EnqTotal' = EnqTotal
<1>1. EnqTotal' = (ereported + esince) + 0
  BY DEF EnqTotal
<1>2. QED
  BY <1>1 DEF EnqTotal

LEMMA StatsStep ==
  ASSUME TypeOK, EventInv, StatsInv, [Next]_vars
  PROVE  StatsInv'
<1>1. /\ Received \in Nat /\ ereported \in Nat /\ esince \in Nat
      /\ dsince \in Nat /\ LastReport \in Nat /\ reports \in Seq(Nat)
      /\ EnqTotal \in Nat /\ DeqTotal \in Nat
  BY TotalTypes
<1>2. ~ReadEvent => Received' = Received
  BY JournalStays DEF Received
<1>3. CASE ReadEvent
  <2>1. /\ esince' = esince + 1 /\ dsince' = dsince + 1
        /\ UNCHANGED <<ereported, reports>>
    BY <1>3 DEF ReadEvent
  <2>2. EnqTotal' = ereported + (esince + 1)
    BY <2>1 DEF EnqTotal
  <2>3. EnqTotal' = EnqTotal + 1
    BY <1>1, <2>2 DEF EnqTotal
  <2>4. DeqTotal' = LastReport + (dsince + 1)
    BY <2>1 DEF DeqTotal, LastReport
  <2>5. DeqTotal' = DeqTotal + 1
    BY <1>1, <2>4 DEF DeqTotal
  <2>6. Received' = Received + 1
    BY <1>3, ReceivesOne
  <2>7. QED
    BY <2>3, <2>5, <2>6 DEF StatsInv
<1>4. CASE CloseEnqueuer
  <2>1. \/ ereported' = ereported + esince /\ esince' = 0
        \/ UNCHANGED <<ereported, esince>>
    BY <1>4 DEF CloseEnqueuer
  <2>2. UNCHANGED <<reports, dsince>> /\ ~ReadEvent
    BY <1>4 DEF CloseEnqueuer, ReadEvent
  <2>3. EnqTotal' = EnqTotal
    BY <1>1, <2>1, ReportAdded DEF EnqTotal
  <2>4. DeqTotal' = DeqTotal
    BY <2>2 DEF DeqTotal, LastReport
  <2>5. QED
    BY <1>2, <2>2, <2>3, <2>4 DEF StatsInv
<1>5. CASE CloseDequeuer
  <2>1. \/ reports' = Append(reports, LastReport + dsince) /\ dsince' = 0
        \/ UNCHANGED <<reports, dsince>>
    BY <1>5, Zenon DEF CloseDequeuer
  <2>2. UNCHANGED <<ereported, esince>> /\ ~ReadEvent
    BY <1>5 DEF CloseDequeuer, ReadEvent
  <2>3. DeqTotal' = DeqTotal
    <3>1. CASE reports' = Append(reports, LastReport + dsince) /\ dsince' = 0
      BY <1>1, <3>1, ReportAppended
    <3>2. CASE UNCHANGED <<reports, dsince>>
      BY <3>2 DEF DeqTotal, LastReport
    <3>3. QED
      BY <2>1, <3>1, <3>2, Zenon
  <2>4. EnqTotal' = EnqTotal
    BY <2>2 DEF EnqTotal
  <2>5. QED
    BY <1>2, <2>2, <2>3, <2>4 DEF StatsInv
<1>6. CASE Fini
  <2>1. ereported' = ereported + esince /\ esince' = 0
    BY <1>6 DEF Fini
  <2>2. reports' = Append(reports, LastReport + dsince) /\ dsince' = 0
    BY <1>6, Zenon DEF Fini
  <2>3. ~ReadEvent
    BY <1>6 DEF Fini, ReadEvent
  <2>4. EnqTotal' = EnqTotal
    BY <1>1, <2>1, ReportAdded
  <2>5. DeqTotal' = DeqTotal
    BY <1>1, <2>2, ReportAppended
  <2>6. QED
    BY <1>2, <2>3, <2>4, <2>5 DEF StatsInv
<1>7. CASE ~ReadEvent /\ ~CloseEnqueuer /\ ~CloseDequeuer /\ ~Fini
  <2>1. UNCHANGED <<esince, ereported, dsince, reports>>
    BY <1>7, StatsStay
  <2>2. EnqTotal' = EnqTotal /\ DeqTotal' = DeqTotal
    BY <2>1 DEF EnqTotal, DeqTotal, LastReport
  <2>3. QED
    BY <1>2, <1>7, <2>2 DEF StatsInv
<1>8. QED
  BY <1>3, <1>4, <1>5, <1>6, <1>7

-----------------------------------------------------------------------------
(* The rotations *)

Commands == {e \in Range(written) \cup lost : e.rotate}
Taken == Cardinality(Commands)

\* The rotation under way; the one that the switches will cause after it,
\* when the current pass has tested them; a command just read.
Turning ==
  IF pc \in {"enqueue", "enqueue_off", "dequeue", "dequeue_off", "close"}
    THEN 1 ELSE 0
Waiting ==
  IF \/ /\ pc \in {"read", "test", "close", "open", "depth", "check"}
        /\ gbl_rotate_enqueue \/ gbl_rotate_dequeue
     \/ pc \in {"dequeue", "dequeue_off"} /\ gbl_rotate_enqueue
    THEN 1 ELSE 0
Held == IF pc = "test" /\ is_rotate_event THEN 1 ELSE 0
Closed == IF pc = "done" THEN 1 ELSE 0

\* Every rotation, done or to come, has a command or a signal of its own.
Balance == Len(cuts) + Turning + Waiting + Held <= Taken + nhup + Closed

LEMMA TakenType ==
  ASSUME EventInv
  PROVE  IsFiniteSet(Commands) /\ Taken \in Nat
<1>1. IsFiniteSet(Range(written) \cup lost)
  BY FS_Union DEF EventInv
<1>2. Commands \subseteq Range(written) \cup lost
  BY DEF Commands
<1>3. IsFiniteSet(Commands)
  BY <1>1, <1>2, FS_Subset
<1>4. QED
  BY <1>3, FS_CardinalityType DEF Taken

LEMMA TakesOne ==
  ASSUME TypeOK, EventInv, ReadEvent
  PROVE  Taken' = IF Head(sock).rotate THEN Taken + 1 ELSE Taken
<1> DEFINE e == Head(sock)
           all == Range(written) \cup lost
<1>1. sock # <<>> /\ e.kind = "event" /\ written \in Seq(Datagram)
      /\ sock \in Seq(Datagram)
  BY DEF ReadEvent, TypeOK
<1>2. e \notin all /\ e \in Datagram
  BY <1>1, HeadIsNew, TailElements
<1>3. \/ written' = Append(written, e) /\ lost' = lost
      \/ lost' = lost \cup {e} /\ written' = written
  BY DEF ReadEvent
<1> HIDE DEF e
<1>4. Range(written') \cup lost' = all \cup {e}
  <2>1. CASE written' = Append(written, e) /\ lost' = lost
    <3>1. Range(written') = Range(written) \cup {e}
      BY <1>1, <1>2, <2>1, RangeAppend
    <3>2. QED
      BY <2>1, <3>1
  <2>2. CASE lost' = lost \cup {e} /\ written' = written
    BY <2>2
  <2>3. QED
    BY <1>3, <2>1, <2>2
<1>5. Commands = {x \in all : x.rotate} /\ Commands' = {x \in all \cup {e} : x.rotate}
  BY <1>4 DEF Commands
<1> HIDE DEF all
<1>6. CASE e.rotate
  <2>1. Commands' = Commands \cup {e} /\ e \notin Commands
    BY <1>2, <1>5, <1>6
  <2>2. Cardinality(Commands \cup {e}) = Cardinality(Commands) + 1
    BY <2>1, TakenType, FS_AddElement
  <2>3. QED
    BY <1>6, <2>1, <2>2 DEF Taken, e
<1>7. CASE ~e.rotate
  <2>1. Commands' = Commands
    BY <1>2, <1>5, <1>7
  <2>2. QED
    BY <1>7, <2>1 DEF Taken, e
<1>8. QED
  BY <1>6, <1>7

\* As in the thread model the values after the step are constants here.
LEMMA BalanceStep ==
  ASSUME TypeOK, EventInv, Balance, [Next]_vars, TypeOK', EventInv'
  PROVE  Balance'
<1>1. /\ cuts \in Seq(Nat) /\ Len(cuts) \in Nat /\ nhup \in Nat /\ Taken \in Nat
      /\ Turning \in {0, 1} /\ Waiting \in {0, 1} /\ Held \in {0, 1}
      /\ Closed \in {0, 1}
      /\ is_rotate_event \in BOOLEAN
  BY TakenType DEF TypeOK, Turning, Waiting, Held, Closed
<1>2. /\ cuts' \in Seq(Nat) /\ nhup' \in Nat
      /\ Turning' \in {0, 1} /\ Waiting' \in {0, 1} /\ Held' \in {0, 1}
      /\ Closed' \in {0, 1}
  BY DEF TypeOK, Turning, Waiting, Held, Closed
<1>3. Len(cuts') \in Nat /\ Taken' \in Nat
  <2>1. Taken' \in Nat
    <3>1. IsFiniteSet(Range(written') \cup lost')
      BY FS_Union DEF EventInv
    <3>2. Commands' \subseteq Range(written') \cup lost'
      BY DEF Commands
    <3>3. IsFiniteSet(Commands')
      BY <3>1, <3>2, FS_Subset
    <3>4. QED
      BY <3>3, FS_CardinalityType DEF Taken
  <2>2. QED
    BY <1>2, <2>1
<1>4. PICK cu \in Nat, tu \in {0, 1}, wa \in {0, 1}, he \in {0, 1},
           ta \in Nat, hu \in Nat, cl \in {0, 1} :
        /\ cu = Len(cuts') /\ tu = Turning' /\ wa = Waiting' /\ he = Held'
        /\ ta = Taken' /\ hu = nhup' /\ cl = Closed'
  BY <1>2, <1>3, Zenon
<1>5. SUFFICES cu + tu + wa + he <= ta + hu + cl
  BY <1>4, Zenon DEF Balance
<1>6. Len(cuts) + Turning + Waiting + Held <= Taken + nhup + Closed
  BY DEF Balance
<1>7. ~ReadEvent => ta = Taken
  BY <1>4, JournalStays DEF Taken, Commands
<1>8. CASE ReadEvent
  <2>1. /\ cu = Len(cuts) /\ hu = nhup /\ cl = Closed
        /\ tu = 0 /\ wa = Waiting /\ Turning = 0 /\ Held = 0
        /\ he = 0 \/ (he = 1 /\ Head(sock).rotate)
    BY <1>1, <1>4, <1>8
       DEF ReadEvent, gvars, bounds, Turning, Waiting, Held, Closed
  <2>2. /\ Head(sock).rotate => ta = Taken + 1
        /\ ~Head(sock).rotate => ta = Taken
    BY <1>4, <1>8, TakesOne
  <2>3. QED
    BY <1>1, <1>6, <2>1, <2>2
<1>9. CASE ReadInterrupted \/ ReadDepth \/ ReadError \/ NoDepthTest \/ SendDepthTest
  <2>1. /\ cu = Len(cuts) /\ hu = nhup /\ cl = Closed /\ ~ReadEvent
        /\ tu = 0 /\ he = 0 /\ wa = Waiting /\ Turning = 0 /\ Held = 0
    BY <1>1, <1>4, <1>9
       DEF ReadInterrupted, ReadDepth, ReadError, NoDepthTest, SendDepthTest,
           ReadEvent, gvars, jvars, bounds, Turning, Waiting, Held, Closed
  <2>2. QED
    BY <1>1, <1>6, <1>7, <2>1
<1>10. CASE Check \/ OpenJournal
  <2>1. /\ cu = Len(cuts) /\ hu = nhup /\ cl = Closed /\ ~ReadEvent
        /\ tu = 0 /\ he = 0 /\ wa <= Waiting /\ Turning = 0 /\ Held = 0
    BY <1>1, <1>4, <1>10
       DEF Check, OpenJournal, ReadEvent, gvars, jvars, bounds,
           Turning, Waiting, Held, Closed
  <2>2. QED
    BY <1>1, <1>6, <1>7, <2>1
<1>11. CASE TestRotate
  <2>1. /\ cu = Len(cuts) /\ hu = nhup /\ cl = Closed /\ ~ReadEvent
        /\ he = 0 /\ wa = 0 /\ Turning = 0
        /\ tu = 0 \/ Waiting = 1 \/ Held = 1
    BY <1>1, <1>4, <1>11
       DEF TestRotate, ReadEvent, gvars, jvars, bounds,
           Turning, Waiting, Held, Closed
  <2>2. QED
    BY <1>1, <1>6, <1>7, <2>1
<1>12. CASE CloseEnqueuer \/ CasOffEnqueue
  <2>1. /\ cu = Len(cuts) /\ hu = nhup /\ cl = Closed /\ ~ReadEvent
        /\ tu = 1 /\ Turning = 1 /\ he = 0 /\ wa = 0
    BY <1>1, <1>4, <1>12
       DEF CloseEnqueuer, CasOffEnqueue, ReadEvent, gvars, jvars, bounds,
           Turning, Waiting, Held, Closed
  <2>2. QED
    BY <1>1, <1>6, <1>7, <2>1
<1>13. CASE CloseDequeuer \/ CasOffDequeue
  <2>1. /\ cu = Len(cuts) /\ hu = nhup /\ cl = Closed /\ ~ReadEvent
        /\ tu = 1 /\ Turning = 1 /\ he = 0 /\ wa = Waiting
    BY <1>1, <1>4, <1>13
       DEF CloseDequeuer, CasOffDequeue, ReadEvent, gvars, jvars, bounds,
           Turning, Waiting, Held, Closed
  <2>2. QED
    BY <1>1, <1>6, <1>7, <2>1
<1>14. CASE CloseJournal
  <2>1. /\ hu = nhup /\ cl = Closed /\ ~ReadEvent
        /\ tu = 0 /\ Turning = 1 /\ he = 0 /\ wa <= Waiting
    BY <1>1, <1>4, <1>14
       DEF CloseJournal, ReadEvent, gvars, bounds, Turning, Waiting, Held, Closed
  <2>2. cu = Len(cuts) \/ cu = Len(cuts) + 1
    <3>1. cuts' = cuts \/ cuts' = Append(cuts, Len(written))
      BY <1>14 DEF CloseJournal
    <3>2. Len(cuts') = Len(cuts) \/ Len(cuts') = Len(cuts) + 1
      BY <1>1, <3>1
    <3>3. QED
      BY <1>4, <3>2
  <2>3. QED
    BY <1>1, <1>6, <1>7, <2>1, <2>2
<1>15. CASE Fini
  <2>1. /\ hu = nhup /\ ~ReadEvent /\ Closed = 0
        /\ tu = 0 /\ he = 0 /\ wa = 0
    BY <1>1, <1>4, <1>15
       DEF Fini, ReadEvent, bounds, Turning, Waiting, Held, Closed
  <2>2. \/ cuts' = cuts
        \/ cuts' = Append(cuts, Len(written)) /\ cl = 1
    BY <1>4, <1>15 DEF Fini, Closed
  <2>3. Len(cuts') = Len(cuts) \/ (Len(cuts') = Len(cuts) + 1 /\ cl = 1)
    BY <1>1, <2>2
  <2>4. cu = Len(cuts) \/ (cu = Len(cuts) + 1 /\ cl = 1)
    BY <1>4, <2>3
  <2>5. QED
    BY <1>1, <1>6, <1>7, <2>1, <2>4
<1>16. CASE RotateSignal
  <2>1. /\ cu = Len(cuts) /\ cl = Closed
        /\ tu = Turning /\ he = Held
    BY <1>4, <1>16
       DEF RotateSignal, jvars, Turning, Waiting, Held, Closed
  <2>2. hu = nhup + 1
    BY <1>4, <1>16 DEF RotateSignal
  <2>3. ta = Taken
    BY <1>4, <1>16 DEF RotateSignal, jvars, Taken, Commands
  <2>4. QED
    BY <1>1, <1>4, <1>6, <2>1, <2>2, <2>3
<1>17. CASE \/ TerminateSignal \/ UNCHANGED vars
            \/ \E rotate \in BOOLEAN : Arrive(rotate)
  <2>1. UNCHANGED <<gbl_rotate_enqueue, gbl_rotate_dequeue, pc, is_rotate_event,
                    written, lost, cuts, nhup>>
    BY <1>17 DEF TerminateSignal, Arrive, vars, gvars, jvars, bounds
  <2>2. /\ cu = Len(cuts) /\ hu = nhup /\ cl = Closed
        /\ tu = Turning /\ he = Held /\ wa = Waiting
    BY <1>4, <2>1 DEF Turning, Waiting, Held, Closed
  <2>3. ta = Taken
    BY <1>4, <2>1 DEF Taken, Commands
  <2>4. QED
    BY <1>6, <2>2, <2>3
<1>18. QED
  BY <1>8, <1>9, <1>10, <1>11, <1>12, <1>13, <1>14, <1>15, <1>16, <1>17
     DEF Next, Program, Environment

-----------------------------------------------------------------------------
(* The theorems *)

LEMMA SerialInit ==
  Init => TypeOK /\ DepthInv /\ EventInv /\ StatsInv /\ Balance
<1> SUFFICES ASSUME Init
             PROVE  TypeOK /\ DepthInv /\ EventInv /\ StatsInv /\ Balance
  OBVIOUS
<1>1. /\ sock = <<>> /\ written = <<>> /\ cuts = <<>> /\ reports = <<>>
      /\ lost = {} /\ pc = "read"
      /\ esince = 0 /\ ereported = 0 /\ dsince = 0 /\ nhup = 0
      /\ ~gbl_rotate_enqueue /\ ~gbl_rotate_dequeue
  BY DEF Init
<1>2. TypeOK
  <2>1. /\ <<>> \in Seq(Datagram) /\ <<>> \in Seq(Nat) /\ Len(<<>>) <= SockCap
        /\ 0 \in Nat
    BY SerialAssumption
  <2>2. /\ written \in Seq(Datagram) /\ cuts \in Seq(Nat) /\ lost \subseteq Datagram
        /\ reports \in Seq(Nat)
        /\ sock \in Seq(Datagram) /\ Len(sock) <= SockCap
    BY <1>1, <2>1
  <2>3. /\ {ntests, nerrors, nhup, asked} \subseteq Nat
        /\ narrived \in Nat /\ count \in Nat /\ pending \in Nat
        /\ esince \in Nat /\ ereported \in Nat /\ dsince \in Nat
    BY <2>1, Zenon DEF Init
  <2>4. /\ gbl_done \in BOOLEAN /\ fresh \in BOOLEAN /\ is_rotate_event \in BOOLEAN
        /\ gbl_rotate_enqueue \in BOOLEAN /\ gbl_rotate_dequeue \in BOOLEAN
    BY DEF Init
  <2>5. QED
    BY <1>1, <2>2, <2>3, <2>4 DEF TypeOK
<1>3. DepthInv
  BY <1>1 DEF DepthInv
<1>4. Range(written) = {}
  BY <1>1 DEF Range
<1>5. IsFiniteSet({}) /\ Cardinality({}) = 0
  BY FS_EmptySet
<1>6. EventInv
  <2>1. Range(written) \cup lost = {} /\ DOMAIN sock = {}
    BY <1>1, <1>4
  <2>2. IsFiniteSet(Range(written)) /\ IsFiniteSet(lost)
    BY <1>1, <1>4, <1>5, Zenon
  <2>3. QED
    BY <2>1, <2>2, Zenon DEF EventInv
<1>7. Received = 0 /\ EnqTotal = 0 /\ DeqTotal = 0
  BY <1>1, <1>5 DEF Received, EnqTotal, DeqTotal, LastReport
<1>8. Commands = {}
  BY <1>1, <1>4 DEF Commands
<1>9. Taken = 0
  BY <1>5, <1>8 DEF Taken
<1>10. Balance
  BY <1>1, <1>9 DEF Balance, Turning, Waiting, Held, Closed
<1>11. QED
  BY <1>2, <1>3, <1>6, <1>7, <1>10 DEF StatsInv

LEMMA SerialHolds == Spec => [](TypeOK /\ DepthInv /\ EventInv)
<1>1. Init => TypeOK /\ DepthInv /\ EventInv
  BY SerialInit
<1>2. TypeOK /\ DepthInv /\ EventInv /\ [Next]_vars
        => (TypeOK /\ DepthInv /\ EventInv)'
  BY TypeStep, DepthStep, EventStep
<1>3. QED
  BY <1>1, <1>2, PTL DEF Spec

\* Whatever arrives, is dropped or is tested again between the sending of a
\* depth test and its receipt, the receipt reports the number of datagrams
\* that were in the socket buffer at the sending.
THEOREM DepthCorrect == Spec => DepthExact
<1>1. ASSUME TypeOK, DepthInv, [Next]_vars,
             sock # <<>>, sock' = Tail(sock), Head(sock).kind = "depth"
      PROVE  pending' = Head(sock).ahead
  <2>1. sock \in Seq(Datagram) /\ Len(sock') = Len(sock) - 1
    BY <1>1, TailElements DEF TypeOK
  <2>2. CASE ReadDepth
    BY <1>1, <2>2, DepthMeasured
  <2>3. CASE ReadEvent
    BY <1>1, <2>3 DEF ReadEvent
  <2>4. CASE sock' = sock
    BY <2>1, <2>4
  <2>5. CASE (\E rotate \in BOOLEAN : Arrive(rotate))
             \/ (SendDepthTest /\ Len(sock) < SockCap)
    <3>1. PICK d : sock' = Append(sock, d)
      BY <2>5 DEF Arrive, SendDepthTest
    <3>2. sock'[1] = sock[1] /\ Len(sock') # Len(sock) - 1
      BY <1>1, <2>1, <3>1, AppendElements
    <3>3. QED
      BY <2>1, <3>2
  <2>6. QED
    BY <1>1, <2>2, <2>3, <2>4, <2>5, SockMoves
<1>2. TypeOK /\ DepthInv /\ [Next]_vars
        => [sock # <<>> /\ sock' = Tail(sock) /\ Head(sock).kind = "depth"
              => pending' = Head(sock).ahead]_vars
  BY <1>1
<1>3. QED
  BY <1>2, SerialHolds, PTL DEF Spec, DepthExact

\* The statistics of both sides count every datagram but the depth tests, in
\* one report each; and each rotation has a command or a signal of its own,
\* wherever in the loop the signal comes.
THEOREM CountsCorrect == Spec => []CountsExact
<1>1. Init => StatsInv /\ Balance
  BY SerialInit
<1>2. TypeOK /\ EventInv /\ TypeOK' /\ EventInv' /\ StatsInv /\ Balance /\ [Next]_vars
        => StatsInv' /\ Balance'
  BY StatsStep, BalanceStep
<1>3. TypeOK /\ EventInv /\ StatsInv /\ Balance => CountsExact
  <2> SUFFICES ASSUME TypeOK, EventInv, StatsInv, Balance
               PROVE  CountsExact
    OBVIOUS
  <2>1. StatsAddUp
    BY DEF StatsInv, StatsAddUp, EnqTotal, DeqTotal, Received
  <2>2. /\ Len(cuts) \in Nat /\ Taken \in Nat /\ nhup \in Nat
        /\ Turning \in {0, 1} /\ Waiting \in {0, 1} /\ Held \in {0, 1}
    BY TakenType DEF TypeOK, Turning, Waiting, Held
  <2>3. Len(cuts) <= Taken + nhup + IF pc = "done" THEN 1 ELSE 0
    BY <2>2 DEF Balance, Closed
  <2>4. NoSpuriousRotation
    BY <2>3 DEF NoSpuriousRotation, Taken, Commands
  <2>5. QED
    BY <2>1, <2>4 DEF CountsExact
<1>4. QED
  BY <1>1, <1>2, <1>3, SerialHolds, PTL DEF Spec

-----------------------------------------------------------------------------
(* The events in the socket buffer.  EventsOf is a recursive function on   *)
(* positions; that it exists, and what it does to a buffer that grows or   *)
(* shrinks, is shown by induction on the length.                           *)

(* A set of numbers has a least one.                                       *)
LEMMA Least ==
  ASSUME NEW T \in SUBSET Nat, T # {}
  PROVE  \E x \in T : \A y \in T : x <= y
<1>1. IsWellFoundedOn(OpToRel(<, Nat), Nat)
  BY NatLessThanWellFounded
<1> DEFINE R == OpToRel(<, Nat)
<1>2. \A x, y \in Nat : x < y => <<x, y>> \in R
  BY DEF OpToRel
<1> HIDE DEF R
<1>3. PICK x \in T : \A y \in T : ~(<<y, x>> \in R)
  BY <1>1, WFMin DEF R
<1>4. \A y \in T : ~(y < x)
  BY <1>2, <1>3
<1>5. \A y \in T : x <= y
  BY <1>4
<1> QED
  BY <1>5

(* Induction, for a property that is given as a set.                       *)
LEMMA SetInduction ==
  ASSUME NEW S, 0 \in S, \A n \in Nat : n \in S => n + 1 \in S
  PROVE  Nat \subseteq S
<1> SUFFICES ASSUME Nat \ S # {} PROVE FALSE
  OBVIOUS
<1>1. PICK x \in Nat \ S : \A y \in Nat \ S : x <= y
  BY Least
<1>2. x # 0 /\ x - 1 \in Nat /\ x = (x - 1) + 1
  BY <1>1
<1> QED
  BY <1>1, <1>2

\* the events of the beginnings of s, up to the one of m datagrams
IsEvents(f, s, m) ==
  /\ f \in [0..m -> Seq(EventRec)]
  /\ f[0] = <<>>
  /\ \A i \in 1..m : f[i] = IF IsEvent(s[i]) THEN Append(f[i - 1], s[i]) ELSE f[i - 1]

(* Every buffer has its events.                                            *)
LEMMA EventsExist ==
  ASSUME NEW s \in Seq(Datagram)
  PROVE  \E f : IsEvents(f, s, Len(s))
<1> DEFINE S == {m \in Nat : m <= Len(s) => \E f : IsEvents(f, s, m)}
<1>0. Len(s) \in Nat
  OBVIOUS
<1>1. 0 \in S
  <2>1. IsEvents([i \in 0..0 |-> <<>>], s, 0)
    BY DEF IsEvents
  <2> QED
    BY <2>1
<1>2. ASSUME NEW m \in Nat, m \in S
      PROVE  m + 1 \in S
  <2> SUFFICES ASSUME m + 1 <= Len(s) PROVE \E f : IsEvents(f, s, m + 1)
    BY <1>2
  <2>1. PICK f : IsEvents(f, s, m)
    BY <1>0, <1>2
  <2>2. f[m] \in Seq(EventRec)
    BY <2>1 DEF IsEvents
  <2> DEFINE last == IF IsEvent(s[m + 1]) THEN Append(f[m], s[m + 1]) ELSE f[m]
             g == [i \in 0..(m + 1) |-> IF i = m + 1 THEN last ELSE f[i]]
  <2>3. last \in Seq(EventRec)
    <3>1. s[m + 1] \in Datagram
      BY <1>0
    <3>2. IsEvent(s[m + 1]) => s[m + 1] \in EventRec
      BY <3>1, DatagramType DEF IsEvent
    <3> QED
      BY <2>2, <3>2
  <2> HIDE DEF last
  <2>4. g \in [0..(m + 1) -> Seq(EventRec)] /\ g[0] = <<>>
    BY <2>1, <2>3 DEF IsEvents
  <2>5. ASSUME NEW i \in 1..(m + 1)
        PROVE  g[i] = IF IsEvent(s[i]) THEN Append(g[i - 1], s[i]) ELSE g[i - 1]
    <3>1. CASE i = m + 1
      BY <3>1 DEF last
    <3>2. CASE i \in 1..m
      <4>1. g[i] = f[i] /\ g[i - 1] = f[i - 1]
        BY <3>2
      <4> QED
        BY <2>1, <3>2, <4>1 DEF IsEvents
    <3> QED
      BY <3>1, <3>2
  <2> HIDE DEF g
  <2>6. IsEvents(g, s, m + 1)
    BY <2>4, <2>5 DEF IsEvents
  <2> QED
    BY <2>6
<1> HIDE DEF S
<1>3. Nat \subseteq S
  BY <1>1, <1>2, SetInduction
<1>4. Len(s) \in S
  BY <1>0, <1>3
<1> QED
  BY <1>0, <1>4 DEF S

\* a step of the recursion
EventStepAt(f, s, n) ==
  IF n = 0 THEN <<>>
  ELSE IF IsEvent(s[n]) THEN Append(f[n - 1], s[n]) ELSE f[n - 1]

(* EventsOf is the last of them.                                           *)
LEMMA EventsAre ==
  ASSUME NEW s \in Seq(Datagram), NEW f, IsEvents(f, s, Len(s))
  PROVE  EventsOf(s) = f[Len(s)]
<1>0. Len(s) \in Nat
  OBVIOUS
<1> DEFINE IsTable(h) == h = [n \in 0..Len(s) |-> EventStepAt(h, s, n)]
<1>1. IsTable(f)
  <2>1. ASSUME NEW n \in 0..Len(s) PROVE f[n] = EventStepAt(f, s, n)
    <3>1. CASE n = 0
      BY <3>1 DEF IsEvents, EventStepAt
    <3>2. CASE n \in 1..Len(s)
      BY <3>2 DEF IsEvents, EventStepAt
    <3> QED
      BY <1>0, <3>1, <3>2
  <2>2. f = [n \in 0..Len(s) |-> f[n]]
    BY DEF IsEvents
  <2> QED
    BY <2>1, <2>2
<1> DEFINE h == CHOOSE h : IsTable(h)
<1>2. IsTable(h)
  BY <1>1
<1>3. EventsOf(s) = h[Len(s)]
  BY DEF EventsOf, EventStepAt
<1>4. \A n \in 0..Len(s) : h[n] = EventStepAt(h, s, n)
  BY <1>2
<1> HIDE DEF h
<1> DEFINE S == {m \in Nat : m <= Len(s) => h[m] = f[m]}
<1>5. 0 \in S
  BY <1>0, <1>4 DEF EventStepAt, IsEvents
<1>6. ASSUME NEW m \in Nat, m \in S
      PROVE  m + 1 \in S
  <2> SUFFICES ASSUME m + 1 <= Len(s) PROVE h[m + 1] = f[m + 1]
    BY <1>6
  <2>1. h[m] = f[m] /\ m + 1 \in 0..Len(s) /\ m + 1 \in 1..Len(s)
        /\ (m + 1) - 1 = m /\ m + 1 # 0
    BY <1>0, <1>6
  <2>2. h[m + 1] = IF IsEvent(s[m + 1]) THEN Append(h[m], s[m + 1]) ELSE h[m]
    BY <1>4, <2>1 DEF EventStepAt
  <2>3. f[m + 1] = IF IsEvent(s[m + 1]) THEN Append(f[m], s[m + 1]) ELSE f[m]
    BY <2>1 DEF IsEvents
  <2> QED
    BY <2>1, <2>2, <2>3
<1> HIDE DEF S
<1>7. Nat \subseteq S
  BY <1>5, <1>6, SetInduction
<1>8. Len(s) \in S
  BY <1>0, <1>7
<1> QED
  BY <1>0, <1>3, <1>8 DEF S

(* They are events, and no more than there are datagrams.                  *)
LEMMA EventsType ==
  ASSUME NEW s \in Seq(Datagram)
  PROVE  EventsOf(s) \in Seq(EventRec) /\ Len(EventsOf(s)) <= Len(s)
<1>0. Len(s) \in Nat
  OBVIOUS
<1>1. PICK f : IsEvents(f, s, Len(s))
  BY EventsExist
<1> DEFINE S == {m \in Nat : m <= Len(s) => Len(f[m]) <= m}
<1>2. 0 \in S
  BY <1>1 DEF IsEvents
<1>3. ASSUME NEW m \in Nat, m \in S
      PROVE  m + 1 \in S
  <2> SUFFICES ASSUME m + 1 <= Len(s) PROVE Len(f[m + 1]) <= m + 1
    BY <1>3
  <2>1. f[m] \in Seq(EventRec) /\ Len(f[m]) <= m
    BY <1>0, <1>1, <1>3 DEF IsEvents
  <2>2. f[m + 1] = f[m] \/ f[m + 1] = Append(f[m], s[m + 1])
    <3>1. m + 1 \in 1..Len(s) /\ (m + 1) - 1 = m
      BY <1>0
    <3>2. f[m + 1] = IF IsEvent(s[m + 1]) THEN Append(f[(m + 1) - 1], s[m + 1])
                                          ELSE f[(m + 1) - 1]
      BY <1>1, <3>1, Zenon DEF IsEvents
    <3> QED
      BY <3>1, <3>2
  <2>3. Len(f[m + 1]) = Len(f[m]) \/ Len(f[m + 1]) = Len(f[m]) + 1
    BY <2>1, <2>2
  <2> QED
    BY <2>1, <2>3
<1> HIDE DEF S
<1>4. Nat \subseteq S
  BY <1>2, <1>3, SetInduction
<1>5. Len(s) \in S
  BY <1>0, <1>4
<1>6. f[Len(s)] \in Seq(EventRec) /\ Len(f[Len(s)]) <= Len(s)
  BY <1>0, <1>1, <1>5 DEF S, IsEvents
<1> QED
  BY <1>1, <1>6, EventsAre

(* An empty buffer has none.                                               *)
LEMMA EventsEmpty == EventsOf(<<>>) = <<>>
<1>1. <<>> \in Seq(Datagram) /\ Len(<<>>) = 0
  OBVIOUS
<1>2. IsEvents([i \in 0..0 |-> <<>>], <<>>, 0)
  BY DEF IsEvents
<1>3. EventsOf(<<>>) = [i \in 0..0 |-> <<>>][Len(<<>>)]
  BY <1>1, <1>2, EventsAre
<1> QED
  BY <1>1, <1>3

(* A datagram joins them at the end if it is an event.                     *)
LEMMA EventsAppend ==
  ASSUME NEW s \in Seq(Datagram), NEW d \in Datagram
  PROVE  EventsOf(Append(s, d))
           = IF IsEvent(d) THEN Append(EventsOf(s), d) ELSE EventsOf(s)
<1> DEFINE a == Append(s, d)
<1>1. PICK f : IsEvents(f, a, Len(a))
  <2>1. a \in Seq(Datagram)
    OBVIOUS
  <2> QED
    BY <2>1, EventsExist
<1>2. /\ Len(s) \in Nat /\ a \in Seq(Datagram) /\ Len(a) = Len(s) + 1
      /\ a[Len(s) + 1] = d /\ \A i \in 1..Len(s) : a[i] = s[i]
  OBVIOUS
<1> HIDE DEF a
<1> DEFINE g == [i \in 0..Len(s) |-> f[i]]
<1>3. IsEvents(g, s, Len(s))
  <2>1. g \in [0..Len(s) -> Seq(EventRec)] /\ g[0] = <<>>
    BY <1>1, <1>2 DEF IsEvents
  <2>2. ASSUME NEW i \in 1..Len(s)
        PROVE  g[i] = IF IsEvent(s[i]) THEN Append(g[i - 1], s[i]) ELSE g[i - 1]
    <3>1. g[i] = f[i] /\ g[i - 1] = f[i - 1] /\ a[i] = s[i] /\ i \in 1..Len(a)
      BY <1>2
    <3> HIDE DEF g
    <3> QED
      BY <1>1, <3>1 DEF IsEvents
  <2> HIDE DEF g
  <2> QED
    BY <2>1, <2>2 DEF IsEvents
<1>4. g[Len(s)] = f[Len(s)]
  BY <1>2
<1> HIDE DEF g
<1>5. EventsOf(s) = f[Len(s)]
  BY <1>3, <1>4, EventsAre
<1>6. EventsOf(a) = f[Len(s) + 1]
  BY <1>1, <1>2, EventsAre
<1>7. f[Len(s) + 1] = IF IsEvent(d) THEN Append(f[Len(s)], d) ELSE f[Len(s)]
  <2>1. Len(s) + 1 \in 1..Len(a) /\ (Len(s) + 1) - 1 = Len(s)
    BY <1>2
  <2> QED
    BY <1>1, <1>2, <2>1 DEF IsEvents
<1> QED
  BY <1>5, <1>6, <1>7 DEF a

(* What is appended to the second of two sequences is appended to both.    *)
LEMMA AppendAfter ==
  ASSUME NEW S, NEW r \in Seq(S), NEW s \in Seq(S), NEW e \in S
  PROVE  r \o Append(s, e) = Append(r \o s, e)
<1>1. Append(s, e) = s \o <<e>> /\ <<e>> \in Seq(S)
  BY AppendIsConcat
<1>2. r \o s \in Seq(S) /\ Append(r \o s, e) = (r \o s) \o <<e>>
  <2>1. r \o s \in Seq(S)
    BY ConcatProperties
  <2> QED
    BY <2>1, AppendIsConcat
<1> QED
  BY <1>1, <1>2, ConcatAssociative

(* The oldest datagram is the oldest event, or is none.                    *)
LEMMA EventsHead ==
  ASSUME NEW s \in Seq(Datagram), s # <<>>
  PROVE  /\ IsEvent(Head(s)) =>
              /\ EventsOf(s) # <<>> /\ Head(EventsOf(s)) = Head(s)
              /\ Tail(EventsOf(s)) = EventsOf(Tail(s))
         /\ ~IsEvent(Head(s)) => EventsOf(s) = EventsOf(Tail(s))
<1> DEFINE n == Len(s)
           t == Tail(s)
<1>1. /\ n \in Nat \ {0} /\ t \in Seq(Datagram) /\ Len(t) = n - 1
      /\ Head(s) \in Datagram /\ Head(s) = s[1]
      /\ \A i \in 1..(n - 1) : t[i] = s[i + 1]
  OBVIOUS
<1> HIDE DEF n, t
<1>2. PICK f : IsEvents(f, t, n - 1)
  BY <1>1, EventsExist
<1>3. EventsOf(t) = f[n - 1]
  BY <1>1, <1>2, EventsAre
<1> DEFINE first == IF IsEvent(Head(s)) THEN <<Head(s)>> ELSE <<>>
           g == [i \in 0..n |-> IF i = 0 THEN <<>> ELSE first \o f[i - 1]]
<1>4. first \in Seq(EventRec)
  <2>1. IsEvent(Head(s)) => Head(s) \in EventRec
    BY <1>1, DatagramType DEF IsEvent
  <2> QED
    BY <2>1
<1>5. \A i \in 0..(n - 1) : f[i] \in Seq(EventRec)
  BY <1>2 DEF IsEvents
<1>6. IsEvents(g, s, n)
  <2>1. g \in [0..n -> Seq(EventRec)] /\ g[0] = <<>>
    <3> HIDE DEF first
    <3>1. ASSUME NEW i \in 0..n
          PROVE  (IF i = 0 THEN <<>> ELSE first \o f[i - 1]) \in Seq(EventRec)
      BY <1>1, <1>4, <1>5
    <3> QED
      BY <1>1, <3>1
  <2>2. ASSUME NEW i \in 1..n
        PROVE  g[i] = IF IsEvent(s[i]) THEN Append(g[i - 1], s[i]) ELSE g[i - 1]
    <3>1. CASE i = 1
      <4> HIDE DEF first
      <4>1. 0 \in 0..n /\ 1 \in 0..n /\ 1 # 0 /\ 1 - 1 = 0
        BY <1>1
      <4>2. g[1] = first \o f[1 - 1] /\ g[0] = <<>> /\ f[0] = <<>>
        BY <1>2, <4>1 DEF IsEvents
      <4>3. first \o <<>> = first /\ Append(<<>>, Head(s)) = <<Head(s)>>
        BY <1>4
      <4>4. g[1] = first /\ g[1 - 1] = <<>>
        BY <4>1, <4>2, <4>3
      <4> HIDE DEF g
      <4>5. CASE IsEvent(Head(s))
        BY <1>1, <3>1, <4>3, <4>4, <4>5 DEF first
      <4>6. CASE ~IsEvent(Head(s))
        BY <1>1, <3>1, <4>4, <4>6 DEF first
      <4> QED
        BY <4>5, <4>6
    <3>2. CASE i # 1
      <4>1. /\ i \in 0..n /\ i - 1 \in 0..n /\ i # 0 /\ i - 1 # 0
            /\ i - 1 \in 1..(n - 1) /\ (i - 1) - 1 \in 0..(n - 1)
        BY <1>1, <3>2
      <4>2. g[i] = first \o f[i - 1] /\ g[i - 1] = first \o f[(i - 1) - 1]
        BY <4>1
      <4> HIDE DEF g, first
      <4>3. f[i - 1] = IF IsEvent(s[i]) THEN Append(f[(i - 1) - 1], s[i])
                                        ELSE f[(i - 1) - 1]
        <5>1. t[i - 1] = s[i]
          BY <1>1, <4>1
        <5> QED
          BY <1>2, <4>1, <5>1 DEF IsEvents
      <4>4. IsEvent(s[i]) => s[i] \in EventRec
        BY DatagramType DEF IsEvent, n
      <4>5. ASSUME IsEvent(s[i])
            PROVE  first \o Append(f[(i - 1) - 1], s[i])
                     = Append(first \o f[(i - 1) - 1], s[i])
        <5>1. f[(i - 1) - 1] \in Seq(EventRec)
          BY <1>5, <4>1
        <5>2. s[i] \in EventRec
          BY <4>4, <4>5
        <5>3. \A r, q \in Seq(EventRec) : \A e \in EventRec :
                r \o Append(q, e) = Append(r \o q, e)
          BY AppendAfter
        <5> QED
          BY <1>4, <5>1, <5>2, <5>3, Zenon
      <4> QED
        BY <4>2, <4>3, <4>5
    <3> QED
      BY <3>1, <3>2
  <2> HIDE DEF g
  <2> QED
    BY <2>1, <2>2 DEF IsEvents
<1>7. g[n] = first \o f[n - 1]
  <2>1. n \in 0..n /\ n # 0
    BY <1>1
  <2> HIDE DEF first
  <2> QED
    BY <2>1
<1> HIDE DEF g
<1>8. EventsOf(s) = first \o EventsOf(t) /\ EventsOf(t) \in Seq(EventRec)
  <2>1. EventsOf(s) = g[n]
    BY <1>6, EventsAre DEF n
  <2> QED
    BY <1>1, <1>3, <1>7, <2>1, EventsType
<1>9. CASE IsEvent(Head(s))
  <2>1. first = <<Head(s)>> /\ Head(s) \in EventRec
    BY <1>1, <1>9, DatagramType DEF first, IsEvent
  <2>2. \A e \in EventRec : \A r \in Seq(EventRec) :
          <<e>> \o r # <<>> /\ Head(<<e>> \o r) = e /\ Tail(<<e>> \o r) = r
    OBVIOUS
  <2> QED
    BY <1>8, <1>9, <2>1, <2>2 DEF t
<1>10. CASE ~IsEvent(Head(s))
  <2>1. first = <<>>
    BY <1>10 DEF first
  <2>2. \A r \in Seq(EventRec) : <<>> \o r = r
    OBVIOUS
  <2> QED
    BY <1>8, <1>10, <2>1, <2>2 DEF t
<1> QED
  BY <1>9, <1>10

-----------------------------------------------------------------------------
(* Refinement of EventStore *)

(* The pipe starts empty.                                                  *)
LEMMA StoreInit == Init => Store!Init
<1> SUFFICES ASSUME Init PROVE Store!Init
  OBVIOUS
<1>1. EventsOf(sock) = <<>>
  BY EventsEmpty DEF Init
<1>2. narrived = 0 /\ written = <<>> /\ cuts = <<>> /\ gbl_done = FALSE
  BY DEF Init
<1>3. /\ narrived \in 0..SockCap /\ Len(EventsOf(sock)) = narrived
      /\ \A i \in 1..narrived : EventsOf(sock)[i].id = i
  BY <1>1, <1>2
<1> QED
  BY <1>2, <1>3 DEF Store!Init

(* An event that arrives is accepted, one that is read is journalled or    *)
(* spoilt, and the depth tests are no part of the pipe.                    *)
LEMMA SockRefines ==
  ASSUME TypeOK, \/ \E rotate \in BOOLEAN : Arrive(rotate)
                 \/ ReadEvent \/ ReadDepth \/ SendDepthTest
  PROVE  Store!Next \/ UNCHANGED Store!vars
<1>1. sock \in Seq(Datagram) /\ Len(sock) \in Nat /\ narrived \in Nat /\ count \in Nat
  BY DEF TypeOK
<1>2. ASSUME NEW rotate \in BOOLEAN, Arrive(rotate) PROVE Store!Next
  <2> DEFINE d == [kind |-> "event", id |-> narrived + 1, rotate |-> rotate]
  <2>1. d \in Datagram /\ IsEvent(d)
    BY <1>1 DEF Datagram, IsEvent
  <2>2. /\ sock' = Append(sock, d) /\ narrived' = narrived + 1 /\ Len(sock) < SockCap
        /\ UNCHANGED <<written, cuts, gbl_done>>
    BY <1>2 DEF Arrive, jvars, gvars
  <2> HIDE DEF d
  <2>3. EventsOf(sock') = Append(EventsOf(sock), d)
    BY <1>1, <2>1, <2>2, EventsAppend
  <2>4. Len(EventsOf(sock)) < SockCap
    <3>1. EventsOf(sock) \in Seq(EventRec) /\ Len(EventsOf(sock)) <= Len(sock)
      BY <1>1, EventsType
    <3>2. Len(EventsOf(sock)) \in Nat
      BY <3>1
    <3> QED
      BY <1>1, <2>2, <3>1, <3>2
  <2>5. Store!Accept(rotate)
    BY <2>2, <2>3, <2>4 DEF Store!Accept, d
  <2> QED
    BY <2>5 DEF Store!Next
<1>3. ASSUME ReadEvent PROVE Store!Next
  <2>1. /\ sock # <<>> /\ IsEvent(Head(sock)) /\ sock' = Tail(sock)
        /\ UNCHANGED <<narrived, cuts, gbl_done>>
    BY <1>3 DEF ReadEvent, IsEvent, gvars
  <2>2. /\ EventsOf(sock) # <<>> /\ Head(EventsOf(sock)) = Head(sock)
        /\ Tail(EventsOf(sock)) = EventsOf(sock')
    BY <1>1, <2>1, EventsHead
  <2>3. CASE written' = Append(written, Head(sock))
    <3>1. Store!Commit
      BY <2>1, <2>2, <2>3 DEF Store!Commit
    <3> QED
      BY <3>1 DEF Store!Next
  <2>4. CASE written' = written /\ "journal_write" \in Faults
    <3>1. Store!Spoil
      BY <2>1, <2>2, <2>4 DEF Store!Spoil
    <3> QED
      BY <3>1 DEF Store!Next
  <2> QED
    BY <1>3, <2>3, <2>4 DEF ReadEvent
<1>4. ASSUME ReadDepth PROVE UNCHANGED Store!vars
  <2>1. /\ sock # <<>> /\ ~IsEvent(Head(sock)) /\ sock' = Tail(sock)
        /\ UNCHANGED <<narrived, written, cuts, gbl_done>>
    BY <1>4 DEF ReadDepth, IsEvent, gvars, jvars
  <2>2. EventsOf(sock') = EventsOf(sock)
    BY <1>1, <2>1, EventsHead
  <2> QED
    BY <2>1, <2>2 DEF Store!vars
<1>5. ASSUME SendDepthTest PROVE UNCHANGED Store!vars
  <2> DEFINE d == [kind |-> "depth", count |-> count, ahead |-> Len(sock)]
  <2>1. d \in Datagram /\ ~IsEvent(d)
    BY <1>1 DEF Datagram, IsEvent
  <2>2. /\ sock' = Append(sock, d) \/ sock' = sock
        /\ UNCHANGED <<narrived, written, cuts, gbl_done>>
    BY <1>5 DEF SendDepthTest, gvars, jvars
  <2> HIDE DEF d
  <2>3. EventsOf(sock') = EventsOf(sock)
    BY <1>1, <2>1, <2>2, EventsAppend
  <2> QED
    BY <2>2, <2>3 DEF Store!vars
<1> QED
  BY <1>2, <1>3, <1>4, <1>5

(* A journal that is closed cuts the pipe, a termination signal closes it, *)
(* and the other steps leave it alone.                                     *)
LEMMA StoreNext ==
  ASSUME TypeOK, [Next]_vars
  PROVE  Store!Next \/ UNCHANGED Store!vars
<1>1. CASE UNCHANGED vars
  BY <1>1 DEF vars, gvars, svars, jvars, Store!vars
<1>2. CASE TerminateSignal
  <2>1. Store!Close
    BY <1>2 DEF TerminateSignal, svars, jvars, Store!Close
  <2> QED
    BY <2>1 DEF Store!Next
<1>3. CASE CloseJournal \/ Fini
  <2>1. UNCHANGED <<sock, narrived, written, gbl_done>>
        /\ (cuts' = Append(cuts, Len(written)) \/ cuts' = cuts)
    BY <1>3 DEF CloseJournal, Fini, gvars, svars
  <2>2. CASE cuts' = Append(cuts, Len(written))
    <3>1. Store!Cut
      BY <2>1, <2>2 DEF Store!Cut
    <3> QED
      BY <3>1 DEF Store!Next
  <2>3. CASE cuts' = cuts
    BY <2>1, <2>3 DEF Store!vars
  <2> QED
    BY <2>1, <2>2, <2>3
<1>4. CASE \/ RotateSignal \/ ReadInterrupted \/ ReadError \/ TestRotate
           \/ CloseEnqueuer \/ CasOffEnqueue \/ CloseDequeuer \/ CasOffDequeue
           \/ OpenJournal \/ NoDepthTest \/ Check
  BY <1>4 DEF RotateSignal, ReadInterrupted, ReadError, TestRotate,
              CloseEnqueuer, CasOffEnqueue, CloseDequeuer, CasOffDequeue,
              OpenJournal, NoDepthTest, Check, gvars, svars, jvars, Store!vars
<1> QED
  BY <1>1, <1>2, <1>3, <1>4, SockRefines DEF Next, Program, Environment

\* The loop of the serial model implements the FIFO pipe of EventStore for any
\* socket buffer, any signals and faults: the depth tests it sends to itself
\* neither enter the journal nor delay or displace an event.
THEOREM StoreImplemented == Spec => ImplementsStore
<1>1. TypeOK /\ [Next]_vars => [Store!Next]_(Store!vars)
  BY StoreNext
<1> QED
  BY <1>1, StoreInit, SerialHolds, PTL DEF Spec, ImplementsStore, Store!Spec

=============================================================================
