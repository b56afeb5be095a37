---------------------------- MODULE PipelineProofs ----------------------------
(***************************************************************************)
(* What every step of the two workers preserves, whatever composes them:   *)
(* types, the order of packets and their accounting.  The switches that a  *)
(* step reads may have any value, so that the lemmas hold for threads,     *)
(* which share one set of switches, and for processes, which have their    *)
(* own.                                                                    *)
(***************************************************************************)
EXTENDS Pipeline, FiniteSetTheorems, TLAPS

USE PipelineAssumption
USE DEF eloc, ecnt, evars, jvars, dloc, dvars, qvars, pvars

\* A step of xport_to_queue and one of queue_to_journal, for any value of
\* the switches, interrupted by signals or not.
EnqWork ==
  \/ EnqStart \/ EnqStartFails
  \/ \E d \in BOOLEAN : EnqCheck(d)
  \/ \E rotate \in Kinds : EnqReceive(rotate)
  \/ EnqInterrupted \/ EnqSocketError
  \/ \E d, r \in BOOLEAN : EnqTestRotate(d, r)
  \/ \E d \in BOOLEAN : EnqRotateStats(d)
  \/ EnqSwitchOff
  \/ EnqSkipWrite \/ EnqSend \/ EnqSendAgain \/ EnqSendFails
  \/ EnqSendInterrupted
  \/ EnqFinish

DeqWork ==
  \/ DeqStart \/ DeqStartFails
  \/ \E d \in BOOLEAN : DeqCheck(d)
  \/ DeqReceive \/ DeqStat \/ DeqStatFails
  \/ \E s \in BOOLEAN : DeqInterrupted(s)
  \/ DeqReadFails
  \/ \E d, r \in BOOLEAN : DeqTestRotate(d, r)
  \/ \E d \in BOOLEAN : DeqRotate(d)
  \/ \E d \in BOOLEAN : DeqRotateFails(d)
  \/ DeqSwitchOff
  \/ DeqSkipWrite \/ DeqWrite \/ DeqWriteFails
  \/ DeqClose \/ DeqDrain
  \/ \E s \in BOOLEAN : DeqDrainEnds(s)
  \/ DeqFinish

-----------------------------------------------------------------------------
(* Types *)

LEMMA ZeroedType == Zeroed \in Event
  BY DEF Zeroed, Event

LEMMA PacketType ==
  ASSUME NEW n \in Nat, NEW r \in Kinds
  PROVE  [id |-> n, rotate |-> r] \in Event
  BY DEF Event

\* What a read of the queue returns and leaves.
LEMMA TakeType ==
  ASSUME NEW s \in Seq(Event), s # <<>>
  PROVE  /\ Head(s) \in Event
         /\ Tail(s) \in Seq(Event) /\ Len(Tail(s)) = Len(s) - 1
  OBVIOUS

LEMMA AppendType ==
  ASSUME NEW S, NEW s \in Seq(S), NEW x \in S
  PROVE  Append(s, x) \in Seq(S)
  OBVIOUS

LEMMA LastReportType ==
  ASSUME reports \in Seq(Nat)
  PROVE  LastReport \in Nat
<1>1. reports # <<>> => Len(reports) \in 1..Len(reports)
  OBVIOUS
<1> QED
  BY <1>1 DEF LastReport

LEMMA RangeType ==
  ASSUME NEW s \in Seq(Event)
  PROVE  Range(s) \subseteq Event
  BY DEF Range

\* PipelineTypeOK is inductive with one fact more: the counter of the drain
\* is not negative when the drain loop starts another read.
TypeInv == PipelineTypeOK /\ (dpc = "drain" => max >= 0)

LEMMA TypeInit == PipelineInit => TypeInv
<1> SUFFICES ASSUME PipelineInit PROVE TypeInv
  OBVIOUS
<1> USE DEF PipelineInit
<1>1. nrecv \in Nat /\ nrecv <= QueueMaxCnt
  OBVIOUS
<1>2. mq \in Seq(Event) /\ Len(mq) = nrecv
  <2>1. PICK kind \in [1..nrecv -> Kinds] :
          mq = [i \in 1..nrecv |-> [id |-> i, rotate |-> kind[i]]]
    OBVIOUS
  <2>2. \A i \in 1..nrecv : [id |-> i, rotate |-> kind[i]] \in Event
    BY <1>1 DEF Event
  <2> QED
    BY <1>1, <2>1, <2>2
<1>3. EnqTypeOK
  BY <1>1, ZeroedType DEF EnqTypeOK, EnqPC, Closed
<1>4. DeqTypeOK
  BY ZeroedType DEF DeqTypeOK, DeqPC, Closed
<1>5. QueueTypeOK
  BY <1>1, <1>2 DEF QueueTypeOK
<1>6. JournalTypeOK
  BY DEF JournalTypeOK
<1> QED
  BY <1>3, <1>4, <1>5, <1>6 DEF TypeInv, PipelineTypeOK

LEMMA DestroyType ==
  ASSUME QueueTypeOK, NEW h, DestroyQueue(h)
  PROVE  QueueTypeOK'
<1>1. Range(mq) \subseteq Event
  BY RangeType DEF QueueTypeOK
<1>2. CASE UNCHANGED qvars
  BY <1>2 DEF QueueTypeOK
<1>3. CASE /\ mq' = <<>> /\ discarded' = discarded \cup Range(mq)
           /\ mqLive' = FALSE /\ UNCHANGED mqGen
  <2>1. discarded' \subseteq Event
    BY <1>1, <1>3 DEF QueueTypeOK
  <2>2. mq' \in Seq(Event) /\ Len(mq') <= QueueMaxCnt
    BY <1>3
  <2>3. mqGen' \in Nat /\ mqLive' \in BOOLEAN
    BY <1>3 DEF QueueTypeOK
  <2> QED
    BY <2>1, <2>2, <2>3 DEF QueueTypeOK
<1> QED
  BY <1>2, <1>3 DEF DestroyQueue, DestroyMqueue, DestroyMsg

LEMMA TypeEnqWork ==
  ASSUME TypeInv, EnqWork
  PROVE  EnqTypeOK' /\ QueueTypeOK' /\ UNCHANGED dvars
<1> USE ZeroedType DEF TypeInv, PipelineTypeOK, EnqTypeOK, QueueTypeOK,
                       EnqPC
<1>1. CASE EnqStart
  BY <1>1 DEF EnqStart, OpenQueue, OpenGen
<1>2. CASE EnqStartFails
  BY <1>2 DEF EnqStartFails
<1>3. CASE \E d \in BOOLEAN : EnqCheck(d)
  BY <1>3 DEF EnqCheck
<1>4. CASE \E rotate \in Kinds : EnqReceive(rotate)
  BY <1>4, PacketType DEF EnqReceive
<1>5. CASE EnqInterrupted
  BY <1>5 DEF EnqInterrupted
<1>6. CASE EnqSocketError
  BY <1>6 DEF EnqSocketError
<1>7. CASE \E d, r \in BOOLEAN : EnqTestRotate(d, r)
  BY <1>7 DEF EnqTestRotate
<1>8. CASE \E d \in BOOLEAN : EnqRotateStats(d)
  BY <1>8 DEF EnqRotateStats, EnqStatsRotate
<1>9. CASE EnqSkipWrite
  BY <1>9 DEF EnqSkipWrite
<1>10. CASE EnqSend
  BY <1>10 DEF EnqSend
<1>11. CASE EnqSendAgain
  BY <1>11 DEF EnqSendAgain
<1>12. CASE EnqSendFails
  BY <1>12 DEF EnqSendFails
<1>13. CASE EnqSendInterrupted
  BY <1>13 DEF EnqSendInterrupted
<1>14. CASE EnqSwitchOff
  BY <1>14 DEF EnqSwitchOff
<1>15. CASE EnqFinish
  BY <1>15, DestroyType DEF EnqFinish, EnqStatsRotate
<1> QED
  BY <1>1, <1>2, <1>3, <1>4, <1>5, <1>6, <1>7, <1>8, <1>9, <1>10, <1>11,
     <1>12, <1>13, <1>14, <1>15 DEF EnqWork

LEMMA TypeDeqWork ==
  ASSUME TypeInv, DeqWork
  PROVE  /\ DeqTypeOK' /\ QueueTypeOK' /\ JournalTypeOK' /\ UNCHANGED evars
         /\ dpc' = "drain" => max' >= 0
<1> USE ZeroedType DEF TypeInv, PipelineTypeOK, DeqTypeOK, QueueTypeOK,
                       JournalTypeOK, DeqPC
<1>0. /\ Append(reports, LastReport + dsince) \in Seq(Nat)
      /\ Append(cuts, Len(written)) \in Seq(Nat)
  BY AppendType, LastReportType
<1>1. CASE DeqStart
  BY <1>1 DEF DeqStart, OpenQueue, OpenGen
<1>2. CASE DeqStartFails
  BY <1>2 DEF DeqStartFails
<1>3. CASE \E d \in BOOLEAN : DeqCheck(d)
  BY <1>3 DEF DeqCheck
<1>4. CASE DeqReceive
  BY <1>4, TakeType DEF DeqReceive, TakeMessage
<1>5. CASE DeqStat
  BY <1>5 DEF DeqStat
<1>6. CASE DeqStatFails
  BY <1>6 DEF DeqStatFails
<1>7. CASE \E s \in BOOLEAN : DeqInterrupted(s)
  BY <1>7 DEF DeqInterrupted
<1>8. CASE DeqReadFails
  BY <1>8 DEF DeqReadFails
<1>9. CASE \E d, r \in BOOLEAN : DeqTestRotate(d, r)
  BY <1>9 DEF DeqTestRotate
<1>10. CASE \E d \in BOOLEAN : DeqRotate(d)
  <2>0. PICK d \in BOOLEAN : DeqRotate(d)
    BY <1>10
  <2>1. CASE d
    BY <2>0, <2>1 DEF DeqRotate
  <2>2. CASE ~d
    <3>1. /\ reports' = Append(reports, LastReport + dsince) /\ dsince' = 0
          /\ cuts' = Append(cuts, Len(written))
      BY <2>0, <2>2 DEF DeqRotate, DeqStatsRotate
    <3>2. /\ dpc' = "off" /\ UNCHANGED <<dloc, written, unwritten, evars, qvars>>
      BY <2>0 DEF DeqRotate
    <3> QED
      BY <1>0, <3>1, <3>2
  <2> QED
    BY <2>1, <2>2
<1>11. CASE \E d \in BOOLEAN : DeqRotateFails(d)
  <2>1. cuts' = Append(cuts, Len(written)) \/ cuts' = cuts
    BY <1>11 DEF DeqRotateFails
  <2>2. /\ reports' = Append(reports, LastReport + dsince) /\ dsince' = 0 /\ dpc' = "exit"
        /\ UNCHANGED <<dloc, written, unwritten, evars, qvars>>
    BY <1>11 DEF DeqRotateFails, DeqStatsRotate
  <2> QED
    BY <1>0, <2>1, <2>2
<1>12. CASE DeqSkipWrite
  BY <1>12 DEF DeqSkipWrite
<1>13. CASE DeqWrite
  BY <1>13 DEF DeqWrite
<1>14. CASE DeqWriteFails
  BY <1>14 DEF DeqWriteFails
<1>15. CASE DeqClose
  <2>1. cuts' = Append(cuts, Len(written)) \/ cuts' = cuts
    BY <1>15 DEF DeqClose
  <2>2. cuts' \in Seq(Nat)
    BY <1>0, <2>1
  <2>3. /\ max' = QueueMaxCnt /\ dpc' = "drain"
        /\ UNCHANGED <<dbuf, dret, dq, written, dsince, reports, unwritten,
                       evars, qvars>>
    BY <1>15 DEF DeqClose
  <2> QED
    BY <2>2, <2>3
<1>16. CASE DeqDrain
  <2>1. /\ mq' \in Seq(Event) /\ Len(mq') <= QueueMaxCnt
        /\ dbuf' \in Event /\ discarded' \subseteq Event
    BY <1>16, TakeType DEF DeqDrain, TakeMessage
  <2>2. /\ max' = max - 1 /\ max >= 0
        /\ dpc' = IF max = 0 THEN "fini" ELSE "drain"
        /\ UNCHANGED <<dret, dq, jvars, evars, mqGen, mqLive>>
    BY <1>16 DEF DeqDrain
  <2> QED
    BY <2>1, <2>2
<1>17. CASE \E s \in BOOLEAN : DeqDrainEnds(s)
  BY <1>17 DEF DeqDrainEnds
<1>18. CASE DeqFinish
  <2>1. QueueTypeOK'
    BY <1>18, DestroyType DEF DeqFinish
  <2>2. /\ reports' = Append(reports, LastReport + dsince) /\ dsince' = 0 /\ dpc' = "done"
        /\ UNCHANGED <<dloc, written, cuts, unwritten, evars>>
    BY <1>18 DEF DeqFinish, DeqStatsRotate
  <2> QED
    BY <1>0, <2>1, <2>2
<1>19. CASE DeqSwitchOff
  BY <1>19 DEF DeqSwitchOff
<1> QED
  BY <1>1, <1>2, <1>3, <1>4, <1>5, <1>6, <1>7, <1>8, <1>9, <1>10, <1>11,
     <1>12, <1>13, <1>14, <1>15, <1>16, <1>17, <1>18, <1>19 DEF DeqWork

LEMMA TypeStep ==
  ASSUME TypeInv, EnqWork \/ DeqWork \/ UNCHANGED pvars
  PROVE  TypeInv'
<1>1. CASE EnqWork
  <2>1. EnqTypeOK' /\ QueueTypeOK' /\ UNCHANGED dvars
    BY <1>1, TypeEnqWork
  <2>2. DeqTypeOK' /\ JournalTypeOK' /\ (dpc' = "drain" => max' >= 0)
    BY <2>1 DEF TypeInv, PipelineTypeOK, DeqTypeOK, JournalTypeOK
  <2> QED
    BY <2>1, <2>2 DEF TypeInv, PipelineTypeOK
<1>2. CASE DeqWork
  <2>1. /\ DeqTypeOK' /\ QueueTypeOK' /\ JournalTypeOK' /\ UNCHANGED evars
        /\ dpc' = "drain" => max' >= 0
    BY <1>2, TypeDeqWork
  <2>2. EnqTypeOK'
    BY <2>1 DEF TypeInv, PipelineTypeOK, EnqTypeOK
  <2> QED
    BY <2>1, <2>2 DEF TypeInv, PipelineTypeOK
<1>3. CASE UNCHANGED pvars
  BY <1>3 DEF TypeInv, PipelineTypeOK, EnqTypeOK, DeqTypeOK, QueueTypeOK,
              JournalTypeOK
<1> QED
  BY <1>1, <1>2, <1>3

-----------------------------------------------------------------------------
(* Order *)

\* What InOrder needs to be inductive: no packet has a number not yet given
\* out, so the next datagram is larger than all others, and a dequeuer that
\* has not started, and may exit at once, holds nothing.
Bounded ==
  \A e \in Range(written) \cup DeqHand \cup Range(mq) \cup EnqHand :
    e.id <= nrecv

OrderInv == TypeInv /\ InOrder /\ Bounded /\ (dpc = "start" => dret = "intr")

LEMMA AppendOrder ==
  ASSUME NEW s \in Seq(Event), NEW e \in Event,
         Increasing(s), Before(Range(s), {e})
  PROVE  /\ Increasing(Append(s, e))
         /\ Range(Append(s, e)) = Range(s) \cup {e}
<1> DEFINE t == Append(s, e)
<1>1. /\ Len(t) = Len(s) + 1 /\ DOMAIN t = 1..(Len(s) + 1)
      /\ DOMAIN s = 1..Len(s) /\ t[Len(s) + 1] = e
      /\ \A i \in 1..Len(s) : t[i] = s[i]
  OBVIOUS
<1> HIDE DEF t
<1>2. Range(t) = Range(s) \cup {e}
  BY <1>1 DEF Range
<1>3. \A i \in 1..Len(s) : s[i].id < e.id
  BY <1>1 DEF Before, Range
<1>4. Increasing(t)
  BY <1>1, <1>3 DEF Increasing
<1> QED
  BY <1>2, <1>4 DEF t

LEMMA TailOrder ==
  ASSUME NEW s \in Seq(Event), s # <<>>, Increasing(s)
  PROVE  /\ Increasing(Tail(s))
         /\ Head(s) \in Range(s) /\ Range(Tail(s)) \subseteq Range(s)
         /\ Before({Head(s)}, Range(Tail(s)))
<1> DEFINE t == Tail(s)
<1>1. /\ DOMAIN s = 1..Len(s) /\ Len(s) \in Nat /\ Len(s) >= 1
      /\ DOMAIN t = 1..(Len(s) - 1)
      /\ \A i \in 1..(Len(s) - 1) : t[i] = s[i + 1]
      /\ Head(s) = s[1]
  OBVIOUS
<1> HIDE DEF t
<1>2. Increasing(t)
  BY <1>1 DEF Increasing
<1>3. Head(s) \in Range(s) /\ Range(t) \subseteq Range(s)
  BY <1>1 DEF Range
<1>4. Before({Head(s)}, Range(t))
  BY <1>1 DEF Range, Before, Increasing
<1> QED
  BY <1>2, <1>3, <1>4 DEF t

\* A step that moves no packet, or only forgets those in the hands of the
\* workers, keeps the order.
LEMMA OrderShrinks ==
  ASSUME InOrder, Bounded, UNCHANGED <<written, mq, nrecv>>,
         DeqHand' \subseteq DeqHand, EnqHand' \subseteq EnqHand
  PROVE  InOrder' /\ Bounded'
  BY DEF InOrder, Bounded, Increasing, Before, Range

LEMMA OrderInit == PipelineInit => OrderInv
<1> SUFFICES ASSUME PipelineInit PROVE OrderInv
  OBVIOUS
<1>1. TypeInv
  BY TypeInit
<1>2. /\ written = <<>> /\ DeqHand = {} /\ EnqHand = {}
      /\ Range(written) = {} /\ dret = "intr"
  BY DEF PipelineInit, DeqHand, EnqHand, DeqHolds, EnqHolds, Range
<1>3. nrecv \in Nat /\ DOMAIN mq = 1..nrecv /\ \A i \in 1..nrecv : mq[i].id = i
  BY DEF PipelineInit
<1>4. Increasing(mq) /\ \A e \in Range(mq) : e.id <= nrecv
  BY <1>3 DEF Increasing, Range
<1> QED
  BY <1>1, <1>2, <1>4 DEF OrderInv, InOrder, Bounded, Increasing, Before

\* The queue loses its contents or keeps them.
LEMMA OrderDestroy ==
  ASSUME InOrder, Bounded, NEW h, DestroyQueue(h), UNCHANGED <<written, nrecv>>,
         DeqHand' \subseteq DeqHand, EnqHand' \subseteq EnqHand
  PROVE  InOrder' /\ Bounded'
<1>1. CASE mq' = mq
  BY <1>1, OrderShrinks
<1>2. CASE mq' = <<>>
  BY <1>2 DEF InOrder, Bounded, Increasing, Before, Range
<1> QED
  BY <1>1, <1>2 DEF DestroyQueue, DestroyMqueue, DestroyMsg

LEMMA OrderEnqWork ==
  ASSUME OrderInv, EnqWork
  PROVE  InOrder' /\ Bounded'
<1>1. UNCHANGED <<written, dpc, dbuf, dret>>
  BY TypeEnqWork DEF OrderInv
<1>2. DeqHand' = DeqHand
  BY <1>1 DEF DeqHand, DeqHolds
<1> USE DEF EnqHand, EnqHolds
<1>3. CASE \/ EnqStart \/ EnqStartFails \/ (\E d \in BOOLEAN : EnqCheck(d))
           \/ EnqInterrupted \/ EnqSocketError
           \/ (\E d, r \in BOOLEAN : EnqTestRotate(d, r))
           \/ (\E d \in BOOLEAN : EnqRotateStats(d))
           \/ EnqSkipWrite \/ EnqSendAgain \/ EnqSendFails
           \/ EnqSendInterrupted \/ EnqSwitchOff
  <2>1. UNCHANGED <<mq, nrecv>> /\ EnqHand' \subseteq EnqHand
    BY <1>3 DEF EnqStart, OpenQueue, EnqStartFails, EnqCheck, EnqInterrupted,
                EnqSocketError, EnqTestRotate, EnqRotateStats, EnqSkipWrite,
                EnqSendAgain, EnqSendFails, EnqSendInterrupted, EnqSwitchOff
  <2> QED
    BY <1>1, <1>2, <2>1, OrderShrinks DEF OrderInv
<1>4. CASE \E rotate \in Kinds : EnqReceive(rotate)
  <2>1. PICK rotate \in Kinds : EnqReceive(rotate)
    BY <1>4
  <2>2. /\ nrecv' = nrecv + 1 /\ mq' = mq
        /\ EnqHand' = {[id |-> nrecv + 1, rotate |-> rotate]}
    BY <2>1 DEF EnqReceive
  <2>3. nrecv \in Nat /\ \A e \in Event : e.id \in Nat
    BY DEF OrderInv, TypeInv, PipelineTypeOK, EnqTypeOK, Event
  <2>4. Range(written) \cup DeqHand \cup Range(mq) \subseteq Event
    BY RangeType DEF OrderInv, TypeInv, PipelineTypeOK, QueueTypeOK,
                     JournalTypeOK, DeqTypeOK, DeqHand
  <2>5. \A e \in Range(written) \cup DeqHand \cup Range(mq) : e.id < nrecv + 1
    BY <2>3, <2>4 DEF OrderInv, Bounded
  <2> QED
    BY <1>1, <1>2, <2>2, <2>3, <2>4, <2>5 DEF OrderInv, InOrder, Bounded, Before
<1>5. CASE EnqSend
  <2>1. /\ mq' = Append(mq, ebuf) /\ nrecv' = nrecv
        /\ EnqHand = {ebuf} /\ EnqHand' = {}
    BY <1>5 DEF EnqSend
  <2>2. mq \in Seq(Event) /\ ebuf \in Event
    BY DEF OrderInv, TypeInv, PipelineTypeOK, QueueTypeOK, EnqTypeOK
  <2>3. Increasing(mq') /\ Range(mq') = Range(mq) \cup {ebuf}
    BY <2>1, <2>2, AppendOrder DEF OrderInv, InOrder
  <2> QED
    BY <1>1, <1>2, <2>1, <2>3 DEF OrderInv, InOrder, Bounded, Before
<1>6. CASE EnqFinish
  BY <1>1, <1>2, <1>6, OrderDestroy DEF OrderInv, EnqFinish
<1> QED
  BY <1>3, <1>4, <1>5, <1>6 DEF EnqWork

LEMMA OrderDeqWork ==
  ASSUME OrderInv, DeqWork
  PROVE  InOrder' /\ Bounded' /\ (dpc' = "start" => dret' = "intr")
<1>1. UNCHANGED <<nrecv, epc, ebuf, eret>>
  BY TypeDeqWork DEF OrderInv
<1>2. EnqHand' = EnqHand
  BY <1>1 DEF EnqHand, EnqHolds
<1>3. mq \in Seq(Event) /\ written \in Seq(Event) /\ dbuf \in Event
  BY DEF OrderInv, TypeInv, PipelineTypeOK, QueueTypeOK, JournalTypeOK,
         DeqTypeOK
<1> USE DEF DeqHand, DeqHolds
<1>4. CASE \/ DeqStart \/ DeqStartFails \/ (\E d \in BOOLEAN : DeqCheck(d))
           \/ DeqStat \/ DeqStatFails \/ DeqReadFails
           \/ (\E s \in BOOLEAN : DeqInterrupted(s))
           \/ (\E d, r \in BOOLEAN : DeqTestRotate(d, r))
           \/ (\E d \in BOOLEAN : DeqRotate(d))
           \/ (\E d \in BOOLEAN : DeqRotateFails(d))
           \/ DeqSkipWrite \/ DeqWriteFails \/ DeqClose \/ DeqSwitchOff
           \/ (\E s \in BOOLEAN : DeqDrainEnds(s))
  <2>1. /\ UNCHANGED <<mq, written>> /\ DeqHand' \subseteq DeqHand
        /\ dpc' # "start"
    BY <1>4 DEF OrderInv, DeqStart, OpenQueue, DeqStartFails, DeqCheck, DeqStat,
                DeqStatFails, DeqInterrupted, DeqReadFails, DeqTestRotate,
                DeqRotate, DeqRotateFails, DeqSkipWrite, DeqWriteFails, DeqClose,
                DeqDrainEnds, DeqSwitchOff
  <2> QED
    BY <1>1, <1>2, <2>1, OrderShrinks DEF OrderInv
<1>5. CASE DeqReceive
  <2>1. /\ mq # <<>> /\ mq' = Tail(mq) /\ written' = written
        /\ DeqHand' = {Head(mq)} /\ dpc' # "start"
    BY <1>5 DEF DeqReceive, TakeMessage
  <2>2. /\ Increasing(mq') /\ Head(mq) \in Range(mq)
        /\ Range(mq') \subseteq Range(mq) /\ Before({Head(mq)}, Range(mq'))
    BY <1>3, <2>1, TailOrder DEF OrderInv, InOrder
  <2> QED
    BY <1>1, <1>2, <2>1, <2>2 DEF OrderInv, InOrder, Bounded, Before
<1>6. CASE DeqWrite
  <2>1. /\ mq' = mq /\ written' = Append(written, dbuf)
        /\ DeqHand = {dbuf} /\ DeqHand' = {} /\ dpc' # "start"
    BY <1>6 DEF DeqWrite
  <2>2. Increasing(written') /\ Range(written') = Range(written) \cup {dbuf}
    BY <1>3, <2>1, AppendOrder DEF OrderInv, InOrder, Before
  <2> QED
    BY <1>1, <1>2, <2>1, <2>2 DEF OrderInv, InOrder, Bounded, Before
<1>7. CASE DeqDrain
  <2>1. /\ mq # <<>> /\ mq' = Tail(mq) /\ written' = written
        /\ DeqHand' = {} /\ dpc' # "start"
    BY <1>7 DEF DeqDrain, TakeMessage
  <2>2. Increasing(mq') /\ Range(mq') \subseteq Range(mq)
    BY <1>3, <2>1, TailOrder DEF OrderInv, InOrder
  <2> QED
    BY <1>1, <1>2, <2>1, <2>2 DEF OrderInv, InOrder, Bounded, Before
<1>8. CASE DeqFinish
  <2>1. /\ DestroyQueue(dq) /\ written' = written /\ DeqHand' = {}
        /\ dpc' # "start"
    BY <1>8 DEF DeqFinish
  <2> QED
    BY <1>1, <1>2, <2>1, OrderDestroy DEF OrderInv
<1> QED
  BY <1>4, <1>5, <1>6, <1>7, <1>8 DEF DeqWork

LEMMA OrderStep ==
  ASSUME OrderInv, EnqWork \/ DeqWork \/ UNCHANGED pvars
  PROVE  OrderInv'
<1>1. TypeInv'
  BY TypeStep DEF OrderInv
<1>2. CASE EnqWork
  <2>1. UNCHANGED <<dpc, dret>>
    BY <1>2, TypeEnqWork DEF OrderInv
  <2> QED
    BY <1>1, <1>2, <2>1, OrderEnqWork DEF OrderInv
<1>3. CASE DeqWork
  BY <1>1, <1>3, OrderDeqWork DEF OrderInv
<1>4. CASE UNCHANGED pvars
  <2>1. /\ UNCHANGED <<written, mq, nrecv>>
        /\ DeqHand' = DeqHand /\ EnqHand' = EnqHand
        /\ dpc' = "start" => dret' = "intr"
    BY <1>4 DEF OrderInv, DeqHand, DeqHolds, EnqHand, EnqHolds
  <2> QED
    BY <1>1, <2>1, OrderShrinks DEF OrderInv
<1> QED
  BY <1>2, <1>3, <1>4

-----------------------------------------------------------------------------
(* Accounting *)

\* The numbers of the packets in place k.
At(k) == Ids(Places[k])

PlacesListed ==
  /\ DOMAIN Places = {1, 2, 3, 4, 5, 6, 7}
  /\ At(1) = Ids(Range(written)) /\ At(2) = Ids(DeqHand)
  /\ At(3) = Ids(Range(mq)) /\ At(4) = Ids(EnqHand)
  /\ At(5) = Ids(dropped) /\ At(6) = Ids(unwritten)
  /\ At(7) = Ids(discarded)

LEMMA PlacesAre == PlacesListed /\ PlacesListed'
  BY DEF PlacesListed, Places, At

\* Packets that move from one place to another stay accounted for.
LEMMA Move ==
  ASSUME Accounted, nrecv' = nrecv,
         NEW j \in DOMAIN Places, NEW k \in DOMAIN Places, j # k,
         NEW S \in SUBSET At(j),
         \A m \in DOMAIN Places :
           At(m)' = IF m = j THEN At(m) \ S
                    ELSE IF m = k THEN At(m) \cup S ELSE At(m)
  PROVE  Accounted'
<1> DEFINE dom == {1, 2, 3, 4, 5, 6, 7}
<1>1. DOMAIN Places = dom /\ (DOMAIN Places)' = dom
  BY PlacesAre DEF PlacesListed
<1>2. UNION {At(m) : m \in dom} = 1..nrecv
  BY <1>1 DEF Accounted, At
<1>3. \A m, n \in dom : m # n => At(m) \cap At(n) = {}
  BY <1>1 DEF Accounted, At
<1> HIDE DEF dom
<1>4. UNION {At(m)' : m \in dom} = UNION {At(m) : m \in dom}
  BY <1>1
<1>5. \A m, n \in dom : m # n => At(m)' \cap At(n)' = {}
  BY <1>1, <1>3
<1> QED
  BY <1>1, <1>2, <1>4, <1>5 DEF Accounted, At

\* A step that moves no packet.
LEMMA Stay ==
  ASSUME Accounted,
         UNCHANGED <<written, mq, nrecv, dropped, unwritten, discarded>>,
         DeqHand' = DeqHand, EnqHand' = EnqHand
  PROVE  Accounted'
<1>1. UNCHANGED Places
  BY DEF Places
<1> QED
  BY <1>1 DEF Accounted

LEMMA IdsUnion ==
  ASSUME NEW S, NEW T
  PROVE  Ids(S \cup T) = Ids(S) \cup Ids(T) /\ Ids({}) = {}
  BY DEF Ids

LEMMA IdsTail ==
  ASSUME NEW s \in Seq(Event), s # <<>>, Increasing(s)
  PROVE  /\ Ids(Range(Tail(s))) = Ids(Range(s)) \ {Head(s).id}
         /\ Head(s).id \in Ids(Range(s))
<1> DEFINE t == Tail(s)
<1>1. /\ DOMAIN s = 1..Len(s) /\ Len(s) \in Nat /\ Len(s) >= 1
      /\ DOMAIN t = 1..(Len(s) - 1)
      /\ \A i \in 1..(Len(s) - 1) : t[i] = s[i + 1]
      /\ Head(s) = s[1] /\ \A i \in 1..Len(s) : s[i] \in Event
  OBVIOUS
<1> HIDE DEF t
<1>2. \A i \in 1..Len(s) : s[i].id \in Nat
  BY <1>1 DEF Event
<1>3. \A i \in 2..Len(s) : s[1].id < s[i].id /\ s[i].id # s[1].id
  <2>1. \A i \in 2..Len(s) : {1, i} \subseteq 1..Len(s) /\ 1 < i
    BY <1>1
  <2>2. \A i \in 2..Len(s) : s[1].id < s[i].id
    BY <1>1, <2>1 DEF Increasing
  <2> QED
    BY <1>2, <2>1, <2>2
<1>4. /\ Ids(Range(s)) = {s[i].id : i \in 1..Len(s)}
      /\ Ids(Range(t)) = {s[i + 1].id : i \in 1..(Len(s) - 1)}
  <2>1. Range(s) = {s[i] : i \in 1..Len(s)}
    BY <1>1 DEF Range
  <2>2. Range(t) = {s[i + 1] : i \in 1..(Len(s) - 1)}
    BY <1>1 DEF Range
  <2>3. Ids(Range(s)) = {s[i].id : i \in 1..Len(s)}
    BY <2>1 DEF Ids
  <2>4. Ids(Range(t)) = {s[i + 1].id : i \in 1..(Len(s) - 1)}
    BY <2>2 DEF Ids
  <2> QED
    BY <2>3, <2>4
<1>5. {s[i + 1].id : i \in 1..(Len(s) - 1)} = {s[i].id : i \in 2..Len(s)}
  <2>1. \A i \in 1..(Len(s) - 1) : i + 1 \in 2..Len(s)
    BY <1>1
  <2>2. \A i \in 2..Len(s) : i - 1 \in 1..(Len(s) - 1) /\ (i - 1) + 1 = i
    BY <1>1
  <2> QED
    BY <2>1, <2>2
<1>6. 1..Len(s) = {1} \cup 2..Len(s)
  BY <1>1
<1>7. Ids(Range(t)) = Ids(Range(s)) \ {s[1].id} /\ s[1].id \in Ids(Range(s))
  BY <1>3, <1>4, <1>5, <1>6
<1> QED
  BY <1>1, <1>7 DEF t

\* Accounting rests on the order: it is because identifiers grow that the
\* packet taken from the queue is in the queue once.  A dequeuer that asks
\* for the length of the queue has just read a packet.
AccountInv == OrderInv /\ Accounted /\ (dpc = "stat" => dret = "event")

LEMMA AccountInit == PipelineInit => AccountInv
<1> SUFFICES ASSUME PipelineInit PROVE AccountInv
  OBVIOUS
<1>1. OrderInv
  BY OrderInit
<1>2. /\ Range(written) = {} /\ DeqHand = {} /\ EnqHand = {}
      /\ dropped = {} /\ unwritten = {} /\ discarded = {}
  BY DEF PipelineInit, DeqHand, EnqHand, DeqHolds, EnqHolds, Range
<1>3. nrecv \in Nat /\ DOMAIN mq = 1..nrecv /\ \A i \in 1..nrecv : mq[i].id = i
  BY DEF PipelineInit
<1>4. Ids(Range(mq)) = 1..nrecv
  BY <1>3 DEF Ids, Range
<1>5. /\ At(3) = 1..nrecv
      /\ \A k \in {1, 2, 4, 5, 6, 7} : At(k) = {}
  BY <1>2, <1>4, PlacesAre, IdsUnion DEF PlacesListed
<1>6. DOMAIN Places = {1, 2, 3, 4, 5, 6, 7}
  BY PlacesAre DEF PlacesListed
<1>7. UNION {At(k) : k \in DOMAIN Places} = 1..nrecv
  <2>1. \A i : (\E k \in DOMAIN Places : i \in At(k)) <=> i \in 1..nrecv
    <3>1. 3 \in DOMAIN Places /\ \A k \in DOMAIN Places : k = 3 \/ At(k) = {}
      BY <1>5, <1>6
    <3> QED
      BY <1>5, <3>1, Zenon
  <2> QED
    BY <2>1, Zenon
<1>8. \A j, k \in DOMAIN Places : j # k => At(j) \cap At(k) = {}
  BY <1>5, <1>6
<1> QED
  BY <1>1, <1>7, <1>8 DEF AccountInv, Accounted, At, PipelineInit

\* A queue that is removed takes its packets with it: they are discarded.
LEMMA AccountDestroy ==
  ASSUME Accounted, NEW h, DestroyQueue(h),
         UNCHANGED <<written, nrecv, dropped, unwritten>>,
         DeqHand' = DeqHand, EnqHand' = EnqHand
  PROVE  Accounted'
<1>1. CASE UNCHANGED qvars
  BY <1>1, Stay DEF qvars
<1>2. CASE mq' = <<>> /\ discarded' = discarded \cup Range(mq)
  <2>1. Range(mq') = {}
    BY <1>2 DEF Range
  <2>2. /\ Ids(Range(mq')) = {}
        /\ Ids(discarded') = Ids(discarded) \cup Ids(Range(mq))
    BY <1>2, <2>1, IdsUnion
  <2>3. /\ At(3)' = At(3) \ At(3) /\ At(7)' = At(7) \cup At(3)
        /\ \A m \in {1, 2, 4, 5, 6} : At(m)' = At(m)
    BY <2>2, PlacesAre DEF PlacesListed
  <2> QED
    BY <2>3, PlacesAre, Move DEF PlacesListed
<1> QED
  BY <1>1, <1>2 DEF DestroyQueue, DestroyMqueue, DestroyMsg

LEMMA AccountEnqWork ==
  ASSUME AccountInv, EnqWork
  PROVE  Accounted'
<1>1. UNCHANGED <<written, unwritten, dpc, dbuf, dret>>
  BY TypeEnqWork DEF AccountInv, OrderInv
<1>2. DeqHand' = DeqHand
  BY <1>1 DEF DeqHand, DeqHolds
<1>3. CASE \/ EnqStart \/ EnqStartFails \/ (\E d \in BOOLEAN : EnqCheck(d))
           \/ EnqInterrupted \/ EnqSocketError
           \/ (\E d, r \in BOOLEAN : EnqTestRotate(d, r))
           \/ (\E d \in BOOLEAN : EnqRotateStats(d)) \/ EnqSkipWrite
           \/ EnqSendAgain \/ EnqSwitchOff
  <2>1. UNCHANGED <<mq, nrecv, dropped, discarded>> /\ EnqHand' = EnqHand
    BY <1>3 DEF EnqStart, OpenQueue, EnqStartFails, EnqCheck, EnqInterrupted,
                EnqSocketError, EnqTestRotate, EnqRotateStats, EnqSkipWrite,
                EnqSendAgain, EnqSwitchOff, EnqHand, EnqHolds
  <2> QED
    BY <1>1, <1>2, <2>1, Stay DEF AccountInv
<1>4. CASE \E rotate \in Kinds : EnqReceive(rotate)
  <2>1. PICK rotate \in Kinds : EnqReceive(rotate)
    BY <1>4
  <2>2. /\ nrecv' = nrecv + 1 /\ UNCHANGED <<mq, dropped, discarded>>
        /\ EnqHand = {} /\ EnqHand' = {[id |-> nrecv + 1, rotate |-> rotate]}
    BY <2>1 DEF EnqReceive, EnqHand, EnqHolds
  <2>3. Ids(EnqHand) = {} /\ Ids(EnqHand') = {nrecv + 1}
    BY <2>2 DEF Ids
  <2>4. /\ At(4) = {} /\ At(4)' = {nrecv + 1}
        /\ \A m \in {1, 2, 3, 5, 6, 7} : At(m)' = At(m)
    BY <1>1, <1>2, <2>2, <2>3, PlacesAre DEF PlacesListed
  <2>5. nrecv \in Nat
    BY DEF AccountInv, OrderInv, TypeInv, PipelineTypeOK, EnqTypeOK
  <2>6. /\ DOMAIN Places = {1, 2, 3, 4, 5, 6, 7}
        /\ (DOMAIN Places)' = {1, 2, 3, 4, 5, 6, 7}
    BY PlacesAre DEF PlacesListed
  <2>7. /\ UNION {At(m) : m \in DOMAIN Places} = 1..nrecv
        /\ \A j, k \in DOMAIN Places : j # k => At(j) \cap At(k) = {}
    BY DEF AccountInv, Accounted, At
  <2>8. UNION {At(m)' : m \in (DOMAIN Places)'} = 1..(nrecv + 1)
    <3> DEFINE new == UNION {At(m)' : m \in (DOMAIN Places)'}
               old == UNION {At(m) : m \in DOMAIN Places}
    <3>1. \A i : i \in new <=> \E m \in {1, 2, 3, 4, 5, 6, 7} : i \in At(m)'
      BY <2>6
    <3>2. \A i : i \in old <=> \E m \in {1, 2, 3, 4, 5, 6, 7} : i \in At(m)
      BY <2>6
    <3>3. old = 1..nrecv
      BY <2>7
    <3> HIDE DEF new, old
    <3>4. \A i : i \in new <=> i \in old \/ i = nrecv + 1
      BY <2>4, <3>1, <3>2
    <3>5. \A i : i \in 1..(nrecv + 1) <=> i \in 1..nrecv \/ i = nrecv + 1
      BY <2>5
    <3>6. new = 1..(nrecv + 1)
      BY <3>3, <3>4, <3>5, Zenon
    <3> QED
      BY <3>6 DEF new
  <2>9. \A m \in DOMAIN Places : nrecv + 1 \notin At(m)
    <3>1. nrecv + 1 \notin 1..nrecv
      BY <2>5
    <3> QED
      BY <2>7, <3>1
  <2>10. \A j, k \in (DOMAIN Places)' : j # k => At(j)' \cap At(k)' = {}
    BY <2>4, <2>6, <2>7, <2>9
  <2> QED
    BY <2>2, <2>8, <2>10 DEF Accounted, At
<1>5. CASE EnqSend
  <2>1. /\ mq' = Append(mq, ebuf) /\ UNCHANGED <<nrecv, dropped, discarded>>
        /\ EnqHand = {ebuf} /\ EnqHand' = {}
    BY <1>5 DEF EnqSend, EnqHand, EnqHolds
  <2>2. mq \in Seq(Event) /\ ebuf \in Event
    BY DEF AccountInv, OrderInv, TypeInv, PipelineTypeOK, QueueTypeOK,
           EnqTypeOK
  <2>3. Range(mq') = Range(mq) \cup {ebuf}
    BY <2>1, <2>2, AppendOrder DEF AccountInv, OrderInv, InOrder
  <2>4. /\ Ids(EnqHand') = {}
        /\ Ids(Range(mq')) = Ids(Range(mq)) \cup Ids(EnqHand)
    BY <2>1, <2>3, IdsUnion
  <2>5. /\ At(4)' = At(4) \ At(4) /\ At(3)' = At(3) \cup At(4)
        /\ \A m \in {1, 2, 5, 6, 7} : At(m)' = At(m)
    BY <1>1, <1>2, <2>1, <2>4, PlacesAre DEF PlacesListed
  <2>6. nrecv' = nrecv /\ Accounted
    BY <2>1 DEF AccountInv
  <2> QED
    BY <2>5, <2>6, PlacesAre, Move DEF PlacesListed, AccountInv
<1>6. CASE EnqSendFails \/ EnqSendInterrupted
  <2>1. /\ dropped' = dropped \cup {ebuf} /\ UNCHANGED <<nrecv, mq, discarded>>
        /\ EnqHand = {ebuf} /\ EnqHand' = {}
    BY <1>6 DEF EnqSendFails, EnqSendInterrupted, EnqHand, EnqHolds
  <2>2. /\ At(4)' = At(4) \ At(4) /\ At(5)' = At(5) \cup At(4)
        /\ \A m \in {1, 2, 3, 6, 7} : At(m)' = At(m)
    BY <1>1, <1>2, <2>1, PlacesAre, IdsUnion DEF PlacesListed
  <2> QED
    BY <2>1, <2>2, PlacesAre, Move DEF PlacesListed, AccountInv
<1>7. CASE EnqFinish
  BY <1>1, <1>2, <1>7, AccountDestroy DEF AccountInv, EnqFinish, EnqHand, EnqHolds
<1> QED
  BY <1>3, <1>4, <1>5, <1>6, <1>7 DEF EnqWork

LEMMA AccountDeqWork ==
  ASSUME AccountInv, DeqWork
  PROVE  Accounted' /\ (dpc' = "stat" => dret' = "event")
<1>1. UNCHANGED <<nrecv, dropped, epc, ebuf, eret>>
  BY TypeDeqWork DEF AccountInv, OrderInv
<1>2. EnqHand' = EnqHand
  BY <1>1 DEF EnqHand, EnqHolds
<1>3. mq \in Seq(Event) /\ written \in Seq(Event) /\ dbuf \in Event
  BY DEF AccountInv, OrderInv, TypeInv, PipelineTypeOK, QueueTypeOK,
         JournalTypeOK, DeqTypeOK
<1>4. Accounted /\ Increasing(mq) /\ Increasing(written)
  BY DEF AccountInv, OrderInv, InOrder
<1>5. CASE \/ DeqStart \/ DeqStartFails \/ (\E d \in BOOLEAN : DeqCheck(d))
           \/ DeqStat \/ DeqReadFails
           \/ (\E s \in BOOLEAN : DeqInterrupted(s))
           \/ (\E d, r \in BOOLEAN : DeqTestRotate(d, r))
           \/ (\E d \in BOOLEAN : DeqRotate(d))
           \/ (\E d \in BOOLEAN : DeqRotateFails(d))
           \/ DeqSkipWrite \/ DeqClose \/ DeqSwitchOff
           \/ (\E s \in BOOLEAN : DeqDrainEnds(s))
  <2>1. /\ UNCHANGED <<mq, written, unwritten, discarded>>
        /\ DeqHand' = DeqHand /\ dpc' # "stat"
    BY <1>5 DEF AccountInv, OrderInv, DeqStart, OpenQueue, DeqStartFails,
                DeqCheck, DeqStat, DeqInterrupted, DeqReadFails, DeqTestRotate,
                DeqRotate, DeqRotateFails, DeqSkipWrite, DeqClose,
                DeqDrainEnds, DeqSwitchOff, DeqHand, DeqHolds
  <2> QED
    BY <1>1, <1>2, <1>4, <2>1, Stay
<1>6. CASE DeqReceive
  <2>1. /\ mq # <<>> /\ mq' = Tail(mq) /\ UNCHANGED <<written, unwritten, discarded>>
        /\ DeqHand = {} /\ DeqHand' = {Head(mq)} /\ dret' = "event"
    BY <1>6 DEF DeqReceive, TakeMessage, DeqHand, DeqHolds
  <2>2. /\ Ids(Range(mq')) = Ids(Range(mq)) \ {Head(mq).id}
        /\ Head(mq).id \in Ids(Range(mq))
    BY <1>3, <1>4, <2>1, IdsTail
  <2>3. Ids(DeqHand) = {} /\ Ids(DeqHand') = {Head(mq).id}
    BY <2>1 DEF Ids
  <2>4. UNCHANGED <<written, unwritten, discarded>>
    BY <2>1
  <2> DEFINE S == {Head(mq).id}
  <2>5. /\ At(3)' = At(3) \ S /\ At(2)' = At(2) \cup S /\ S \in SUBSET At(3)
        /\ \A m \in {1, 4, 5, 6, 7} : At(m)' = At(m)
    BY <1>1, <1>2, <2>2, <2>3, <2>4, PlacesAre DEF PlacesListed
  <2> HIDE DEF S
  <2>6. Accounted'
    BY <1>1, <1>4, <2>5, PlacesAre, Move DEF PlacesListed
  <2> QED
    BY <2>1, <2>6
<1>7. CASE DeqStatFails \/ DeqWriteFails
  <2>1. /\ unwritten' = unwritten \cup {dbuf} /\ dpc' # "stat"
        /\ UNCHANGED <<mq, written, discarded>>
        /\ DeqHand = {dbuf} /\ DeqHand' = {}
    BY <1>7 DEF AccountInv, DeqStatFails, DeqWriteFails, DeqHand, DeqHolds
  <2>2. /\ At(2)' = At(2) \ At(2) /\ At(6)' = At(6) \cup At(2)
        /\ \A m \in {1, 3, 4, 5, 7} : At(m)' = At(m)
    BY <1>1, <1>2, <2>1, PlacesAre, IdsUnion DEF PlacesListed
  <2> QED
    BY <1>1, <1>4, <2>1, <2>2, PlacesAre, Move DEF PlacesListed
<1>8. CASE DeqWrite
  <2>1. /\ written' = Append(written, dbuf) /\ dpc' # "stat"
        /\ UNCHANGED <<mq, unwritten, discarded>>
        /\ DeqHand = {dbuf} /\ DeqHand' = {}
    BY <1>8 DEF DeqWrite, DeqHand, DeqHolds
  <2>2. Range(written') = Range(written) \cup {dbuf}
    BY <1>3, <2>1, AppendOrder DEF AccountInv, OrderInv, InOrder, Before
  <2>3. /\ Ids(DeqHand') = {}
        /\ Ids(Range(written')) = Ids(Range(written)) \cup Ids(DeqHand)
    BY <2>1, <2>2, IdsUnion
  <2>4. UNCHANGED <<mq, unwritten, discarded>>
    BY <2>1
  <2>5. /\ At(2)' = At(2) \ At(2) /\ At(1)' = At(1) \cup At(2)
        /\ \A m \in {3, 4, 5, 6, 7} : At(m)' = At(m)
    BY <1>1, <1>2, <2>3, <2>4, PlacesAre DEF PlacesListed
  <2>6. dpc' # "stat"
    BY <2>1
  <2> QED
    BY <1>1, <1>4, <2>5, <2>6, PlacesAre, Move DEF PlacesListed
<1>9. CASE DeqDrain
  <2>1. /\ mq # <<>> /\ mq' = Tail(mq) /\ discarded' = discarded \cup {Head(mq)}
        /\ UNCHANGED <<written, unwritten>>
        /\ DeqHand' = DeqHand /\ dpc' # "stat"
    BY <1>9 DEF DeqDrain, TakeMessage, DeqHand, DeqHolds
  <2>2. /\ Ids(Range(mq')) = Ids(Range(mq)) \ {Head(mq).id}
        /\ Head(mq).id \in Ids(Range(mq))
    BY <1>3, <1>4, <2>1, IdsTail
  <2>3. Ids(discarded') = Ids(discarded) \cup {Head(mq).id}
    BY <2>1 DEF Ids
  <2>4. UNCHANGED <<written, unwritten, DeqHand>>
    BY <2>1
  <2> DEFINE S == {Head(mq).id}
  <2>5. /\ At(3)' = At(3) \ S /\ At(7)' = At(7) \cup S /\ S \in SUBSET At(3)
        /\ \A m \in {1, 2, 4, 5, 6} : At(m)' = At(m)
    BY <1>1, <1>2, <2>2, <2>3, <2>4, PlacesAre DEF PlacesListed
  <2> HIDE DEF S
  <2>6. Accounted'
    BY <1>1, <1>4, <2>5, PlacesAre, Move DEF PlacesListed
  <2> QED
    BY <2>1, <2>6
<1>10. CASE DeqFinish
  <2>1. /\ DestroyQueue(dq) /\ UNCHANGED <<written, unwritten>>
        /\ DeqHand' = DeqHand /\ dpc' # "stat"
    BY <1>10 DEF DeqFinish, DeqHand, DeqHolds
  <2> QED
    BY <1>1, <1>2, <1>4, <2>1, AccountDestroy
<1> QED
  BY <1>5, <1>6, <1>7, <1>8, <1>9, <1>10 DEF DeqWork

LEMMA AccountStep ==
  ASSUME AccountInv, EnqWork \/ DeqWork \/ UNCHANGED pvars
  PROVE  AccountInv'
<1>1. OrderInv'
  BY OrderStep DEF AccountInv
<1>2. CASE EnqWork
  <2>1. UNCHANGED <<dpc, dret>>
    BY <1>2, TypeEnqWork DEF AccountInv, OrderInv
  <2> QED
    BY <1>1, <1>2, <2>1, AccountEnqWork DEF AccountInv
<1>3. CASE DeqWork
  BY <1>1, <1>3, AccountDeqWork DEF AccountInv
<1>4. CASE UNCHANGED pvars
  <2>1. /\ DeqHand' = DeqHand /\ EnqHand' = EnqHand
        /\ dpc' = "stat" => dret' = "event"
    BY <1>4 DEF AccountInv, DeqHand, DeqHolds, EnqHand, EnqHolds
  <2> QED
    BY <1>1, <1>4, <2>1, Stay DEF AccountInv
<1> QED
  BY <1>2, <1>3, <1>4

-----------------------------------------------------------------------------
(* Loss *)

\* As long as both workers are in their loops no destructor has run, so the
\* queue has lost nothing and both workers hold the handle of the one queue
\* that exists.
InLoops ==
  /\ epc \notin {"fini", "done"}
  /\ dpc \notin {"close", "drain", "fini", "done"}
  /\ epc \notin {"start", "exit"} => Usable(eq)
  /\ dpc \notin {"start", "exit"} => Usable(dq)
  /\ discarded = {}

LEMMA LoopsInit == PipelineInit => InLoops
  BY DEF PipelineInit, InLoops

\* A step of the enqueuer that does not leave the loop; opening the queue
\* leaves the dequeuer's handle usable.
LEMMA LoopsEnqWork ==
  ASSUME InLoops, EnqWork, epc' # "fini"
  PROVE  InLoops' /\ UNCHANGED unwritten
<1> USE DEF InLoops, Usable
<1>1. CASE EnqStart
  BY <1>1 DEF EnqStart, OpenQueue, OpenGen
<1>2. CASE EnqFinish
  BY <1>2 DEF EnqFinish
<1>3. CASE EnqSend
  BY <1>3 DEF EnqSend
<1>4. CASE \/ EnqStartFails \/ (\E d \in BOOLEAN : EnqCheck(d))
           \/ \E rotate \in Kinds : EnqReceive(rotate)
           \/ EnqInterrupted \/ EnqSocketError
           \/ (\E d, r \in BOOLEAN : EnqTestRotate(d, r))
           \/ (\E d \in BOOLEAN : EnqRotateStats(d))
           \/ EnqSkipWrite \/ EnqSendAgain \/ EnqSendFails
           \/ EnqSendInterrupted \/ EnqSwitchOff
  <2>1. UNCHANGED <<eq, dpc, dq, mqGen, mqLive, discarded, unwritten>>
    BY <1>4 DEF EnqStartFails, EnqCheck, EnqReceive, EnqInterrupted,
                EnqSocketError, EnqTestRotate, EnqRotateStats, EnqSkipWrite,
                EnqSendAgain, EnqSendFails, EnqSendInterrupted, EnqSwitchOff
  <2>2. /\ epc' \notin {"fini", "done"}
        /\ epc' = "exit" \/ epc \notin {"start", "exit"}
    BY <1>4 DEF EnqStartFails, EnqCheck, EnqReceive, EnqInterrupted,
                EnqSocketError, EnqTestRotate, EnqRotateStats, EnqSkipWrite,
                EnqSendAgain, EnqSendFails, EnqSendInterrupted, EnqSwitchOff
  <2> QED
    BY <2>1, <2>2
<1> QED
  BY <1>1, <1>2, <1>3, <1>4 DEF EnqWork

\* Likewise for the dequeuer; with a usable handle DeqStatFails is not
\* enabled, so a packet is given up only by a failed journal write.
LEMMA LoopsDeqWork ==
  ASSUME InLoops, DeqWork, dpc' # "close"
  PROVE  /\ InLoops' /\ UNCHANGED dropped
         /\ "journal_write" \notin Faults => UNCHANGED unwritten
<1> USE DEF InLoops, Usable
<1>1. CASE DeqStart
  BY <1>1 DEF DeqStart, OpenQueue, OpenGen
<1>2. CASE DeqReceive
  BY <1>2 DEF DeqReceive
<1>3. CASE DeqStatFails
  BY <1>3 DEF DeqStatFails, MsgFails
<1>4. CASE DeqWriteFails
  BY <1>4 DEF DeqWriteFails
<1>5. CASE \/ DeqClose \/ DeqDrain \/ (\E s \in BOOLEAN : DeqDrainEnds(s))
           \/ DeqFinish
  BY <1>5 DEF DeqClose, DeqDrain, DeqDrainEnds, DeqFinish
<1>6. CASE \/ DeqStartFails \/ (\E d \in BOOLEAN : DeqCheck(d))
           \/ DeqStat \/ (\E s \in BOOLEAN : DeqInterrupted(s))
           \/ DeqReadFails \/ (\E d, r \in BOOLEAN : DeqTestRotate(d, r))
           \/ (\E d \in BOOLEAN : DeqRotate(d))
           \/ (\E d \in BOOLEAN : DeqRotateFails(d))
           \/ DeqSkipWrite \/ DeqWrite \/ DeqSwitchOff
  <2>1. /\ UNCHANGED <<epc, eq, dq, mqGen, mqLive, discarded, unwritten, dropped>>
        /\ dpc' \notin {"close", "drain", "fini", "done"}
        /\ dpc' = "exit" \/ dpc \notin {"start", "exit"}
    BY <1>6 DEF DeqStartFails, DeqCheck, DeqStat, DeqInterrupted, DeqReadFails,
                DeqTestRotate, DeqRotate, DeqRotateFails, DeqSkipWrite, DeqWrite,
                DeqSwitchOff
  <2> QED
    BY <2>1
<1> QED
  BY <1>1, <1>2, <1>3, <1>4, <1>5, <1>6 DEF DeqWork

LEMMA LoopsStay ==
  ASSUME InLoops, UNCHANGED pvars
  PROVE  InLoops'
  BY DEF InLoops, Usable

-----------------------------------------------------------------------------
(* Rotations *)

\* A rotate command the dequeuer holds and has not yet acted on.
CommandHeld ==
  IF dpc \in {"stat", "rot", "stats"} /\ dret = "event" /\ dbuf.rotate
    THEN 1 ELSE 0

\* The cleared buffer of an interrupted read is not a rotate command.
BufferClear == dpc \in {"rot", "stats"} /\ dret = "intr" => ~dbuf.rotate

\* Rotations, and what counts as a reason for them.
RotationInv ==
  /\ AccountInv /\ BufferClear
  /\ IsFiniteSet(RotateCommandsTaken)
  /\ Len(cuts) \in Nat /\ Cardinality(RotateCommandsTaken) \in Nat

Taken == Cardinality(RotateCommandsTaken)

LEMMA RotationInit == PipelineInit => RotationInv /\ Taken = 0 /\ Len(cuts) = 0
<1> SUFFICES ASSUME PipelineInit
             PROVE  RotationInv /\ Taken = 0 /\ Len(cuts) = 0
  OBVIOUS
<1>1. AccountInv
  BY AccountInit
<1>2. cuts = <<>> /\ BufferClear
  BY DEF PipelineInit, BufferClear
<1>3. Range(written) = {} /\ unwritten = {} /\ DeqHand = {}
  BY DEF PipelineInit, DeqHand, DeqHolds, Range
<1>4. RotateCommandsTaken = {}
  BY <1>3 DEF RotateCommandsTaken
<1> QED
  BY <1>1, <1>2, <1>4, FS_EmptySet DEF RotationInv, Taken

\* The packet that a read takes from the queue was not taken before.
LEMMA HeadIsNew ==
  ASSUME AccountInv, mq # <<>>
  PROVE  Head(mq) \notin Range(written) \cup unwritten \cup DeqHand
<1>1. mq \in Seq(Event) /\ Increasing(mq)
  BY DEF AccountInv, OrderInv, TypeInv, PipelineTypeOK, QueueTypeOK, InOrder
<1>2. Head(mq).id \in At(3)
  BY <1>1, IdsTail, PlacesAre DEF PlacesListed
<1>3. At(3) \cap (At(1) \cup At(2) \cup At(6)) = {}
  <2>1. {1, 2, 3, 6} \subseteq DOMAIN Places
    BY PlacesAre DEF PlacesListed
  <2>2. \A j, k \in DOMAIN Places : j # k => At(j) \cap At(k) = {}
    BY DEF AccountInv, Accounted, At
  <2> QED
    BY <2>1, <2>2
<1>4. /\ At(1) = Ids(Range(written)) /\ At(2) = Ids(DeqHand)
      /\ At(6) = Ids(unwritten)
  BY PlacesAre DEF PlacesListed
<1> QED
  BY <1>2, <1>3, <1>4 DEF Ids

\* The packet the dequeuer holds was not given up.
LEMMA HeldIsNew ==
  ASSUME AccountInv, DeqHolds
  PROVE  dbuf \notin unwritten
<1>1. At(2) \cap At(6) = {}
  <2>1. {2, 6} \subseteq DOMAIN Places
    BY PlacesAre DEF PlacesListed
  <2> QED
    BY <2>1 DEF AccountInv, Accounted, At
<1>2. At(2) = Ids({dbuf}) /\ At(6) = Ids(unwritten)
  BY PlacesAre DEF PlacesListed, DeqHand
<1> QED
  BY <1>1, <1>2 DEF Ids

\* Steps of the dequeuer that neither take a packet nor rotate.
LEMMA TakenSame ==
  ASSUME RotationInv, UNCHANGED <<written, unwritten, cuts>>, DeqHand' = DeqHand
  PROVE  /\ RotateCommandsTaken' = RotateCommandsTaken
         /\ Taken' = Taken /\ Len(cuts') = Len(cuts)
  BY DEF RotateCommandsTaken, Taken

\* What a step of the dequeuer does to the rotations and to their reasons:
\* nothing but take a command or give one up; or rotate the journal; or
\* close it for good.
Rotates ==
  /\ dpc = "stats" /\ dpc' \in {"off", "exit"}
  /\ Len(cuts') <= Len(cuts) + 1
  /\ CommandHeld' = 0 /\ Taken' = Taken

Closes ==
  /\ dpc = "close" /\ dpc' = "drain"
  /\ Len(cuts') <= Len(cuts) + 1
  /\ CommandHeld = 0 /\ CommandHeld' = 0 /\ Taken' = Taken

RotatesNot ==
  /\ dpc # "close"
  /\ Len(cuts') = Len(cuts)
  /\ Taken + CommandHeld' <= Taken' + CommandHeld

LEMMA SumMonotone ==
  ASSUME NEW a \in Nat, NEW b \in Nat, NEW c \in Nat, b <= c
  PROVE  a + b <= a + c
  OBVIOUS

LEMMA CommandHeldType == CommandHeld \in {0, 1} /\ CommandHeld' \in {0, 1}
  BY DEF CommandHeld

LEMMA RotationDeqWork ==
  ASSUME RotationInv, DeqWork
  PROVE  /\ BufferClear' /\ IsFiniteSet(RotateCommandsTaken')
         /\ Len(cuts') \in Nat /\ Taken' \in Nat
         /\ RotatesNot \/ Rotates \/ Closes
<1>0. /\ IsFiniteSet(RotateCommandsTaken) /\ Taken \in Nat /\ Len(cuts) \in Nat
      /\ AccountInv /\ BufferClear
  BY DEF RotationInv, Taken
<1>1. /\ written \in Seq(Event) /\ mq \in Seq(Event) /\ dbuf \in Event
      /\ cuts \in Seq(Nat) /\ Len(written) \in Nat
      /\ dpc = "start" => dret = "intr"
      /\ dpc = "stat" => dret = "event"
  BY <1>0 DEF AccountInv, OrderInv, TypeInv, PipelineTypeOK, JournalTypeOK,
              QueueTypeOK, DeqTypeOK
<1>2. CASE \/ DeqStart \/ DeqStartFails \/ (\E d \in BOOLEAN : DeqCheck(d))
           \/ DeqStat \/ (\E s \in BOOLEAN : DeqInterrupted(s))
           \/ DeqReadFails \/ (\E d, r \in BOOLEAN : DeqTestRotate(d, r))
           \/ DeqSwitchOff \/ DeqSkipWrite \/ DeqDrain
           \/ (\E s \in BOOLEAN : DeqDrainEnds(s)) \/ DeqFinish
  <2>1. UNCHANGED <<written, unwritten, cuts>> /\ DeqHand' = DeqHand
    BY <1>1, <1>2
       DEF DeqStart, DeqStartFails, DeqCheck, DeqStat, DeqInterrupted,
           DeqReadFails, DeqTestRotate, DeqSwitchOff, DeqSkipWrite, DeqDrain,
           DeqDrainEnds, DeqFinish, DeqHand, DeqHolds
  <2>2. CommandHeld' = 0 \/ CommandHeld' = CommandHeld
    BY <1>2
       DEF DeqStart, DeqStartFails, DeqCheck, DeqStat, DeqInterrupted,
           DeqReadFails, DeqTestRotate, DeqSwitchOff, DeqSkipWrite, DeqDrain,
           DeqDrainEnds, DeqFinish, CommandHeld
  <2>3. BufferClear'
    BY <1>0, <1>1, <1>2
       DEF DeqStart, DeqStartFails, DeqCheck, DeqStat, DeqInterrupted,
           DeqReadFails, DeqTestRotate, DeqSwitchOff, DeqSkipWrite, DeqDrain,
           DeqDrainEnds, DeqFinish, BufferClear, Zeroed
  <2>4. /\ RotateCommandsTaken' = RotateCommandsTaken
        /\ Taken' = Taken /\ Len(cuts') = Len(cuts)
    BY <2>1, TakenSame
  <2>5. RotatesNot
    <3>1. /\ Taken \in Nat /\ CommandHeld \in Nat /\ CommandHeld' \in Nat
          /\ CommandHeld' <= CommandHeld
      BY <1>0, <2>2, CommandHeldType
    <3>2. Taken + CommandHeld' <= Taken + CommandHeld
      BY <3>1, SumMonotone
    <3>3. dpc # "close"
      BY <1>2
         DEF DeqStart, DeqStartFails, DeqCheck, DeqStat, DeqInterrupted,
             DeqReadFails, DeqTestRotate, DeqSwitchOff, DeqSkipWrite, DeqDrain,
             DeqDrainEnds, DeqFinish
    <3> QED
      BY <2>4, <3>2, <3>3 DEF RotatesNot
  <2> QED
    BY <1>0, <2>3, <2>4, <2>5
<1>3. CASE DeqReceive
  <2>1. /\ mq # <<>> /\ UNCHANGED <<written, unwritten, cuts>> /\ dpc = "read"
        /\ DeqHand = {} /\ DeqHand' = {Head(mq)} /\ CommandHeld = 0
        /\ dbuf' = Head(mq) /\ dpc' = "stat" /\ dret' = "event"
    BY <1>3 DEF DeqReceive, TakeMessage, DeqHand, DeqHolds, CommandHeld
  <2>2. Head(mq) \notin RotateCommandsTaken
    BY <1>0, <2>1, HeadIsNew DEF RotateCommandsTaken
  <2>3. /\ IsFiniteSet(RotateCommandsTaken')
        /\ Taken' \in Nat /\ Taken' = Taken + CommandHeld'
    <3>1. CASE Head(mq).rotate
      <4>1. RotateCommandsTaken' = RotateCommandsTaken \cup {Head(mq)}
        BY <2>1, <3>1 DEF RotateCommandsTaken
      <4>2. CommandHeld' = 1
        BY <2>1, <3>1 DEF CommandHeld
      <4>3. /\ IsFiniteSet(RotateCommandsTaken \cup {Head(mq)})
            /\ Cardinality(RotateCommandsTaken \cup {Head(mq)}) =
                 Cardinality(RotateCommandsTaken) + 1
        BY <1>0, <2>2, FS_AddElement
      <4> QED
        BY <1>0, <4>1, <4>2, <4>3 DEF Taken
    <3>2. CASE ~Head(mq).rotate
      <4>1. RotateCommandsTaken' = RotateCommandsTaken
        BY <2>1, <3>2 DEF RotateCommandsTaken
      <4>2. CommandHeld' = 0
        BY <2>1, <3>2 DEF CommandHeld
      <4> QED
        BY <1>0, <4>1, <4>2 DEF Taken
    <3> QED
      BY <3>1, <3>2
  <2>4. BufferClear' /\ Len(cuts') = Len(cuts)
    BY <2>1 DEF BufferClear
  <2>5. RotatesNot
    <3>1. CommandHeld = 0 /\ Taken' \in Nat /\ Taken' = Taken + CommandHeld'
      BY <1>0, <2>1, <2>3, CommandHeldType
    <3>2. Taken' + CommandHeld = Taken'
      BY <3>1
    <3>3. Taken' <= Taken'
      BY <3>1
    <3>4. Taken + CommandHeld' <= Taken' + CommandHeld
      BY <3>1, <3>2, <3>3
    <3> QED
      BY <2>1, <2>4, <3>4 DEF RotatesNot
  <2> QED
    BY <1>0, <2>3, <2>4, <2>5
<1>4. CASE DeqStatFails \/ DeqWriteFails \/ DeqWrite
  <2>1. /\ DeqHand = {dbuf} /\ DeqHand' = {} /\ cuts' = cuts
        /\ dpc # "close" /\ dpc' = "check"
    BY <1>1, <1>4 DEF DeqStatFails, DeqWriteFails, DeqWrite, DeqHand, DeqHolds
  <2>2. Range(written') \cup unwritten' = Range(written) \cup unwritten \cup {dbuf}
    <3>1. CASE DeqStatFails \/ DeqWriteFails
      BY <3>1 DEF DeqStatFails, DeqWriteFails
    <3>2. CASE DeqWrite
      <4>1. written' = Append(written, dbuf) /\ unwritten' = unwritten
        BY <3>2 DEF DeqWrite
      <4>2. Range(written') = Range(written) \cup {dbuf}
        BY <1>0, <1>1, <2>1, <4>1, AppendOrder
           DEF AccountInv, OrderInv, InOrder, Before
      <4> QED
        BY <4>1, <4>2
    <3> QED
      BY <1>4, <3>1, <3>2
  <2>3. RotateCommandsTaken' = RotateCommandsTaken
    BY <2>1, <2>2 DEF RotateCommandsTaken
  <2>4. Taken' = Taken /\ Len(cuts') = Len(cuts) /\ CommandHeld' = 0
    BY <2>1, <2>3 DEF Taken, CommandHeld
  <2>5. RotatesNot
    BY <1>0, <2>1, <2>4, CommandHeldType DEF RotatesNot
  <2>6. BufferClear'
    BY <2>1 DEF BufferClear
  <2> QED
    BY <1>0, <2>3, <2>4, <2>5, <2>6
<1>5. CASE \/ (\E d \in BOOLEAN : DeqRotate(d))
           \/ (\E d \in BOOLEAN : DeqRotateFails(d))
           \/ DeqClose
  <2>1. /\ UNCHANGED <<written, unwritten>> /\ DeqHand' = DeqHand
        /\ dpc' \in {"off", "exit", "drain"}
        /\ \/ dpc = "stats" /\ dpc' \in {"off", "exit"}
           \/ dpc = "close" /\ dpc' = "drain"
    <3>1. UNCHANGED <<written, unwritten, dret, dbuf>>
      BY <1>5 DEF DeqRotate, DeqRotateFails, DeqClose
    <3>2. \/ dpc = "stats" /\ dpc' \in {"off", "exit"}
          \/ dpc = "close" /\ dpc' = "drain"
      BY <1>5 DEF DeqRotate, DeqRotateFails, DeqClose
    <3>3. DeqHand' = DeqHand
      BY <3>1, <3>2 DEF DeqHand, DeqHolds
    <3> QED
      BY <3>1, <3>2, <3>3
  <2>2. cuts' = cuts \/ cuts' = Append(cuts, Len(written))
    BY <1>5 DEF DeqRotate, DeqRotateFails, DeqClose
  <2>3. Len(cuts') \in Nat /\ Len(cuts') <= Len(cuts) + 1
    BY <1>0, <1>1, <2>2
  <2>4. RotateCommandsTaken' = RotateCommandsTaken /\ Taken' = Taken
    BY <2>1 DEF RotateCommandsTaken, Taken
  <2>5. CommandHeld' = 0 /\ BufferClear' /\ (dpc = "close" => CommandHeld = 0)
    BY <2>1 DEF CommandHeld, BufferClear
  <2>6. Rotates \/ Closes
    BY <2>1, <2>3, <2>4, <2>5 DEF Rotates, Closes
  <2> QED
    BY <1>0, <2>3, <2>4, <2>5, <2>6
<1> QED
  BY <1>2, <1>3, <1>4, <1>5 DEF DeqWork

\* The enqueuer neither takes commands nor rotates journals.
LEMMA RotationEnqWork ==
  ASSUME RotationInv, EnqWork \/ UNCHANGED pvars
  PROVE  /\ BufferClear' /\ IsFiniteSet(RotateCommandsTaken')
         /\ Taken' = Taken /\ Taken \in Nat
         /\ UNCHANGED <<cuts, dpc>> /\ CommandHeld' = CommandHeld
<1>1. UNCHANGED dvars
  BY TypeEnqWork DEF RotationInv, AccountInv, OrderInv
<1>2. DeqHand' = DeqHand
  BY <1>1 DEF DeqHand, DeqHolds
<1>3. RotateCommandsTaken' = RotateCommandsTaken /\ Taken' = Taken
  BY <1>1, <1>2, TakenSame
<1> QED
  BY <1>1, <1>3 DEF RotationInv, BufferClear, CommandHeld, Taken

=============================================================================
