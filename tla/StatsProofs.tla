----------------------------- MODULE StatsProofs -----------------------------
(***************************************************************************)
(* Theorems about Stats, for every queue, all sizes of datagrams and any   *)
(* number of packets, errors and rotations: first about the counts and the *)
(* reports to mondemand, then about bursts, last about bytes.              *)
(***************************************************************************)
EXTENDS Stats, FiniteSetTheorems, SequenceTheorems, WellFoundedInduction, TLAPS

\* the fields of struct enqueuer_stats and struct dequeuer_stats
EnqStats ==
  [socket_errors_since_last_rotate: Nat,
   bytes_received_total: Nat, bytes_received_since_last_rotate: Nat,
   packets_received_total: Nat, packets_received_since_last_rotate: Nat]

DeqStats ==
  [loss_since_last_rotate: Nat,
   bytes_written_total: Nat, bytes_written_since_last_rotate: Nat,
   packets_written_total: Nat, packets_written_since_last_rotate: Nat,
   bytes_written_in_burst: Nat, packets_written_in_burst: Nat,
   hiq: Nat, hiq_start: Nat, hiq_last: Nat, hiq_since_last_rotate: Nat,
   bytes_written_in_burst_since_last_rotate: Nat,
   packets_written_in_burst_since_last_rotate: Nat]

Clients == [client: {"none", "open", "gone"}, packets: Nat, total: Nat, sum: Nat]

-----------------------------------------------------------------------------
(* What the functions of stats.c do to the counts *)

(* enqueuer_stats_record_datagram adds one packet to both counts.          *)
LEMMA EnqRecordCounts ==
  ASSUME NEW st \in EnqStats, NEW bytes \in Nat
  PROVE  LET new == EnqueuerStatsRecordDatagram(st, bytes)
         IN  /\ new \in EnqStats
             /\ new.packets_received_total = st.packets_received_total + 1
             /\ new.packets_received_since_last_rotate
                  = st.packets_received_since_last_rotate + 1
<1>1. /\ st.bytes_received_since_last_rotate + bytes \in Nat
      /\ st.bytes_received_total + bytes \in Nat
      /\ st.packets_received_since_last_rotate + 1 \in Nat
      /\ st.packets_received_total + 1 \in Nat
  BY DEF EnqStats
<1>2. EnqueuerStatsRecordDatagram(st, bytes) \in EnqStats
  BY <1>1, Zenon DEF EnqStats, EnqueuerStatsRecordDatagram
<1> QED
  BY <1>2 DEF EnqStats, EnqueuerStatsRecordDatagram

(* enqueuer_stats_record_socket_error counts no packet.                    *)
LEMMA EnqErrorCounts ==
  ASSUME NEW st \in EnqStats
  PROVE  LET new == EnqueuerStatsRecordSocketError(st)
         IN  /\ new \in EnqStats
             /\ new.packets_received_total = st.packets_received_total
             /\ new.packets_received_since_last_rotate
                  = st.packets_received_since_last_rotate
  BY DEF EnqStats, EnqueuerStatsRecordSocketError

(* enqueuer_stats_rotate starts a period and keeps the total.              *)
LEMMA EnqRotateCounts ==
  ASSUME NEW st \in EnqStats
  PROVE  LET new == EnqueuerStatsRotate(st)
         IN  /\ new \in EnqStats
             /\ new.packets_received_total = st.packets_received_total
             /\ new.packets_received_since_last_rotate = 0
  BY DEF EnqStats, EnqueuerStatsRotate

(* dequeuer_stats_record adds one packet to both counts, whatever it does  *)
(* about bursts, and leaves the losses alone.                              *)
LEMMA DeqRecordCounts ==
  ASSUME NEW st \in DeqStats, NEW bytes \in Nat, NEW pending \in Nat, now \in Nat
  PROVE  LET new == DequeuerStatsRecord(st, bytes, pending)
         IN  /\ new \in DeqStats
             /\ new.packets_written_total = st.packets_written_total + 1
             /\ new.packets_written_since_last_rotate
                  = st.packets_written_since_last_rotate + 1
             /\ new.loss_since_last_rotate = st.loss_since_last_rotate
<1> DEFINE added == [st EXCEPT !.bytes_written_since_last_rotate = @ + bytes,
                               !.bytes_written_total = @ + bytes,
                               !.packets_written_since_last_rotate = @ + 1,
                               !.packets_written_total = @ + 1]
           SameCounts(s, t) ==
             /\ t.packets_written_total = s.packets_written_total
             /\ t.packets_written_since_last_rotate
                  = s.packets_written_since_last_rotate
             /\ t.loss_since_last_rotate = s.loss_since_last_rotate
<1>1. /\ st.bytes_written_since_last_rotate + bytes \in Nat
      /\ st.bytes_written_total + bytes \in Nat
      /\ st.packets_written_since_last_rotate + 1 \in Nat
      /\ st.packets_written_total + 1 \in Nat
  BY DEF DeqStats
<1>2. added \in DeqStats
  BY <1>1, Zenon DEF DeqStats
<1>3. /\ added.packets_written_total = st.packets_written_total + 1
      /\ added.packets_written_since_last_rotate
           = st.packets_written_since_last_rotate + 1
      /\ added.loss_since_last_rotate = st.loss_since_last_rotate
  BY DEF DeqStats
<1> HIDE DEF added
<1>4. EndBurst(added) \in DeqStats /\ SameCounts(added, EndBurst(added))
  BY <1>2 DEF DeqStats, EndBurst
<1>5. /\ InBurst(added, bytes, pending) \in DeqStats
      /\ SameCounts(added, InBurst(added, bytes, pending))
  <2>1. /\ (IF added.hiq = 0 THEN added.hiq_start ELSE added.hiq_last) \in Nat
        /\ (IF added.hiq = 0 THEN now ELSE added.hiq_start) \in Nat
        /\ (IF pending > added.hiq THEN pending ELSE added.hiq) \in Nat
        /\ added.bytes_written_in_burst + bytes \in Nat
        /\ added.packets_written_in_burst + 1 \in Nat
    BY <1>2 DEF DeqStats
  <2>2. InBurst(added, bytes, pending) \in DeqStats
    BY <1>2, <2>1, Zenon DEF DeqStats, InBurst
  <2> QED
    BY <1>2, <2>2 DEF DeqStats, InBurst
<1>6. ASSUME NEW s \in DeqStats
      PROVE  HighWater(s) \in DeqStats /\ SameCounts(s, HighWater(s))
  BY DEF DeqStats, HighWater
<1> DEFINE chosen == IF pending # 0 THEN InBurst(added, bytes, pending)
                     ELSE IF st.hiq # 0 THEN EndBurst(added) ELSE added
<1>7. chosen \in DeqStats /\ SameCounts(added, chosen)
  BY <1>2, <1>4, <1>5
<1>8. DequeuerStatsRecord(st, bytes, pending) = HighWater(chosen)
  BY DEF DequeuerStatsRecord, added
<1> HIDE DEF chosen
<1> QED
  BY <1>3, <1>6, <1>7, <1>8

(* dequeuer_stats_rotate starts a period and keeps the total.              *)
LEMMA DeqRotateCounts ==
  ASSUME NEW st \in DeqStats
  PROVE  LET new == DequeuerStatsRotate(st)
         IN  /\ new \in DeqStats
             /\ new.packets_written_total = st.packets_written_total
             /\ new.packets_written_since_last_rotate = 0
             /\ new.loss_since_last_rotate = 0
  BY DEF DeqStats, DequeuerStatsRotate

(* dequeuer_stats_record_loss adds one loss and changes no other count.    *)
LEMMA DeqLossCounts ==
  ASSUME NEW st \in DeqStats
  PROVE  LET new == DequeuerStatsRecordLoss(st)
         IN  /\ new \in DeqStats
             /\ new.packets_written_total = st.packets_written_total
             /\ new.packets_written_since_last_rotate
                  = st.packets_written_since_last_rotate
             /\ new.loss_since_last_rotate = st.loss_since_last_rotate + 1
  BY DEF DeqStats, DequeuerStatsRecordLoss

-----------------------------------------------------------------------------
(* What a client has sent *)

\* the periods that md has sent, with the current one, make up the total
Agrees(md, since, total) ==
  /\ md.sum = md.total
  /\ md.client # "none" => md.sum + since = total

(* Setting the values of a period and flushing them sends that period: the *)
(* client agrees with the counts of the period that starts.                *)
LEMMA FlushAgrees ==
  ASSUME NEW md \in Clients, NEW since \in Nat, NEW total \in Nat,
         Agrees(md, since, total), md.client # "gone"
  PROVE  LET new == MdFlush(MdStats(md, since, total))
         IN  new \in Clients /\ new.client = md.client /\ Agrees(new, 0, total)
<1> DEFINE set == [md EXCEPT !.packets = since, !.total = total]
<1>1. CASE md.client = "open"
  <2>1. /\ set \in Clients /\ set.client = "open" /\ set.packets = since
        /\ set.total = total /\ set.sum = md.sum
    BY <1>1 DEF Clients
  <2>2. MdStats(md, since, total) = set
    BY <1>1 DEF MdStats
  <2> HIDE DEF set
  <2> DEFINE new == [set EXCEPT !.sum = set.sum + set.packets]
  <2>3. MdFlush(set) = new
    BY <2>1 DEF MdFlush
  <2>4. set.sum + set.packets \in Nat
    BY <2>1 DEF Clients
  <2>5. new \in Clients
    BY <2>1, <2>4, Zenon DEF Clients
  <2>6. /\ new.client = "open" /\ new.total = total
        /\ new.sum = md.sum + since
    BY <2>1 DEF Clients
  <2>7. md.sum + since = total
    BY <1>1 DEF Agrees
  <2> HIDE DEF new
  <2> QED
    BY <1>1, <2>2, <2>3, <2>5, <2>6, <2>7 DEF Agrees, Clients
<1>2. CASE md.client = "none"
  BY <1>2 DEF Agrees, MdFlush, MdStats
<1> QED
  BY <1>1, <1>2 DEF Clients

(* So does destroying the client, which sends what was set last.           *)
LEMMA DestroyAgrees ==
  ASSUME NEW md \in Clients, NEW since \in Nat, NEW total \in Nat,
         Agrees(md, since, total), md.client # "gone"
  PROVE  LET new == MdDestroy(MdStats(md, since, total))
         IN  new \in Clients /\ Agrees(new, 0, total)
<1> DEFINE set == MdStats(md, since, total)
<1>1. CASE md.client = "open"
  <2>1. MdFlush(set) \in Clients /\ Agrees(MdFlush(set), 0, total)
        /\ MdFlush(set).client = "open"
    BY <1>1, FlushAgrees
  <2>2. set.client = "open"
    BY <1>1 DEF MdStats, Clients
  <2> HIDE DEF set
  <2>3. MdDestroy(set) = [MdFlush(set) EXCEPT !.client = "gone"]
    BY <2>2 DEF MdDestroy
  <2>4. ASSUME NEW f \in Clients, Agrees(f, 0, total), f.client = "open"
        PROVE  /\ [f EXCEPT !.client = "gone"] \in Clients
               /\ Agrees([f EXCEPT !.client = "gone"], 0, total)
    BY <2>4 DEF Clients, Agrees
  <2>5. MdDestroy(set) \in Clients /\ Agrees(MdDestroy(set), 0, total)
    BY <2>1, <2>3, <2>4, Zenon
  <2> QED
    BY <2>5 DEF set
<1>2. CASE md.client = "none"
  BY <1>2 DEF Agrees, MdDestroy, MdStats
<1> QED
  BY <1>1, <1>2 DEF Clients

-----------------------------------------------------------------------------
(* The inductive invariant *)

StatsType ==
  /\ est \in EnqStats /\ dst \in DeqStats
  /\ emd \in Clients /\ dmd \in Clients
  /\ now \in Nat /\ hand \in Nat /\ queue \in Seq(Sizes)
  /\ dropped.packets \in Nat
  /\ dpc \in {"read", "stat", "rot", "write", "done"}

\* a client is gone only when its worker counts no more
EnqSent ==
  /\ Agrees(emd, est.packets_received_since_last_rotate, est.packets_received_total)
  /\ emd.client = "gone" => epc = "done"

DeqSent ==
  /\ Agrees(dmd, dst.packets_written_since_last_rotate, dst.packets_written_total)
  /\ dmd.client = "gone" => dpc = "done"

\* a packet in hand is counted in its period unless a rotation came between
LossInv ==
  dst.loss_since_last_rotate
    <= dst.packets_written_since_last_rotate
         + (IF dpc \in {"rot", "write"} THEN 0 ELSE 1)

\* PacketsAgree without the sequence that is waiting
PacketsInv ==
  est.packets_received_total
    = dst.packets_written_total + Len(queue) + (IF dpc = "stat" THEN 1 ELSE 0)
        + dropped.packets

StatsInv == StatsType /\ EnqSent /\ DeqSent /\ LossInv /\ PacketsInv

(* StatsInv holds initially.                                               *)
LEMMA StatsInit == Init => StatsInv
<1> SUFFICES ASSUME Init PROVE StatsInv
  OBVIOUS
<1>1. est \in EnqStats /\ dst \in DeqStats
  BY DEF Init, EnqStats, DeqStats, EnqueuerStatsCtor, DequeuerStatsCtor
<1>2. \A ok \in BOOLEAN : /\ CreateClient(ok) \in Clients
                          /\ CreateClient(ok).client # "gone"
                          /\ Agrees(CreateClient(ok), 0, 0)
  BY DEF CreateClient, Clients, Agrees
<1>3. /\ emd \in Clients /\ emd.client # "gone" /\ Agrees(emd, 0, 0)
      /\ dmd \in Clients /\ dmd.client # "gone" /\ Agrees(dmd, 0, 0)
  BY <1>2 DEF Init
<1>4. /\ est.packets_received_total = 0 /\ est.packets_received_since_last_rotate = 0
      /\ dst.packets_written_total = 0 /\ dst.packets_written_since_last_rotate = 0
      /\ dst.loss_since_last_rotate = 0
  BY DEF Init, EnqueuerStatsCtor, DequeuerStatsCtor
<1>5. /\ now = 0 /\ hand = 0 /\ queue = <<>> /\ dpc = "read" /\ dropped.packets = 0
  BY DEF Init
<1> QED
  BY <1>1, <1>3, <1>4, <1>5
  DEF StatsInv, StatsType, EnqSent, DeqSent, LossInv, PacketsInv

(* The steps of the enqueuer keep StatsInv.                                *)
LEMMA EnqueuerStep ==
  ASSUME StatsInv,
         (\E size \in Sizes : Receive(size)) \/ SocketError \/ EnqRotate \/ EnqFinish
  PROVE  StatsInv'
<1>1. ASSUME NEW size \in Sizes, Receive(size) PROVE StatsInv'
  <2>1. /\ est' \in EnqStats
        /\ est'.packets_received_total = est.packets_received_total + 1
        /\ est'.packets_received_since_last_rotate
             = est.packets_received_since_last_rotate + 1
    <3>1. size + HeaderLength \in Nat
      BY StatsAssumption
    <3> QED
      BY <1>1, <3>1, EnqRecordCounts DEF Receive, StatsInv, StatsType
  <2>2. emd.client # "gone"
    BY <1>1 DEF Receive, StatsInv, EnqSent
  <2>3. \/ queue' = Append(queue, size) /\ dropped' = dropped
        \/ queue' = queue /\ dropped'.packets = dropped.packets + 1
    BY <1>1 DEF Receive
  <2>4. UNCHANGED <<emd, epc, dst, dmd, dpc, hand, now>>
    BY <1>1 DEF Receive, dvars
  <2>5. /\ queue' \in Seq(Sizes) /\ dropped'.packets \in Nat
        /\ Len(queue') + dropped'.packets = Len(queue) + dropped.packets + 1
    <3>1. queue \in Seq(Sizes) /\ dropped.packets \in Nat
      BY DEF StatsInv, StatsType
    <3>2. CASE queue' = Append(queue, size) /\ dropped' = dropped
      <4>1. /\ Append(queue, size) \in Seq(Sizes) /\ Len(queue) \in Nat
            /\ Len(Append(queue, size)) = Len(queue) + 1
        BY <3>1
      <4>2. Len(queue') = Len(queue) + 1 /\ dropped'.packets = dropped.packets
        BY <3>2, <4>1
      <4> QED
        BY <3>1, <3>2, <4>1, <4>2, SMTT(30)
    <3>3. CASE queue' = queue /\ dropped'.packets = dropped.packets + 1
      BY <3>1, <3>3
    <3> QED
      BY <2>3, <3>2, <3>3
  <2>6. StatsType'
    BY <2>1, <2>4, <2>5 DEF StatsInv, StatsType
  <2>7. EnqSent'
    <3>1. /\ est.packets_received_total \in Nat
          /\ est.packets_received_since_last_rotate \in Nat
          /\ emd.sum \in Nat
      BY DEF StatsInv, StatsType, EnqStats, Clients
    <3> QED
      BY <2>1, <2>2, <2>4, <3>1 DEF StatsInv, EnqSent, Agrees
  <2>8. DeqSent' /\ LossInv'
    BY <2>4 DEF StatsInv, DeqSent, LossInv
  <2>9. PacketsInv'
    <3>1. /\ est.packets_received_total \in Nat /\ dst.packets_written_total \in Nat
          /\ Len(queue) \in Nat /\ dropped.packets \in Nat
      BY DEF StatsInv, StatsType, EnqStats, DeqStats
    <3>2. Len(queue') \in Nat
      BY <2>5
    <3> QED
      <4> DEFINE taken == IF dpc = "stat" THEN 1 ELSE 0
      <4>1. taken \in Nat
        OBVIOUS
      <4>2. est.packets_received_total
              = dst.packets_written_total + Len(queue) + taken + dropped.packets
        BY DEF StatsInv, PacketsInv
      <4>3. /\ dst'.packets_written_total = dst.packets_written_total
            /\ est'.packets_received_total = est.packets_received_total + 1
            /\ dropped'.packets \in Nat
            /\ Len(queue') + dropped'.packets = Len(queue) + dropped.packets + 1
        BY <2>1, <2>4, <2>5
      <4> HIDE DEF taken
      <4>4. est'.packets_received_total
              = dst'.packets_written_total + Len(queue') + taken + dropped'.packets
        <5>1. est'.packets_received_total
                = dst.packets_written_total + taken + (Len(queue) + dropped.packets + 1)
          BY <3>1, <4>1, <4>2, <4>3
        <5>2. est'.packets_received_total
                = dst.packets_written_total + taken + (Len(queue') + dropped'.packets)
          BY <4>3, <5>1
        <5>3. est'.packets_received_total
                = dst.packets_written_total + Len(queue') + taken + dropped'.packets
          BY <3>1, <3>2, <4>1, <4>3, <5>2
        <5> QED
          BY <4>3, <5>3
      <4> QED
        BY <2>4, <4>4 DEF PacketsInv, taken
  <2> QED
    BY <2>6, <2>7, <2>8, <2>9 DEF StatsInv
<1>2. ASSUME SocketError PROVE StatsInv'
  <2>1. /\ est' \in EnqStats
        /\ est'.packets_received_total = est.packets_received_total
        /\ est'.packets_received_since_last_rotate
             = est.packets_received_since_last_rotate
    <3>1. est \in EnqStats
      BY DEF StatsInv, StatsType
    <3> QED
      BY <1>2, <3>1, EnqErrorCounts DEF SocketError
  <2>2. UNCHANGED <<emd, epc, dst, dmd, dpc, hand, queue, dropped, now>>
    BY <1>2 DEF SocketError, dvars
  <2> QED
    BY <2>1, <2>2
    DEF StatsInv, StatsType, EnqSent, DeqSent, LossInv, PacketsInv
<1>3. ASSUME EnqRotate \/ EnqFinish PROVE StatsInv'
  <2>1. est \in EnqStats /\ emd \in Clients
    BY DEF StatsInv, StatsType
  <2>2. /\ est' \in EnqStats
        /\ est'.packets_received_total = est.packets_received_total
        /\ est'.packets_received_since_last_rotate = 0
    BY <1>3, <2>1, EnqRotateCounts DEF EnqRotate, EnqFinish
  <2>3. emd.client # "gone"
    BY <1>3 DEF EnqRotate, EnqFinish, StatsInv, EnqSent
  <2>4. /\ est.packets_received_since_last_rotate \in Nat
        /\ est.packets_received_total \in Nat
        /\ Agrees(emd, est.packets_received_since_last_rotate,
                  est.packets_received_total)
    BY <2>1 DEF EnqStats, StatsInv, EnqSent
  <2>5. /\ emd' \in Clients /\ Agrees(emd', 0, est.packets_received_total)
        /\ emd'.client = "gone" => epc' = "done"
    <3>1. CASE EnqRotate
      BY <2>1, <2>3, <2>4, <3>1, FlushAgrees DEF EnqRotate, EnqSetStats
    <3>2. CASE EnqFinish
      BY <2>1, <2>3, <2>4, <3>2, DestroyAgrees DEF EnqFinish, EnqSetStats
    <3> QED
      BY <1>3, <3>1, <3>2
  <2>6. UNCHANGED <<dst, dmd, dpc, hand, queue, dropped, now>>
    BY <1>3 DEF EnqRotate, EnqFinish, dvars
  <2> QED
    BY <2>2, <2>5, <2>6
    DEF StatsInv, StatsType, EnqSent, DeqSent, LossInv, PacketsInv
<1> QED
  BY <1>1, <1>2, <1>3

(* The steps of the dequeuer keep StatsInv.                                *)
LEMMA DequeuerStep ==
  ASSUME StatsInv, Take \/ Record \/ DeqRotate \/ Write \/ DeqFinish
  PROVE  StatsInv'
<1>1. /\ dst \in DeqStats /\ dmd \in Clients /\ hand \in Nat /\ now \in Nat
      /\ queue \in Seq(Sizes) /\ Len(queue) \in Nat /\ dropped.packets \in Nat
  BY DEF StatsInv, StatsType
<1>2. /\ dst.packets_written_since_last_rotate \in Nat
      /\ dst.packets_written_total \in Nat
      /\ dst.loss_since_last_rotate \in Nat
  BY <1>1 DEF DeqStats
<1>3. CASE Take
  <2>1. /\ hand' \in Nat /\ queue' \in Seq(Sizes) /\ Len(queue') = Len(queue) - 1
    <3>1. queue # <<>> /\ hand' = Head(queue) /\ queue' = Tail(queue)
      BY <1>3 DEF Take
    <3>2. /\ Head(queue) \in Sizes /\ Tail(queue) \in Seq(Sizes)
          /\ Len(Tail(queue)) = Len(queue) - 1
      BY <1>1, <3>1
    <3> QED
      BY <3>1, <3>2, StatsAssumption
  <2>2. /\ dpc = "read" /\ dpc' = "stat"
        /\ UNCHANGED <<est, emd, epc, dst, dmd, dropped, now>>
    BY <1>3 DEF Take, evars
  <2> QED
    BY <1>1, <1>2, <2>1, <2>2
    DEF StatsInv, StatsType, EnqSent, DeqSent, LossInv, PacketsInv
<1>4. CASE Record
  <2>1. /\ dst' \in DeqStats
        /\ dst'.packets_written_total = dst.packets_written_total + 1
        /\ dst'.packets_written_since_last_rotate
             = dst.packets_written_since_last_rotate + 1
        /\ dst'.loss_since_last_rotate = dst.loss_since_last_rotate
    BY <1>1, <1>4, DeqRecordCounts DEF Record
  <2>2. /\ dpc = "stat" /\ dpc' = "rot"
        /\ UNCHANGED <<est, emd, epc, dmd, hand, queue, dropped, now>>
    BY <1>4 DEF Record, evars
  <2>3. StatsType' /\ EnqSent'
    BY <2>1, <2>2 DEF StatsInv, StatsType, EnqSent
  <2>4. DeqSent'
    BY <1>1, <1>2, <2>1, <2>2 DEF StatsInv, DeqSent, Agrees, Clients
  <2>5. LossInv'
    BY <1>2, <2>1, <2>2 DEF StatsInv, LossInv
  <2>6. PacketsInv'
    BY <1>1, <1>2, <2>1, <2>2 DEF StatsInv, PacketsInv
  <2> QED
    BY <2>3, <2>4, <2>5, <2>6 DEF StatsInv
<1>5. CASE Write
  <2>1. /\ dst' \in DeqStats
        /\ dst'.packets_written_total = dst.packets_written_total
        /\ dst'.packets_written_since_last_rotate
             = dst.packets_written_since_last_rotate
        /\ \/ dst'.loss_since_last_rotate = dst.loss_since_last_rotate
           \/ dst'.loss_since_last_rotate = dst.loss_since_last_rotate + 1
    BY <1>1, <1>5, DeqLossCounts DEF Write
  <2>2. /\ dpc \in {"rot", "write"} /\ dpc' = "read" /\ hand' = 0
        /\ UNCHANGED <<est, emd, epc, dmd, queue, dropped, now>>
    BY <1>5 DEF Write, evars
  <2>3. StatsType' /\ EnqSent' /\ DeqSent'
    BY <2>1, <2>2 DEF StatsInv, StatsType, EnqSent, DeqSent
  <2>4. LossInv'
    BY <1>2, <2>1, <2>2 DEF StatsInv, LossInv
  <2>5. PacketsInv'
    BY <2>1, <2>2 DEF StatsInv, PacketsInv
  <2> QED
    BY <2>3, <2>4, <2>5 DEF StatsInv
<1>6. CASE DeqRotate \/ DeqFinish
  <2>1. /\ dst' \in DeqStats
        /\ dst'.packets_written_total = dst.packets_written_total
        /\ dst'.packets_written_since_last_rotate = 0
        /\ dst'.loss_since_last_rotate = 0
    BY <1>1, <1>6, DeqRotateCounts DEF DeqRotate, DeqFinish
  <2>2. /\ dmd.client # "gone"
        /\ Agrees(dmd, dst.packets_written_since_last_rotate,
                  dst.packets_written_total)
    BY <1>6 DEF DeqRotate, DeqFinish, StatsInv, DeqSent
  <2>3. /\ dmd' \in Clients /\ Agrees(dmd', 0, dst.packets_written_total)
        /\ dmd'.client = "gone" => dpc' = "done"
    <3>1. CASE DeqRotate
      BY <1>1, <1>2, <2>2, <3>1, FlushAgrees DEF DeqRotate, DeqSetStats
    <3>2. CASE DeqFinish
      BY <1>1, <1>2, <2>2, <3>2, DestroyAgrees DEF DeqFinish, DeqSetStats
    <3> QED
      BY <1>6, <3>1, <3>2
  <2>4. /\ dpc # "stat" /\ dpc' \in {"read", "write", "done"}
        /\ UNCHANGED <<est, emd, epc, hand, now>>
    BY <1>6 DEF DeqRotate, DeqFinish, evars
  <2>5. /\ queue' \in Seq(Sizes) /\ dropped'.packets \in Nat
        /\ Len(queue') + dropped'.packets = Len(queue) + dropped.packets
    <3>1. CASE DeqRotate
      BY <1>1, <3>1 DEF DeqRotate
    <3>2. CASE DeqFinish
      <4>1. queue' = <<>> /\ dropped'.packets = dropped.packets + Len(queue)
        BY <3>2 DEF DeqFinish
      <4> QED
        BY <1>1, <4>1
    <3> QED
      BY <1>6, <3>1, <3>2
  <2>6. StatsType' /\ EnqSent' /\ DeqSent'
    BY <2>1, <2>3, <2>4, <2>5 DEF StatsInv, StatsType, EnqSent, DeqSent
  <2>7. LossInv'
    BY <2>1 DEF LossInv
  <2>8. PacketsInv'
    <3>1. Len(queue') \in Nat
      BY <2>5
    <3>2. est.packets_received_total
            = dst.packets_written_total + Len(queue) + dropped.packets
      BY <1>1, <1>2, <2>4 DEF StatsInv, PacketsInv
    <3>3. dpc' # "stat"
      BY <2>4
    <3> QED
      <4>1. /\ dst'.packets_written_total = dst.packets_written_total
            /\ est'.packets_received_total = est.packets_received_total
            /\ Len(queue) \in Nat /\ dropped.packets \in Nat /\ dropped'.packets \in Nat
            /\ dst.packets_written_total \in Nat
            /\ Len(queue') + dropped'.packets = Len(queue) + dropped.packets
        BY <1>1, <1>2, <2>1, <2>4, <2>5
      <4>2. est'.packets_received_total
              = dst'.packets_written_total + Len(queue') + 0 + dropped'.packets
        BY <3>1, <3>2, <4>1
      <4> QED
        BY <3>3, <4>2 DEF PacketsInv
  <2> QED
    BY <2>6, <2>7, <2>8 DEF StatsInv
<1> QED
  BY <1>3, <1>4, <1>5, <1>6

(* StatsInv is an invariant.                                               *)
LEMMA StatsInvariant == Spec => []StatsInv
<1>1. ASSUME StatsInv, [Next]_vars PROVE StatsInv'
  <2>1. CASE Tick
    BY <1>1, <2>1
    DEF Tick, evars, dvars, StatsInv, StatsType, EnqSent, DeqSent, LossInv, PacketsInv
  <2>2. CASE UNCHANGED vars
    BY <1>1, <2>2
    DEF vars, evars, dvars, StatsInv, StatsType, EnqSent, DeqSent, LossInv, PacketsInv
  <2> QED
    BY <1>1, <2>1, <2>2, EnqueuerStep, DequeuerStep DEF Next
<1> QED
  BY <1>1, StatsInit, PTL DEF Spec

-----------------------------------------------------------------------------
(* Both mondemand clients have sent every packet of the finished periods   *)
(* once and no other (stats rotation, md_*_flush and md_*_destroy).        *)
THEOREM PeriodsCorrect == Spec => []EveryPeriodSentOnce
<1>1. StatsInv => EveryPeriodSentOnce
  BY DEF StatsInv, EnqSent, DeqSent, Agrees, EveryPeriodSentOnce
<1> QED
  BY <1>1, StatsInvariant, PTL

(* No packet escapes the counts on its way from the enqueuer's statistics  *)
(* to the dequeuer's, but those refused by the queue or drained.           *)
THEOREM PacketsCorrect == Spec => []PacketsAgree
<1>1. StatsInv => PacketsAgree
  <2> SUFFICES ASSUME StatsInv PROVE PacketsAgree
    OBVIOUS
  <2>1. queue \in Seq(Sizes) /\ Len(queue) \in Nat
    BY DEF StatsInv, StatsType
  <2>2. Len(Append(queue, hand)) = Len(queue) + 1
    BY <2>1
  <2>3. Len(Waiting) = Len(queue) + (IF dpc = "stat" THEN 1 ELSE 0)
    BY <2>1, <2>2 DEF Waiting
  <2> QED
    BY <2>3, <2>1, SMTT(30) DEF StatsInv, StatsType, PacketsInv, PacketsAgree, EnqStats, DeqStats
<1> QED
  BY <1>1, StatsInvariant, PTL

(* The losses that dequeuer_stats_record_loss counts in a period are at    *)
(* most one more than the packets counted in it.                           *)
THEOREM LossesCorrect == Spec => []LossBound
<1>1. StatsInv => LossBound
  BY DEF StatsInv, StatsType, LossInv, LossBound, DeqStats
<1> QED
  BY <1>1, StatsInvariant, PTL

-----------------------------------------------------------------------------
(* What the functions of stats.c do to the bursts *)

\* what is known of the current burst
InBurstFields(st) ==
  <<st.hiq, st.packets_written_in_burst, st.bytes_written_in_burst,
    st.hiq_start, st.hiq_last>>

\* what the report says of bursts, but for the times
ReportFields(st) ==
  <<st.hiq_since_last_rotate, st.packets_written_in_burst_since_last_rotate,
    st.bytes_written_in_burst_since_last_rotate>>

(* A packet that leaves others behind belongs to the current burst and     *)
(* starts one when the queue was empty after the packet before it.         *)
LEMMA RecordInBurst ==
  ASSUME NEW st \in DeqStats, NEW bytes \in Nat, NEW pending \in Nat, now \in Nat,
         pending # 0
  PROVE  LET new == DequeuerStatsRecord(st, bytes, pending)
         IN  /\ new.hiq = IF pending > st.hiq THEN pending ELSE st.hiq
             /\ new.packets_written_in_burst = st.packets_written_in_burst + 1
             /\ new.bytes_written_in_burst = st.bytes_written_in_burst + bytes
             /\ new.hiq_start = IF st.hiq = 0 THEN now ELSE st.hiq_start
             /\ new.hiq_last = IF st.hiq = 0 THEN st.hiq_start ELSE st.hiq_last
             /\ new.packets_written_in_burst_since_last_rotate
                  = st.packets_written_in_burst_since_last_rotate
             /\ new.bytes_written_in_burst_since_last_rotate
                  = st.bytes_written_in_burst_since_last_rotate
             /\ new.hiq_since_last_rotate
                  = IF new.hiq > st.hiq_since_last_rotate THEN new.hiq
                    ELSE st.hiq_since_last_rotate
  BY DEF DeqStats, DequeuerStatsRecord, InBurst, HighWater

(* The packet that empties the queue ends the burst, if there was one.     *)
LEMMA RecordEndsBurst ==
  ASSUME NEW st \in DeqStats, NEW bytes \in Nat, now \in Nat, st.hiq # 0
  PROVE  LET new == DequeuerStatsRecord(st, bytes, 0)
         IN  /\ InBurstFields(new) = <<0, 0, 0, st.hiq_start, st.hiq_last>>
             /\ ReportFields(new)
                  = <<st.hiq_since_last_rotate, st.packets_written_in_burst,
                      st.bytes_written_in_burst>>
  BY DEF DeqStats, DequeuerStatsRecord, EndBurst, HighWater, InBurstFields, ReportFields

(* With an empty queue and no burst there is nothing to do.                *)
LEMMA RecordNoBurst ==
  ASSUME NEW st \in DeqStats, NEW bytes \in Nat, now \in Nat, st.hiq = 0
  PROVE  LET new == DequeuerStatsRecord(st, bytes, 0)
         IN  /\ InBurstFields(new) = InBurstFields(st)
             /\ ReportFields(new) = ReportFields(st)
  BY DEF DeqStats, DequeuerStatsRecord, HighWater, InBurstFields, ReportFields

(* A rotation forgets what was reported and keeps the current burst.       *)
LEMMA RotateKeepsBurst ==
  ASSUME NEW st \in DeqStats
  PROVE  /\ InBurstFields(DequeuerStatsRotate(st)) = InBurstFields(st)
         /\ ReportFields(DequeuerStatsRotate(st)) = <<0, 0, 0>>
  BY DEF DeqStats, DequeuerStatsRotate, InBurstFields, ReportFields

(* A loss changes neither.                                                 *)
LEMMA LossKeepsBurst ==
  ASSUME NEW st \in DeqStats
  PROVE  /\ InBurstFields(DequeuerStatsRecordLoss(st)) = InBurstFields(st)
         /\ ReportFields(DequeuerStatsRecordLoss(st)) = ReportFields(st)
  BY DEF DeqStats, DequeuerStatsRecordLoss, InBurstFields, ReportFields
-----------------------------------------------------------------------------
(* The inductive invariant of the bursts *)

Count == [bytes: Nat, pending: Nat, time: Nat, period: Nat]

CountedType ==
  /\ counted \in Seq(Count) /\ drotates \in Nat
  /\ \A i \in DOMAIN counted : counted[i].period <= drotates

\* The packets since the last one that left the queue empty, c, are the
\* current burst.
CurrentBurst ==
  \E c \in 0..Len(counted) :
    /\ c > 0 => counted[c].pending = 0
    /\ OneBurst(c + 1, Len(counted))
    /\ dst.packets_written_in_burst = Len(counted) - c
    /\ dst.bytes_written_in_burst = BytesUpTo(Len(counted)) - BytesUpTo(c)
    /\ \A k \in (c + 1)..Len(counted) : counted[k].pending <= dst.hiq
    /\ \/ c = Len(counted) /\ dst.hiq = 0
       \/ \E k \in (c + 1)..Len(counted) : dst.hiq = counted[k].pending

\* hiq_since_last_rotate bounds the peaks of the period and is one of them.
HighWaterInv ==
  /\ \A j \in Period : \A i \in 1..j :
       OneBurst(i, j) => counted[i].pending <= dst.hiq_since_last_rotate
  /\ \/ dst.hiq_since_last_rotate = 0
     \/ \E j \in Period : \E i \in 1..j :
          OneBurst(i, j) /\ dst.hiq_since_last_rotate = counted[i].pending

Ends == {i \in Period : i > 1 /\ counted[i].pending = 0
                         /\ counted[i - 1].pending > 0}

\* The last burst that ended in the period: its packets are s + 1 to e - 1.
LastBurst ==
  \/ /\ Ends = {}
     /\ dst.packets_written_in_burst_since_last_rotate = 0
     /\ dst.bytes_written_in_burst_since_last_rotate = 0
  \/ \E e \in Ends : \E s \in 0..(e - 2) :
       /\ \A i \in Ends : i <= e
       /\ s > 0 => counted[s].pending = 0
       /\ OneBurst(s + 1, e - 1)
       /\ dst.packets_written_in_burst_since_last_rotate = (e - 1) - s
       /\ dst.bytes_written_in_burst_since_last_rotate
            = BytesUpTo(e - 1) - BytesUpTo(s)

First == {i \in DOMAIN counted : /\ counted[i].pending > 0
                                 /\ i > 1 => counted[i - 1].pending = 0}

\* The first packets of the last two bursts.
StartsInv ==
  \/ First = {} /\ dst.hiq_start = 0
  \/ \E f \in First :
       /\ \A i \in First : i <= f
       /\ dst.hiq_start = counted[f].time
       /\ \/ (\A i \in First : i = f) /\ dst.hiq_last = 0
          \/ \E g \in First : /\ g < f /\ \A i \in First : i = f \/ i <= g
                              /\ dst.hiq_last = counted[g].time

BurstsInv ==
  /\ CountedType /\ CurrentBurst /\ StartsInv
  /\ dpc # "done" => HighWaterInv /\ LastBurst

(* The types of the history.                                               *)
LEMMA CountedFields ==
  ASSUME CountedType
  PROVE  /\ Len(counted) \in Nat /\ DOMAIN counted = 1..Len(counted)
         /\ drotates \in Nat
         /\ \A k \in 1..Len(counted) :
              /\ counted[k].pending \in Nat /\ counted[k].time \in Nat
              /\ counted[k].period \in Nat /\ counted[k].period <= drotates
         /\ \A k \in 0..Len(counted) : BytesUpTo(k) \in Nat
<1>1. /\ Len(counted) \in Nat /\ DOMAIN counted = 1..Len(counted)
      /\ \A k \in 1..Len(counted) : counted[k] \in Count
  BY DEF CountedType
<1>2. \A r \in Count : /\ r.pending \in Nat /\ r.time \in Nat
                       /\ r.period \in Nat /\ r.bytes \in Nat
  BY DEF Count
<1>3. \A k \in 0..Len(counted) : k = 0 \/ k \in 1..Len(counted)
  BY <1>1
<1>4. \A k \in 0..Len(counted) : BytesUpTo(k) \in Nat
  BY <1>1, <1>2, <1>3 DEF BytesUpTo
<1> QED
  BY <1>1, <1>2, <1>4 DEF CountedType

(* hiq says whether the last packet counted left others behind.            *)
LEMMA HiqTells ==
  ASSUME CountedType, CurrentBurst, dst \in DeqStats
  PROVE  dst.hiq # 0 <=> Len(counted) > 0 /\ counted[Len(counted)].pending > 0
<1> DEFINE n == Len(counted)
<1>1. n \in Nat /\ \A k \in 1..n : counted[k].pending \in Nat
  BY CountedFields
<1>2. PICK c \in 0..n :
        /\ c > 0 => counted[c].pending = 0
        /\ OneBurst(c + 1, n)
        /\ \/ c = n /\ dst.hiq = 0
           \/ \E k \in (c + 1)..n : dst.hiq = counted[k].pending
  BY DEF CurrentBurst
<1> HIDE DEF n
<1>3. CASE c = n /\ dst.hiq = 0
  BY <1>1, <1>2, <1>3 DEF n
<1>4. ASSUME NEW k \in (c + 1)..n, dst.hiq = counted[k].pending
      PROVE  dst.hiq # 0 /\ n > 0 /\ counted[n].pending > 0
  <2>1. k \in (c + 1)..n /\ n \in (c + 1)..n
    BY <1>1, <1>4
  <2>2. counted[k].pending > 0 /\ counted[n].pending > 0
    BY <1>2, <2>1 DEF OneBurst
  <2> QED
    BY <1>1, <1>4, <2>1, <2>2
<1> QED
  BY <1>2, <1>3, <1>4 DEF n

(* What Record adds to the history: all before it stays.                   *)
LEMMA RecordAppends ==
  ASSUME StatsInv, CountedType, Record
  PROVE  /\ CountedType'
         /\ Len(counted') = Len(counted) + 1
         /\ \A i \in 1..Len(counted) : counted'[i] = counted[i]
         /\ counted'[Len(counted) + 1].pending = Len(queue)
         /\ counted'[Len(counted) + 1].time = now
         /\ counted'[Len(counted) + 1].period = drotates
         /\ \A i \in 0..Len(counted) : BytesUpTo(i)' = BytesUpTo(i)
         /\ \A i : i = Len(counted) + 1 =>
                     BytesUpTo(i)' = BytesUpTo(Len(counted)) + hand
<1> DEFINE n == Len(counted)
           new == [bytes |-> BytesUpTo(Len(counted)) + hand,
                   pending |-> Len(queue), time |-> now, period |-> drotates]
<1>1. /\ n \in Nat /\ counted \in Seq(Count) /\ drotates \in Nat
      /\ now \in Nat /\ hand \in Nat /\ Len(queue) \in Nat
  BY DEF StatsInv, StatsType, CountedType
<1>2. BytesUpTo(n) \in Nat
  BY <1>1, CountedFields
<1>3. new \in Count
  BY <1>1, <1>2 DEF Count
<1>4. counted' = Append(counted, new) /\ drotates' = drotates
  BY DEF Record
<1>5. /\ new.pending = Len(queue) /\ new.time = now /\ new.period = drotates
      /\ new.bytes = BytesUpTo(n) + hand
  OBVIOUS
<1> HIDE DEF new
<1>6. /\ counted' \in Seq(Count) /\ Len(counted') = n + 1
      /\ \A i \in 1..n : counted'[i] = counted[i]
      /\ counted'[n + 1] = new
  BY <1>1, <1>3, <1>4
<1>7. CountedType'
  <2>1. \A i \in 1..(n + 1) : counted'[i].period <= drotates
    <3> SUFFICES ASSUME NEW i \in 1..(n + 1) PROVE counted'[i].period <= drotates
      OBVIOUS
    <3>1. CASE i = n + 1
      BY <1>1, <1>5, <1>6, <3>1
    <3>2. CASE i \in 1..n
      BY <1>1, <1>6, <3>2 DEF CountedType
    <3> QED
      BY <1>1, <3>1, <3>2
  <2> QED
    BY <1>1, <1>4, <1>6, <2>1 DEF CountedType
<1>8. \A i \in 0..n : BytesUpTo(i)' = BytesUpTo(i)
  BY <1>1, <1>6 DEF BytesUpTo
<1>9. ASSUME NEW i, i = n + 1 PROVE BytesUpTo(i)' = BytesUpTo(n) + hand
  <2>1. i # 0 /\ counted'[i].bytes = BytesUpTo(n) + hand
    BY <1>1, <1>5, <1>6, <1>9
  <2> QED
    BY <2>1 DEF BytesUpTo
<1> QED
  BY <1>5, <1>6, <1>7, <1>8, <1>9

(* OneBurst before and after a packet is counted.                          *)
LEMMA OneBurstAppends ==
  ASSUME StatsInv, CountedType, Record
  PROVE  /\ \A i, j \in 1..Len(counted) : OneBurst(i, j)' <=> OneBurst(i, j)
         /\ \A i \in 1..Len(counted) + 1 : \A m :
              m = Len(counted) + 1 =>
                (OneBurst(i, m)' <=> Len(queue) > 0 /\ OneBurst(i, Len(counted)))
<1>1. /\ Len(counted) \in Nat /\ Len(queue) \in Nat
      /\ \A i \in 1..Len(counted) : counted'[i] = counted[i]
      /\ \A m : m = Len(counted) + 1 => counted'[m].pending = Len(queue)
  BY CountedFields, RecordAppends DEF StatsInv, StatsType
<1>2. ASSUME NEW i \in 1..Len(counted), NEW j \in 1..Len(counted)
      PROVE  OneBurst(i, j)' <=> OneBurst(i, j)
  <2>1. \A k \in i..j : k \in 1..Len(counted)
    BY <1>1
  <2> QED
    BY <1>1, <2>1 DEF OneBurst
<1>3. ASSUME NEW i \in 1..Len(counted) + 1, NEW m, m = Len(counted) + 1
      PROVE  OneBurst(i, m)' <=> Len(queue) > 0 /\ OneBurst(i, Len(counted))
  <2>1. i..m = (i..Len(counted)) \cup {m}
    BY <1>1, <1>3
  <2>2. \A k \in i..Len(counted) : counted'[k] = counted[k]
    BY <1>1
  <2> QED
    BY <1>1, <1>3, <2>1, <2>2 DEF OneBurst
<1> QED
  BY <1>2, <1>3

(* What a step does to dst when it counts a packet.                        *)
LEMMA RecordBurst ==
  ASSUME StatsInv, Record, Len(queue) # 0
  PROVE  /\ dst'.hiq = IF Len(queue) > dst.hiq THEN Len(queue) ELSE dst.hiq
         /\ dst'.packets_written_in_burst = dst.packets_written_in_burst + 1
         /\ dst'.bytes_written_in_burst = dst.bytes_written_in_burst + hand
         /\ dst'.hiq_start = IF dst.hiq = 0 THEN now ELSE dst.hiq_start
         /\ dst'.hiq_last = IF dst.hiq = 0 THEN dst.hiq_start ELSE dst.hiq_last
         /\ dst'.packets_written_in_burst_since_last_rotate
              = dst.packets_written_in_burst_since_last_rotate
         /\ dst'.bytes_written_in_burst_since_last_rotate
              = dst.bytes_written_in_burst_since_last_rotate
         /\ dst'.hiq_since_last_rotate
              = IF dst'.hiq > dst.hiq_since_last_rotate THEN dst'.hiq
                ELSE dst.hiq_since_last_rotate
<1>1. dst \in DeqStats /\ hand \in Nat /\ Len(queue) \in Nat /\ now \in Nat
  BY DEF StatsInv, StatsType
<1>2. dst' = DequeuerStatsRecord(dst, hand, Len(queue))
  BY DEF Record
<1> QED
  BY <1>1, <1>2, RecordInBurst

\* what the counters of bursts are
BurstFields(st) ==
  /\ st.hiq \in Nat /\ st.hiq_since_last_rotate \in Nat
  /\ st.packets_written_in_burst \in Nat /\ st.bytes_written_in_burst \in Nat
  /\ st.hiq_start \in Nat /\ st.hiq_last \in Nat

(* The current burst goes on with the packet, or ends before it.           *)
LEMMA RecordCurrentBurst ==
  ASSUME StatsInv, CountedType, CurrentBurst, Record
  PROVE  CurrentBurst'
<1> DEFINE n == Len(counted)
<1>1. /\ dst \in DeqStats /\ hand \in Nat /\ Len(queue) \in Nat /\ now \in Nat
      /\ BurstFields(dst)
  BY DEF StatsInv, StatsType, DeqStats, BurstFields
<1>2. /\ n \in Nat
      /\ \A k \in 1..n : counted[k].pending \in Nat
      /\ \A k \in 0..n : BytesUpTo(k) \in Nat
  BY CountedFields
<1>3. /\ Len(counted') = n + 1
      /\ \A i \in 1..n : counted'[i] = counted[i]
      /\ counted'[n + 1].pending = Len(queue)
      /\ \A i \in 0..n : BytesUpTo(i)' = BytesUpTo(i)
      /\ \A i : i = n + 1 => BytesUpTo(i)' = BytesUpTo(n) + hand
  BY RecordAppends
<1>4. PICK c \in 0..n :
        /\ c > 0 => counted[c].pending = 0
        /\ OneBurst(c + 1, n)
        /\ dst.packets_written_in_burst = n - c
        /\ dst.bytes_written_in_burst = BytesUpTo(n) - BytesUpTo(c)
        /\ \A k \in (c + 1)..n : counted[k].pending <= dst.hiq
        /\ \/ c = n /\ dst.hiq = 0
           \/ \E k \in (c + 1)..n : dst.hiq = counted[k].pending
  BY DEF CurrentBurst
<1>5. PICK m : m = n + 1
  OBVIOUS
<1> DEFINE At(d) ==
             /\ d > 0 => counted'[d].pending = 0
             /\ \A k \in (d + 1)..m : counted'[k].pending > 0
             /\ dst'.packets_written_in_burst = m - d
             /\ dst'.bytes_written_in_burst = BytesUpTo(m)' - BytesUpTo(d)'
             /\ \A k \in (d + 1)..m : counted'[k].pending <= dst'.hiq
             /\ \/ d = m /\ dst'.hiq = 0
                \/ \E k \in (d + 1)..m : dst'.hiq = counted'[k].pending
<1>6. SUFFICES \E d \in 0..m : At(d)
  BY <1>3, <1>5 DEF CurrentBurst, OneBurst
<1> HIDE DEF n
<1>7. CASE Len(queue) # 0
  <2>1. /\ dst'.hiq = IF Len(queue) > dst.hiq THEN Len(queue) ELSE dst.hiq
        /\ dst'.packets_written_in_burst = dst.packets_written_in_burst + 1
        /\ dst'.bytes_written_in_burst = dst.bytes_written_in_burst + hand
    BY <1>7, RecordBurst
  <2>2. (c + 1)..m = ((c + 1)..n) \cup {m} /\ m \in Nat /\ c \in 0..m
    BY <1>2, <1>5
  <2>3. c > 0 => counted'[c].pending = 0
    BY <1>2, <1>3, <1>4
  <2>4. \A k \in (c + 1)..n : /\ counted'[k] = counted[k]
                              /\ counted[k].pending \in Nat
                              /\ counted[k].pending > 0
                              /\ counted[k].pending <= dst.hiq
    BY <1>2, <1>3, <1>4 DEF OneBurst
  <2>5. counted'[m].pending = Len(queue) /\ Len(queue) > 0
    BY <1>1, <1>3, <1>5, <1>7
  <2>6. dst.hiq \in Nat /\ dst'.hiq >= dst.hiq /\ dst'.hiq >= Len(queue)
    BY <1>1, <2>1 DEF BurstFields
  <2>7. \A k \in (c + 1)..m : /\ counted'[k].pending > 0
                              /\ counted'[k].pending <= dst'.hiq
    <3> SUFFICES ASSUME NEW k \in (c + 1)..m
                 PROVE  counted'[k].pending > 0 /\ counted'[k].pending <= dst'.hiq
      OBVIOUS
    <3>1. dst'.hiq \in Nat
      BY <1>1, <2>1 DEF BurstFields
    <3>2. CASE k = m
      BY <1>1, <2>5, <2>6, <3>1, <3>2
    <3>3. CASE k \in (c + 1)..n
      BY <2>4, <2>6, <3>1, <3>3
    <3> QED
      BY <2>2, <3>2, <3>3
  <2>8. \E k \in (c + 1)..m : dst'.hiq = counted'[k].pending
    <3>1. CASE dst'.hiq = Len(queue)
      BY <2>2, <2>5, <3>1
    <3>2. CASE dst'.hiq = dst.hiq /\ dst.hiq > 0
      BY <1>4, <2>2, <2>4, <3>2
    <3> QED
      BY <1>1, <2>1, <2>5, <3>1, <3>2 DEF BurstFields
  <2>9. /\ dst'.packets_written_in_burst = m - c
        /\ dst'.bytes_written_in_burst = BytesUpTo(m)' - BytesUpTo(c)'
    <3>1. /\ BytesUpTo(m)' = BytesUpTo(n) + hand /\ BytesUpTo(c)' = BytesUpTo(c)
          /\ BytesUpTo(n) \in Nat /\ BytesUpTo(c) \in Nat
      BY <1>2, <1>3, <1>5
    <3> QED
      BY <1>1, <1>2, <1>4, <1>5, <2>1, <3>1
  <2> QED
    BY <2>2, <2>3, <2>7, <2>8, <2>9
<1>8. CASE Len(queue) = 0
  <2>1. /\ dst'.hiq = 0 /\ dst'.packets_written_in_burst = 0
        /\ dst'.bytes_written_in_burst = 0
    <3>1. dst' = DequeuerStatsRecord(dst, hand, 0)
      BY <1>8 DEF Record
    <3>2. CASE dst.hiq # 0
      BY <1>1, <3>1, <3>2, RecordEndsBurst DEF InBurstFields
    <3>3. CASE dst.hiq = 0
      <4>1. c = n
        <5>1. \A k \in (c + 1)..n : counted[k].pending \in Nat /\ counted[k].pending > 0
          BY <1>2, <1>4 DEF OneBurst
        <5> QED
          BY <1>4, <3>3, <5>1
      <4>2. dst.packets_written_in_burst = 0 /\ dst.bytes_written_in_burst = 0
        BY <1>2, <1>4, <4>1
      <4> QED
        BY <1>1, <3>1, <3>3, <4>2, RecordNoBurst DEF InBurstFields
    <3> QED
      BY <3>2, <3>3
  <2>2. m \in Nat /\ (m + 1)..m = {} /\ counted'[m].pending = 0
    BY <1>2, <1>3, <1>5, <1>8
  <2>3. BytesUpTo(m)' \in Nat
    BY <1>1, <1>2, <1>3, <1>5
  <2>4. At(m)
    BY <2>1, <2>2, <2>3
  <2> QED
    BY <2>2, <2>4
<1> QED
  BY <1>7, <1>8

(* The period gets the position of the packet.                             *)
LEMMA PeriodAppends ==
  ASSUME StatsInv, CountedType, Record
  PROVE  /\ \A j \in Period : j \in 1..Len(counted)
         /\ Period' = Period \cup {Len(counted) + 1}
<1>1. /\ Len(counted) \in Nat /\ DOMAIN counted = 1..Len(counted)
      /\ CountedType' /\ Len(counted') = Len(counted) + 1
      /\ \A i \in 1..Len(counted) : counted'[i] = counted[i]
      /\ counted'[Len(counted) + 1].period = drotates
      /\ drotates' = drotates
  BY CountedFields, RecordAppends DEF Record
<1>2. DOMAIN counted' = (1..Len(counted)) \cup {Len(counted) + 1}
  <2>1. DOMAIN counted' = 1..Len(counted')
    BY <1>1 DEF CountedType
  <2> QED
    BY <1>1, <2>1
<1> QED
  BY <1>1, <1>2 DEF Period

(* hiq_since_last_rotate keeps up with the current burst.                  *)
LEMMA RecordHighWater ==
  ASSUME StatsInv, CountedType, CurrentBurst, HighWaterInv, Record
  PROVE  HighWaterInv'
<1> DEFINE n == Len(counted)
<1>1. /\ dst \in DeqStats /\ hand \in Nat /\ Len(queue) \in Nat /\ now \in Nat
      /\ BurstFields(dst)
  BY DEF StatsInv, StatsType, DeqStats, BurstFields
<1>2. n \in Nat /\ \A k \in 1..n : counted[k].pending \in Nat
  BY CountedFields
<1>3. /\ \A i \in 1..n : counted'[i] = counted[i]
      /\ \A i : i = n + 1 => counted'[i].pending = Len(queue)
  BY RecordAppends
<1>4. /\ \A j \in Period : j \in 1..n
      /\ Period' = Period \cup {n + 1}
  BY PeriodAppends
<1>5. /\ \A i, j \in 1..n : OneBurst(i, j)' <=> OneBurst(i, j)
      /\ \A i \in 1..n + 1 : \A j :
           j = n + 1 => (OneBurst(i, j)' <=> Len(queue) > 0 /\ OneBurst(i, n))
  BY OneBurstAppends
<1>6. PICK c \in 0..n :
        /\ c > 0 => counted[c].pending = 0
        /\ OneBurst(c + 1, n)
        /\ \A k \in (c + 1)..n : counted[k].pending <= dst.hiq
        /\ \/ c = n /\ dst.hiq = 0
           \/ \E k \in (c + 1)..n : dst.hiq = counted[k].pending
  BY DEF CurrentBurst
<1>7. /\ dst'.hiq \in Nat /\ dst'.hiq_since_last_rotate \in Nat
      /\ dst'.hiq_since_last_rotate >= dst.hiq_since_last_rotate
      /\ Len(queue) # 0 =>
           /\ dst'.hiq >= dst.hiq /\ dst'.hiq >= Len(queue)
           /\ dst'.hiq_since_last_rotate >= dst'.hiq
           /\ dst'.hiq \in {Len(queue), dst.hiq}
      /\ \/ dst'.hiq_since_last_rotate = dst.hiq_since_last_rotate
         \/ Len(queue) # 0 /\ dst'.hiq_since_last_rotate = dst'.hiq
  <2>1. CASE Len(queue) # 0
    BY <1>1, <2>1, RecordBurst DEF BurstFields
  <2>2. CASE Len(queue) = 0
    <3>1. dst' = DequeuerStatsRecord(dst, hand, 0)
      BY <2>2 DEF Record
    <3> QED
      BY <1>1, <2>2, <3>1, RecordEndsBurst, RecordNoBurst
      DEF InBurstFields, ReportFields, BurstFields
  <2> QED
    BY <2>1, <2>2
<1> HIDE DEF n
<1>8. ASSUME NEW j \in Period', NEW i \in 1..j, OneBurst(i, j)'
      PROVE  counted'[i].pending <= dst'.hiq_since_last_rotate
  <2>1. CASE j \in Period
    <3>1. j \in 1..n /\ i \in 1..n
      BY <1>2, <1>4, <2>1
    <3>2. OneBurst(i, j) /\ counted'[i] = counted[i]
      BY <1>3, <1>5, <1>8, <3>1
    <3>3. counted[i].pending <= dst.hiq_since_last_rotate
      BY <2>1, <3>1, <3>2 DEF HighWaterInv
    <3> QED
      BY <1>1, <1>2, <1>7, <3>1, <3>2, <3>3 DEF BurstFields
  <2>2. CASE j = n + 1
    <3>1. i \in 1..n + 1 /\ Len(queue) > 0 /\ OneBurst(i, n)
      BY <1>5, <1>8, <2>2
    <3>2. CASE i = n + 1
      BY <1>1, <1>3, <1>7, <3>1, <3>2
    <3>3. CASE i \in 1..n
      <4>1. i > c
        <5>1. ASSUME i <= c PROVE FALSE
          <6>1. c \in i..n /\ c > 0
            BY <1>2, <3>3, <5>1
          <6> QED
            BY <1>6, <3>1, <6>1 DEF OneBurst
        <5> QED
          BY <1>2, <3>3, <5>1
      <4>2. counted[i].pending <= dst.hiq
        BY <1>2, <1>6, <3>3, <4>1
      <4>3. dst.hiq <= dst'.hiq_since_last_rotate
        BY <1>1, <1>7, <3>1 DEF BurstFields
      <4> QED
        BY <1>1, <1>2, <1>3, <1>7, <3>3, <4>2, <4>3 DEF BurstFields
    <3> QED
      BY <1>2, <3>1, <3>2, <3>3
  <2> QED
    BY <1>4, <1>8, <2>1, <2>2
<1>9. \/ dst'.hiq_since_last_rotate = 0
      \/ \E j \in Period' : \E i \in 1..j :
           OneBurst(i, j)' /\ dst'.hiq_since_last_rotate = counted'[i].pending
  <2>1. CASE dst'.hiq_since_last_rotate = dst.hiq_since_last_rotate
    <3>1. CASE dst.hiq_since_last_rotate = 0
      BY <2>1, <3>1
    <3>2. ASSUME NEW j \in Period, NEW i \in 1..j, OneBurst(i, j),
                 dst.hiq_since_last_rotate = counted[i].pending
          PROVE  /\ j \in Period' /\ i \in 1..j /\ OneBurst(i, j)'
                 /\ dst'.hiq_since_last_rotate = counted'[i].pending
      <4>1. j \in 1..n /\ i \in 1..n
        BY <1>2, <1>4, <3>2
      <4> QED
        BY <1>3, <1>4, <1>5, <2>1, <3>2, <4>1
    <3> QED
      BY <3>1, <3>2 DEF HighWaterInv
  <2>2. CASE Len(queue) # 0 /\ dst'.hiq_since_last_rotate = dst'.hiq
    <3>1. PICK j : j = n + 1
      OBVIOUS
    <3>2. j \in Period' /\ j \in Nat /\ Len(queue) > 0
      BY <1>1, <1>2, <1>4, <2>2, <3>1
    <3>3. CASE dst'.hiq = Len(queue)
      <4>1. j \in 1..j /\ OneBurst(j, n)
        BY <1>2, <3>1 DEF OneBurst
      <4>2. OneBurst(j, j)' /\ counted'[j].pending = Len(queue)
        BY <1>3, <1>5, <3>1, <3>2, <4>1
      <4> QED
        BY <2>2, <3>2, <3>3, <4>1, <4>2
    <3>4. CASE dst'.hiq = dst.hiq /\ dst.hiq # 0
      <4>1. PICK k \in (c + 1)..n : dst.hiq = counted[k].pending
        BY <1>6, <3>4
      <4>2. k \in 1..n /\ k \in 1..n + 1 /\ k \in 1..j
        BY <1>2, <3>1
      <4>3. OneBurst(k, n)
        <5>1. \A x \in k..n : x \in (c + 1)..n
          BY <1>2, <4>1
        <5> QED
          BY <1>6, <5>1 DEF OneBurst
      <4>4. OneBurst(k, j)' /\ counted'[k] = counted[k]
        BY <1>3, <1>5, <3>1, <3>2, <4>2, <4>3
      <4> QED
        BY <2>2, <3>2, <3>4, <4>1, <4>2, <4>4
    <3> QED
      BY <1>1, <1>7, <2>2, <3>2, <3>3, <3>4 DEF BurstFields
  <2> QED
    BY <1>7, <2>1, <2>2
<1> QED
  BY <1>8, <1>9 DEF HighWaterInv

(* The burst in the report is replaced when the packet ends another one.   *)
LEMMA RecordLastBurst ==
  ASSUME StatsInv, CountedType, CurrentBurst, LastBurst, Record
  PROVE  LastBurst'
<1> DEFINE n == Len(counted)
           ended == Len(queue) = 0 /\ dst.hiq # 0
<1>1. /\ dst \in DeqStats /\ hand \in Nat /\ Len(queue) \in Nat /\ now \in Nat
  BY DEF StatsInv, StatsType
<1>2. n \in Nat /\ \A k \in 1..n : counted[k].pending \in Nat
  BY CountedFields
<1>3. /\ \A i \in 1..n : counted'[i] = counted[i]
      /\ \A i : i = n + 1 => counted'[i].pending = Len(queue)
      /\ \A i \in 0..n : BytesUpTo(i)' = BytesUpTo(i)
  BY RecordAppends
<1>4. /\ \A j \in Period : j \in 1..n
      /\ Period' = Period \cup {n + 1}
  BY PeriodAppends
<1>5. \A i, j \in 1..n : OneBurst(i, j)' <=> OneBurst(i, j)
  BY OneBurstAppends
<1>6. dst.hiq # 0 <=> n > 0 /\ counted[n].pending > 0
  BY <1>1, HiqTells
<1>7. PICK m : m = n + 1
  OBVIOUS
<1> HIDE DEF n
<1>8. \A i \in Ends : i \in 2..n /\ i \in Nat
  BY <1>2, <1>4 DEF Ends
<1>9. Ends' = Ends \cup (IF ended THEN {m} ELSE {})
  <2>1. ASSUME NEW i \in 1..n PROVE i \in Ends' <=> i \in Ends
    <3>1. i > 1 => i - 1 \in 1..n
      BY <1>2
    <3>2. counted'[i] = counted[i] /\ (i > 1 => counted'[i - 1] = counted[i - 1])
      BY <1>3, <3>1
    <3>3. i # n + 1
      BY <1>2
    <3>4. i \in Period' <=> i \in Period
      BY <1>4, <3>3
    <3> QED
      BY <3>2, <3>4 DEF Ends
  <2>2. m \in Ends' <=> ended
    <3>1. m - 1 = n /\ (m > 1 <=> n > 0) /\ m \in Period'
      BY <1>2, <1>4, <1>7
    <3>2. counted'[m].pending = Len(queue)
      BY <1>3, <1>7
    <3>3. n > 0 => counted'[m - 1] = counted[n]
      BY <1>2, <1>3, <3>1
    <3> QED
      BY <1>6, <3>1, <3>2, <3>3 DEF Ends
  <2>3. \A i \in Ends' : i \in 1..n \/ i = m
    BY <1>4, <1>7 DEF Ends
  <2>4. m \notin Ends /\ \A i \in Ends : i \in 1..n
    BY <1>2, <1>7, <1>8
  <2> QED
    BY <2>1, <2>2, <2>3, <2>4
<1>10. CASE ended
  <2>1. PICK c \in 0..n :
          /\ c > 0 => counted[c].pending = 0
          /\ OneBurst(c + 1, n)
          /\ dst.packets_written_in_burst = n - c
          /\ dst.bytes_written_in_burst = BytesUpTo(n) - BytesUpTo(c)
          /\ \/ c = n /\ dst.hiq = 0
             \/ \E k \in (c + 1)..n : dst.hiq = counted[k].pending
    BY DEF CurrentBurst, n
  <2>2. /\ c \in 0..(m - 2) /\ c \in 0..n /\ n \in 0..n /\ n \in 1..n
        /\ c + 1 \in 1..n /\ m - 1 = n
    BY <1>2, <1>7, <1>10, <2>1
  <2>3. m \in Ends' /\ \A i \in Ends' : i <= m
    BY <1>2, <1>7, <1>8, <1>9, <1>10
  <2>4. c > 0 => counted'[c].pending = 0
    BY <1>2, <1>3, <2>1, <2>2
  <2>5. OneBurst(c + 1, m - 1)'
    <3>1. \A k \in (c + 1)..n : counted'[k].pending > 0
      BY <1>2, <1>3, <2>1 DEF OneBurst
    <3> QED
      BY <2>2, <3>1 DEF OneBurst
  <2>6. /\ dst'.packets_written_in_burst_since_last_rotate = (m - 1) - c
        /\ dst'.bytes_written_in_burst_since_last_rotate
             = BytesUpTo(m - 1)' - BytesUpTo(c)'
    <3>1. dst' = DequeuerStatsRecord(dst, hand, 0)
      BY <1>10 DEF Record
    <3>2. /\ dst'.packets_written_in_burst_since_last_rotate = n - c
          /\ dst'.bytes_written_in_burst_since_last_rotate
               = BytesUpTo(n) - BytesUpTo(c)
      BY <1>1, <1>10, <2>1, <3>1, RecordEndsBurst DEF ReportFields
    <3>3. BytesUpTo(c)' = BytesUpTo(c)
      BY <1>3, <2>2
    <3>4. BytesUpTo(m - 1)' = BytesUpTo(n)
      <4>1. ASSUME NEW i, i = n PROVE BytesUpTo(i)' = BytesUpTo(n)
        BY <1>3, <2>2, <4>1
      <4> QED
        BY <2>2, <4>1
    <3> QED
      BY <2>2, <3>2, <3>3, <3>4
  <2> QED
    BY <2>2, <2>3, <2>4, <2>5, <2>6 DEF LastBurst
<1>11. CASE ~ended
  <2>1. Ends' = Ends
    BY <1>9, <1>11
  <2>2. /\ dst'.packets_written_in_burst_since_last_rotate
             = dst.packets_written_in_burst_since_last_rotate
        /\ dst'.bytes_written_in_burst_since_last_rotate
             = dst.bytes_written_in_burst_since_last_rotate
    <3>1. CASE Len(queue) # 0
      BY <3>1, RecordBurst
    <3>2. CASE Len(queue) = 0
      BY <1>1, <1>11, <3>2, RecordNoBurst DEF Record, ReportFields
    <3> QED
      BY <3>1, <3>2
  <2>3. CASE /\ Ends = {}
             /\ dst.packets_written_in_burst_since_last_rotate = 0
             /\ dst.bytes_written_in_burst_since_last_rotate = 0
    BY <2>1, <2>2, <2>3 DEF LastBurst
  <2>4. ASSUME NEW e \in Ends, NEW s \in 0..(e - 2),
               \A i \in Ends : i <= e,
               s > 0 => counted[s].pending = 0,
               OneBurst(s + 1, e - 1),
               dst.packets_written_in_burst_since_last_rotate = (e - 1) - s,
               dst.bytes_written_in_burst_since_last_rotate
                 = BytesUpTo(e - 1) - BytesUpTo(s)
        PROVE  LastBurst'
    <3>1. /\ s + 1 \in 1..n /\ e - 1 \in 1..n /\ e - 1 \in 0..n /\ s \in 0..n
          /\ s > 0 => s \in 1..n
      BY <1>2, <1>8, <2>4
    <3>2. /\ s > 0 => counted'[s].pending = 0
          /\ OneBurst(s + 1, e - 1)'
          /\ BytesUpTo(e - 1)' = BytesUpTo(e - 1) /\ BytesUpTo(s)' = BytesUpTo(s)
      BY <1>3, <1>5, <2>4, <3>1
    <3> QED
      BY <2>1, <2>2, <2>4, <3>2 DEF LastBurst
  <2> QED
    BY <2>3, <2>4 DEF LastBurst
<1> QED
  BY <1>10, <1>11

(* The times of the last two bursts move on when the packet starts one.    *)
LEMMA RecordStarts ==
  ASSUME StatsInv, CountedType, CurrentBurst, StartsInv, Record
  PROVE  StartsInv'
<1> DEFINE n == Len(counted)
           starts == Len(queue) # 0 /\ dst.hiq = 0
<1>1. /\ dst \in DeqStats /\ hand \in Nat /\ Len(queue) \in Nat /\ now \in Nat
  BY DEF StatsInv, StatsType
<1>2. /\ n \in Nat /\ \A k \in 1..n : counted[k].pending \in Nat
      /\ DOMAIN counted = 1..n
  BY CountedFields
<1>3. /\ \A i \in 1..n : counted'[i] = counted[i]
      /\ \A i : i = n + 1 =>
           counted'[i].pending = Len(queue) /\ counted'[i].time = now
  BY RecordAppends
<1>4. dst.hiq # 0 <=> n > 0 /\ counted[n].pending > 0
  BY <1>1, HiqTells
<1>5. DOMAIN counted' = (1..n) \cup {n + 1}
  <2>1. Len(counted') = n + 1 /\ DOMAIN counted' = 1..Len(counted')
    BY RecordAppends DEF CountedType
  <2> QED
    BY <1>2, <2>1
<1>6. PICK m : m = n + 1
  OBVIOUS
<1> HIDE DEF n
<1>7. \A i \in First : i \in 1..n /\ i \in Nat /\ i < m
  BY <1>2, <1>6 DEF First
<1>8. First' = First \cup (IF starts THEN {m} ELSE {})
  <2>1. ASSUME NEW i \in 1..n PROVE i \in First' <=> i \in First
    <3>1. i > 1 => i - 1 \in 1..n
      BY <1>2
    <3>2. counted'[i] = counted[i] /\ (i > 1 => counted'[i - 1] = counted[i - 1])
      BY <1>3, <3>1
    <3> QED
      BY <1>2, <1>5, <3>2 DEF First
  <2>2. m \in First' <=> starts
    <3>1. m - 1 = n /\ (m > 1 <=> n > 0) /\ m \in DOMAIN counted'
      BY <1>2, <1>5, <1>6
    <3>2. counted'[m].pending = Len(queue)
      BY <1>3, <1>6
    <3>3. n > 0 => counted'[m - 1] = counted[n] /\ counted[n].pending \in Nat
      BY <1>2, <1>3, <3>1
    <3> QED
      BY <1>1, <1>4, <3>1, <3>2, <3>3 DEF First
  <2>3. \A i \in First' : i \in 1..n \/ i = m
    BY <1>5, <1>6 DEF First
  <2>4. m \notin First /\ \A i \in First : i \in 1..n
    BY <1>2, <1>6, <1>7
  <2> QED
    BY <2>1, <2>2, <2>3, <2>4
<1>9. \A i \in First : counted'[i].time = counted[i].time
  BY <1>3, <1>7
<1>10. CASE starts
  <2>1. /\ dst'.hiq_start = counted'[m].time /\ dst'.hiq_last = dst.hiq_start
    BY <1>3, <1>6, <1>10, RecordBurst
  <2>2. m \in First' /\ \A i \in First' : i \in First \/ i = m
    BY <1>8, <1>10
  <2>3. m \in Nat /\ \A i \in First' : i <= m
    BY <1>2, <1>6, <1>7, <2>2
  <2>4. CASE First = {} /\ dst.hiq_start = 0
    BY <2>1, <2>2, <2>3, <2>4 DEF StartsInv
  <2>5. ASSUME NEW f \in First, \A i \in First : i <= f,
               dst.hiq_start = counted[f].time
        PROVE  StartsInv'
    <3>1. /\ f \in First' /\ f < m
          /\ \A i \in First' : i = m \/ i <= f
          /\ dst'.hiq_last = counted'[f].time
      BY <1>7, <1>8, <1>9, <2>1, <2>2, <2>5
    <3> QED
      BY <2>1, <2>2, <2>3, <3>1 DEF StartsInv
  <2> QED
    BY <2>4, <2>5 DEF StartsInv
<1>11. CASE ~starts
  <2>1. First' = First
    BY <1>8, <1>11
  <2>2. dst'.hiq_start = dst.hiq_start /\ dst'.hiq_last = dst.hiq_last
    <3>1. CASE Len(queue) # 0
      BY <1>11, <3>1, RecordBurst
    <3>2. CASE Len(queue) = 0
      <4>1. dst' = DequeuerStatsRecord(dst, hand, 0)
        BY <3>2 DEF Record
      <4> QED
        BY <1>1, <4>1, RecordEndsBurst, RecordNoBurst DEF InBurstFields
    <3> QED
      BY <3>1, <3>2
  <2> QED
    BY <1>9, <2>1, <2>2 DEF StartsInv
<1> QED
  BY <1>10, <1>11

(* A step that counts no packet, starts no period and changes no field     *)
(* about bursts keeps the invariant.                                       *)
LEMMA BurstsKept ==
  ASSUME BurstsInv, UNCHANGED <<counted, drotates>>,
         InBurstFields(dst') = InBurstFields(dst),
         ReportFields(dst') = ReportFields(dst),
         dpc' # "done" => dpc # "done"
  PROVE  BurstsInv'
<1>1. /\ dst'.hiq = dst.hiq /\ dst'.hiq_start = dst.hiq_start
      /\ dst'.hiq_last = dst.hiq_last
      /\ dst'.packets_written_in_burst = dst.packets_written_in_burst
      /\ dst'.bytes_written_in_burst = dst.bytes_written_in_burst
      /\ dst'.hiq_since_last_rotate = dst.hiq_since_last_rotate
      /\ dst'.packets_written_in_burst_since_last_rotate
           = dst.packets_written_in_burst_since_last_rotate
      /\ dst'.bytes_written_in_burst_since_last_rotate
           = dst.bytes_written_in_burst_since_last_rotate
  BY DEF InBurstFields, ReportFields
<1>2. CountedType' /\ Period' = Period /\ Ends' = Ends /\ First' = First
  BY DEF BurstsInv, CountedType, Period, Ends, First
<1>3. CurrentBurst'
  BY <1>1 DEF BurstsInv, CurrentBurst, OneBurst, BytesUpTo
<1>4. StartsInv'
  BY <1>1, <1>2 DEF BurstsInv, StartsInv
<1>5. HighWaterInv => HighWaterInv'
  BY <1>1, <1>2 DEF HighWaterInv, OneBurst
<1>6. LastBurst => LastBurst'
  BY <1>1, <1>2 DEF LastBurst, OneBurst, BytesUpTo
<1> QED
  BY <1>2, <1>3, <1>4, <1>5, <1>6 DEF BurstsInv

(* A rotation starts a period without packets.                             *)
LEMMA BurstsRotate ==
  ASSUME BurstsInv, StatsInv, DeqRotate \/ DeqFinish
  PROVE  BurstsInv'
<1>1. dst \in DeqStats /\ dst' = DequeuerStatsRotate(dst) /\ counted' = counted
  BY DEF StatsInv, StatsType, DeqRotate, DeqFinish
<1>2. /\ dst'.hiq = dst.hiq /\ dst'.hiq_start = dst.hiq_start
      /\ dst'.hiq_last = dst.hiq_last
      /\ dst'.packets_written_in_burst = dst.packets_written_in_burst
      /\ dst'.bytes_written_in_burst = dst.bytes_written_in_burst
      /\ dst'.hiq_since_last_rotate = 0
      /\ dst'.packets_written_in_burst_since_last_rotate = 0
      /\ dst'.bytes_written_in_burst_since_last_rotate = 0
  BY <1>1, RotateKeepsBurst DEF InBurstFields, ReportFields
<1>3. CurrentBurst' /\ First' = First
  BY <1>1, <1>2 DEF BurstsInv, CurrentBurst, First, OneBurst, BytesUpTo
<1>4. StartsInv'
  BY <1>1, <1>2, <1>3 DEF BurstsInv, StartsInv
<1>5. /\ Len(counted) \in Nat /\ DOMAIN counted = 1..Len(counted)
      /\ drotates \in Nat
      /\ \A k \in 1..Len(counted) :
           counted[k].period \in Nat /\ counted[k].period <= drotates
  BY CountedFields DEF BurstsInv
<1>6. CASE DeqRotate
  <2>1. drotates' = drotates + 1
    BY <1>6 DEF DeqRotate
  <2>2. CountedType' /\ Period' = {}
    BY <1>1, <1>5, <2>1 DEF BurstsInv, CountedType, Period
  <2>3. HighWaterInv' /\ LastBurst'
    BY <1>2, <2>2 DEF HighWaterInv, LastBurst, Ends
  <2> QED
    BY <1>3, <1>4, <2>2, <2>3 DEF BurstsInv
<1>7. CASE DeqFinish
  <2>1. CountedType' /\ dpc' = "done"
    BY <1>1, <1>7 DEF BurstsInv, CountedType, DeqFinish
  <2> QED
    BY <1>3, <1>4, <2>1 DEF BurstsInv
<1> QED
  BY <1>6, <1>7

(* BurstsInv is an invariant.                                              *)
LEMMA BurstsInvariant == Spec => []BurstsInv
<1>1. Init => BurstsInv
  <2> SUFFICES ASSUME Init PROVE BurstsInv
    OBVIOUS
  <2>1. /\ counted = <<>> /\ drotates = 0 /\ now = 0
        /\ counted \in Seq(Count) /\ Len(counted) = 0 /\ DOMAIN counted = {}
    BY DEF Init
  <2>2. /\ dst.hiq = 0 /\ dst.hiq_start = 0 /\ dst.hiq_last = 0
        /\ dst.packets_written_in_burst = 0 /\ dst.bytes_written_in_burst = 0
        /\ dst.hiq_since_last_rotate = 0
        /\ dst.packets_written_in_burst_since_last_rotate = 0
        /\ dst.bytes_written_in_burst_since_last_rotate = 0
    BY DEF Init, DequeuerStatsCtor
  <2>3. CountedType /\ Period = {} /\ Ends = {} /\ First = {}
    BY <2>1 DEF CountedType, Period, Ends, First
  <2>4. CurrentBurst
    BY <2>1, <2>2 DEF CurrentBurst, OneBurst, BytesUpTo
  <2> QED
    BY <2>2, <2>3, <2>4 DEF BurstsInv, HighWaterInv, LastBurst, StartsInv
<1>2. ASSUME BurstsInv, StatsInv, [Next]_vars PROVE BurstsInv'
  <2>1. CASE Record
    <3>1. dpc # "done"
      BY <2>1 DEF Record
    <3>2. CountedType' /\ CurrentBurst' /\ StartsInv'
      BY <1>2, <2>1, RecordAppends, RecordCurrentBurst, RecordStarts DEF BurstsInv
    <3>3. HighWaterInv' /\ LastBurst'
      BY <1>2, <2>1, <3>1, RecordHighWater, RecordLastBurst DEF BurstsInv
    <3> QED
      BY <3>2, <3>3 DEF BurstsInv
  <2>2. CASE DeqRotate \/ DeqFinish
    BY <1>2, <2>2, BurstsRotate
  <2>3. CASE Write
    <3>1. /\ UNCHANGED <<counted, drotates>> /\ dpc # "done"
          /\ dst' = dst \/ dst' = DequeuerStatsRecordLoss(dst)
      BY <2>3 DEF Write
    <3>2. /\ InBurstFields(dst') = InBurstFields(dst)
          /\ ReportFields(dst') = ReportFields(dst)
      BY <1>2, <3>1, LossKeepsBurst DEF StatsInv, StatsType
    <3> QED
      BY <1>2, <3>1, <3>2, BurstsKept
  <2>4. CASE \/ Tick \/ (\E size \in Sizes : Receive(size))
             \/ SocketError \/ EnqRotate \/ EnqFinish \/ Take \/ UNCHANGED vars
    <3>1. UNCHANGED <<dst, counted, drotates>> /\ (dpc' # "done" => dpc # "done")
      BY <2>4 DEF Tick, Receive, SocketError, EnqRotate, EnqFinish, Take,
                  vars, dvars, evars
    <3> QED
      BY <1>2, <3>1, BurstsKept
  <2> QED
    BY <1>2, <2>1, <2>2, <2>3, <2>4 DEF Next
<1> QED
  BY <1>1, <1>2, StatsInvariant, PTL DEF Spec

-----------------------------------------------------------------------------
(* The greatest element of a set that has one.                             *)
LEMMA MaxIs ==
  ASSUME NEW S, \A x \in S : x \in Int, NEW m \in S, \A x \in S : x <= m
  PROVE  Max(S) = m
  BY DEF Max

(* The least element of a set that has one.                                *)
LEMMA MinIs ==
  ASSUME NEW S, \A x \in S : x \in Int, NEW m \in S, \A x \in S : x >= m
  PROVE  Min(S) = m
  BY DEF Min

(* hiq_since_last_rotate is right.                                         *)
LEMMA HighWaterCorrect ==
  ASSUME StatsInv, BurstsInv
  PROVE  HighWaterOfBursts
<1> SUFFICES ASSUME dpc # "done" PROVE HighWaterOfBursts
  BY DEF HighWaterOfBursts
<1> DEFINE before == {k \in DOMAIN counted : \E j \in Period : k <= j /\ OneBurst(k, j)}
           peaks == {counted[i].pending : i \in before} \cup {0}
           h == dst.hiq_since_last_rotate
<1>1. /\ Len(counted) \in Nat /\ DOMAIN counted = 1..Len(counted)
      /\ \A k \in 1..Len(counted) : counted[k].pending \in Nat
  BY CountedFields DEF BurstsInv
<1>2. h \in Nat
  BY DEF StatsInv, StatsType, DeqStats
<1>3. \A j \in Period : j \in 1..Len(counted)
  BY <1>1 DEF Period
<1>4. \A x \in peaks : x \in Int
  BY <1>1
<1>5. h \in peaks
  <2>1. CASE h = 0
    BY <2>1
  <2>2. ASSUME NEW j \in Period, NEW i \in 1..j, OneBurst(i, j),
               h = counted[i].pending
        PROVE  h \in peaks
    <3>1. i \in DOMAIN counted /\ i <= j
      BY <1>1, <1>3
    <3> QED
      BY <2>2, <3>1
  <2> QED
    BY <2>1, <2>2 DEF BurstsInv, HighWaterInv
<1>6. \A x \in peaks : x <= h
  <2>1. ASSUME NEW k \in before PROVE counted[k].pending <= h
    <3>1. PICK j \in Period : k <= j /\ OneBurst(k, j)
      BY <2>1
    <3>2. k \in 1..j
      BY <1>1, <1>3, <2>1, <3>1
    <3> QED
      BY <3>1, <3>2 DEF BurstsInv, HighWaterInv
  <2> QED
    BY <1>2, <2>1
<1> HIDE DEF peaks, h
<1>7. Max(peaks) = h
  BY <1>4, <1>5, <1>6, MaxIs
<1> QED
  BY <1>7 DEF HighWaterOfBursts, peaks, h

(* The burst in the report is right.                                       *)
LEMMA BurstOfReportCorrect ==
  ASSUME BurstsInv
  PROVE  BurstOfReport
<1> SUFFICES ASSUME dpc # "done" PROVE BurstOfReport
  BY DEF BurstOfReport
<1> DEFINE burst == IF Ends = {} THEN {}
                    ELSE {i \in 1..(Max(Ends) - 1) : OneBurst(i, Max(Ends) - 1)}
<1>1. SUFFICES /\ dst.packets_written_in_burst_since_last_rotate
                    = Cardinality(burst)
               /\ dst.bytes_written_in_burst_since_last_rotate
                    = IF burst = {} THEN 0
                      ELSE BytesUpTo(Max(burst)) - BytesUpTo(Min(burst) - 1)
  BY DEF BurstOfReport, Ends
<1>2. CASE /\ Ends = {}
           /\ dst.packets_written_in_burst_since_last_rotate = 0
           /\ dst.bytes_written_in_burst_since_last_rotate = 0
  BY <1>2, FS_EmptySet
<1>3. ASSUME NEW e \in Ends, NEW s \in 0..(e - 2),
             \A i \in Ends : i <= e,
             s > 0 => counted[s].pending = 0,
             OneBurst(s + 1, e - 1)
      PROVE  /\ Cardinality(burst) = (e - 1) - s
             /\ burst # {} /\ Max(burst) = e - 1 /\ Min(burst) - 1 = s
  <2>1. /\ Len(counted) \in Nat /\ DOMAIN counted = 1..Len(counted)
    BY CountedFields DEF BurstsInv
  <2>2. \A i \in Ends : i \in Int /\ i > 1
    BY <2>1 DEF Ends, Period
  <2>3. Max(Ends) = e
    BY <1>3, <2>2, MaxIs
  <2>4. e \in Int /\ e > 1 /\ s \in Int /\ 0 <= s /\ s <= e - 2
    BY <2>2
  <2>5. burst = (s + 1)..(e - 1)
    <3>1. burst = {i \in 1..(e - 1) : OneBurst(i, e - 1)}
      BY <1>3, <2>3
    <3>2. ASSUME NEW i \in 1..(e - 1), OneBurst(i, e - 1) PROVE i \in (s + 1)..(e - 1)
      <4>1. ASSUME i <= s PROVE FALSE
        <5>1. s > 0 /\ s \in i..(e - 1)
          BY <2>4, <4>1
        <5> QED
          BY <1>3, <3>2, <5>1 DEF OneBurst
      <4> QED
        BY <2>4, <4>1
    <3>3. ASSUME NEW i \in (s + 1)..(e - 1)
          PROVE  i \in 1..(e - 1) /\ OneBurst(i, e - 1)
      <4>1. i \in 1..(e - 1) /\ \A k \in i..(e - 1) : k \in (s + 1)..(e - 1)
        BY <2>4
      <4> QED
        BY <1>3, <4>1 DEF OneBurst
    <3> HIDE DEF burst
    <3> QED
      BY <3>1, <3>2, <3>3
  <2> HIDE DEF burst
  <2>6. Cardinality(burst) = (e - 1) - s
    <3>1. Cardinality((s + 1)..(e - 1))
            = IF s + 1 > e - 1 THEN 0 ELSE (e - 1) - (s + 1) + 1
      BY <2>4, FS_Interval
    <3> QED
      BY <2>4, <2>5, <3>1
  <2>7. /\ s + 1 \in burst /\ e - 1 \in burst
        /\ \A i \in burst : i \in Int /\ s + 1 <= i /\ i <= e - 1
    BY <2>4, <2>5
  <2>8. Max(burst) = e - 1 /\ Min(burst) = s + 1
    BY <2>7, MaxIs, MinIs
  <2> QED
    BY <2>4, <2>6, <2>7, <2>8
<1> HIDE DEF burst
<1> QED
  BY <1>2, <1>3 DEF BurstsInv, LastBurst

(* The times of the bursts are right.                                      *)
LEMMA BurstStartsCorrect ==
  ASSUME BurstsInv
  PROVE  BurstStarts
<1> DEFINE At(S) == IF S = {} THEN 0 ELSE counted[Max(S)].time
<1>1. SUFFICES /\ dst.hiq_start = At(First)
               /\ First # {} => dst.hiq_last = At(First \ {Max(First)})
  BY DEF BurstStarts, First
<1>2. \A i \in First : i \in Int
  BY CountedFields DEF BurstsInv, First
<1>3. CASE First = {} /\ dst.hiq_start = 0
  BY <1>3
<1>4. ASSUME NEW f \in First, \A i \in First : i <= f,
             dst.hiq_start = counted[f].time,
             \/ (\A i \in First : i = f) /\ dst.hiq_last = 0
             \/ \E g \in First : /\ g < f /\ \A i \in First : i = f \/ i <= g
                                 /\ dst.hiq_last = counted[g].time
      PROVE  /\ dst.hiq_start = At(First)
             /\ dst.hiq_last = At(First \ {Max(First)})
  <2>1. Max(First) = f
    BY <1>2, <1>4, MaxIs
  <2>2. CASE (\A i \in First : i = f) /\ dst.hiq_last = 0
    BY <1>4, <2>1, <2>2
  <2>3. ASSUME NEW g \in First, g < f, \A i \in First : i = f \/ i <= g,
               dst.hiq_last = counted[g].time
        PROVE  dst.hiq_last = At(First \ {Max(First)})
    <3> DEFINE others == First \ {f}
    <3>1. /\ g \in others /\ \A i \in others : i \in Int /\ i <= g
      BY <1>2, <2>3
    <3> HIDE DEF others
    <3>2. Max(others) = g /\ others # {}
      BY <3>1, MaxIs
    <3> QED
      BY <2>1, <2>3, <3>2 DEF others
  <2> QED
    BY <1>4, <2>1, <2>2, <2>3
<1> HIDE DEF At
<1> QED
  BY <1>3, <1>4 DEF BurstsInv, StartsInv

(* The report on bursts and on the queue says what happened: the highest   *)
(* number of messages left, the last burst that ended and when the last    *)
(* two started (dequeuer_stats_record and dequeuer_stats_rotate).          *)
THEOREM BurstsCorrect == Spec => []BurstsReported
<1>1. StatsInv /\ BurstsInv => BurstsReported
  BY HighWaterCorrect, BurstOfReportCorrect, BurstStartsCorrect DEF BurstsReported
<1> QED
  BY <1>1, StatsInvariant, BurstsInvariant, PTL

-----------------------------------------------------------------------------
(* Sums of sequences.  FoldLeft is a recursive function on the sets of     *)
(* positions; that it exists, and that its values on 1..m are the sums of  *)
(* the beginnings, is shown by induction on m.                             *)

(* A set of numbers has a least one.                                       *)
LEMMA Least ==
  ASSUME NEW T \in SUBSET Nat, T # {}
  PROVE  \E x \in T : \A y \in T : x <= y
<1>1. IsWellFoundedOn(OpToRel(<, Nat), Nat)
  BY NatLessThanWellFounded
<1> DEFINE R == OpToRel(<, Nat)
<1>2. \A x, y \in Nat : x < y => <<x, y>> \in R
  BY DEF OpToRel
<1> HIDE DEF R
<1>3. PICK x \in T : \A y \in T : ~(<<y, x>> \in R)
  BY <1>1, WFMin DEF R
<1>4. \A y \in T : ~(y < x)
  BY <1>2, <1>3
<1>5. \A y \in T : x <= y
  BY <1>4
<1> QED
  BY <1>5

(* Induction, for a property that is given as a set.                       *)
LEMMA SetInduction ==
  ASSUME NEW S, 0 \in S, \A n \in Nat : n \in S => n + 1 \in S
  PROVE  Nat \subseteq S
<1> SUFFICES ASSUME Nat \ S # {} PROVE FALSE
  OBVIOUS
<1>1. PICK x \in Nat \ S : \A y \in Nat \ S : x <= y
  BY Least
<1>2. x # 0 /\ x - 1 \in Nat /\ x = (x - 1) + 1
  BY <1>1
<1> QED
  BY <1>1, <1>2

\* the sums of the beginnings of q, up to the one of m elements
IsSums(p, q, m) ==
  /\ p \in [0..m -> Nat]
  /\ p[0] = 0
  /\ \A i \in 1..m : p[i] = p[i - 1] + q[i]

\* what FoldLeft adds up for the positions in s, and its whole table
SumStep(q, f, s) == IF s = {} THEN 0 ELSE f[s \ {Max(s)}] + q[Max(s)]
IsFold(f, q, m) == f = [s \in SUBSET (1..m) |-> SumStep(q, f, s)]

(* The last of some positions up to m + 1.                                 *)
LEMMA LastPosition ==
  ASSUME NEW m \in Nat, NEW s \in SUBSET (1..(m + 1)), s # {}
  PROVE  /\ m + 1 \in s => Max(s) = m + 1
         /\ m + 1 \notin s => s \in SUBSET (1..m)
         /\ s \ {m + 1} \in SUBSET (1..m)
<1>1. CASE m + 1 \in s
  <2>1. m + 1 \in s /\ \A x \in s : x \in Int /\ x <= m + 1
    BY <1>1
  <2>2. Max(s) = m + 1
    BY <2>1, MaxIs
  <2> QED
    BY <1>1, <2>2
<1>2. CASE m + 1 \notin s
  BY <1>2
<1> QED
  BY <1>1, <1>2

(* The table exists for every number of positions.                         *)
LEMMA FoldExists ==
  ASSUME NEW q
  PROVE  \A m \in Nat : \E f : IsFold(f, q, m)
<1> DEFINE S == {m \in Nat : \E f : IsFold(f, q, m)}
<1>1. 0 \in S
  <2> DEFINE f == [s \in SUBSET (1..0) |-> 0]
  <2>1. \A s \in SUBSET (1..0) : s = {}
    OBVIOUS
  <2>2. IsFold(f, q, 0)
    BY <2>1 DEF IsFold, SumStep
  <2> QED
    BY <2>2
<1>2. ASSUME NEW m \in Nat, m \in S
      PROVE  m + 1 \in S
  <2>1. PICK f : IsFold(f, q, m)
    BY <1>2
  <2> DEFINE g == [s \in SUBSET (1..(m + 1)) |->
                     IF m + 1 \in s THEN f[s \ {m + 1}] + q[m + 1] ELSE f[s]]
  <2>2. ASSUME NEW s \in SUBSET (1..(m + 1))
        PROVE  g[s] = SumStep(q, g, s)
    <3>1. CASE s = {}
      <4>1. {} \in SUBSET (1..m) /\ {} \in SUBSET (1..(m + 1)) /\ m + 1 \notin {}
        OBVIOUS
      <4>2. f[{}] = 0
        BY <2>1, <4>1 DEF IsFold, SumStep
      <4> QED
        BY <3>1, <4>1, <4>2 DEF SumStep
    <3>2. CASE s # {} /\ m + 1 \in s
      <4>1. Max(s) = m + 1 /\ s \ {m + 1} \in SUBSET (1..m)
        BY <3>2, LastPosition
      <4>2. s \ {m + 1} \in SUBSET (1..(m + 1)) /\ m + 1 \notin s \ {m + 1}
        BY <4>1
      <4>3. g[s \ {m + 1}] = f[s \ {m + 1}]
        BY <4>2
      <4>4. g[s] = f[s \ {m + 1}] + q[m + 1]
        BY <3>2
      <4> HIDE DEF g
      <4> QED
        BY <3>2, <4>1, <4>3, <4>4 DEF SumStep
    <3>3. CASE s # {} /\ m + 1 \notin s
      <4>1. s \in SUBSET (1..m)
        BY <3>3, LastPosition
      <4>2. g[s] = f[s]
        BY <3>3
      <4>3. f[s] = f[s \ {Max(s)}] + q[Max(s)]
        BY <2>1, <3>3, <4>1 DEF IsFold, SumStep
      <4>4. s \ {Max(s)} \in SUBSET (1..(m + 1)) /\ m + 1 \notin s \ {Max(s)}
        BY <3>3
      <4>5. g[s \ {Max(s)}] = f[s \ {Max(s)}]
        BY <4>4
      <4> HIDE DEF g
      <4> QED
        BY <3>3, <4>2, <4>3, <4>5 DEF SumStep
    <3> QED
      BY <3>1, <3>2, <3>3
  <2>3. g = [s \in SUBSET (1..(m + 1)) |-> SumStep(q, g, s)]
    BY <2>2
  <2> HIDE DEF g
  <2>4. IsFold(g, q, m + 1)
    BY <2>3 DEF IsFold
  <2> QED
    BY <2>4
<1> HIDE DEF S
<1>3. Nat \subseteq S
  BY <1>1, <1>2, SetInduction
<1> QED
  BY <1>3 DEF S

\* the sum of a sequence, as the bytes of the queue are added up
Total(q) == FoldLeft(+, 0, q)

(* FoldLeft is the last of the sums of the beginnings.                     *)
LEMMA FoldSums ==
  ASSUME NEW q \in Seq(Nat), NEW p, IsSums(p, q, Len(q))
  PROVE  Total(q) = p[Len(q)]
<1>1. Len(q) \in Nat /\ DOMAIN q = 1..Len(q)
  OBVIOUS
<1> DEFINE f == CHOOSE f : IsFold(f, q, Len(q))
<1>2. IsFold(f, q, Len(q))
  BY <1>1, FoldExists
<1>3. Total(q) = f[1..Len(q)]
  <2>1. Total(q)
          = (CHOOSE h : h = [s \in SUBSET (DOMAIN q) |-> SumStep(q, h, s)])[DOMAIN q]
    BY DEF Total, FoldLeft, MapThenFoldSet, SumStep
  <2> QED
    BY <1>1, <2>1 DEF IsFold
<1> HIDE DEF f
<1> DEFINE S == {m \in Nat : m <= Len(q) => f[1..m] = p[m]}
<1>4. 0 \in S
  <2>1. 1..0 = {}
    OBVIOUS
  <2>2. f[{}] = 0
    BY <1>2 DEF IsFold, SumStep
  <2> QED
    BY <2>1, <2>2 DEF IsSums
<1>5. ASSUME NEW m \in Nat, m \in S
      PROVE  m + 1 \in S
  <2> SUFFICES ASSUME m + 1 <= Len(q) PROVE f[1..(m + 1)] = p[m + 1]
    OBVIOUS
  <2>1. /\ 1..(m + 1) \in SUBSET (1..Len(q)) /\ 1..(m + 1) # {}
        /\ Max(1..(m + 1)) = m + 1
    <3>1. 1..(m + 1) \in SUBSET (1..(m + 1)) /\ m + 1 \in 1..(m + 1)
      OBVIOUS
    <3>2. Max(1..(m + 1)) = m + 1
      <4>1. \A x \in 1..(m + 1) : x \in Int /\ x <= m + 1
        OBVIOUS
      <4> QED
        BY <3>1, <4>1, MaxIs
    <3>3. 1..(m + 1) \in SUBSET (1..Len(q))
      BY <1>1
    <3> QED
      BY <3>1, <3>2, <3>3
  <2>2. 1..(m + 1) \ {m + 1} = 1..m
    OBVIOUS
  <2>3. f[1..(m + 1)] = f[1..m] + q[m + 1]
    BY <1>2, <2>1, <2>2 DEF IsFold, SumStep
  <2>4. f[1..m] = p[m]
    BY <1>1, <1>5
  <2>5. p[m + 1] = p[m] + q[m + 1]
    BY <1>1 DEF IsSums
  <2> QED
    BY <2>3, <2>4, <2>5
<1> HIDE DEF S
<1>6. Nat \subseteq S
  BY <1>4, <1>5, SetInduction
<1>7. Len(q) \in S
  BY <1>1, <1>6
<1> QED
  BY <1>1, <1>3, <1>7 DEF S

(* Every sequence has its sums.                                            *)
LEMMA SumsExist ==
  ASSUME NEW q \in Seq(Nat)
  PROVE  \E p : IsSums(p, q, Len(q))
<1> DEFINE S == {m \in Nat : m <= Len(q) => \E p : IsSums(p, q, m)}
<1>0. Len(q) \in Nat
  OBVIOUS
<1>1. 0 \in S
  <2>1. IsSums([i \in 0..0 |-> 0], q, 0)
    BY DEF IsSums
  <2> QED
    BY <2>1
<1>2. ASSUME NEW m \in Nat, m \in S
      PROVE  m + 1 \in S
  <2> SUFFICES ASSUME m + 1 <= Len(q) PROVE \E p : IsSums(p, q, m + 1)
    BY <1>2
  <2>1. PICK p : IsSums(p, q, m)
    BY <1>0, <1>2
  <2>2. p[m] + q[m + 1] \in Nat
    BY <1>0, <2>1 DEF IsSums
  <2> DEFINE r == [i \in 0..(m + 1) |-> IF i = m + 1 THEN p[m] + q[m + 1] ELSE p[i]]
  <2>3. r \in [0..(m + 1) -> Nat] /\ r[0] = 0
    BY <2>1, <2>2 DEF IsSums
  <2>4. ASSUME NEW i \in 1..(m + 1) PROVE r[i] = r[i - 1] + q[i]
    <3>1. CASE i = m + 1
      BY <3>1
    <3>2. CASE i \in 1..m
      BY <2>1, <3>2 DEF IsSums
    <3> QED
      BY <3>1, <3>2
  <2> HIDE DEF r
  <2>5. IsSums(r, q, m + 1)
    BY <2>3, <2>4 DEF IsSums
  <2> QED
    BY <2>5
<1> HIDE DEF S
<1>3. Nat \subseteq S
  BY <1>1, <1>2, SetInduction
<1>4. Len(q) \in S
  BY <1>0, <1>3
<1> QED
  BY <1>0, <1>4 DEF S

(* The sum of a sequence is a number, the empty sum is 0.                  *)
LEMMA SumType == ASSUME NEW q \in Seq(Nat) PROVE Total(q) \in Nat
<1>1. PICK p : IsSums(p, q, Len(q))
  BY SumsExist
<1> QED
  BY <1>1, FoldSums DEF IsSums

LEMMA SumEmpty == Total(<<>>) = 0
<1>1. IsSums([i \in 0..0 |-> 0], <<>>, 0)
  BY DEF IsSums
<1>2. <<>> \in Seq(Nat) /\ Len(<<>>) = 0
  OBVIOUS
<1>3. Total(<<>>) = [i \in 0..0 |-> 0][Len(<<>>)]
  BY <1>1, <1>2, FoldSums
<1> QED
  BY <1>2, <1>3

(* A sequence grows at its end by what is appended.                        *)
LEMMA SumAppend ==
  ASSUME NEW q \in Seq(Nat), NEW e \in Nat
  PROVE  Total(Append(q, e)) = Total(q) + e
<1>1. PICK p : IsSums(p, q, Len(q))
  BY SumsExist
<1> DEFINE n == Len(q)
           r == [i \in 0..(n + 1) |-> IF i = n + 1 THEN p[n] + e ELSE p[i]]
<1>2. n \in Nat /\ Append(q, e) \in Seq(Nat) /\ Len(Append(q, e)) = n + 1
      /\ Append(q, e)[n + 1] = e /\ \A i \in 1..n : Append(q, e)[i] = q[i]
  OBVIOUS
<1>3. p[n] \in Nat /\ p[n] + e \in Nat
  BY <1>1, <1>2 DEF IsSums
<1>4. IsSums(r, Append(q, e), n + 1)
  <2>1. r \in [0..(n + 1) -> Nat] /\ r[0] = 0
    BY <1>1, <1>2, <1>3 DEF IsSums
  <2>2. ASSUME NEW i \in 1..(n + 1) PROVE r[i] = r[i - 1] + Append(q, e)[i]
    <3>1. CASE i = n + 1
      BY <1>2, <3>1
    <3>2. CASE i \in 1..n
      BY <1>1, <1>2, <3>2 DEF IsSums
    <3> QED
      BY <1>2, <3>1, <3>2
  <2> HIDE DEF r
  <2> QED
    BY <1>2, <2>1, <2>2 DEF IsSums
<1>5. Total(Append(q, e)) = r[n + 1]
  BY <1>2, <1>4, FoldSums
<1>6. Total(q) = p[n]
  BY <1>1, FoldSums
<1> QED
  BY <1>2, <1>5, <1>6

(* A sequence is its head and the rest.                                    *)
LEMMA SumHead ==
  ASSUME NEW q \in Seq(Nat), q # <<>>
  PROVE  Total(q) = Head(q) + Total(Tail(q))
<1> DEFINE n == Len(q)
<1>1. n \in Nat \ {0} /\ Tail(q) \in Seq(Nat) /\ Len(Tail(q)) = n - 1
      /\ Head(q) \in Nat /\ Head(q) = q[1]
      /\ \A i \in 1..(n - 1) : Tail(q)[i] = q[i + 1]
  OBVIOUS
<1>2. PICK p : IsSums(p, Tail(q), n - 1)
  BY <1>1, SumsExist
<1> DEFINE r == [i \in 0..n |-> IF i = 0 THEN 0 ELSE Head(q) + p[i - 1]]
<1>3. \A i \in 0..(n - 1) : p[i] \in Nat
  BY <1>1, <1>2 DEF IsSums
<1>4. IsSums(r, q, n)
  <2>1. r \in [0..n -> Nat] /\ r[0] = 0
    BY <1>1, <1>3
  <2>2. ASSUME NEW i \in 1..n PROVE r[i] = r[i - 1] + q[i]
    <3>1. CASE i = 1
      BY <1>1, <1>2, <3>1 DEF IsSums
    <3>2. CASE i # 1
      <4>1. i - 1 \in 1..(n - 1) /\ i - 2 \in 0..(n - 1) /\ i \in 0..n /\ i - 1 \in 0..n
            /\ i # 0 /\ i - 1 # 0 /\ (i - 1) - 1 = i - 2
        BY <1>1, <3>2
      <4>2. p[i - 1] = p[i - 2] + q[i]
        BY <1>1, <1>2, <4>1 DEF IsSums
      <4>3. r[i] = Head(q) + p[i - 1] /\ r[i - 1] = Head(q) + p[i - 2]
        BY <4>1
      <4>4. p[i - 1] \in Nat /\ p[i - 2] \in Nat /\ q[i] \in Nat
        BY <1>1, <1>3, <4>1
      <4> HIDE DEF r
      <4> QED
        BY <1>1, <4>2, <4>3, <4>4
    <3> QED
      BY <3>1, <3>2
  <2> HIDE DEF r
  <2> QED
    BY <1>1, <2>1, <2>2 DEF IsSums
<1>5. Total(q) = r[n]
  BY <1>4, FoldSums
<1>6. Total(Tail(q)) = p[n - 1]
  BY <1>1, <1>2, FoldSums
<1> QED
  BY <1>1, <1>5, <1>6

-----------------------------------------------------------------------------
(* The types, and the bytes *)

(* What the functions of stats.c do to the bytes received.                 *)
LEMMA EnqBytes ==
  ASSUME NEW st \in EnqStats, NEW bytes \in Nat
  PROVE  /\ EnqueuerStatsRecordDatagram(st, bytes).bytes_received_total
              = st.bytes_received_total + bytes
         /\ EnqueuerStatsRecordSocketError(st).bytes_received_total
              = st.bytes_received_total
         /\ EnqueuerStatsRotate(st).bytes_received_total = st.bytes_received_total
  BY DEF EnqStats, EnqueuerStatsRecordDatagram, EnqueuerStatsRecordSocketError,
         EnqueuerStatsRotate

(* What they do to the bytes written, whatever they do about bursts.       *)
LEMMA DeqBytes ==
  ASSUME NEW st \in DeqStats, NEW bytes \in Nat, NEW pending \in Nat
  PROVE  /\ DequeuerStatsRecord(st, bytes, pending).bytes_written_total
              = st.bytes_written_total + bytes
         /\ DequeuerStatsRecordLoss(st).bytes_written_total = st.bytes_written_total
         /\ DequeuerStatsRotate(st).bytes_written_total = st.bytes_written_total
<1> DEFINE added == [st EXCEPT !.bytes_written_since_last_rotate = @ + bytes,
                               !.bytes_written_total = @ + bytes,
                               !.packets_written_since_last_rotate = @ + 1,
                               !.packets_written_total = @ + 1]
<1>1. added.bytes_written_total = st.bytes_written_total + bytes
      /\ DOMAIN added = DOMAIN st
  BY DEF DeqStats
<1> HIDE DEF added
<1>2. /\ InBurst(added, bytes, pending).bytes_written_total = added.bytes_written_total
      /\ EndBurst(added).bytes_written_total = added.bytes_written_total
  BY <1>1 DEF DeqStats, InBurst, EndBurst
<1> DEFINE chosen == IF pending # 0 THEN InBurst(added, bytes, pending)
                     ELSE IF st.hiq # 0 THEN EndBurst(added) ELSE added
<1>3. chosen.bytes_written_total = added.bytes_written_total
  BY <1>2
<1>4. DequeuerStatsRecord(st, bytes, pending) = HighWater(chosen)
  BY DEF DequeuerStatsRecord, added
<1> HIDE DEF chosen
<1>5. HighWater(chosen).bytes_written_total = chosen.bytes_written_total
  BY DEF HighWater
<1> QED
  BY <1>1, <1>3, <1>4, <1>5 DEF DeqStats, DequeuerStatsRecordLoss, DequeuerStatsRotate

CountedPacket ==
  [bytes: Nat, pending: 0..QueueCap, time: 0..MaxTime, period: 0..MaxRotates]

\* what TypeOK says beyond StatsType
RangesInv ==
  /\ now \in 0..MaxTime
  /\ Len(queue) <= QueueCap /\ hand \in Sizes \cup {0}
  /\ dropped \in [packets: Nat, bytes: Nat]
  /\ epc \in {"run", "done"}
  /\ erotates \in 0..MaxRotates /\ drotates \in 0..MaxRotates
  /\ counted \in Seq(CountedPacket)

\* BytesAgree without the sequence that is waiting
BytesInv ==
  est.bytes_received_total
    = HeaderLength * est.packets_received_total + dst.bytes_written_total
        + Total(queue) + (IF dpc = "stat" THEN hand ELSE 0) + dropped.bytes

(* The ranges hold initially and are kept.                                 *)
LEMMA RangesInvariant == Spec => []RangesInv
<1>0. /\ QueueCap \in Nat \ {0} /\ MaxTime \in Nat /\ MaxRotates \in Nat
      /\ Sizes \subseteq Nat
  BY StatsAssumption
<1>1. Init => RangesInv
  BY <1>0 DEF Init, RangesInv
<1>2. ASSUME StatsInv, RangesInv, [Next]_vars PROVE RangesInv'
  <2>0. /\ queue \in Seq(Sizes) /\ Len(queue) \in Nat
        /\ dropped.packets \in Nat /\ dropped.bytes \in Nat
    BY <1>2 DEF StatsInv, StatsType, RangesInv
  <2>1. ASSUME NEW size \in Sizes, Receive(size) PROVE RangesInv'
    <3>1. UNCHANGED <<now, hand, epc, erotates, drotates, counted>>
      BY <2>1 DEF Receive, dvars
    <3>2. CASE Len(queue) < QueueCap /\ queue' = Append(queue, size) /\ dropped' = dropped
      <4>1. Len(queue') = Len(queue) + 1
        BY <2>0, <3>2
      <4> QED
        BY <1>0, <1>2, <2>0, <3>1, <3>2, <4>1 DEF RangesInv
    <3>3. CASE queue' = queue /\ dropped' = [packets |-> dropped.packets + 1,
                                            bytes |-> dropped.bytes + size]
      <4>1. dropped.packets + 1 \in Nat /\ dropped.bytes + size \in Nat
        BY <1>0, <2>0
      <4> QED
        BY <1>2, <3>1, <3>3, <4>1 DEF RangesInv
    <3> QED
      BY <2>1, <3>2, <3>3 DEF Receive
  <2>2. CASE SocketError
    BY <1>2, <2>2 DEF SocketError, dvars, RangesInv
  <2>3. CASE EnqRotate \/ EnqFinish
    BY <1>0, <1>2, <2>3 DEF EnqRotate, EnqFinish, dvars, RangesInv
  <2>4. CASE Take
    <3>1. queue # <<>> /\ hand' = Head(queue) /\ queue' = Tail(queue)
          /\ UNCHANGED <<now, dropped, epc, erotates, drotates, counted>>
      BY <2>4 DEF Take, evars
    <3>2. hand' \in Sizes /\ Len(queue') = Len(queue) - 1
      BY <2>0, <3>1
    <3> QED
      BY <1>0, <1>2, <2>0, <3>1, <3>2 DEF RangesInv
  <2>5. CASE Record
    <3>1. UNCHANGED <<now, queue, hand, dropped, epc, erotates, drotates>>
      BY <2>5 DEF Record, evars
    <3> DEFINE c == [bytes |-> BytesUpTo(Len(counted)) + hand, pending |-> Len(queue),
                     time |-> now, period |-> drotates]
    <3>2. counted' = Append(counted, c)
      BY <2>5 DEF Record
    <3>3. BytesUpTo(Len(counted)) \in Nat
      <4>1. counted \in Seq(CountedPacket) /\ Len(counted) \in Nat
        BY <1>2 DEF RangesInv
      <4>2. CASE Len(counted) # 0
        <5>1. counted[Len(counted)] \in CountedPacket
          BY <4>1, <4>2
        <5> QED
          BY <4>2, <5>1 DEF BytesUpTo, CountedPacket
      <4> QED
        BY <4>2 DEF BytesUpTo
    <3>4. BytesUpTo(Len(counted)) + hand \in Nat
      BY <1>2, <3>3 DEF StatsInv, StatsType
    <3>5. c \in CountedPacket
      BY <1>0, <1>2, <2>0, <3>4 DEF RangesInv, CountedPacket
    <3> HIDE DEF c
    <3> QED
      BY <1>2, <3>1, <3>2, <3>5 DEF RangesInv
  <2>6. CASE DeqRotate
    BY <1>0, <1>2, <2>6 DEF DeqRotate, evars, RangesInv
  <2>7. CASE Write
    BY <1>2, <2>7 DEF Write, evars, RangesInv
  <2>8. CASE DeqFinish
    <3>1. /\ queue' = <<>>
          /\ dropped' = [packets |-> dropped.packets + Len(queue),
                         bytes |-> dropped.bytes + Total(queue)]
          /\ UNCHANGED <<now, hand, epc, erotates, drotates, counted>>
      BY <2>8 DEF DeqFinish, evars, Total
    <3>2. Total(queue) \in Nat
      <4>1. queue \in Seq(Nat)
        BY <1>0, <2>0, SeqMonotonic
      <4> QED
        BY <4>1, SumType
    <3>3. dropped.packets + Len(queue) \in Nat /\ dropped.bytes + Total(queue) \in Nat
      BY <2>0, <3>2
    <3>4. dropped' \in [packets: Nat, bytes: Nat]
      BY <3>1, <3>3
    <3> QED
      BY <1>0, <1>2, <3>1, <3>4 DEF RangesInv
  <2>9. CASE Tick
    BY <1>0, <1>2, <2>9 DEF Tick, evars, dvars, RangesInv
  <2>10. CASE UNCHANGED vars
    BY <1>2, <2>10 DEF vars, evars, dvars, RangesInv
  <2> QED
    BY <1>2, <2>1, <2>2, <2>3, <2>4, <2>5, <2>6, <2>7, <2>8, <2>9, <2>10 DEF Next
<1> QED
  BY <1>1, <1>2, StatsInvariant, PTL DEF Spec

(* The bytes agree initially and are kept to agree: Receive adds them to   *)
(* the queue or to what was dropped, Record counts those in hand, and the  *)
(* drain drops the sum of the queue.                                       *)
LEMMA BytesInvariant == Spec => []BytesInv
<1>0. HeaderLength \in Nat /\ Sizes \subseteq Nat
  BY StatsAssumption
<1>1. Init => BytesInv
  <2> SUFFICES ASSUME Init PROVE BytesInv
    OBVIOUS
  <2>1. /\ est.bytes_received_total = 0 /\ est.packets_received_total = 0
        /\ dst.bytes_written_total = 0 /\ dpc = "read" /\ dropped.bytes = 0
        /\ queue = <<>>
    BY DEF Init, EnqueuerStatsCtor, DequeuerStatsCtor
  <2>2. Total(queue) = 0
    BY <2>1, SumEmpty
  <2> QED
    BY <1>0, <2>1, <2>2 DEF BytesInv
<1>2. ASSUME StatsInv, RangesInv, BytesInv, [Next]_vars PROVE BytesInv'
  <2>0. /\ est \in EnqStats /\ dst \in DeqStats
        /\ queue \in Seq(Nat) /\ hand \in Nat /\ dropped.bytes \in Nat
    <3>1. queue \in Seq(Sizes)
      BY <1>2 DEF StatsInv, StatsType
    <3>2. queue \in Seq(Nat)
      BY <1>0, <3>1, SeqMonotonic
    <3> QED
      BY <1>2, <3>2 DEF StatsInv, StatsType, RangesInv
  <2>1. /\ est.bytes_received_total \in Nat /\ est.packets_received_total \in Nat
        /\ dst.bytes_written_total \in Nat /\ Total(queue) \in Nat
        /\ HeaderLength * est.packets_received_total \in Nat
    <3>1. \A h, n \in Nat : h * n \in Nat
      OBVIOUS
    <3>2. est.packets_received_total \in Nat
      BY <2>0 DEF EnqStats
    <3> QED
      BY <1>0, <2>0, <3>1, <3>2, SumType DEF EnqStats, DeqStats
  <2> DEFINE taken == IF dpc = "stat" THEN hand ELSE 0
  <2>2. taken \in Nat
    BY <2>0
  <2>3. est.bytes_received_total
          = HeaderLength * est.packets_received_total + dst.bytes_written_total
              + Total(queue) + taken + dropped.bytes
    BY <1>2 DEF BytesInv
  <2> HIDE DEF taken
  <2>4. PICK e, hn, d, t, k, b \in Nat :
           /\ e = est.bytes_received_total
           /\ hn = HeaderLength * est.packets_received_total
           /\ d = dst.bytes_written_total /\ t = Total(queue) /\ k = taken
           /\ b = dropped.bytes
           /\ e = hn + d + t + k + b
    BY <2>0, <2>1, <2>2, <2>3, Zenon
  <2>5. ASSUME NEW size \in Sizes, Receive(size) PROVE BytesInv'
    <3>1. /\ est'.bytes_received_total = est.bytes_received_total + (size + HeaderLength)
          /\ est'.packets_received_total = est.packets_received_total + 1
      <4>1. size + HeaderLength \in Nat
        BY <1>0
      <4> QED
        BY <2>0, <2>5, <4>1, EnqBytes, EnqRecordCounts DEF Receive
    <3>2. UNCHANGED <<dst, dpc, hand>>
      BY <2>5 DEF Receive, dvars
    <3>3. Total(queue') \in Nat /\ dropped'.bytes \in Nat
          /\ Total(queue') + dropped'.bytes = Total(queue) + dropped.bytes + size
      <4>1. CASE queue' = Append(queue, size) /\ dropped' = dropped
        <5>1. size \in Nat
          BY <1>0
        <5>2. Total(queue') = Total(queue) + size
          BY <2>0, <4>1, <5>1, SumAppend
        <5> QED
          BY <2>0, <2>1, <4>1, <5>1, <5>2
      <4>2. CASE queue' = queue /\ dropped' = [packets |-> dropped.packets + 1,
                                              bytes |-> dropped.bytes + size]
        BY <1>0, <2>0, <2>1, <4>2
      <4> QED
        BY <2>5, <4>1, <4>2 DEF Receive
    <3>4. HeaderLength * (est.packets_received_total + 1)
            = HeaderLength * est.packets_received_total + HeaderLength
      <4>1. \A h, n \in Nat : h * (n + 1) = h * n + h
        OBVIOUS
      <4> QED
        BY <1>0, <2>1, <4>1, Zenon
    <3>5. PICK t1, b1 \in Nat : t1 = Total(queue') /\ b1 = dropped'.bytes
      BY <3>3
    <3>6. e + (size + HeaderLength) = (hn + HeaderLength) + d + t1 + k + b1
      <4>1. t1 + b1 = t + b + size /\ size \in Nat
        BY <1>0, <2>4, <3>3, <3>5
      <4> QED
        BY <1>0, <2>4, <4>1
    <3>7. taken' = taken
      BY <3>2 DEF taken
    <3>8. est'.bytes_received_total
            = HeaderLength * est'.packets_received_total + dst'.bytes_written_total
                + Total(queue') + taken' + dropped'.bytes
      BY <2>4, <3>1, <3>2, <3>4, <3>5, <3>6, <3>7
    <3> QED
      BY <3>8 DEF BytesInv, taken
  <2>6. CASE SocketError \/ EnqRotate \/ EnqFinish
    <3>1. /\ est'.bytes_received_total = est.bytes_received_total
          /\ est'.packets_received_total = est.packets_received_total
      BY <2>0, <2>6, EnqBytes, EnqErrorCounts, EnqRotateCounts
      DEF SocketError, EnqRotate, EnqFinish
    <3>2. UNCHANGED <<dst, dpc, hand, queue, dropped>>
      BY <2>6 DEF SocketError, EnqRotate, EnqFinish, dvars
    <3> QED
      BY <1>2, <3>1, <3>2 DEF BytesInv
  <2>7. CASE Take
    <3>1. /\ queue # <<>> /\ hand' = Head(queue) /\ queue' = Tail(queue)
          /\ dpc = "read" /\ dpc' = "stat" /\ UNCHANGED <<est, dst, dropped>>
      BY <2>7 DEF Take, evars
    <3>2. Total(queue) = hand' + Total(queue') /\ hand' \in Nat /\ Total(queue') \in Nat
      <4>1. Head(queue) \in Nat /\ Tail(queue) \in Seq(Nat)
        BY <2>0, <3>1
      <4> QED
        BY <2>0, <3>1, <4>1, SumHead, SumType
    <3>3. taken = 0
      BY <3>1 DEF taken
    <3>4. e = hn + d + Total(queue') + hand' + b
      BY <2>4, <3>2, <3>3
    <3> QED
      BY <2>4, <3>1, <3>4 DEF BytesInv
  <2>8. CASE Record
    <3>1. dst'.bytes_written_total = dst.bytes_written_total + hand
      <4>1. Len(queue) \in Nat
        BY <2>0
      <4> QED
        BY <2>0, <2>8, <4>1, DeqBytes DEF Record
    <3>2. dpc = "stat" /\ dpc' = "rot" /\ UNCHANGED <<est, queue, dropped>>
      BY <2>8 DEF Record, evars
    <3>3. e = hn + (d + k) + t + 0 + b /\ k = hand
      BY <2>4, <3>2 DEF taken
    <3> QED
      BY <2>4, <3>1, <3>2, <3>3 DEF BytesInv
  <2>9. CASE Write \/ DeqRotate
    <3>1. dst'.bytes_written_total = dst.bytes_written_total
      BY <2>0, <2>9, DeqBytes DEF Write, DeqRotate
    <3>2. dpc # "stat" /\ dpc' # "stat" /\ UNCHANGED <<est, queue, dropped>>
      BY <2>9 DEF Write, DeqRotate, evars
    <3> QED
      BY <1>2, <3>1, <3>2 DEF BytesInv
  <2>10. CASE DeqFinish
    <3>1. dst'.bytes_written_total = dst.bytes_written_total
      BY <2>0, <2>10, DeqBytes DEF DeqFinish
    <3>2. /\ dpc = "read" /\ dpc' = "done" /\ est' = est
          /\ queue' = <<>> /\ dropped'.bytes = dropped.bytes + Total(queue)
      BY <2>10 DEF DeqFinish, evars, Total
    <3>3. Total(queue') = 0 /\ k = 0
      BY <2>4, <3>2, SumEmpty DEF taken
    <3>4. e = hn + d + 0 + 0 + (b + t)
      BY <2>4, <3>3
    <3> QED
      BY <2>4, <3>1, <3>2, <3>3, <3>4 DEF BytesInv
  <2>11. CASE Tick
    BY <1>2, <2>11 DEF Tick, evars, dvars, BytesInv
  <2>12. CASE UNCHANGED vars
    BY <1>2, <2>12 DEF vars, evars, dvars, BytesInv
  <2> QED
    BY <1>2, <2>5, <2>6, <2>7, <2>8, <2>9, <2>10, <2>11, <2>12 DEF Next
<1> QED
  BY <1>1, <1>2, StatsInvariant, RangesInvariant, PTL DEF Spec

(* The variables have their types: the statistics never leave the natural  *)
(* numbers, and the queue never exceeds its capacity.                      *)
LEMMA StatsTypes == StatsInv /\ RangesInv => TypeOK
<1> SUFFICES ASSUME StatsInv, RangesInv PROVE TypeOK
  OBVIOUS
<1>1. /\ est \in [DOMAIN EnqueuerStatsCtor -> Nat]
      /\ dst \in [DOMAIN DequeuerStatsCtor -> Nat]
  BY DEF StatsInv, StatsType, EnqStats, DeqStats, EnqueuerStatsCtor, DequeuerStatsCtor
<1> QED
  BY <1>1 DEF StatsInv, StatsType, RangesInv, TypeOK, Clients, CountedPacket

(* The bytes of the two workers agree, header bytes aside.                 *)
LEMMA BytesTotals == StatsInv /\ RangesInv /\ BytesInv => BytesAgree
<1> SUFFICES ASSUME StatsInv, RangesInv, BytesInv PROVE BytesAgree
  OBVIOUS
<1>1. /\ est \in EnqStats /\ dst \in DeqStats /\ HeaderLength \in Nat
      /\ queue \in Seq(Nat) /\ hand \in Nat /\ dropped.bytes \in Nat
  <2>1. queue \in Seq(Sizes) /\ Sizes \subseteq Nat
    BY StatsAssumption DEF StatsInv, StatsType
  <2>2. queue \in Seq(Nat)
    BY <2>1, SeqMonotonic
  <2> QED
    BY <2>2, StatsAssumption DEF StatsInv, StatsType, RangesInv
<1>2. /\ est.bytes_received_total \in Nat /\ est.packets_received_total \in Nat
      /\ dst.bytes_written_total \in Nat /\ Total(queue) \in Nat
  BY <1>1, SumType DEF EnqStats, DeqStats
<1>3. HeaderLength * est.packets_received_total \in Nat
  <2>1. \A h, n \in Nat : h * n \in Nat
    OBVIOUS
  <2> QED
    BY <1>1, <1>2, <2>1
<1> DEFINE taken == IF dpc = "stat" THEN hand ELSE 0
<1>4. taken \in Nat
  BY <1>1
<1>5. est.bytes_received_total
        = HeaderLength * est.packets_received_total + dst.bytes_written_total
            + Total(queue) + taken + dropped.bytes
  BY DEF BytesInv
<1>6. Total(Waiting) = Total(queue) + taken
  <2>1. CASE dpc = "stat"
    BY <1>1, <2>1, SumAppend DEF Waiting
  <2>2. CASE dpc # "stat"
    BY <1>2, <2>2 DEF Waiting
  <2> QED
    BY <2>1, <2>2
<1> HIDE DEF taken
<1>7. PICK e, hn, d, t, k, b \in Nat :
        /\ e = est.bytes_received_total
        /\ hn = HeaderLength * est.packets_received_total
        /\ d = dst.bytes_written_total /\ t = Total(queue) /\ k = taken
        /\ b = dropped.bytes
        /\ e = hn + d + t + k + b
  BY <1>1, <1>2, <1>3, <1>4, <1>5, Zenon
<1>8. e - hn = d + (t + k) + b
  BY <1>7
<1>9. est.bytes_received_total - HeaderLength * est.packets_received_total
        = dst.bytes_written_total + Total(Waiting) + dropped.bytes
  BY <1>6, <1>7, <1>8
<1> QED
  BY <1>9 DEF BytesAgree, Total

(* The counters of enqueuer and dequeuer agree in packets and bytes, and   *)
(* losses stay within the packets of their period, for any queue, sizes    *)
(* and number of packets and rotations.                                    *)
THEOREM CountsCorrect == Spec => []CountsAgree
<1>1. StatsInv /\ RangesInv /\ BytesInv /\ PacketsAgree /\ LossBound => CountsAgree
  BY StatsTypes, BytesTotals DEF CountsAgree
<1> QED
  BY <1>1, StatsInvariant, RangesInvariant, BytesInvariant, PacketsCorrect,
     LossesCorrect, PTL

=============================================================================
