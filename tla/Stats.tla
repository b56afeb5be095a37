-------------------------------- MODULE Stats --------------------------------
(***************************************************************************)
(* stats.c and lwes_mondemand.c: what the journaller counts.  The structs  *)
(* enqueuer_stats and dequeuer_stats are the records est and dst, their    *)
(* functions are operators on them.  The machine calls these functions as  *)
(* the workers of the queue models do: the enqueuer counts a datagram with *)
(* its header and sends it, the dequeuer takes a message, asks the queue   *)
(* how many are left and counts it without its header, either may rotate   *)
(* its statistics between two packets.  A message is its size.             *)
(***************************************************************************)
EXTENDS Integers, Sequences, FiniteSetsExt, SequencesExt

CONSTANTS
  HeaderLength,   \* HEADER_LENGTH
  Sizes,          \* sizes of datagrams
  QueueCap,       \* messages the queue holds
  MaxPackets,     \* bound: datagrams received
  MaxErrors,      \* bound: socket errors
  MaxRotates,     \* bound: rotations of each worker's statistics
  MaxTime         \* bound: clock

ASSUME StatsAssumption ==
  /\ HeaderLength \in Nat \ {0}
  /\ Sizes \subseteq Nat
  /\ QueueCap \in Nat \ {0}
  /\ {MaxPackets, MaxErrors, MaxRotates, MaxTime} \subseteq Nat

VARIABLES
  est, dst,       \* struct enqueuer_stats, struct dequeuer_stats
  emd, dmd,       \* the workers' mondemand clients
  queue, hand,    \* messages under way, message the dequeuer has taken
  dropped,        \* packets and bytes of messages refused by the full queue
                  \* or discarded by the drain at shutdown
  now,            \* time(NULL)
  epc, dpc,       \* control points of the workers
  erotates, drotates, \* rotations so far
  counted         \* history: for each packet that the dequeuer has counted,
                  \* the bytes so far, this packet included, the messages
                  \* left, the time, and the rotations before it

evars == <<est, emd, epc, erotates>>
dvars == <<dst, dmd, dpc, hand, drotates, counted>>
vars == <<evars, dvars, queue, dropped, now>>

-----------------------------------------------------------------------------
(* lwes_mondemand.c.  The client of the mondemand library keeps the values *)
(* set last; flush sends them, and so does its destructor (the comment in  *)
(* queue_to_journal relies on it).  sum is a history: the packets of all   *)
(* periods that were sent.                                                 *)

\* create_client: none without a host and an address, or if the transport fails
CreateClient(ok) ==
  [client |-> IF ok THEN "open" ELSE "none",
   packets |-> 0, total |-> 0, sum |-> 0]

\* md_enqueuer_stats, md_dequeuer_stats
MdStats(md, since, total) ==
  IF md.client = "open" THEN [md EXCEPT !.packets = since, !.total = total]
  ELSE md

\* md_enqueuer_flush, md_dequeuer_flush
MdFlush(md) ==
  IF md.client = "open" THEN [md EXCEPT !.sum = @ + md.packets] ELSE md

\* md_enqueuer_destroy, md_dequeuer_destroy
MdDestroy(md) ==
  IF md.client = "open" THEN [MdFlush(md) EXCEPT !.client = "gone"] ELSE md

-----------------------------------------------------------------------------
(* struct enqueuer_stats *)

EnqueuerStatsCtor ==
  [socket_errors_since_last_rotate |-> 0,
   bytes_received_total |-> 0, bytes_received_since_last_rotate |-> 0,
   packets_received_total |-> 0, packets_received_since_last_rotate |-> 0]

EnqueuerStatsRecordSocketError(st) ==
  [st EXCEPT !.socket_errors_since_last_rotate = @ + 1]

EnqueuerStatsRecordDatagram(st, bytes) ==
  [st EXCEPT !.bytes_received_since_last_rotate = @ + bytes,
             !.bytes_received_total = @ + bytes,
             !.packets_received_since_last_rotate = @ + 1,
             !.packets_received_total = @ + 1]

EnqueuerStatsRotate(st) ==
  [st EXCEPT !.socket_errors_since_last_rotate = 0,
             !.bytes_received_since_last_rotate = 0,
             !.packets_received_since_last_rotate = 0]

-----------------------------------------------------------------------------
(* struct dequeuer_stats *)

DequeuerStatsCtor ==
  [loss_since_last_rotate |-> 0,
   bytes_written_total |-> 0, bytes_written_since_last_rotate |-> 0,
   packets_written_total |-> 0, packets_written_since_last_rotate |-> 0,
   bytes_written_in_burst |-> 0, packets_written_in_burst |-> 0,
   hiq |-> 0, hiq_start |-> now, hiq_last |-> 0, hiq_since_last_rotate |-> 0,
   bytes_written_in_burst_since_last_rotate |-> 0,
   packets_written_in_burst_since_last_rotate |-> 0]

MutEndBurst(st) ==
  [st EXCEPT
     !.bytes_written_in_burst_since_last_rotate = st.bytes_written_in_burst,
     !.packets_written_in_burst_since_last_rotate = st.packets_written_in_burst,
     !.hiq = 0,
     !.bytes_written_in_burst = 0]

\* the packet after which the queue is empty ends the burst
EndBurst(st) ==
  [st EXCEPT
     !.bytes_written_in_burst_since_last_rotate = st.bytes_written_in_burst,
     !.packets_written_in_burst_since_last_rotate = st.packets_written_in_burst,
     !.hiq = 0,
     !.bytes_written_in_burst = 0,
     !.packets_written_in_burst = 0]

InBurst(st, bytes, pending) ==
  [st EXCEPT
     !.hiq_last = IF st.hiq = 0 THEN st.hiq_start ELSE @,
     !.hiq_start = IF st.hiq = 0 THEN now ELSE @,
     !.hiq = IF pending > @ THEN pending ELSE @,
     !.bytes_written_in_burst = @ + bytes,
     !.packets_written_in_burst = @ + 1]

HighWater(st) ==
  [st EXCEPT !.hiq_since_last_rotate = IF st.hiq > @ THEN st.hiq ELSE @]

DequeuerStatsRecord(st, bytes, pending) ==
  LET added == [st EXCEPT !.bytes_written_since_last_rotate = @ + bytes,
                          !.bytes_written_total = @ + bytes,
                          !.packets_written_since_last_rotate = @ + 1,
                          !.packets_written_total = @ + 1]
  IN  HighWater(IF pending # 0 THEN InBurst(added, bytes, pending)
                ELSE IF st.hiq # 0 THEN EndBurst(added) ELSE added)

DequeuerStatsRecordLoss(st) == [st EXCEPT !.loss_since_last_rotate = @ + 1]

DequeuerStatsRotate(st) ==
  [st EXCEPT !.bytes_written_since_last_rotate = 0,
             !.packets_written_since_last_rotate = 0,
             !.hiq_since_last_rotate = 0,
             !.packets_written_in_burst_since_last_rotate = 0,
             !.bytes_written_in_burst_since_last_rotate = 0,
             !.loss_since_last_rotate = 0]

-----------------------------------------------------------------------------
Init ==
  /\ now = 0
  /\ est = EnqueuerStatsCtor /\ dst = DequeuerStatsCtor
  /\ \E ok \in BOOLEAN : emd = CreateClient(ok)
  /\ \E ok \in BOOLEAN : dmd = CreateClient(ok)
  /\ queue = <<>> /\ hand = 0 /\ dropped = [packets |-> 0, bytes |-> 0]
  /\ epc = "run" /\ dpc = "read"
  /\ erotates = 0 /\ drotates = 0 /\ counted = <<>>

Tick ==
  /\ now < MaxTime
  /\ now' = now + 1
  /\ UNCHANGED <<evars, dvars, queue, dropped>>

\* the enqueuer receives a datagram, counts it and sends it
Receive(size) ==
  /\ epc = "run" /\ est.packets_received_total < MaxPackets
  /\ est' = EnqueuerStatsRecordDatagram(est, size + HeaderLength)
  /\ \/ /\ Len(queue) < QueueCap
        /\ queue' = Append(queue, size)
        /\ UNCHANGED dropped
     \/ /\ Len(queue) = QueueCap
        /\ dropped' = [packets |-> dropped.packets + 1,
                       bytes |-> dropped.bytes + size]
        /\ UNCHANGED queue
  /\ UNCHANGED <<emd, epc, erotates, dvars, now>>

SocketError ==
  /\ epc = "run" /\ est.socket_errors_since_last_rotate < MaxErrors
  /\ est' = EnqueuerStatsRecordSocketError(est)
  /\ UNCHANGED <<emd, epc, erotates, dvars, queue, dropped, now>>

EnqSetStats(md) ==
  MdStats(md, est.packets_received_since_last_rotate, est.packets_received_total)

\* the statistics are reported and flushed at a rotation
EnqRotate ==
  /\ epc = "run" /\ erotates < MaxRotates
  /\ est' = EnqueuerStatsRotate(est)
  /\ emd' = MdFlush(EnqSetStats(emd))
  /\ erotates' = erotates + 1
  /\ UNCHANGED <<epc, dvars, queue, dropped, now>>

MutEnqFinish ==
  /\ epc = "run"
  /\ est' = EnqueuerStatsRotate(est)
  /\ emd' = MdDestroy(MdFlush(EnqSetStats(emd)))
  /\ epc' = "done"
  /\ UNCHANGED <<erotates, dvars, queue, dropped, now>>

\* the last rotation leaves the flush to the destructor
EnqFinish ==
  /\ epc = "run"
  /\ est' = EnqueuerStatsRotate(est)
  /\ emd' = MdDestroy(EnqSetStats(emd))
  /\ epc' = "done"
  /\ UNCHANGED <<erotates, dvars, queue, dropped, now>>

\* the receive of the queue's read
Take ==
  /\ dpc = "read" /\ queue # <<>>
  /\ hand' = Head(queue) /\ queue' = Tail(queue)
  /\ dpc' = "stat"
  /\ UNCHANGED <<dst, dmd, drotates, counted, evars, dropped, now>>

\* bytes of the first i packets counted
BytesUpTo(i) == IF i = 0 THEN 0 ELSE counted[i].bytes

MutRecord ==
  /\ dpc = "stat"
  /\ dst' = DequeuerStatsRecord(dst, hand + HeaderLength, Len(queue))
  /\ counted' = Append(counted, [bytes |-> BytesUpTo(Len(counted)) + hand,
                                 pending |-> Len(queue),
                                 time |-> now, period |-> drotates])
  /\ dpc' = "rot"
  /\ UNCHANGED <<dmd, hand, drotates, evars, queue, dropped, now>>

\* the number of messages left is asked for after the receive
Record ==
  /\ dpc = "stat"
  /\ dst' = DequeuerStatsRecord(dst, hand, Len(queue))
  /\ counted' = Append(counted, [bytes |-> BytesUpTo(Len(counted)) + hand,
                                 pending |-> Len(queue),
                                 time |-> now, period |-> drotates])
  /\ dpc' = "rot"
  /\ UNCHANGED <<dmd, hand, drotates, evars, queue, dropped, now>>

DeqSetStats(md) ==
  MdStats(md, dst.packets_written_since_last_rotate, dst.packets_written_total)

\* a rotation comes after the count of the packet and before its write, or
\* after an interrupted read
DeqRotate ==
  /\ dpc \in {"read", "rot"} /\ drotates < MaxRotates
  /\ dpc' = IF dpc = "rot" THEN "write" ELSE "read"
  /\ dst' = DequeuerStatsRotate(dst)
  /\ dmd' = MdFlush(DeqSetStats(dmd))
  /\ drotates' = drotates + 1
  /\ UNCHANGED <<hand, counted, evars, queue, dropped, now>>

Write ==
  /\ dpc \in {"rot", "write"}
  /\ \/ UNCHANGED dst
     \/ dst' = DequeuerStatsRecordLoss(dst)
  /\ dpc' = "read" /\ hand' = 0
  /\ UNCHANGED <<dmd, drotates, counted, evars, queue, dropped, now>>

\* the drain discards what is in the queue, without counting it
DeqFinish ==
  /\ dpc = "read"
  /\ dropped' = [packets |-> dropped.packets + Len(queue),
                 bytes |-> dropped.bytes + FoldLeft(+, 0, queue)]
  /\ queue' = <<>>
  /\ dst' = DequeuerStatsRotate(dst)
  /\ dmd' = MdDestroy(DeqSetStats(dmd))
  /\ dpc' = "done"
  /\ UNCHANGED <<hand, drotates, counted, evars, now>>

Next ==
  \/ Tick
  \/ \E size \in Sizes : Receive(size)
  \/ SocketError \/ EnqRotate \/ EnqFinish
  \/ Take \/ Record \/ DeqRotate \/ Write \/ DeqFinish

Spec == Init /\ [][Next]_vars

-----------------------------------------------------------------------------
(* Properties *)

TypeOK ==
  /\ now \in 0..MaxTime
  /\ est \in [DOMAIN EnqueuerStatsCtor -> Nat]
  /\ dst \in [DOMAIN DequeuerStatsCtor -> Nat]
  /\ \A md \in {emd, dmd} :
       md \in [client: {"none", "open", "gone"},
              packets: Nat, total: Nat, sum: Nat]
  /\ queue \in Seq(Sizes) /\ Len(queue) <= QueueCap
  /\ hand \in Sizes \cup {0}
  /\ dropped \in [packets: Nat, bytes: Nat]
  /\ epc \in {"run", "done"} /\ dpc \in {"read", "stat", "rot", "write", "done"}
  /\ erotates \in 0..MaxRotates /\ drotates \in 0..MaxRotates
  /\ counted \in Seq([bytes: Nat, pending: 0..QueueCap,
                      time: 0..MaxTime, period: 0..MaxRotates])

\* what the dequeuer has yet to count
Waiting == IF dpc = "stat" THEN Append(queue, hand) ELSE queue

(* Every packet that the enqueuer has counted was counted by the dequeuer, *)
(* is under way or was dropped.                                            *)
PacketsAgree ==
  est.packets_received_total
    = dst.packets_written_total + Len(Waiting) + dropped.packets

(* So was every byte; the two workers' totals differ by the headers only   *)
(* ("All byte counts represent the bytes used in the original packets",    *)
(* stats.c).                                                               *)
BytesAgree ==
  est.bytes_received_total - HeaderLength * est.packets_received_total
    = dst.bytes_written_total + FoldLeft(+, 0, Waiting) + dropped.bytes

(* Every packet is in exactly one report to mondemand: the periods sent so *)
(* far add up to the total sent last, what is missing is the current       *)
(* period, and a destructor that flushes leaves nothing out and repeats    *)
(* nothing ("so we don't get duplicate events sent to mondemand",          *)
(* queue_to_journal.c).                                                    *)
EveryPeriodSentOnce ==
  /\ emd.sum = emd.total /\ dmd.sum = dmd.total
  /\ emd.client # "none" =>
       emd.sum + est.packets_received_since_last_rotate
         = est.packets_received_total
  /\ dmd.client # "none" =>
       dmd.sum + dst.packets_written_since_last_rotate
         = dst.packets_written_total

\* positions i..j of counted belong to one burst: messages were left each time
OneBurst(i, j) == \A k \in i..j : counted[k].pending > 0

Period == {i \in DOMAIN counted : counted[i].period = drotates}

(* hiq_since_last_rotate is the longest queue seen in any burst that       *)
(* reaches into the current period, counted from the burst's start, which  *)
(* may lie before the rotation.                                            *)
HighWaterOfBursts ==
  dpc # "done" =>
    LET peaks == {counted[i].pending : i \in {k \in DOMAIN counted :
                    \E j \in Period : k <= j /\ OneBurst(k, j)}}
    IN  dst.hiq_since_last_rotate = Max(peaks \cup {0})

(* The burst in the report is the last one that ended in the period, with  *)
(* all packets that left others behind, before a rotation too, and without *)
(* the packet that emptied the queue.  (The log calls it "Highest burst    *)
(* since last rotate", stats.c; it is the latest.)                         *)
BurstOfReport ==
  LET ends == {i \in Period : i > 1 /\ counted[i].pending = 0
                               /\ counted[i - 1].pending > 0}
      burst == IF ends = {} THEN {}
               ELSE {i \in 1..(Max(ends) - 1) : OneBurst(i, Max(ends) - 1)}
  IN  dpc # "done" =>
        /\ dst.packets_written_in_burst_since_last_rotate = Cardinality(burst)
        /\ dst.bytes_written_in_burst_since_last_rotate
             = IF burst = {} THEN 0
               ELSE BytesUpTo(Max(burst)) - BytesUpTo(Min(burst) - 1)

(* hiq_start is when the latest burst started and hiq_last when the one    *)
(* before it did, the start of the program where there was none (comments  *)
(* in stats.h); a rotation restarts no burst.                              *)
BurstStarts ==
  LET first == {i \in DOMAIN counted : /\ counted[i].pending > 0
                                       /\ i > 1 => counted[i - 1].pending = 0}
      At(S) == IF S = {} THEN 0 ELSE counted[Max(S)].time
  IN  /\ dst.hiq_start = At(first)
      /\ first # {} => dst.hiq_last = At(first \ {Max(first)})

(* A packet that cannot be written is reported as lost in the period of    *)
(* the journal it was meant for, although it is counted as written in the  *)
(* period before when it came with the rotation: the losses of a period    *)
(* exceed its packets by one at most.                                      *)
LossBound ==
  dst.loss_since_last_rotate <= dst.packets_written_since_last_rotate + 1

(* The counters of the two workers agree with each other and with what was *)
(* lost between and after them.                                            *)
CountsAgree == TypeOK /\ PacketsAgree /\ BytesAgree /\ LossBound

(* What the report says of bursts and of the queue is what happened, over  *)
(* rotations in the middle of a burst too.                                 *)
BurstsReported == HighWaterOfBursts /\ BurstOfReport /\ BurstStarts

=============================================================================
