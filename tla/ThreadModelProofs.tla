-------------------------- MODULE ThreadModelProofs --------------------------
(***************************************************************************)
(* Theorems about the threaded journaller, for every queue type and        *)
(* capacity, every number of datagrams and signals and every set of calls  *)
(* that may fail.                                                          *)
(***************************************************************************)
EXTENDS ThreadModel, PipelineProofs, SequenceTheorems

USE PipelineAssumption, ThreadAssumption
USE DEF eloc, ecnt, evars, jvars, dloc, dvars, qvars, pvars,
        gvars, svars, vars

-----------------------------------------------------------------------------
(* Types, order, accounting *)

\* What a step of the threads does to the pipeline: a worker moves, with the
\* switches as they are, or nobody touches it.
LEMMA PipelineMoves ==
  ASSUME SwitchTypeOK, [Next]_vars
  PROVE  EnqWork \/ DeqWork \/ UNCHANGED pvars
<1>1. {gbl_done, gbl_rotate_enqueue, gbl_rotate_dequeue} \subseteq BOOLEAN
  BY DEF SwitchTypeOK
<1>2. CASE EnqStep \/ EnqCasOff
  BY <1>1, <1>2 DEF EnqStep, EnqWork, EnqCasOff
<1>3. CASE DeqStep \/ DeqCasOff
  BY <1>1, <1>3 DEF DeqStep, DeqWork, DeqCasOff
<1>4. CASE \/ SendHup \/ SendTerm \/ SignalThread \/ MainThread
           \/ UNCHANGED vars
  BY <1>4 DEF SendHup, SendTerm, SignalThread, SigCheck, SigTerm, SigHup,
              SigHupDequeue, MainThread, MainLoop, MainJoin
<1> QED
  BY <1>2, <1>3, <1>4 DEF Next, Running, Ended, Enqueuer, Dequeuer

\* The same, with the switches the dequeuer reads.
LEMMA StepKinds ==
  ASSUME SwitchTypeOK, [Next]_vars
  PROVE  \/ EnqWork /\ UNCHANGED <<gbl_done, gbl_rotate_dequeue, svars, mpc, nhup>>
         \/ DeqStep /\ UNCHANGED <<gvars, svars, mpc, nhup>>
         \/ DeqCasOff /\ UNCHANGED <<svars, mpc, nhup>>
         \/ UNCHANGED pvars
<1>1. {gbl_done, gbl_rotate_enqueue, gbl_rotate_dequeue} \subseteq BOOLEAN
  BY DEF SwitchTypeOK
<1>2. EnqStep \/ EnqCasOff => EnqWork
  BY <1>1 DEF EnqStep, EnqWork, EnqCasOff
<1>3. SendHup \/ SendTerm \/ SignalThread \/ MainThread \/ UNCHANGED vars
        => UNCHANGED pvars
  BY DEF SendHup, SendTerm, SignalThread, SigCheck, SigTerm, SigHup,
         SigHupDequeue, MainThread, MainLoop, MainJoin
<1> QED
  BY <1>2, <1>3 DEF Next, Running, Ended, Enqueuer, Dequeuer, EnqCasOff

\* The switches and the threads beside the workers.
ControlTypeOK == SwitchTypeOK /\ SignalTypeOK

LEMMA ControlInit == Init => ControlTypeOK
<1> SUFFICES ASSUME Init PROVE ControlTypeOK
  OBVIOUS
<1>1. SwitchTypeOK
  BY DEF Init, SwitchTypeOK
<1>2. SignalTypeOK
  BY DEF Init, SignalTypeOK
<1> QED
  BY <1>1, <1>2 DEF ControlTypeOK

LEMMA ControlNext ==
  ASSUME ControlTypeOK, [Next]_vars
  PROVE  ControlTypeOK'
<1> USE DEF ControlTypeOK, SwitchTypeOK, SignalTypeOK
<1>1. CASE SendHup \/ SendTerm
  <2>1. SwitchTypeOK'
    BY <1>1 DEF SendHup, SendTerm
  <2>2. CASE SendHup
    <3>1. nhup' \in Nat /\ sigpend' \subseteq Signals
      BY <2>2 DEF SendHup, Signals
    <3> QED
      BY <2>1, <2>2, <3>1 DEF SendHup
  <2>3. CASE SendTerm
    BY <2>1, <2>3 DEF SendTerm, Signals
  <2> QED
    BY <1>1, <2>2, <2>3
<1>2. CASE SignalThread
  BY <1>2 DEF SignalThread, SigCheck, SigTerm, SigHup, SigHupDequeue
<1>3. CASE Enqueuer \/ Dequeuer
  BY <1>3 DEF Enqueuer, Dequeuer, EnqCasOff, DeqCasOff
<1>4. CASE MainThread
  BY <1>4 DEF MainThread, MainLoop, MainJoin
<1>5. CASE UNCHANGED vars
  BY <1>5
<1> QED
  BY <1>1, <1>2, <1>3, <1>4, <1>5 DEF Next, Running, Ended

\* The inductive invariant: types, order and accounting of the pipeline.
ThreadInv == ControlTypeOK /\ AccountInv

LEMMA ThreadInit == Init => ThreadInv
  BY ControlInit, AccountInit DEF Init, ThreadInv

LEMMA ThreadNext == ThreadInv /\ [Next]_vars => ThreadInv'
  BY ControlNext, PipelineMoves, AccountStep DEF ThreadInv, ControlTypeOK

LEMMA ThreadInvHolds == Spec => []ThreadInv
  BY ThreadInit, ThreadNext, PTL DEF Spec

\* Every variable of the threaded journaller keeps its type; in particular
\* the queue never holds more than QueueMaxCnt packets, the retries of a
\* queue write never go below zero and the counter of the drain not below -1.
THEOREM TypeCorrect == Spec => []TypeOK
<1>1. ThreadInv => TypeOK
  BY DEF ThreadInv, AccountInv, OrderInv, TypeInv, TypeOK, ControlTypeOK
<1> QED
  BY <1>1, ThreadInvHolds, PTL

\* Whatever the interleaving, the losses and the failures, packets are
\* journalled in the order in which xport_to_queue received them, each at
\* most once.
THEOREM OrderCorrect == Spec => []InOrder
<1>1. ThreadInv => InOrder
  BY DEF ThreadInv, AccountInv, OrderInv
<1> QED
  BY <1>1, ThreadInvHolds, PTL

\* No packet disappears silently and none is in two places: each packet
\* xport_to_queue received is in a journal, in flight, or in exactly one of
\* the sets of packets given up.
THEOREM AccountCorrect == Spec => []Accounted
<1>1. ThreadInv => Accounted
  BY DEF ThreadInv, AccountInv
<1> QED
  BY <1>1, ThreadInvHolds, PTL

-----------------------------------------------------------------------------
(* Loss *)

\* gbl_done stays on, and until it is on no worker leaves its loop.
LEMMA DoneStays ==
  ASSUME [Next]_vars, gbl_done
  PROVE  gbl_done'
  BY DEF Next, Running, Ended, SendHup, SendTerm, SignalThread, SigCheck,
         SigTerm, SigHup, SigHupDequeue, Enqueuer, Dequeuer, EnqCasOff,
         DeqCasOff, MainThread, MainLoop, MainJoin

LEMMA LoopsLast ==
  ASSUME [Next]_vars, ~gbl_done
  PROVE  /\ epc' = "fini" => epc = "fini"
         /\ dpc' = "close" => dpc = "close"
<1>1. CASE EnqStep \/ EnqCasOff
  BY <1>1 DEF EnqStep, EnqStart, EnqStartFails, EnqCheck, EnqReceive,
              EnqInterrupted, EnqSocketError, EnqTestRotate, EnqRotateStats,
              EnqSkipWrite, EnqSend, EnqSendAgain, EnqSendFails, EnqFinish,
              EnqCasOff, EnqSwitchOff
<1>2. CASE DeqStep \/ DeqCasOff
  <2>1. epc' = epc
    BY <1>2 DEF DeqStep, DeqStart, DeqStartFails, DeqCheck, DeqReceive,
                DeqStat, DeqStatFails, DeqInterrupted, DeqReadFails,
                DeqTestRotate, DeqRotate, DeqRotateFails, DeqSkipWrite,
                DeqWrite, DeqWriteFails, DeqClose, DeqDrain, DeqDrainEnds,
                DeqFinish, DeqCasOff, DeqSwitchOff
  <2>2. dpc' # "close"
    BY <1>2 DEF DeqStep, DeqStart, DeqStartFails, DeqCheck, DeqReceive,
                DeqStat, DeqStatFails, DeqInterrupted, DeqReadFails,
                DeqTestRotate, DeqRotate, DeqRotateFails, DeqSkipWrite,
                DeqWrite, DeqWriteFails, DeqClose, DeqDrain, DeqDrainEnds,
                DeqFinish, DeqCasOff, DeqSwitchOff
  <2> QED
    BY <2>1, <2>2
<1>3. CASE UNCHANGED pvars
  BY <1>3
<1>4. EnqStep \/ EnqCasOff \/ DeqStep \/ DeqCasOff \/ UNCHANGED pvars
  BY DEF Next, Running, Ended, SendHup, SendTerm, SignalThread, SigCheck,
         SigTerm, SigHup, SigHupDequeue, Enqueuer, Dequeuer,
         MainThread, MainLoop, MainJoin
<1> QED
  BY <1>1, <1>2, <1>3, <1>4

\* What LossOnlyAtShutdown needs to be inductive: until gbl_done is set, no
\* worker has left its loop, so no destructor has run.
LossInv ==
  ~gbl_done => InLoops /\ ("journal_write" \notin Faults => unwritten = {})

LEMMA LossInit == Init => LossInv
  BY LoopsInit DEF Init, PipelineInit, LossInv

LEMMA LossNext == ThreadInv /\ LossInv /\ [Next]_vars => LossInv'
<1> SUFFICES ASSUME ThreadInv, LossInv, [Next]_vars, ~gbl_done'
             PROVE  /\ InLoops'
                    /\ "journal_write" \notin Faults => unwritten' = {}
  BY DEF LossInv
<1>1. ~gbl_done /\ InLoops /\ ("journal_write" \notin Faults => unwritten = {})
  BY DoneStays DEF LossInv
<1>2. epc' # "fini" /\ dpc' # "close"
  BY <1>1, LoopsLast DEF InLoops
<1>3. EnqWork \/ DeqWork \/ UNCHANGED pvars
  BY PipelineMoves DEF ThreadInv, ControlTypeOK
<1> QED
  BY <1>1, <1>2, <1>3, LoopsEnqWork, LoopsDeqWork, LoopsStay

LEMMA LossHolds == Spec => []LossInv
  BY LossInit, LossNext, ThreadInvHolds, PTL DEF Spec

\* Until a termination signal sets gbl_done no packet is discarded from the
\* queue, and none is lost between the queue and the journal unless the
\* write of the journal fails.
THEOREM LossCorrect == Spec => []LossOnlyAtShutdown
<1>1. LossInv => LossOnlyAtShutdown
  BY DEF LossInv, InLoops, LossOnlyAtShutdown
<1> QED
  BY <1>1, LossHolds, PTL

-----------------------------------------------------------------------------
(* Requests to rotate *)

\* Between the rotation and the step that clears the switch everything
\* written is in closed journals, unless the shutdown has begun.
ServedInv == dpc = "off" => LastCut = Len(written) \/ gbl_done

LEMMA ServedInit == Init => ServedInv
  BY DEF Init, PipelineInit, ServedInv

LEMMA ServedNext == ThreadInv /\ ServedInv /\ [Next]_vars => ServedInv'
<1> SUFFICES ASSUME ThreadInv, ServedInv, [Next]_vars, dpc' = "off", ~gbl_done'
             PROVE  LastCut' = Len(written')
  BY DEF ServedInv
<1>1. ~gbl_done
  BY DoneStays
<1>2. CASE DeqRotate(gbl_done)
  <2>1. cuts' = Append(cuts, Len(written)) /\ written' = written
    BY <1>1, <1>2 DEF DeqRotate
  <2>2. cuts \in Seq(Nat) /\ Len(written) \in Nat
    BY DEF ThreadInv, AccountInv, OrderInv, TypeInv, PipelineTypeOK,
           JournalTypeOK
  <2>3. cuts' # <<>> /\ cuts'[Len(cuts')] = Len(written)
    BY <2>1, <2>2
  <2> QED
    BY <2>1, <2>3 DEF LastCut
<1>3. CASE UNCHANGED <<dpc, cuts, written>>
  BY <1>1, <1>3 DEF ServedInv, LastCut
<1>4. CASE EnqWork
  <2>1. UNCHANGED <<dpc, cuts, written>>
    BY <1>4, TypeEnqWork DEF ThreadInv, AccountInv, OrderInv
  <2> QED
    BY <1>3, <2>1
<1>5. CASE DeqStep \/ DeqCasOff
  BY <1>2, <1>5
     DEF DeqStep, DeqStart, DeqStartFails, DeqCheck, DeqReceive, DeqStat,
         DeqStatFails, DeqInterrupted, DeqReadFails, DeqTestRotate,
         DeqRotateFails, DeqSkipWrite, DeqWrite, DeqWriteFails, DeqClose,
         DeqDrain, DeqDrainEnds, DeqFinish, DeqCasOff, DeqSwitchOff
<1> QED
  BY <1>3, <1>4, <1>5, StepKinds DEF ThreadInv, ControlTypeOK

LEMMA ServedHolds == Spec => []ServedInv
  BY ServedInit, ServedNext, ThreadInvHolds, PTL DEF Spec

\* Whatever the interleaving of the signal thread and the dequeuer, the
\* switch of a rotate request is cleared only when everything written so far
\* is in closed journals, or the shutdown has begun.
THEOREM RequestCorrect == Spec => RequestServed
<1> DEFINE Served == gbl_rotate_dequeue /\ ~gbl_rotate_dequeue'
                       => LastCut = Len(written) \/ gbl_done
<1>1. ASSUME ServedInv, [Next]_vars
      PROVE  [Served]_vars
  <2>1. SUFFICES ASSUME gbl_rotate_dequeue, ~gbl_rotate_dequeue'
                 PROVE  LastCut = Len(written) \/ gbl_done
    OBVIOUS
  <2>2. dpc = "off"
    BY <1>1, <2>1
       DEF Next, Running, Ended, SendHup, SendTerm, SignalThread, SigCheck,
           SigTerm, SigHup, SigHupDequeue, Enqueuer, Dequeuer, EnqCasOff,
           DeqCasOff, DeqSwitchOff, MainThread, MainLoop, MainJoin
  <2> QED
    BY <1>1, <2>2 DEF ServedInv
<1> QED
  BY <1>1, ServedHolds, PTL DEF Spec, RequestServed

-----------------------------------------------------------------------------
(* Reasons to rotate *)

\* A rotate signal is worth one rotation: while it is pending, while the
\* signal thread is between the two switches, and while the switch is on and
\* the dequeuer has not yet rotated for it.
Switched ==
  IF gbl_rotate_dequeue /\ dpc \notin {"off", "exit"} THEN 1 ELSE 0

Pending == IF "HUP" \in sigpend THEN 1 ELSE 0

Turning == IF spc = "hup" THEN 1 ELSE 0

\* Rotations made and still to be made, and the reasons for them.
Balance ==
  Len(cuts) + CommandHeld + Switched + Pending + Turning
    <= Taken + nhup + Closings

\* The dequeuer rotates for a command in its buffer or for the switch, or
\* passes the rotation over because the shutdown has begun.
Justified == dpc = "stats" => dbuf.rotate \/ gbl_rotate_dequeue \/ gbl_done

SpuriousInv == RotationInv /\ Justified /\ Balance

LEMMA SpuriousInit == Init => SpuriousInv
<1> SUFFICES ASSUME Init PROVE SpuriousInv
  OBVIOUS
<1>1. RotationInv /\ Taken = 0 /\ Len(cuts) = 0
  BY RotationInit DEF Init
<1>2. /\ CommandHeld = 0 /\ Switched = 0 /\ Pending = 0 /\ Turning = 0
      /\ nhup = 0 /\ Closings = 0 /\ Justified
  BY DEF Init, PipelineInit, CommandHeld, Switched, Pending, Turning,
         Closings, Justified
<1> QED
  BY <1>1, <1>2 DEF SpuriousInv, Balance

LEMMA CreditTypes ==
  /\ Switched \in {0, 1} /\ Pending \in {0, 1} /\ Turning \in {0, 1}
  /\ Closings \in {0, 1} /\ CommandHeld \in {0, 1}
  /\ Switched' \in {0, 1} /\ Pending' \in {0, 1} /\ Turning' \in {0, 1}
  /\ Closings' \in {0, 1} /\ CommandHeld' \in {0, 1}
  BY DEF Switched, Pending, Turning, Closings, CommandHeld

\* What the dequeuer does to the switch and to the signals.
LEMMA SwitchedDeq ==
  ASSUME \/ DeqStep /\ UNCHANGED <<gvars, svars, mpc, nhup>>
         \/ DeqCasOff /\ UNCHANGED <<svars, mpc, nhup>>
  PROVE  /\ Switched' <= Switched /\ (dpc = "stats" => Switched' = 0)
         /\ UNCHANGED <<sigpend, spc, nhup>>
         /\ dpc # "close" => Closings' = Closings
         /\ dpc = "close" => Closings = 0 /\ Closings' = 1
         /\ dpc = "stats" /\ gbl_done => UNCHANGED cuts
<1> USE DEF Switched, Closings
<1>1. UNCHANGED <<sigpend, spc, nhup>>
  BY DEF DeqCasOff
<1>2. CASE DeqCasOff
  BY <1>1, <1>2 DEF DeqCasOff, DeqSwitchOff
<1>3. CASE DeqStep /\ UNCHANGED gvars
  <2>1. /\ dpc = "stats" => dpc' \in {"off", "exit"}
        /\ dpc \in {"off", "exit"} => FALSE
        /\ dpc = "close" => dpc' = "drain"
        /\ dpc \in {"drain", "fini", "done"} <=> dpc' \in {"fini", "done"}
             \/ (dpc' = "drain" /\ dpc = "drain")
        /\ dpc' = "drain" => dpc \in {"close", "drain"}
        /\ dpc = "stats" /\ gbl_done => UNCHANGED cuts
    BY <1>3
       DEF DeqStep, DeqStart, DeqStartFails, DeqCheck, DeqReceive, DeqStat,
           DeqStatFails, DeqInterrupted, DeqReadFails, DeqTestRotate,
           DeqRotate, DeqRotateFails, DeqSkipWrite, DeqWrite, DeqWriteFails,
           DeqClose, DeqDrain, DeqDrainEnds, DeqFinish
  <2>2. gbl_rotate_dequeue' = gbl_rotate_dequeue
    BY <1>3
  <2> QED
    BY <1>1, <2>1, <2>2
<1> QED
  BY <1>2, <1>3

LEMMA JustifiedNext ==
  ASSUME ThreadInv, Justified, [Next]_vars
  PROVE  Justified'
<1>1. CASE dpc' = dpc /\ dbuf' = dbuf
  <2>1. dpc = "off" \/ gbl_rotate_dequeue => gbl_rotate_dequeue' \/ dpc = "off"
    BY DEF Next, Running, Ended, SendHup, SendTerm, SignalThread, SigCheck,
           SigTerm, SigHup, SigHupDequeue, Enqueuer, Dequeuer, EnqCasOff,
           DeqCasOff, DeqSwitchOff, MainThread, MainLoop, MainJoin
  <2> QED
    BY <1>1, <2>1, DoneStays DEF Justified
<1>2. CASE DeqStep /\ UNCHANGED gvars
  BY <1>2 DEF Justified, HeaderIsRotate,
           DeqStep, DeqStart, DeqStartFails, DeqCheck, DeqReceive, DeqStat,
           DeqStatFails, DeqInterrupted, DeqReadFails, DeqTestRotate,
           DeqRotate, DeqRotateFails, DeqSkipWrite, DeqWrite, DeqWriteFails,
           DeqClose, DeqDrain, DeqDrainEnds, DeqFinish
<1>3. CASE DeqCasOff
  BY <1>3 DEF Justified, DeqCasOff, DeqSwitchOff
<1>4. CASE EnqWork
  <2>1. UNCHANGED dvars
    BY <1>4, TypeEnqWork DEF ThreadInv, AccountInv, OrderInv
  <2> QED
    BY <1>1, <2>1
<1> QED
  BY <1>1, <1>2, <1>3, <1>4, StepKinds DEF ThreadInv, ControlTypeOK

\* The steps that leave the pipeline alone move signals: one that arrives is
\* one more sent, and taking it moves it on.
LEMMA SignalMoves ==
  ASSUME SignalTypeOK, [Next]_vars, UNCHANGED pvars
  PROVE  \/ /\ nhup' = nhup + 1 /\ UNCHANGED <<spc, gvars>>
         \/ /\ nhup' = nhup /\ UNCHANGED gbl_rotate_dequeue
            /\ Pending' = Pending /\ Turning' = Turning
         \/ /\ nhup' = nhup /\ UNCHANGED gbl_rotate_dequeue
            /\ Pending = 1 /\ Pending' = 0 /\ Turning = 0 /\ Turning' = 1
         \/ /\ nhup' = nhup /\ gbl_rotate_dequeue'
            /\ Pending' = Pending /\ Turning = 1 /\ Turning' = 0
         \/ DeqCasOff
<1> USE DEF Pending, Turning
<1>1. CASE SendHup
  BY <1>1 DEF SendHup
<1>2. CASE SendTerm \/ SigCheck \/ SigTerm \/ MainThread \/ UNCHANGED vars
  BY <1>2 DEF SendTerm, SigCheck, SigTerm, MainThread, MainLoop, MainJoin,
              SignalTypeOK
<1>3. CASE SigHup
  BY <1>3 DEF SigHup
<1>4. CASE SigHupDequeue
  BY <1>4 DEF SigHupDequeue
<1>5. CASE Enqueuer \/ (Dequeuer /\ ~DeqCasOff)
  BY <1>5 DEF Enqueuer, Dequeuer, EnqCasOff
<1> QED
  BY <1>1, <1>2, <1>3, <1>4, <1>5 DEF Next, Running, Ended, SignalThread,
     Dequeuer

\* In this proof the values after the step are constants: sums of primed
\* operators are beyond the solver.
LEMMA BalanceNext ==
  ASSUME ThreadInv, SpuriousInv, [Next]_vars, Len(cuts') \in Nat, Taken' \in Nat,
         nhup' \in Nat
  PROVE  Balance'
<1>1. /\ Len(cuts) \in Nat /\ Taken \in Nat /\ nhup \in Nat
      /\ dret \in {"event", "intr"}
  BY DEF SpuriousInv, RotationInv, Taken, ThreadInv, ControlTypeOK,
         SignalTypeOK, AccountInv, OrderInv, TypeInv, PipelineTypeOK, DeqTypeOK
<1>2. /\ Switched \in Nat /\ Pending \in Nat /\ Turning \in Nat
      /\ Closings \in Nat /\ CommandHeld \in Nat
      /\ Switched' \in Nat /\ Pending' \in Nat /\ Turning' \in Nat
      /\ Closings' \in Nat /\ CommandHeld' \in Nat
  BY CreditTypes
<1>3. Len(cuts) + CommandHeld + Switched + Pending + Turning
        <= Taken + nhup + Closings
  BY DEF SpuriousInv, Balance
<1>4. PICK cu \in Nat, co \in Nat, sw \in Nat, pe \in Nat, tu \in Nat,
           ta \in Nat, hu \in Nat, cl \in Nat :
             /\ cu = Len(cuts') /\ co = CommandHeld' /\ sw = Switched'
             /\ pe = Pending' /\ tu = Turning'
             /\ ta = Taken' /\ hu = nhup' /\ cl = Closings'
  BY <1>2, Zenon
<1>5. SUFFICES cu + co + sw + pe + tu <= ta + hu + cl
  BY <1>4, Zenon DEF Balance
<1>6. CASE DeqWork /\ (\/ DeqStep /\ UNCHANGED <<gvars, svars, mpc, nhup>>
                       \/ DeqCasOff /\ UNCHANGED <<svars, mpc, nhup>>)
  <2>1. RotatesNot \/ Rotates \/ Closes
    BY <1>6, RotationDeqWork DEF SpuriousInv
  <2>2. /\ Switched' <= Switched /\ (dpc = "stats" => Switched' = 0)
        /\ UNCHANGED <<sigpend, spc, nhup>>
        /\ dpc # "close" => Closings' = Closings
        /\ dpc = "close" => Closings = 0 /\ Closings' = 1
        /\ dpc = "stats" /\ gbl_done => UNCHANGED cuts
    BY <1>6, SwitchedDeq
  <2>3. pe = Pending /\ tu = Turning /\ hu = nhup /\ sw <= Switched
    BY <1>4, <2>2, Zenon DEF Pending, Turning
  <2>4. CASE RotatesNot
    <3>1. /\ cu = Len(cuts) /\ cl = Closings
          /\ Taken + co <= ta + CommandHeld
      BY <1>4, <2>2, <2>4, Zenon DEF RotatesNot
    <3> QED
      BY <1>1, <1>2, <1>3, <2>3, <3>1
  <2>5. CASE Rotates
    <3>1. /\ dpc = "stats" /\ co = 0 /\ ta = Taken /\ sw = 0 /\ cl = Closings
          /\ cu <= Len(cuts) + 1
      <4>1. dpc = "stats" /\ CommandHeld' = 0 /\ Taken' = Taken
            /\ Len(cuts') <= Len(cuts) + 1
        BY <2>5 DEF Rotates
      <4>2. Switched' = 0 /\ Closings' = Closings
        BY <2>2, <4>1
      <4> QED
        BY <1>4, <4>1, <4>2, Zenon
    <3>2. cu = Len(cuts) \/ CommandHeld = 1 \/ Switched = 1
      <4>1. CASE gbl_done
        BY <1>4, <2>2, <3>1, <4>1
      <4>2. CASE ~gbl_done /\ gbl_rotate_dequeue
        BY <3>1, <4>2 DEF Switched
      <4>3. CASE ~gbl_done /\ dbuf.rotate
        BY <1>1, <3>1, <4>3
           DEF CommandHeld, SpuriousInv, RotationInv, BufferClear
      <4> QED
        BY <3>1, <4>1, <4>2, <4>3 DEF SpuriousInv, Justified
    <3> QED
      BY <1>1, <1>2, <1>3, <2>3, <3>1, <3>2, SMTT(30)
  <2>6. CASE Closes
    <3>1. /\ CommandHeld = 0 /\ co = 0 /\ ta = Taken /\ Closings = 0 /\ cl = 1
          /\ cu <= Len(cuts) + 1
      <4>1. /\ dpc = "close" /\ CommandHeld = 0 /\ CommandHeld' = 0
            /\ Taken' = Taken /\ Len(cuts') <= Len(cuts) + 1
        BY <2>6 DEF Closes
      <4>2. Closings = 0 /\ Closings' = 1
        BY <2>2, <4>1
      <4> QED
        BY <1>4, <4>1, <4>2, Zenon
    <3> QED
      BY <1>1, <1>2, <1>3, <2>3, <3>1
  <2> QED
    BY <2>1, <2>4, <2>5, <2>6
<1>7. CASE \/ EnqWork /\ UNCHANGED <<gbl_done, gbl_rotate_dequeue, svars, mpc, nhup>>
           \/ UNCHANGED pvars /\ ~DeqCasOff
  <2>1. ta = Taken /\ cu = Len(cuts) /\ co = CommandHeld /\ dpc' = dpc
    <3>1. Taken' = Taken /\ UNCHANGED <<cuts, dpc>> /\ CommandHeld' = CommandHeld
      BY <1>7, RotationEnqWork DEF SpuriousInv
    <3> QED
      BY <1>4, <3>1
  <2>2. cl = Closings
    BY <1>4, <2>1 DEF Closings
  <2>3. gbl_rotate_dequeue' = gbl_rotate_dequeue => sw = Switched
    BY <1>4, <2>1 DEF Switched
  <2>4. CASE EnqWork /\ UNCHANGED <<gbl_done, gbl_rotate_dequeue, svars, mpc, nhup>>
    <3>1. pe = Pending /\ tu = Turning /\ hu = nhup /\ sw = Switched
      BY <1>4, <2>3, <2>4 DEF Pending, Turning
    <3> QED
      BY <1>3, <2>1, <2>2, <3>1
  <2>5. CASE nhup' = nhup + 1 /\ UNCHANGED <<spc, gvars>>
    <3>1. sw = Switched /\ tu = Turning /\ hu = nhup + 1
      BY <1>4, <2>3, <2>5 DEF Turning
    <3>2. pe <= 1
      BY <1>4, CreditTypes
    <3> QED
      BY <1>1, <1>2, <1>3, <2>1, <2>2, <3>1, <3>2
  <2>6. CASE /\ nhup' = nhup /\ UNCHANGED gbl_rotate_dequeue
             /\ Pending' = Pending /\ Turning' = Turning
    BY <1>3, <1>4, <2>1, <2>2, <2>3, <2>6
  <2>7. CASE /\ nhup' = nhup /\ UNCHANGED gbl_rotate_dequeue
             /\ Pending = 1 /\ Pending' = 0 /\ Turning = 0 /\ Turning' = 1
    <3>1. sw = Switched /\ pe = 0 /\ tu = 1 /\ hu = nhup
      BY <1>4, <2>3, <2>7
    <3> QED
      BY <1>1, <1>2, <1>3, <2>1, <2>2, <2>7, <3>1
  <2>8. CASE /\ nhup' = nhup /\ gbl_rotate_dequeue'
             /\ Pending' = Pending /\ Turning = 1 /\ Turning' = 0
    <3>1. pe = Pending /\ tu = 0 /\ hu = nhup
      BY <1>4, <2>8
    <3>2. sw <= 1
      BY <1>4, CreditTypes
    <3>3. Turning = 1
      BY <2>8
    <3> QED
      BY <1>1, <1>2, <1>3, <2>1, <2>2, <3>1, <3>2, <3>3
  <2> QED
    BY <1>7, <2>4, <2>5, <2>6, <2>7, <2>8, SignalMoves
       DEF ThreadInv, ControlTypeOK
<1>8. DeqStep \/ DeqCasOff => DeqWork
  BY DEF ThreadInv, ControlTypeOK, SwitchTypeOK, DeqStep, DeqCasOff, DeqWork
<1>9. DeqCasOff => dpc' # dpc
  BY DEF DeqCasOff, DeqSwitchOff
<1> QED
  BY <1>6, <1>7, <1>8, <1>9, StepKinds DEF ThreadInv, ControlTypeOK

LEMMA SpuriousNext == ThreadInv /\ SpuriousInv /\ [Next]_vars => SpuriousInv'
<1> SUFFICES ASSUME ThreadInv, SpuriousInv, [Next]_vars
             PROVE  SpuriousInv'
  OBVIOUS
<1>1. ThreadInv'
  BY ThreadNext
<1>2. /\ BufferClear' /\ IsFiniteSet(RotateCommandsTaken')
      /\ Len(cuts') \in Nat /\ Taken' \in Nat
  <2>1. CASE DeqWork
    BY <2>1, RotationDeqWork DEF SpuriousInv
  <2>2. CASE EnqWork \/ UNCHANGED pvars
    BY <2>2, RotationEnqWork DEF SpuriousInv, RotationInv
  <2> QED
    BY <2>1, <2>2, PipelineMoves DEF ThreadInv, ControlTypeOK
<1>3. nhup' \in Nat
  BY <1>1 DEF ThreadInv, ControlTypeOK, SignalTypeOK
<1> QED
  BY <1>1, <1>2, <1>3, BalanceNext, JustifiedNext
     DEF SpuriousInv, RotationInv, Taken, ThreadInv

\* The journal is never rotated without a reason of its own: each rotation
\* before the close at shutdown is that of one rotate command taken from the
\* queue or of one rotate signal, however signals, commands and interrupted
\* reads interleave.
THEOREM RotationsCorrect == Spec => []NoSpuriousRotation
<1>1. ThreadInv /\ SpuriousInv => NoSpuriousRotation
  <2> SUFFICES ASSUME ThreadInv, SpuriousInv PROVE NoSpuriousRotation
    OBVIOUS
  <2>1. Len(cuts) \in Nat /\ Taken \in Nat /\ nhup \in Nat
    BY DEF SpuriousInv, RotationInv, Taken, ThreadInv, ControlTypeOK,
           SignalTypeOK
  <2>2. Len(cuts) <= Taken + nhup + Closings
    BY <2>1, CreditTypes DEF SpuriousInv, Balance
  <2> QED
    BY <2>2 DEF NoSpuriousRotation, Taken
<1> QED
  BY <1>1, SpuriousInit, SpuriousNext, ThreadInvHolds, PTL DEF Spec

-----------------------------------------------------------------------------
(* The end of the queue *)

\* The enqueuer's packet is the last one received.
LastInHand == EnqHolds => ebuf.id = nrecv

\* A worker leaves its loop only once gbl_done is set; the main thread joins
\* the signal thread last.
Phases ==
  /\ epc \in {"fini", "done"} => gbl_done
  /\ dpc \in {"close", "drain", "fini", "done"} => gbl_done
  /\ mpc \in {"join_signal", "done"} => dpc = "done"

\* A queue that does not exist is empty, and a worker in its loop holds the
\* handle of the one queue there is, unless the other worker removed it.
Handles ==
  /\ ~mqLive => mq = <<>>
  /\ epc \notin {"start", "exit", "done"} =>
       eq = mqGen /\ (mqLive \/ dpc = "done")
  /\ dpc \notin {"start", "exit", "done"} =>
       dq = mqGen /\ (mqLive \/ epc = "done")

\* The enqueuer may still send a packet although gbl_done is set.
MaySend == epc \in {"read", "rot", "stats", "off", "write"}

\* The drain has as many reads left as there are packets to come, but one.
Room ==
  /\ dpc = "drain" => Len(mq) - 1 <= max /\ (MaySend => Len(mq) <= max)
  /\ dpc \in {"fini", "done"} =>
       /\ Len(mq) <= 1 /\ (MaySend => mq = <<>>)
       /\ \A e \in Range(mq) : e.id = nrecv

LeftoverInv == LastInHand /\ Phases /\ Handles /\ Room

LEMMA LeftoverInit == Init => LeftoverInv
<1> SUFFICES ASSUME Init PROVE LeftoverInv
  OBVIOUS
<1> USE DEF Init, PipelineInit
<1>1. LastInHand /\ Phases
  BY DEF LastInHand, EnqHolds, Phases
<1>2. ~mqLive => mq = <<>>
  <2>1. DOMAIN mq = 1..nrecv /\ nrecv \in Nat
    OBVIOUS
  <2>2. mq \in Seq(Event)
    BY TypeInit DEF TypeInv, PipelineTypeOK, QueueTypeOK
  <2>3. ~mqLive => nrecv = 0
    <3>1. nrecv > 0 => mqLive
      BY Zenon
    <3> HIDE DEF Init, PipelineInit
    <3> QED
      BY <2>1, <3>1
  <2>4. nrecv = 0 => mq = <<>>
    <3> SUFFICES ASSUME nrecv = 0 PROVE mq = <<>>
      OBVIOUS
    <3> HIDE DEF Init, PipelineInit
    <3>1. DOMAIN mq = 1..Len(mq) /\ Len(mq) \in Nat
      BY <2>2
    <3>2. Len(mq) = 0
      BY <2>1, <3>1
    <3> QED
      BY <2>2, <3>2
  <2> QED
    BY <2>3, <2>4
<1>3. Handles /\ Room
  BY <1>2 DEF Handles, Room
<1> QED
  BY <1>1, <1>3 DEF LeftoverInv

\* Who moves, and what the others see of it.
LEMMA WhoMoves ==
  ASSUME [Next]_vars
  PROVE  \/ (EnqStep \/ EnqSwitchOff) /\ UNCHANGED <<gbl_done, mpc>>
         \/ (DeqStep \/ DeqSwitchOff) /\ UNCHANGED <<gbl_done, mpc>>
         \/ UNCHANGED pvars
  BY DEF Next, Running, Ended, SendHup, SendTerm, SignalThread, SigCheck,
         SigTerm, SigHup, SigHupDequeue, Enqueuer, Dequeuer, EnqCasOff,
         DeqCasOff, MainThread, MainLoop, MainJoin

LEMMA LastInHandNext ==
  ASSUME ThreadInv, LastInHand, [Next]_vars
  PROVE  LastInHand'
<1>1. CASE EnqStep \/ EnqSwitchOff
  BY <1>1 DEF LastInHand, EnqHolds, EnqStep, EnqStart, EnqStartFails, EnqCheck,
              EnqReceive, EnqInterrupted, EnqSocketError, EnqTestRotate,
              EnqRotateStats, EnqSkipWrite, EnqSend, EnqSendAgain, EnqSendFails,
              EnqFinish, EnqSwitchOff
<1>2. CASE DeqWork \/ UNCHANGED pvars
  <2>1. UNCHANGED evars
    BY <1>2, TypeDeqWork DEF ThreadInv, AccountInv, OrderInv
  <2> QED
    BY <2>1 DEF LastInHand, EnqHolds
<1>3. DeqStep \/ DeqSwitchOff => DeqWork
  BY DEF ThreadInv, ControlTypeOK, SwitchTypeOK, DeqStep, DeqWork
<1> QED
  BY <1>1, <1>2, <1>3, WhoMoves

LEMMA PhasesNext ==
  ASSUME Phases, [Next]_vars
  PROVE  Phases'
<1>1. CASE (EnqStep \/ EnqSwitchOff) /\ UNCHANGED <<gbl_done, mpc>>
  <2>1. dpc' = dpc /\ (epc' \in {"fini", "done"} => gbl_done \/ epc = "fini")
    BY <1>1 DEF EnqStep, EnqStart, EnqStartFails, EnqCheck, EnqReceive,
                EnqInterrupted, EnqSocketError, EnqTestRotate, EnqRotateStats,
                EnqSkipWrite, EnqSend, EnqSendAgain, EnqSendFails, EnqFinish,
                EnqSwitchOff
  <2> QED
    BY <1>1, <2>1 DEF Phases
<1>2. CASE (DeqStep \/ DeqSwitchOff) /\ UNCHANGED <<gbl_done, mpc>>
  <2>1. /\ epc' = epc /\ dpc # "done"
        /\ dpc' \in {"close", "drain", "fini", "done"}
             => gbl_done \/ dpc \in {"close", "drain", "fini"}
    BY <1>2 DEF DeqStep, DeqStart, DeqStartFails, DeqCheck, DeqReceive, DeqStat,
                DeqStatFails, DeqInterrupted, DeqReadFails, DeqTestRotate,
                DeqRotate, DeqRotateFails, DeqSkipWrite, DeqWrite, DeqWriteFails,
                DeqClose, DeqDrain, DeqDrainEnds, DeqFinish, DeqSwitchOff
  <2> QED
    BY <1>2, <2>1 DEF Phases
<1>3. CASE UNCHANGED pvars
  <2>1. mpc' \in {"join_signal", "done"} => mpc \in {"join_signal", "done"}
                                              \/ dpc = "done"
    BY <1>3 DEF Next, Running, Ended, SendHup, SendTerm, SignalThread, SigCheck,
                SigTerm, SigHup, SigHupDequeue, Enqueuer, Dequeuer, EnqCasOff,
                DeqCasOff, MainThread, MainLoop, MainJoin
  <2> QED
    BY <1>3, <2>1, DoneStays DEF Phases
<1> QED
  BY <1>1, <1>2, <1>3, WhoMoves

\* The queue is removed, or not, by the destructor of one worker.
LEMMA HandlesDestroy ==
  ASSUME Handles, NEW h, DestroyQueue(h)
  PROVE  /\ mqGen' = mqGen /\ (~mqLive' => mq' = <<>>)
         /\ mqLive => mqLive' \/ QueueType = "msg"
  BY DEF Handles, DestroyQueue, DestroyMqueue, DestroyMsg

LEMMA HandlesNext ==
  ASSUME ThreadInv, Handles, [Next]_vars
  PROVE  Handles'
<1>0. mq \in Seq(Event) /\ mqGen \in Nat
  BY DEF ThreadInv, AccountInv, OrderInv, TypeInv, PipelineTypeOK, QueueTypeOK
<1>1. CASE EnqStart \/ DeqStart
  BY <1>1 DEF Handles, EnqStart, DeqStart, OpenQueue, OpenGen
<1>2. CASE EnqFinish
  <2>1. /\ mqGen' = mqGen /\ (~mqLive' => mq' = <<>>)
        /\ epc' = "done" /\ UNCHANGED <<dpc, dq, eq>>
    BY <1>2, HandlesDestroy DEF EnqFinish
  <2> QED
    BY <2>1 DEF Handles
<1>3. CASE DeqFinish
  <2>1. /\ mqGen' = mqGen /\ (~mqLive' => mq' = <<>>)
        /\ dpc' = "done" /\ UNCHANGED <<epc, dq, eq>>
    BY <1>3, HandlesDestroy DEF DeqFinish
  <2> QED
    BY <2>1 DEF Handles
<1>4. CASE EnqSend
  BY <1>0, <1>4 DEF Handles, EnqSend, Usable
<1>5. CASE DeqReceive \/ DeqDrain
  BY <1>0, <1>5 DEF Handles, DeqReceive, DeqDrain, TakeMessage, Usable
<1>6. CASE \/ EnqStartFails \/ EnqCheck(gbl_done)
           \/ \E rotate \in Kinds : EnqReceive(rotate)
           \/ EnqInterrupted \/ EnqSocketError
           \/ EnqTestRotate(gbl_done, gbl_rotate_enqueue)
           \/ EnqRotateStats(gbl_done)
           \/ EnqSkipWrite \/ EnqSendAgain \/ EnqSendFails \/ EnqSwitchOff
  <2>1. /\ UNCHANGED <<eq, dpc, dq, mq, mqGen, mqLive>> /\ epc' \notin {"start", "done"}
        /\ epc' = "exit" \/ epc \notin {"start", "exit", "done"}
    BY <1>6 DEF EnqStartFails, EnqCheck, EnqReceive, EnqInterrupted,
                EnqSocketError, EnqTestRotate, EnqRotateStats, EnqSkipWrite,
                EnqSendAgain, EnqSendFails, EnqSwitchOff
  <2>2. epc # "done"
    BY <1>6 DEF EnqStartFails, EnqCheck, EnqReceive, EnqInterrupted,
                EnqSocketError, EnqTestRotate, EnqRotateStats, EnqSkipWrite,
                EnqSendAgain, EnqSendFails, EnqSwitchOff
  <2> QED
    BY <2>1, <2>2 DEF Handles
<1>7. CASE \/ DeqStartFails \/ DeqCheck(gbl_done) \/ DeqStat \/ DeqStatFails
           \/ DeqInterrupted(FALSE) \/ DeqReadFails
           \/ DeqTestRotate(gbl_done, gbl_rotate_dequeue)
           \/ DeqRotate(gbl_done) \/ DeqRotateFails(gbl_done)
           \/ DeqSkipWrite \/ DeqWrite \/ DeqWriteFails
           \/ DeqClose \/ DeqDrainEnds(FALSE) \/ DeqSwitchOff
  <2>1. /\ UNCHANGED <<eq, epc, dq, mq, mqGen, mqLive>> /\ dpc' \notin {"start", "done"}
        /\ dpc' = "exit" \/ dpc \notin {"start", "exit", "done"}
    BY <1>7 DEF DeqStartFails, DeqCheck, DeqStat, DeqStatFails, DeqInterrupted,
                DeqReadFails, DeqTestRotate, DeqRotate, DeqRotateFails,
                DeqSkipWrite, DeqWrite, DeqWriteFails, DeqClose, DeqDrainEnds,
                DeqSwitchOff
  <2>2. dpc # "done"
    BY <1>7 DEF DeqStartFails, DeqCheck, DeqStat, DeqStatFails, DeqInterrupted,
                DeqReadFails, DeqTestRotate, DeqRotate, DeqRotateFails,
                DeqSkipWrite, DeqWrite, DeqWriteFails, DeqClose, DeqDrainEnds,
                DeqSwitchOff
  <2> QED
    BY <2>1, <2>2 DEF Handles
<1>8. CASE UNCHANGED pvars
  BY <1>8 DEF Handles
<1> QED
  BY <1>1, <1>2, <1>3, <1>4, <1>5, <1>6, <1>7, <1>8, WhoMoves
     DEF EnqStep, DeqStep

\* A queue that is destroyed is empty or as it was.
LEMMA RoomDestroy ==
  ASSUME Room, NEW h, DestroyQueue(h), UNCHANGED <<nrecv, max>>,
         MaySend' => MaySend, dpc' = dpc \/ (dpc = "fini" /\ dpc' = "done"),
         max \in Int, dpc = "drain" => max >= 0
  PROVE  Room'
<1>1. mq' = mq \/ mq' = <<>>
  BY DEF DestroyQueue, DestroyMqueue, DestroyMsg
<1> QED
  BY <1>1 DEF Room, Range

LEMMA RoomNext ==
  ASSUME ThreadInv, LeftoverInv, [Next]_vars
  PROVE  Room'
<1>1. /\ mq \in Seq(Event) /\ Len(mq) <= QueueMaxCnt /\ max \in Int
      /\ dpc = "drain" => max >= 0
  BY DEF ThreadInv, AccountInv, OrderInv, TypeInv, PipelineTypeOK, QueueTypeOK,
         DeqTypeOK
<1>2. LastInHand /\ Phases /\ Handles /\ Room
  BY DEF LeftoverInv
<1>3. CASE dpc' \notin {"drain", "fini", "done"}
  BY <1>3 DEF Room
<1>4. CASE EnqSend
  <2>1. /\ mq' = Append(mq, ebuf) /\ MaySend /\ ~MaySend' /\ ebuf.id = nrecv
        /\ UNCHANGED <<dpc, max, nrecv>>
    BY <1>2, <1>4 DEF EnqSend, MaySend, LastInHand, EnqHolds
  <2>2. Len(mq') = Len(mq) + 1
    BY <1>1, <2>1
  <2>3. mq = <<>> => Range(mq') = {ebuf}
    <3> SUFFICES ASSUME mq = <<>> PROVE Range(mq') = {ebuf}
      OBVIOUS
    <3>1. Len(mq') = 1 /\ mq'[1] = ebuf /\ DOMAIN mq' = 1..1
      BY <2>1
    <3> QED
      BY <3>1 DEF Range
  <2>4. dpc = "drain" => Len(mq') - 1 <= max
    BY <1>1, <1>2, <2>1, <2>2 DEF Room
  <2>5. dpc \in {"fini", "done"} => mq = <<>> /\ Len(mq') <= 1
    BY <1>1, <1>2, <2>1, <2>2 DEF Room
  <2> QED
    BY <2>1, <2>3, <2>4, <2>5 DEF Room
<1>5. CASE \/ EnqStart \/ EnqStartFails \/ EnqCheck(gbl_done)
           \/ EnqInterrupted \/ EnqSocketError
           \/ EnqTestRotate(gbl_done, gbl_rotate_enqueue)
           \/ EnqRotateStats(gbl_done)
           \/ EnqSkipWrite \/ EnqSendAgain \/ EnqSendFails \/ EnqSwitchOff
  <2>1. UNCHANGED <<mq, nrecv, dpc, max>>
    BY <1>5 DEF EnqStart, OpenQueue, EnqStartFails, EnqCheck, EnqInterrupted,
                EnqSocketError, EnqTestRotate, EnqRotateStats, EnqSkipWrite,
                EnqSendAgain, EnqSendFails, EnqSwitchOff
  <2>2. MaySend' => MaySend \/ (epc = "check" /\ ~gbl_done)
    BY <1>5 DEF EnqStart, EnqStartFails, EnqCheck, EnqInterrupted,
                EnqSocketError, EnqTestRotate, EnqRotateStats, EnqSkipWrite,
                EnqSendAgain, EnqSendFails, EnqSwitchOff, MaySend
  <2>3. dpc \in {"drain", "fini", "done"} => (MaySend' => MaySend)
    BY <1>2, <2>2 DEF Phases
  <2> QED
    BY <1>2, <2>1, <2>3 DEF Room
<1>6. CASE \E rotate \in Kinds : EnqReceive(rotate)
  <2>1. MaySend /\ UNCHANGED <<mq, dpc, max>>
    BY <1>6 DEF EnqReceive, MaySend
  <2>2. dpc \in {"fini", "done"} => Range(mq) = {}
    BY <1>2, <2>1 DEF Room, Range
  <2> QED
    BY <1>2, <2>1, <2>2 DEF Room
<1>7. CASE EnqFinish
  <2>1. /\ DestroyQueue(eq) /\ UNCHANGED <<nrecv, max, dpc>> /\ ~MaySend'
    BY <1>7 DEF EnqFinish, MaySend
  <2> QED
    BY <1>1, <1>2, <2>1, RoomDestroy
<1>8. CASE DeqClose
  <2>1. dpc' = "drain" /\ max' = QueueMaxCnt /\ mq' = mq
    BY <1>8 DEF DeqClose
  <2> QED
    BY <1>1, <2>1 DEF Room
<1>9. CASE DeqDrain
  <2>1. /\ dpc = "drain" /\ mq # <<>> /\ mq' = Tail(mq) /\ max' = max - 1
        /\ dpc' = IF max = 0 THEN "fini" ELSE "drain"
        /\ UNCHANGED <<epc, nrecv>>
    BY <1>9 DEF DeqDrain, TakeMessage
  <2>2. /\ mq' \in Seq(Event) /\ Len(mq') = Len(mq) - 1
        /\ Len(mq) \in Nat /\ Len(mq') \in Nat
    BY <1>1, <2>1, TakeType
  <2>3. MaySend' = MaySend
    BY <2>1 DEF MaySend
  <2>4. CASE max = 0
    <3>1. Len(mq) <= 1
      BY <1>2, <2>1, <2>4 DEF Room
    <3>2. Len(mq') = 0
      BY <2>2, <3>1
    <3>3. mq' = <<>> /\ Range(mq') = {}
      BY <2>2, <3>2 DEF Range
    <3>4. dpc' = "fini"
      BY <2>1, <2>4
    <3> QED
      BY <3>2, <3>3, <3>4 DEF Room
  <2>5. CASE max # 0
    <3>1. Len(mq) - 1 <= max /\ (MaySend => Len(mq) <= max)
      BY <1>2, <2>1 DEF Room
    <3>2. Len(mq') - 1 <= max' /\ (MaySend' => Len(mq') <= max')
      <4>1. max' = max - 1
        BY <2>1
      <4>2. Len(mq) - 1 <= max => Len(mq') - 1 <= max'
        BY <1>1, <2>2, <4>1
      <4>3. Len(mq) <= max => Len(mq') <= max'
        BY <1>1, <2>2, <4>1
      <4> QED
        BY <2>3, <3>1, <4>2, <4>3, Zenon
    <3>3. dpc' = "drain"
      BY <2>1, <2>5
    <3> QED
      BY <3>2, <3>3 DEF Room
  <2> QED
    BY <2>4, <2>5
<1>10. CASE DeqDrainEnds(FALSE)
  <2>1. dpc = "drain" /\ dpc' = "fini" /\ UNCHANGED <<mq, epc, nrecv>>
    BY <1>10 DEF DeqDrainEnds
  <2>2. mq = <<>>
    BY <1>2, <1>10, <2>1 DEF DeqDrainEnds, MqueueInterrupted, MsgInterrupted,
                             MsgFails, Usable, Handles
  <2> QED
    BY <2>1, <2>2 DEF Room, Range
<1>11. CASE DeqFinish
  <2>1. /\ DestroyQueue(dq) /\ UNCHANGED <<nrecv, max>> /\ MaySend' = MaySend
        /\ dpc = "fini" /\ dpc' = "done"
    BY <1>11 DEF DeqFinish, MaySend
  <2> QED
    BY <1>1, <1>2, <2>1, RoomDestroy
<1>12. CASE UNCHANGED pvars
  BY <1>2, <1>12 DEF Room, MaySend
<1>13. CASE DeqStep \/ DeqSwitchOff
  BY <1>3, <1>8, <1>9, <1>10, <1>11, <1>13
     DEF DeqStep, DeqStart, DeqStartFails, DeqCheck, DeqReceive, DeqStat,
         DeqStatFails, DeqInterrupted, DeqReadFails, DeqTestRotate, DeqRotate,
         DeqRotateFails, DeqSkipWrite, DeqWrite, DeqWriteFails, DeqSwitchOff
<1> QED
  BY <1>4, <1>5, <1>6, <1>7, <1>12, <1>13, WhoMoves DEF EnqStep

LEMMA LeftoverNext == ThreadInv /\ LeftoverInv /\ [Next]_vars => LeftoverInv'
  BY LastInHandNext, PhasesNext, HandlesNext, RoomNext DEF LeftoverInv

LEMMA LeftoverHolds == Spec => []LeftoverInv
  BY LeftoverInit, LeftoverNext, ThreadInvHolds, PTL DEF Spec

\* Whatever the capacity of the queue, an orderly shutdown leaves at most
\* one packet in it for the next run, and that is the last one received.
THEOREM LeftoverCorrect == Spec => []LeftoverBound
<1>1. LeftoverInv => LeftoverBound
  BY DEF LeftoverInv, Phases, Room, LeftoverBound, AllJoined
<1> QED
  BY <1>1, LeftoverHolds, PTL

-----------------------------------------------------------------------------
(* Reports *)

\* What the dequeuer has reported or will report next.
Reported == LastReport + dsince

\* Every packet counted, or all but the one forgotten at the removal of a
\* System V queue: after that the dequeuer reads no other.
Even ==
  Reported = Counted /\ ("journal_write" \notin Faults => unwritten = {})

Odd ==
  /\ QueueType = "msg" /\ gbl_done
  /\ dpc \in {"check", "close", "drain", "fini", "done"}
  /\ Reported + 1 = Counted
  /\ "journal_write" \notin Faults => Cardinality(unwritten) = 1

\* Reports and closed journals come in pairs, but for the last journal, which
\* is closed before the drain and reported after it.
Paired ==
  /\ dpc \notin {"drain", "fini", "done", "exit"} => Len(cuts) = Len(reports)
  /\ dpc \in {"drain", "fini"} =>
       \/ Len(cuts) = Len(reports)
       \/ Len(cuts) = Len(reports) + 1 /\ LastCut = Len(written)

Follow(r, c) == \A k \in DOMAIN c \cap DOMAIN r : r[k] - c[k] \in {0, 1}

ReportsInv ==
  /\ ereported + esince = nrecv
  /\ IsFiniteSet(unwritten)
  /\ Even \/ Odd
  /\ Paired
  /\ "journal_write" \notin Faults => Follow(reports, cuts)

LEMMA ReportsInit == Init => ReportsInv
<1> SUFFICES ASSUME Init PROVE ReportsInv
  OBVIOUS
<1>1. /\ written = <<>> /\ cuts = <<>> /\ reports = <<>> /\ unwritten = {}
      /\ dsince = 0 /\ esince = 0 /\ ereported = nrecv /\ nrecv \in Nat
      /\ dpc = "start" /\ dret = "intr"
  BY DEF Init, PipelineInit
<1>2. IsFiniteSet(unwritten) /\ Cardinality(unwritten) = 0
  BY <1>1, FS_EmptySet
<1>3. Even
  BY <1>1, <1>2 DEF Even, Reported, LastReport, Counted, InHand, DeqHolds
<1>4. Paired /\ Follow(reports, cuts)
  BY <1>1 DEF Paired, Follow
<1>5. ereported + esince = nrecv
  BY <1>1
<1> QED
  BY <1>2, <1>3, <1>4, <1>5 DEF ReportsInv

LEMMA CountTypes ==
  ASSUME ThreadInv, IsFiniteSet(unwritten)
  PROVE  /\ LastReport \in Nat /\ dsince \in Nat /\ Reported \in Nat
         /\ Cardinality(unwritten) \in Nat /\ Len(written) \in Nat
         /\ InHand \in {0, 1} /\ Counted \in Nat
         /\ reports \in Seq(Nat) /\ cuts \in Seq(Nat)
<1>1. /\ reports \in Seq(Nat) /\ cuts \in Seq(Nat) /\ dsince \in Nat
      /\ written \in Seq(Event)
  BY DEF ThreadInv, AccountInv, OrderInv, TypeInv, PipelineTypeOK, JournalTypeOK
<1>2. LastReport \in Nat
  BY <1>1, LastReportType
<1>3. Cardinality(unwritten) \in Nat
  BY FS_CardinalityType
<1>4. Len(written) \in Nat
  BY <1>1
<1>5. InHand \in {0, 1}
  BY DEF InHand
<1>6. Reported \in Nat
  BY <1>1, <1>2 DEF Reported
<1>7. Counted \in Nat
  BY <1>3, <1>4, <1>5 DEF Counted
<1> QED
  BY <1>1, <1>2, <1>3, <1>4, <1>5, <1>6, <1>7

\* The last element of a sequence of reports just extended.
LEMMA ReportAppended ==
  ASSUME reports \in Seq(Nat), LastReport \in Nat, dsince \in Nat,
         DeqStatsRotate
  PROVE  Reported' = Reported /\ LastReport' = Reported
<1>1. reports' = Append(reports, LastReport + dsince) /\ dsince' = 0
  BY DEF DeqStatsRotate
<1>2. /\ reports' # <<>>
      /\ reports'[Len(reports')] = LastReport + dsince
  BY <1>1
<1>3. LastReport' = LastReport + dsince
  BY <1>2 DEF LastReport
<1>4. Reported' = (LastReport + dsince) + 0
  BY <1>1, <1>3 DEF Reported
<1> QED
  BY <1>3, <1>4 DEF Reported

\* What a step of the dequeuer does to what is reported and what is counted.
Same ==
  /\ Reported' = Reported /\ Counted' = Counted
  /\ "journal_write" \notin Faults => unwritten' = unwritten

CountsOne ==
  /\ dpc = "stat"
  /\ Reported' = Reported + 1 /\ Counted' = Counted + 1
  /\ unwritten' = unwritten

Forgets ==
  /\ QueueType = "msg" /\ gbl_done /\ dpc = "stat" /\ dpc' = "check"
  /\ Reported' = Reported /\ Counted' = Counted + 1
  /\ Cardinality(unwritten') = Cardinality(unwritten) + 1

LEMMA CountsNext ==
  ASSUME ThreadInv, LeftoverInv, IsFiniteSet(unwritten), DeqStep \/ DeqSwitchOff
  PROVE  IsFiniteSet(unwritten') /\ (Same \/ CountsOne \/ Forgets)
<1>1. /\ LastReport \in Nat /\ dsince \in Nat /\ Reported \in Nat
      /\ Cardinality(unwritten) \in Nat /\ Len(written) \in Nat
      /\ InHand \in {0, 1} /\ Counted \in Nat
      /\ reports \in Seq(Nat) /\ written \in Seq(Event)
  BY CountTypes DEF ThreadInv, AccountInv, OrderInv, TypeInv, PipelineTypeOK,
                    JournalTypeOK
<1>2. /\ dpc = "stat" => dret = "event"
      /\ dpc = "start" => dret = "intr"
      /\ DeqHolds => dbuf \notin unwritten
  BY HeldIsNew DEF ThreadInv, AccountInv, OrderInv
<1>3. IsFiniteSet(unwritten \cup {dbuf})
  BY FS_AddElement
<1>4. DeqHolds => Cardinality(unwritten \cup {dbuf}) = Cardinality(unwritten) + 1
  BY <1>2, FS_AddElement
<1>5. CASE \/ DeqStart \/ DeqStartFails \/ DeqCheck(gbl_done) \/ DeqReceive
           \/ DeqInterrupted(FALSE) \/ DeqReadFails
           \/ DeqTestRotate(gbl_done, gbl_rotate_dequeue) \/ DeqSkipWrite
           \/ DeqClose \/ DeqDrain \/ DeqDrainEnds(FALSE) \/ DeqSwitchOff
  <2>1. UNCHANGED <<written, unwritten, reports, dsince>>
    BY <1>5 DEF DeqStart, DeqStartFails, DeqCheck, DeqReceive, DeqInterrupted,
                DeqReadFails, DeqTestRotate, DeqSkipWrite, DeqClose, DeqDrain,
                DeqDrainEnds, DeqSwitchOff
  <2>2. InHand' = InHand
    BY <1>2, <1>5
       DEF DeqStart, DeqStartFails, DeqCheck, DeqReceive, DeqInterrupted,
           DeqReadFails, DeqTestRotate, DeqSkipWrite, DeqClose, DeqDrain,
           DeqDrainEnds, DeqSwitchOff, InHand, DeqHolds
  <2>3. Same
    BY <2>1, <2>2 DEF Same, Reported, LastReport, Counted
  <2> QED
    BY <2>1, <2>3
<1>6. CASE DeqRotate(gbl_done) \/ DeqRotateFails(gbl_done) \/ DeqFinish
  <2>1. /\ UNCHANGED <<written, unwritten>>
        /\ DeqStatsRotate \/ UNCHANGED <<reports, dsince>>
    BY <1>6 DEF DeqRotate, DeqRotateFails, DeqFinish
  <2>2. InHand' = InHand
    BY <1>6 DEF DeqRotate, DeqRotateFails, DeqFinish, InHand, DeqHolds
  <2>3. Reported' = Reported
    <3>1. CASE DeqStatsRotate
      BY <1>1, <3>1, ReportAppended
    <3>2. CASE UNCHANGED <<reports, dsince>>
      BY <3>2 DEF Reported, LastReport
    <3> QED
      BY <2>1, <3>1, <3>2
  <2>4. Same
    BY <2>1, <2>2, <2>3 DEF Same, Counted
  <2> QED
    BY <2>1, <2>4
<1>7. CASE DeqStat
  <2>1. /\ dpc = "stat" /\ dsince' = dsince + 1
        /\ UNCHANGED <<written, unwritten, reports>>
    BY <1>7 DEF DeqStat
  <2>2. InHand = 0 /\ InHand' = 1
    BY <1>2, <1>7 DEF DeqStat, InHand, DeqHolds
  <2>3. LastReport' = LastReport
    BY <2>1 DEF LastReport
  <2>4. Reported' = Reported + 1
    <3>1. Reported' = LastReport + (dsince + 1)
      BY <2>1, <2>3 DEF Reported
    <3> QED
      BY <1>1, <3>1 DEF Reported
  <2>5. Counted' = Counted + 1
    <3>1. Counted' = Len(written) + Cardinality(unwritten) + 1
      BY <2>1, <2>2 DEF Counted
    <3>2. Counted = Len(written) + Cardinality(unwritten) + 0
      BY <2>2 DEF Counted
    <3> QED
      BY <1>1, <3>1, <3>2
  <2> QED
    BY <2>1, <2>4, <2>5 DEF CountsOne
<1>8. CASE DeqStatFails
  <2>1. /\ dpc = "stat" /\ dpc' = "check" /\ unwritten' = unwritten \cup {dbuf}
        /\ UNCHANGED <<written, reports, dsince>> /\ MsgFails(dq)
    BY <1>8 DEF DeqStatFails
  <2>2. InHand = 0 /\ InHand' = 0 /\ DeqHolds
    BY <1>2, <2>1 DEF InHand, DeqHolds
  <2>3. QueueType = "msg" /\ gbl_done
    BY <2>1 DEF MsgFails, Usable, LeftoverInv, Handles, Phases
  <2>4. Reported' = Reported
    BY <2>1 DEF Reported, LastReport
  <2>5. Cardinality(unwritten') = Cardinality(unwritten) + 1
    BY <1>4, <2>1, <2>2
  <2>6. Counted' = Counted + 1
    <3>1. Counted' = Len(written) + (Cardinality(unwritten) + 1) + 0
      BY <2>1, <2>2, <2>5 DEF Counted
    <3>2. Counted = Len(written) + Cardinality(unwritten) + 0
      BY <2>2 DEF Counted
    <3> QED
      BY <1>1, <3>1, <3>2
  <2> QED
    BY <1>3, <2>1, <2>3, <2>4, <2>5, <2>6 DEF Forgets
<1>9. CASE DeqWrite \/ DeqWriteFails
  <2>1. UNCHANGED <<reports, dsince>>
    BY <1>9 DEF DeqWrite, DeqWriteFails
  <2>2. InHand = 1 /\ InHand' = 0 /\ DeqHolds
    BY <1>9 DEF DeqWrite, DeqWriteFails, InHand, DeqHolds
  <2>3. Counted = Len(written) + Cardinality(unwritten) + 1
    BY <2>2 DEF Counted
  <2>4. CASE DeqWrite
    <3>1. written' = Append(written, dbuf) /\ unwritten' = unwritten
      BY <2>4 DEF DeqWrite
    <3>2. Len(written') = Len(written) + 1
      BY <1>1, <3>1
    <3>3. Counted' = (Len(written) + 1) + Cardinality(unwritten) + 0
      BY <2>2, <3>1, <3>2 DEF Counted
    <3>4. Counted' = Counted
      BY <1>1, <2>3, <3>3
    <3> QED
      BY <2>1, <3>1, <3>4 DEF Same, Reported, LastReport
  <2>5. CASE DeqWriteFails
    <3>1. /\ unwritten' = unwritten \cup {dbuf} /\ written' = written
          /\ "journal_write" \in Faults
      BY <2>5 DEF DeqWriteFails
    <3>2. Cardinality(unwritten') = Cardinality(unwritten) + 1
      BY <1>4, <2>2, <3>1
    <3>3. Counted' = Len(written) + (Cardinality(unwritten) + 1) + 0
      BY <2>2, <3>1, <3>2 DEF Counted
    <3>4. Counted' = Counted
      BY <1>1, <2>3, <3>3
    <3> QED
      BY <1>3, <2>1, <3>1, <3>4 DEF Same, Reported, LastReport
  <2> QED
    BY <1>9, <2>4, <2>5
<1> QED
  BY <1>5, <1>6, <1>7, <1>8, <1>9 DEF DeqStep

\* After the shutdown has begun a dequeuer that is not in the middle of its
\* loop does not read another packet.
LEMMA OddStays ==
  ASSUME gbl_done, DeqStep \/ DeqSwitchOff,
         dpc \in {"check", "close", "drain", "fini", "done"}
  PROVE  dpc' \in {"check", "close", "drain", "fini", "done"}
  BY DEF DeqStep, DeqStart, DeqStartFails, DeqCheck, DeqReceive, DeqStat,
         DeqStatFails, DeqInterrupted, DeqReadFails, DeqTestRotate, DeqRotate,
         DeqRotateFails, DeqSkipWrite, DeqWrite, DeqWriteFails, DeqClose,
         DeqDrain, DeqDrainEnds, DeqFinish, DeqSwitchOff

LEMMA EvenOddNext ==
  ASSUME ThreadInv, LeftoverInv, ReportsInv, DeqStep \/ DeqSwitchOff,
         gbl_done' = gbl_done
  PROVE  IsFiniteSet(unwritten') /\ (Even' \/ Odd')
<1>1. /\ IsFiniteSet(unwritten') /\ (Same \/ CountsOne \/ Forgets)
      /\ Reported \in Nat /\ Counted \in Nat
  BY CountsNext, CountTypes DEF ReportsInv
<1>2. CASE Same /\ Even
  <2>1. Reported' = Counted'
    BY <1>2 DEF Same, Even
  <2>2. "journal_write" \notin Faults => unwritten' = {}
    BY <1>2 DEF Same, Even
  <2> QED
    BY <1>1, <2>1, <2>2 DEF Even
<1>3. CASE Same /\ Odd
  <2>1. Reported' + 1 = Counted'
    BY <1>3 DEF Same, Odd
  <2>2. dpc' \in {"check", "close", "drain", "fini", "done"}
    BY <1>3, OddStays DEF Odd
  <2>3. "journal_write" \notin Faults => Cardinality(unwritten') = 1
    BY <1>3 DEF Same, Odd
  <2> QED
    BY <1>1, <1>3, <2>1, <2>2, <2>3 DEF Odd
<1>4. CASE CountsOne
  <2>1. Even
    BY <1>4 DEF CountsOne, ReportsInv, Odd
  <2>2. Reported' = Counted'
    BY <1>4, <2>1 DEF CountsOne, Even
  <2> QED
    BY <1>1, <1>4, <2>1, <2>2 DEF CountsOne, Even
<1>5. CASE Forgets
  <2>1. Even
    BY <1>5 DEF Forgets, ReportsInv, Odd
  <2>2. Reported' + 1 = Counted'
    BY <1>5, <2>1 DEF Forgets, Even
  <2>3. "journal_write" \notin Faults => Cardinality(unwritten') = 1
    <3> SUFFICES ASSUME "journal_write" \notin Faults
                 PROVE  Cardinality(unwritten') = 1
      OBVIOUS
    <3>1. unwritten = {}
      BY <2>1 DEF Even
    <3>2. Cardinality(unwritten) = 0
      BY <3>1, FS_EmptySet
    <3> QED
      BY <1>5, <3>2 DEF Forgets
  <2> QED
    BY <1>1, <1>5, <2>2, <2>3 DEF Forgets, Odd
<1> QED
  BY <1>1, <1>2, <1>3, <1>4, <1>5 DEF ReportsInv

\* What was counted when no journal write fails.
LEMMA ReportedIsWritten ==
  ASSUME ThreadInv, ReportsInv, "journal_write" \notin Faults
  PROVE  Reported = Len(written) + InHand
<1>1. /\ Reported \in Nat /\ Len(written) \in Nat /\ InHand \in {0, 1}
      /\ Counted = Len(written) + Cardinality(unwritten) + InHand
  BY CountTypes DEF ReportsInv, Counted
<1>2. CASE Even
  <2>1. Cardinality(unwritten) = 0
    BY <1>2, FS_EmptySet DEF Even
  <2>2. Reported = Counted
    BY <1>2 DEF Even
  <2> QED
    BY <1>1, <2>1, <2>2
<1>3. CASE Odd
  <2>1. Cardinality(unwritten) = 1 /\ Reported + 1 = Counted
    BY <1>3 DEF Odd
  <2> QED
    BY <1>1, <2>1
<1> QED
  BY <1>2, <1>3 DEF ReportsInv

LEMMA FollowAppend ==
  ASSUME NEW r \in Seq(Nat), NEW c \in Seq(Nat), NEW x \in Nat, NEW y \in Nat,
         Follow(r, c), Len(r) = Len(c), x - y \in {0, 1}
  PROVE  Follow(Append(r, x), Append(c, y))
<1> DEFINE s == Append(r, x)
           d == Append(c, y)
<1>1. /\ DOMAIN s = 1..(Len(r) + 1) /\ DOMAIN d = 1..(Len(r) + 1)
      /\ DOMAIN r = 1..Len(r) /\ DOMAIN c = 1..Len(r) /\ Len(r) \in Nat
      /\ s[Len(r) + 1] = x /\ d[Len(r) + 1] = y
      /\ \A k \in 1..Len(r) : s[k] = r[k] /\ d[k] = c[k]
  OBVIOUS
<1> HIDE DEF s, d
<1>2. ASSUME NEW k \in 1..(Len(r) + 1)
      PROVE  s[k] - d[k] \in {0, 1}
  <2>1. CASE k = Len(r) + 1
    BY <1>1, <2>1
  <2>2. CASE k \in 1..Len(r)
    BY <1>1, <2>2 DEF Follow
  <2> QED
    BY <1>1, <2>1, <2>2
<1>3. Follow(s, d)
  BY <1>1, <1>2 DEF Follow
<1> QED
  BY <1>3 DEF s, d

\* One sequence alone grows: past the other, or to its length.
LEMMA FollowReport ==
  ASSUME NEW r \in Seq(Nat), NEW c \in Seq(Nat), NEW x \in Nat,
         Follow(r, c),
         \/ Len(c) = Len(r)
         \/ Len(c) = Len(r) + 1 /\ c[Len(c)] = x
  PROVE  Follow(Append(r, x), c)
<1> DEFINE s == Append(r, x)
<1>1. /\ Len(r) \in Nat /\ Len(c) \in Nat
      /\ DOMAIN s = 1..(Len(r) + 1) /\ DOMAIN c = 1..Len(c)
      /\ DOMAIN r = 1..Len(r)
      /\ s[Len(r) + 1] = x
      /\ \A k \in 1..Len(r) : s[k] = r[k]
  OBVIOUS
<1>2. CASE Len(c) = Len(r)
  <2> HIDE DEF s
  <2>1. ASSUME NEW k \in DOMAIN c \cap DOMAIN s
        PROVE  s[k] - c[k] \in {0, 1}
    <3>1. k \in 1..Len(r)
      BY <1>1, <1>2, <2>1
    <3> QED
      BY <1>1, <1>2, <3>1 DEF Follow
  <2> QED
    BY <2>1 DEF Follow, s
<1>3. CASE Len(c) = Len(r) + 1 /\ c[Len(c)] = x
  <2> HIDE DEF s
  <2>1. ASSUME NEW k \in DOMAIN c \cap DOMAIN s
        PROVE  s[k] - c[k] \in {0, 1}
    <3>1. k \in 1..Len(r) \/ k = Len(c)
      <4>1. k \in 1..(Len(r) + 1)
        BY <1>1, <2>1
      <4> QED
        BY <1>1, <1>3, <4>1
    <3>2. CASE k \in 1..Len(r)
      BY <1>1, <1>3, <3>2 DEF Follow
    <3>3. CASE k = Len(c)
      BY <1>1, <1>3, <3>3
    <3> QED
      BY <3>1, <3>2, <3>3
  <2> QED
    BY <2>1 DEF Follow, s
<1> QED
  BY <1>2, <1>3

LEMMA FollowCut ==
  ASSUME NEW r \in Seq(Nat), NEW c \in Seq(Nat), NEW y \in Nat,
         Follow(r, c), Len(r) = Len(c)
  PROVE  Follow(r, Append(c, y))
<1> DEFINE d == Append(c, y)
<1>1. /\ DOMAIN r = 1..Len(c) /\ DOMAIN c = 1..Len(c) /\ Len(c) \in Nat
      /\ DOMAIN d = 1..(Len(c) + 1)
      /\ \A k \in 1..Len(c) : d[k] = c[k]
  OBVIOUS
<1> HIDE DEF d
<1>2. Follow(r, d)
  BY <1>1 DEF Follow
<1> QED
  BY <1>2 DEF d

LEMMA PairedFollowNext ==
  ASSUME ThreadInv, ReportsInv, DeqStep \/ DeqSwitchOff
  PROVE  /\ Paired'
         /\ "journal_write" \notin Faults => Follow(reports, cuts)'
<1>1. /\ reports \in Seq(Nat) /\ cuts \in Seq(Nat) /\ LastReport \in Nat
      /\ dsince \in Nat /\ Reported \in Nat /\ Len(written) \in Nat
      /\ InHand \in {0, 1} /\ Len(reports) \in Nat /\ Len(cuts) \in Nat
  BY CountTypes DEF ReportsInv
<1>2. Paired /\ ("journal_write" \notin Faults => Follow(reports, cuts))
  BY DEF ReportsInv
<1>3. "journal_write" \notin Faults => Reported - Len(written) \in {0, 1}
  <2> SUFFICES ASSUME "journal_write" \notin Faults
               PROVE  Reported - Len(written) \in {0, 1}
    OBVIOUS
  <2>1. Reported = Len(written) + InHand
    BY ReportedIsWritten
  <2>2. CASE InHand = 0
    BY <1>1, <2>1, <2>2
  <2>3. CASE InHand = 1
    BY <1>1, <2>1, <2>3
  <2> QED
    BY <1>1, <2>2, <2>3
<1>4. Reported = LastReport + dsince
  BY DEF Reported
<1>5. CASE UNCHANGED <<reports, cuts>>
  <2>1. \/ dpc \notin {"drain", "fini", "done", "exit"}
        \/ dpc' \in {"done", "exit"}
        \/ dpc \in {"drain", "fini"} /\ dpc' \in {"drain", "fini"}
             /\ written' = written
    BY DEF DeqStep, DeqStart, DeqStartFails, DeqCheck, DeqReceive, DeqStat,
           DeqStatFails, DeqInterrupted, DeqReadFails, DeqTestRotate, DeqRotate,
           DeqRotateFails, DeqSkipWrite, DeqWrite, DeqWriteFails, DeqClose,
           DeqDrain, DeqDrainEnds, DeqFinish, DeqSwitchOff
  <2>2. Paired'
    BY <1>2, <1>5, <2>1 DEF Paired, LastCut
  <2> QED
    BY <1>2, <1>5, <2>2 DEF Follow
<1>6. CASE DeqRotate(gbl_done) /\ ~gbl_done
  <2>1. /\ dpc = "stats" /\ dpc' = "off"
        /\ reports' = Append(reports, Reported) /\ cuts' = Append(cuts, Len(written))
    BY <1>4, <1>6 DEF DeqRotate, DeqStatsRotate
  <2>2. Len(reports) = Len(cuts)
    BY <1>2, <2>1 DEF Paired
  <2>3. Len(reports') = Len(cuts')
    BY <1>1, <2>1, <2>2
  <2> QED
    BY <1>1, <1>2, <1>3, <2>1, <2>2, <2>3, FollowAppend DEF Paired
<1>7. CASE DeqRotateFails(gbl_done)
  <2>1. /\ dpc = "stats" /\ dpc' = "exit"
        /\ reports' = Append(reports, Reported)
        /\ cuts' = cuts \/ cuts' = Append(cuts, Len(written))
    BY <1>4, <1>7 DEF DeqRotateFails, DeqStatsRotate
  <2>2. Len(reports) = Len(cuts)
    BY <1>2, <2>1 DEF Paired
  <2> QED
    BY <1>1, <1>2, <1>3, <2>1, <2>2, FollowAppend, FollowReport DEF Paired
<1>8. CASE DeqClose
  <2>1. /\ dpc = "close" /\ dpc' = "drain" /\ UNCHANGED <<reports, written>>
        /\ cuts' = cuts \/ cuts' = Append(cuts, Len(written))
    BY <1>8 DEF DeqClose
  <2>2. Len(reports) = Len(cuts)
    BY <1>2, <2>1 DEF Paired
  <2>3. CASE cuts' = cuts
    BY <1>2, <2>1, <2>2, <2>3 DEF Paired
  <2>4. CASE cuts' = Append(cuts, Len(written))
    <3>1. /\ Len(cuts') = Len(reports) + 1 /\ cuts' # <<>>
          /\ cuts'[Len(cuts')] = Len(written)
      BY <1>1, <2>2, <2>4
    <3>2. LastCut' = Len(written')
      BY <2>1, <3>1 DEF LastCut
    <3> QED
      BY <1>1, <1>2, <2>1, <2>2, <2>4, <3>1, <3>2, FollowCut DEF Paired
  <2> QED
    BY <2>1, <2>3, <2>4
<1>9. CASE DeqFinish
  <2>1. /\ dpc = "fini" /\ dpc' = "done" /\ cuts' = cuts
        /\ reports' = Append(reports, Reported)
    BY <1>4, <1>9 DEF DeqFinish, DeqStatsRotate
  <2>2. InHand = 0
    BY <2>1 DEF InHand, DeqHolds
  <2>3. "journal_write" \notin Faults => Reported = Len(written)
    BY <1>1, <2>2, ReportedIsWritten
  <2>4. \/ Len(cuts) = Len(reports)
        \/ Len(cuts) = Len(reports) + 1 /\ cuts[Len(cuts)] = Len(written)
    BY <1>1, <1>2, <2>1 DEF Paired, LastCut
  <2>5. "journal_write" \notin Faults => Follow(Append(reports, Reported), cuts)
    BY <1>1, <1>2, <2>3, <2>4, FollowReport
  <2> QED
    BY <2>1, <2>5 DEF Paired
<1> QED
  BY <1>5, <1>6, <1>7, <1>8, <1>9
     DEF DeqStep, DeqStart, DeqStartFails, DeqCheck, DeqReceive, DeqStat,
         DeqStatFails, DeqInterrupted, DeqReadFails, DeqTestRotate, DeqRotate,
         DeqSkipWrite, DeqWrite, DeqWriteFails, DeqDrain, DeqDrainEnds,
         DeqSwitchOff

\* The enqueuer counts what it receives.
LEMMA EnqCountsNext ==
  ASSUME ThreadInv, ereported + esince = nrecv, EnqStep \/ EnqSwitchOff
  PROVE  (ereported + esince = nrecv)'
<1>1. ereported \in Nat /\ esince \in Nat /\ nrecv \in Nat
  BY DEF ThreadInv, AccountInv, OrderInv, TypeInv, PipelineTypeOK, EnqTypeOK
<1>2. CASE \E rotate \in Kinds : EnqReceive(rotate)
  BY <1>1, <1>2 DEF EnqReceive
<1>3. CASE EnqRotateStats(gbl_done) \/ EnqFinish
  <2>1. /\ nrecv' = nrecv
        /\ \/ ereported' = ereported + esince /\ esince' = 0
           \/ UNCHANGED <<ereported, esince>>
    BY <1>3 DEF EnqRotateStats, EnqFinish, EnqStatsRotate
  <2>2. (ereported + esince) + 0 = nrecv
    BY <1>1
  <2> QED
    BY <2>1, <2>2, Zenon
<1>4. CASE UNCHANGED <<ereported, esince, nrecv>>
  BY <1>4, Zenon
<1> QED
  BY <1>2, <1>3, <1>4
     DEF EnqStep, EnqStart, EnqStartFails, EnqCheck, EnqInterrupted,
         EnqSocketError, EnqTestRotate, EnqSkipWrite, EnqSend, EnqSendAgain,
         EnqSendFails, EnqSwitchOff

LEMMA ReportsNext == ThreadInv /\ LeftoverInv /\ ReportsInv /\ [Next]_vars => ReportsInv'
<1> SUFFICES ASSUME ThreadInv, LeftoverInv, ReportsInv, [Next]_vars
             PROVE  ReportsInv'
  OBVIOUS
<1>1. CASE UNCHANGED <<dvars, ereported, esince, nrecv>>
  <2>1. Even' = Even /\ Paired' = Paired /\ UNCHANGED <<unwritten, reports, cuts>>
    BY <1>1 DEF Even, Reported, LastReport, Counted, InHand, DeqHolds, Paired,
                LastCut
  <2>2. Odd => Odd'
    BY <1>1, DoneStays
       DEF Odd, Reported, LastReport, Counted, InHand, DeqHolds
  <2> QED
    BY <1>1, <2>1, <2>2 DEF ReportsInv
<1>2. CASE (EnqStep \/ EnqSwitchOff) /\ UNCHANGED <<gbl_done, mpc>>
  <2>1. EnqWork
    BY <1>2 DEF EnqStep, EnqWork, ThreadInv, ControlTypeOK, SwitchTypeOK
  <2>2. UNCHANGED dvars
    BY <2>1, TypeEnqWork DEF ThreadInv, AccountInv, OrderInv
  <2>3. (ereported + esince = nrecv)'
    BY <1>2, EnqCountsNext DEF ReportsInv
  <2>4. (Even \/ Odd)' /\ Paired' /\ UNCHANGED <<unwritten, reports, cuts>>
    BY <1>2, <2>2 DEF Even, Odd, Reported, LastReport, Counted, InHand,
                      DeqHolds, Paired, LastCut, ReportsInv
  <2> QED
    BY <2>3, <2>4 DEF ReportsInv
<1>3. CASE (DeqStep \/ DeqSwitchOff) /\ UNCHANGED <<gbl_done, mpc>>
  <2>1. UNCHANGED <<ereported, esince, nrecv>>
    <3>1. DeqWork
      BY <1>3 DEF DeqStep, DeqWork, ThreadInv, ControlTypeOK, SwitchTypeOK
    <3> QED
      BY <3>1, TypeDeqWork DEF ThreadInv, AccountInv, OrderInv
  <2>2. (ereported + esince = nrecv)'
    BY <2>1 DEF ReportsInv
  <2> QED
    BY <1>3, <2>2, EvenOddNext, PairedFollowNext DEF ReportsInv
<1> QED
  BY <1>1, <1>2, <1>3, WhoMoves

LEMMA ReportsHold == Spec => []ReportsInv
  BY ReportsInit, ReportsNext, ThreadInvHolds, LeftoverHolds, PTL DEF Spec

\* The statistics of both workers are exact at any moment and for any
\* interleaving: every datagram is in exactly one report or still counted,
\* and at each closing of a journal the reports are ahead of the journals by
\* the packet in the dequeuer's hand at most.
THEOREM ReportsCorrect == Spec => []ReportsExact
<1>1. ReportsInv => ReportsExact
  BY DEF ReportsInv, Even, Odd, Reported, Follow, ReportsExact, StatsAddUp,
         ReportsFollowJournals
<1> QED
  BY <1>1, ReportsHold, PTL

-----------------------------------------------------------------------------
(* Refinement of EventStore *)

\* The packet in each worker's hands, as a sequence.
DeqSeq == IF DeqHolds THEN <<dbuf>> ELSE <<>>
EnqSeq == IF EnqHolds THEN <<ebuf>> ELSE <<>>

LEMMA FlightIs ==
  /\ InFlight = (DeqSeq \o mq) \o EnqSeq
  /\ InFlight' = (DeqSeq' \o mq') \o EnqSeq'
  BY DEF InFlight, DeqSeq, EnqSeq

LEMMA FlightType ==
  ASSUME TypeInv
  PROVE  /\ DeqSeq \in Seq(Event) /\ EnqSeq \in Seq(Event) /\ mq \in Seq(Event)
         /\ DeqSeq \o mq \in Seq(Event) /\ InFlight \in Seq(Event)
         /\ Len(InFlight) = (Len(DeqSeq) + Len(mq)) + Len(EnqSeq)
<1>1. dbuf \in Event /\ ebuf \in Event /\ mq \in Seq(Event)
  BY DEF TypeInv, PipelineTypeOK, EnqTypeOK, DeqTypeOK, QueueTypeOK
<1>2. DeqSeq \in Seq(Event) /\ EnqSeq \in Seq(Event)
  BY <1>1 DEF DeqSeq, EnqSeq
<1>3. DeqSeq \o mq \in Seq(Event) /\ Len(DeqSeq \o mq) = Len(DeqSeq) + Len(mq)
  BY <1>1, <1>2, ConcatProperties
<1>4. /\ (DeqSeq \o mq) \o EnqSeq \in Seq(Event)
      /\ Len((DeqSeq \o mq) \o EnqSeq) = Len(DeqSeq \o mq) + Len(EnqSeq)
  BY <1>2, <1>3, ConcatProperties
<1>5. QED
  BY <1>1, <1>2, <1>3, <1>4, FlightIs

\* The end of a sequence; what is before and after a part of it.
LEMMA Back ==
  ASSUME NEW S, NEW f \in Seq(S), NEW c \in Seq(S), NEW n \in Nat,
         Len(f) = n + Len(c), \A i \in 1..Len(c) : f[n + i] = c[i]
  PROVE  SubSeq(f, n + 1, Len(f)) = c
<1> DEFINE s == SubSeq(f, n + 1, Len(f))
<1>1. /\ n + 1 \in Int /\ Len(f) \in Int /\ Len(f) - (n + 1) + 1 = Len(c)
      /\ \A i \in (n + 1)..Len(f) : f[i] \in S
      /\ \A i \in 1..Len(c) : n + 1 + i - 1 = n + i
      /\ n + 1 <= Len(f) \/ Len(c) = 0
  BY ElementOfSeq
<1>2. /\ s \in Seq(S)
      /\ Len(s) = IF n + 1 <= Len(f) THEN Len(f) - (n + 1) + 1 ELSE 0
      /\ \A i \in 1..(Len(f) - (n + 1) + 1) : s[i] = f[n + 1 + i - 1]
  BY <1>1, SubSeqProperties
<1> HIDE DEF s
<1>3. Len(s) = Len(c) /\ \A i \in 1..Len(c) : s[i] = c[i]
  BY <1>1, <1>2
<1>4. s = c
  BY <1>2, <1>3, SeqEqual
<1> QED
  BY <1>4 DEF s

LEMMA Parts ==
  ASSUME NEW S, NEW a \in Seq(S), NEW b \in Seq(S), NEW c \in Seq(S)
  PROVE  LET f == (a \o b) \o c
         IN  /\ Len(f) = Len(a) + Len(b) + Len(c)
             /\ SubSeq(f, 1, Len(a)) = a
             /\ SubSeq(f, Len(a) + Len(b) + 1, Len(f)) = c
<1> DEFINE f == (a \o b) \o c
<1>1. /\ a \o b \in Seq(S) /\ Len(a \o b) = Len(a) + Len(b)
      /\ \A i \in 1..Len(a) : (a \o b)[i] = a[i]
  BY ConcatProperties
<1>2. /\ f \in Seq(S) /\ Len(f) = Len(a) + Len(b) + Len(c)
      /\ \A i \in 1..Len(a) : f[i] = a[i]
      /\ \A i \in 1..Len(c) : f[Len(a) + Len(b) + i] = c[i]
  BY <1>1, ConcatProperties
<1>3. \A i \in 1..Len(f) : f[i] \in S
  BY <1>2, ElementOfSeq
<1> HIDE DEF f
<1>4. /\ SubSeq(f, 1, Len(a)) \in Seq(S) /\ Len(SubSeq(f, 1, Len(a))) = Len(a)
      /\ \A i \in 1..Len(a) : SubSeq(f, 1, Len(a))[i] = f[i]
  BY <1>2, <1>3, SubSeqProperties
<1>5. SubSeq(f, 1, Len(a)) = a
  BY <1>2, <1>4, SeqEqual
<1>6. SubSeq(f, Len(a) + Len(b) + 1, Len(f)) = c
  <2>1. Len(a) + Len(b) \in Nat
    OBVIOUS
  <2>2. \A n \in Nat :
          Len(f) = n + Len(c) /\ (\A i \in 1..Len(c) : f[n + i] = c[i])
            => SubSeq(f, n + 1, Len(f)) = c
    BY <1>2, Back
  <2> QED
    BY <1>2, <2>1, <2>2, Zenon
<1>7. QED
  BY <1>2, <1>5, <1>6 DEF f

LEMMA Front ==
  ASSUME NEW S, NEW a \in Seq(S), NEW b \in Seq(S)
  PROVE  Len(a \o b) = Len(a) + Len(b) /\ SubSeq(a \o b, 1, Len(a)) = a
<1> DEFINE z == <<>>
<1>1. z \in Seq(S) /\ a \o b \in Seq(S) /\ Len(a \o b) = Len(a) + Len(b)
  BY ConcatProperties
<1>2. (a \o b) \o z = a \o b
  BY <1>1, ConcatEmptySeq
<1> HIDE DEF z
<1>3. SubSeq((a \o b) \o z, 1, Len(a)) = a
  BY <1>1, Parts
<1> QED
  BY <1>1, <1>2, <1>3

LEMMA Single ==
  ASSUME NEW S, NEW e \in S
  PROVE  <<e>> \in Seq(S) /\ Len(<<e>>) = 1 /\ <<e>>[1] = e /\ <<e>> # <<>>
  OBVIOUS

\* A packet is sent, and taken: it goes from one worker's hands to the queue
\* and to the other's.
LEMMA SendKeeps ==
  ASSUME NEW S, NEW a \in Seq(S), NEW s \in Seq(S), NEW e \in S
  PROVE  (a \o Append(s, e)) \o <<>> = (a \o s) \o <<e>>
<1>1. Append(s, e) = s \o <<e>> /\ s \o <<e>> \in Seq(S) /\ <<e>> \in Seq(S)
  BY AppendIsConcat, Single, ConcatProperties
<1>2. a \o (s \o <<e>>) = (a \o s) \o <<e>> /\ a \o (s \o <<e>>) \in Seq(S)
  BY <1>1, ConcatAssociative, ConcatProperties
<1>3. QED
  BY <1>1, <1>2, ConcatEmptySeq

LEMMA TakeKeeps ==
  ASSUME NEW S, NEW s \in Seq(S), s # <<>>, NEW c \in Seq(S)
  PROVE  (<<Head(s)>> \o Tail(s)) \o c = (<<>> \o s) \o c
<1>1. /\ Head(s) \in S /\ Tail(s) \in Seq(S) /\ Len(Tail(s)) = Len(s) - 1
      /\ \A i \in 1..Len(Tail(s)) : Tail(s)[i] = s[i + 1]
      /\ Head(s) = s[1]
  BY HeadTailProperties
<1>2. <<Head(s)>> \in Seq(S) /\ Len(<<Head(s)>>) = 1 /\ <<Head(s)>>[1] = s[1]
  BY <1>1, Single
<1>3. <<Head(s)>> \o Tail(s) = s
  <2> DEFINE h == <<Head(s)>>
             t == Tail(s)
  <2> HIDE DEF h, t
  <2>1. /\ h \o t \in Seq(S) /\ Len(h \o t) = Len(s)
        /\ \A i \in 1..Len(s) : (h \o t)[i] = IF i <= 1 THEN h[i] ELSE t[i - 1]
    BY <1>1, <1>2, ConcatProperties DEF h, t
  <2>2. \A i \in 1..Len(s) : (h \o t)[i] = s[i]
    BY <1>1, <1>2, <2>1 DEF h, t
  <2>3. QED
    BY <2>1, <2>2, SeqEqual DEF h, t
<1>4. QED
  BY <1>3, ConcatEmptySeq

\* The oldest packet in flight is the one in the dequeuer's hands.
LEMMA OldestGoes ==
  ASSUME NEW S, NEW e \in S, NEW s \in Seq(S), NEW c \in Seq(S)
  PROVE  LET f == (<<e>> \o s) \o c
         IN  f # <<>> /\ Head(f) = e /\ Tail(f) = (<<>> \o s) \o c
<1> DEFINE f == (<<e>> \o s) \o c
           r == s \o c
<1>1. r \in Seq(S) /\ (<<>> \o s) \o c = r
  BY ConcatProperties, ConcatEmptySeq
<1>2. <<e>> \in Seq(S) /\ Len(<<e>>) = 1 /\ <<e>>[1] = e
  BY Single
<1>3. f = <<e>> \o r
  BY <1>2, ConcatAssociative
<1> DEFINE h == <<e>>
<1> HIDE DEF r, h
<1>4. /\ h \o r \in Seq(S) /\ Len(h \o r) = 1 + Len(r)
      /\ \A i \in 1..(1 + Len(r)) : (h \o r)[i] = IF i <= 1 THEN h[i] ELSE r[i - 1]
  BY <1>1, <1>2, ConcatProperties DEF h
<1> DEFINE g == h \o r
<1>5. g \in Seq(S) /\ Len(g) = 1 + Len(r) /\ Len(r) \in Nat /\ g[1] = e
      /\ \A i \in 1..Len(r) : g[i + 1] = r[i]
  BY <1>1, <1>2, <1>4 DEF h
<1> HIDE DEF g
<1>6. g # <<>> /\ Head(g) = e /\ Tail(g) \in Seq(S) /\ Len(Tail(g)) = Len(r)
      /\ \A i \in 1..Len(r) : Tail(g)[i] = r[i]
  BY <1>5, HeadTailProperties
<1>7. Tail(g) = r
  BY <1>1, <1>6, SeqEqual
<1>8. QED
  BY <1>1, <1>3, <1>6, <1>7 DEF g, h

\* Steps of EventStore as steps on the three parts of InFlight: nothing moves,
\* a packet is accepted at the end, the packet at the end is refused, a part
\* in the middle is discarded.
LEMMA StoreStutters ==
  ASSUME UNCHANGED <<nrecv, written, cuts, gbl_done>>, InFlight' = InFlight
  PROVE  UNCHANGED Store!vars
  BY DEF Store!vars

LEMMA StoreAccepts ==
  ASSUME NEW f \in Seq(Event), Len(f) < QueueMaxCnt + 2, NEW r \in BOOLEAN,
         NEW e \in Event, e = [id |-> nrecv + 1, rotate |-> r],
         InFlight = f \o <<>>, InFlight' = f \o <<e>>,
         nrecv' = nrecv + 1, UNCHANGED <<written, cuts, gbl_done>>
  PROVE  Store!Next
<1>1. InFlight = f /\ f \o <<e>> = Append(f, e)
  BY ConcatEmptySeq, AppendIsConcat
<1>2. Store!Accept(r)
  BY <1>1 DEF Store!Accept
<1> QED
  BY <1>2 DEF Store!Next

LEMMA StoreRefuses ==
  ASSUME NEW f \in Seq(Event), NEW e \in Event,
         Len(f) + 2 >= QueueMaxCnt + 2, QueueType = "msg",
         InFlight = f \o <<e>>, InFlight' = f \o <<>>,
         UNCHANGED <<nrecv, written, cuts, gbl_done>>
  PROVE  Store!Next
<1> DEFINE g == <<e>>
<1>1. g \in Seq(Event) /\ Len(g) = 1
  BY Single
<1> HIDE DEF g
<1>2. Len(f \o g) = Len(f) + 1 /\ SubSeq(f \o g, 1, Len(f)) = f
  BY <1>1, Front
<1>3. InFlight' = f /\ InFlight = f \o g
  BY ConcatEmptySeq DEF g
<1>4. Len(f) \in Nat /\ Len(InFlight) = Len(f) + 1
  BY <1>2, <1>3
<1>7. Len(InFlight) - 1 = Len(f) /\ Len(InFlight) + 1 >= QueueMaxCnt + 2
  BY <1>4, PipelineAssumption
<1>8. InFlight' = SubSeq(InFlight, 1, Len(InFlight) - 1)
  BY <1>2, <1>3, <1>7
<1>9. Store!Refuse
  BY <1>7, <1>8 DEF Store!Refuse
<1> QED
  BY <1>9 DEF Store!Next

LEMMA StoreDiscards ==
  ASSUME NEW a \in Seq(Event), NEW b \in Seq(Event), NEW c \in Seq(Event),
         gbl_done, InFlight = (a \o b) \o c, InFlight' = a \o c,
         UNCHANGED <<nrecv, written, cuts, gbl_done>>
  PROVE  Store!Next
<1> DEFINE f == (a \o b) \o c
           i == Len(a)
           j == Len(a) + Len(b)
<1>1. /\ Len(f) = Len(a) + Len(b) + Len(c)
      /\ SubSeq(f, 1, i) = a /\ SubSeq(f, j + 1, Len(f)) = c
  BY Parts
<1>2. i \in 0..Len(f) /\ j \in i..Len(f)
  BY <1>1
<1>3. Store!Discard
  BY <1>1, <1>2 DEF Store!Discard
<1> QED
  BY <1>3 DEF Store!Next

LEMMA StoreInit == Init => Store!Init
<1> SUFFICES ASSUME Init PROVE Store!Init
  OBVIOUS
<1>1. PipelineInit /\ gbl_done = FALSE
  BY DEF Init
<1>2. TypeInv
  BY <1>1, TypeInit
<1>3. mq \in Seq(Event) /\ DeqSeq = <<>> /\ EnqSeq = <<>>
  BY <1>1, <1>2 DEF PipelineInit, DeqSeq, EnqSeq, DeqHolds, EnqHolds,
                    TypeInv, PipelineTypeOK, QueueTypeOK
<1>4. InFlight = mq
  BY <1>3, FlightIs, ConcatEmptySeq
<1>5. nrecv \in 0..(QueueMaxCnt + 2)
  BY <1>1, PipelineAssumption DEF PipelineInit
<1>6. Len(mq) = nrecv /\ \A i \in 1..nrecv : mq[i].id = i
  BY <1>1, <1>5 DEF PipelineInit
<1> QED
  BY <1>1, <1>4, <1>5, <1>6 DEF Store!Init, PipelineInit

\* What the workers hold has at most one packet each.
LEMMA HandTypes ==
  ASSUME TypeInv
  PROVE  /\ dbuf \in Event /\ ebuf \in Event
         /\ Len(DeqSeq) \in 0..1 /\ Len(mq) \in Nat /\ Len(mq) <= QueueMaxCnt
         /\ Len(DeqSeq \o mq) = Len(DeqSeq) + Len(mq)
         /\ QueueMaxCnt \in Nat
<1>1. dbuf \in Event /\ ebuf \in Event
  BY DEF TypeInv, PipelineTypeOK, EnqTypeOK, DeqTypeOK
<1>2. Len(DeqSeq) \in 0..1
  BY <1>1, Single DEF DeqSeq
<1>3. mq \in Seq(Event) /\ Len(mq) <= QueueMaxCnt
  BY DEF TypeInv, PipelineTypeOK, QueueTypeOK
<1>4. DeqSeq \in Seq(Event)
  BY FlightType
<1> QED
  BY <1>1, <1>2, <1>3, <1>4, ConcatProperties, PipelineAssumption

\* A queue is only destroyed, and a handle only unusable, when the shutdown
\* has begun.
LEMMA DoneFirst ==
  ASSUME LossInv
  PROVE  /\ epc = "fini" => gbl_done
         /\ dpc \in {"drain", "fini"} => gbl_done
         /\ epc = "write" /\ ~Usable(eq) => gbl_done
         /\ dpc = "stat" /\ ~Usable(dq) => gbl_done
  BY DEF LossInv, InLoops

LEMMA StoreDestroys ==
  ASSUME ThreadInv, gbl_done, NEW h, DestroyQueue(h),
         UNCHANGED <<nrecv, written, cuts, gbl_done, DeqSeq, EnqSeq>>
  PROVE  Store!Next \/ UNCHANGED Store!vars
<1>1. CASE UNCHANGED qvars
  <2>1. InFlight' = InFlight
    BY <1>1, FlightIs
  <2> QED
    BY <2>1, StoreStutters
<1>2. CASE mq' = <<>>
  <2>1. DeqSeq \in Seq(Event) /\ mq \in Seq(Event) /\ EnqSeq \in Seq(Event)
    BY FlightType DEF ThreadInv, AccountInv, OrderInv
  <2>2. InFlight' = DeqSeq \o EnqSeq
    BY <1>2, <2>1, FlightIs, ConcatEmptySeq
  <2> QED
    BY <2>1, <2>2, FlightIs, StoreDiscards
<1> QED
  BY <1>1, <1>2 DEF DestroyQueue, DestroyMqueue, DestroyMsg

\* A step of the enqueuer.  What the dequeuer holds stays.
LEMMA EnqStoreStep ==
  ASSUME ThreadInv, LossInv, EnqStep \/ EnqCasOff, UNCHANGED gbl_done
  PROVE  Store!Next \/ UNCHANGED Store!vars
<1>1. TypeInv
  BY DEF ThreadInv, AccountInv, OrderInv
<1> DEFINE f == DeqSeq \o mq
<1>2. /\ DeqSeq \in Seq(Event) /\ mq \in Seq(Event) /\ EnqSeq \in Seq(Event)
      /\ f \in Seq(Event) /\ Len(f) <= QueueMaxCnt + 1 /\ Len(f) >= Len(mq)
      /\ Len(f) \in Nat /\ Len(mq) \in Nat
  <2>1. /\ Len(DeqSeq) \in 0..1 /\ Len(mq) \in Nat /\ Len(mq) <= QueueMaxCnt
        /\ Len(f) = Len(DeqSeq) + Len(mq) /\ QueueMaxCnt \in Nat
    BY <1>1, HandTypes
  <2>2. \A i \in 0..1, j, k \in Nat :
          j <= k => i + j <= k + 1 /\ i + j >= j /\ i + j \in Nat
    OBVIOUS
  <2>3. Len(f) <= QueueMaxCnt + 1 /\ Len(f) >= Len(mq) /\ Len(f) \in Nat
    BY <2>1, <2>2, Zenon
  <2>4. /\ DeqSeq \in Seq(Event) /\ mq \in Seq(Event) /\ EnqSeq \in Seq(Event)
        /\ f \in Seq(Event)
    BY <1>1, FlightType
  <2> QED
    BY <2>1, <2>3, <2>4, Zenon
<1>3. nrecv \in Nat /\ ebuf \in Event /\ QueueMaxCnt \in Nat
  BY <1>1, HandTypes DEF TypeInv, PipelineTypeOK, EnqTypeOK
<1>4. UNCHANGED <<written, cuts, DeqSeq>>
  BY DEF EnqStep, EnqCasOff, EnqStart, EnqStartFails, EnqCheck, EnqReceive,
         EnqInterrupted, EnqSocketError, EnqTestRotate, EnqRotateStats,
         EnqSkipWrite, EnqSend, EnqSendAgain, EnqSendFails, EnqFinish,
         EnqSwitchOff, DeqSeq, DeqHolds
<1>5. ASSUME NEW r \in Kinds, EnqReceive(r) PROVE Store!Next
  <2> DEFINE e == [id |-> nrecv + 1, rotate |-> r]
  <2>1. e \in Event /\ r \in BOOLEAN
    BY <1>3, PipelineAssumption DEF Event
  <2>2. EnqSeq = <<>> /\ EnqSeq' = <<e>> /\ mq' = mq /\ nrecv' = nrecv + 1
    BY <1>5 DEF EnqReceive, EnqSeq, EnqHolds
  <2>3. InFlight = f \o <<>> /\ InFlight' = f \o <<e>>
    BY <1>4, <2>2, FlightIs
  <2>4. Len(f) < QueueMaxCnt + 2
    BY <1>2, <1>3
  <2> QED
    BY <1>2, <1>4, <2>1, <2>2, <2>3, <2>4, StoreAccepts
<1>6. CASE EnqSend
  <2>1. EnqSeq = <<ebuf>> /\ EnqSeq' = <<>> /\ mq' = Append(mq, ebuf)
        /\ nrecv' = nrecv
    BY <1>6 DEF EnqSend, EnqSeq, EnqHolds
  <2>2. InFlight' = InFlight
    BY <1>2, <1>3, <1>4, <2>1, FlightIs, SendKeeps
  <2> QED
    BY <1>4, <2>1, <2>2, StoreStutters
<1>7. CASE EnqSendFails
  <2>1. EnqSeq = <<ebuf>> /\ EnqSeq' = <<>> /\ mq' = mq /\ nrecv' = nrecv
    BY <1>7 DEF EnqSendFails, EnqSeq, EnqHolds
  <2>2. InFlight = f \o <<ebuf>> /\ InFlight' = f \o <<>>
    BY <1>4, <2>1, FlightIs
  <2>3. CASE ~Usable(eq)
    <3>1. gbl_done
      BY <1>7, <2>3, DoneFirst DEF EnqSendFails
    <3>2. InFlight = (f \o <<ebuf>>) \o <<>> /\ <<ebuf>> \in Seq(Event)
      BY <1>2, <1>3, <2>2, Single, ConcatProperties, ConcatEmptySeq
    <3> DEFINE z == <<>>
               g == <<ebuf>>
    <3>3. z \in Seq(Event) /\ g \in Seq(Event)
          /\ InFlight = (f \o g) \o z /\ InFlight' = f \o z
      BY <2>2, <3>2
    <3> HIDE DEF z, g, f
    <3> QED
      BY <1>2, <1>4, <2>1, <3>1, <3>3, StoreDiscards
  <2>4. CASE Len(mq) >= QueueMaxCnt
    <3>1. Len(f) + 2 >= QueueMaxCnt + 2
      BY <1>2, <1>3, <2>4
    <3> QED
      BY <1>2, <1>3, <1>4, <1>7, <2>1, <2>2, <3>1, StoreRefuses DEF EnqSendFails
  <2> QED
    BY <1>7, <2>3, <2>4 DEF EnqSendFails
<1>8. CASE EnqFinish
  <2>1. gbl_done /\ DestroyQueue(eq) /\ UNCHANGED <<nrecv, EnqSeq>>
    BY <1>8, DoneFirst DEF EnqFinish, EnqSeq, EnqHolds
  <2> QED
    BY <1>4, <2>1, StoreDestroys
<1>9. CASE \/ EnqStart \/ EnqStartFails \/ EnqCheck(gbl_done)
           \/ EnqInterrupted \/ EnqSocketError
           \/ EnqTestRotate(gbl_done, gbl_rotate_enqueue)
           \/ EnqRotateStats(gbl_done)
           \/ EnqSkipWrite \/ EnqSendAgain \/ EnqCasOff
  <2>1. UNCHANGED <<nrecv, mq>>
    BY <1>9 DEF EnqStart, OpenQueue, EnqStartFails, EnqCheck, EnqInterrupted,
                EnqSocketError, EnqTestRotate, EnqRotateStats, EnqSkipWrite,
                EnqSendAgain, EnqCasOff, EnqSwitchOff
  <2>2. EnqSeq' = EnqSeq
    BY <1>9 DEF EnqStart, EnqStartFails, EnqCheck, EnqInterrupted,
                EnqSocketError, EnqTestRotate, EnqRotateStats, EnqSkipWrite,
                EnqSendAgain, EnqCasOff, EnqSwitchOff, EnqSeq, EnqHolds
  <2>3. InFlight' = InFlight
    BY <1>4, <2>1, <2>2, FlightIs
  <2> QED
    BY <1>4, <2>1, <2>3, StoreStutters
<1> QED
  BY <1>5, <1>6, <1>7, <1>8, <1>9 DEF EnqStep

\* A step of the dequeuer that leaves the queue alone: it keeps the packet in
\* its hands, journals or spoils it, or cuts the journal.
LEMMA StoreWrites ==
  ASSUME ThreadInv, DeqWrite, UNCHANGED gbl_done
  PROVE  Store!Next
<1>1. TypeInv
  BY DEF ThreadInv, AccountInv, OrderInv
<1>2. DeqSeq = <<dbuf>> /\ DeqSeq' = <<>>
  BY DEF DeqWrite, DeqSeq, DeqHolds
<1>3. UNCHANGED <<mq, nrecv, cuts, EnqSeq>> /\ written' = Append(written, dbuf)
  BY DEF DeqWrite, EnqSeq, EnqHolds
<1>4. /\ InFlight = (<<dbuf>> \o mq) \o EnqSeq
      /\ InFlight' = (<<>> \o mq) \o EnqSeq
  BY <1>2, <1>3, FlightIs
<1>5. InFlight # <<>> /\ Head(InFlight) = dbuf /\ Tail(InFlight) = InFlight'
  BY <1>1, <1>4, FlightType, HandTypes, OldestGoes, SMTT(30)
<1>6. Store!Commit
  BY <1>3, <1>5 DEF Store!Commit
<1> QED
  BY <1>6 DEF Store!Next

LEMMA StoreSpoils ==
  ASSUME ThreadInv, DeqWriteFails, UNCHANGED gbl_done
  PROVE  Store!Next
<1>1. TypeInv
  BY DEF ThreadInv, AccountInv, OrderInv
<1>2. DeqSeq = <<dbuf>> /\ DeqSeq' = <<>> /\ "journal_write" \in Faults
  BY DEF DeqWriteFails, DeqSeq, DeqHolds
<1>3. UNCHANGED <<mq, nrecv, cuts, written, EnqSeq>>
  BY DEF DeqWriteFails, EnqSeq, EnqHolds
<1>4. /\ InFlight = (<<dbuf>> \o mq) \o EnqSeq
      /\ InFlight' = (<<>> \o mq) \o EnqSeq
  BY <1>2, <1>3, FlightIs
<1>5. InFlight # <<>> /\ Tail(InFlight) = InFlight'
  BY <1>1, <1>4, FlightType, HandTypes, OldestGoes
<1>6. Store!Spoil
  BY <1>2, <1>3, <1>5 DEF Store!Spoil
<1> QED
  BY <1>6 DEF Store!Next

\* The packet of a read that fails after it is forgotten.
LEMMA StoreForgets ==
  ASSUME ThreadInv, LossInv, DeqStatFails, UNCHANGED gbl_done
  PROVE  Store!Next
<1>1. TypeInv /\ dret = "event"
  BY DEF ThreadInv, AccountInv, OrderInv, DeqStatFails
<1>2. gbl_done
  BY DoneFirst DEF DeqStatFails, MsgFails
<1>3. DeqSeq = <<dbuf>> /\ DeqSeq' = <<>>
  BY <1>1 DEF DeqStatFails, DeqSeq, DeqHolds
<1>4. UNCHANGED <<mq, nrecv, cuts, written, EnqSeq>>
  BY DEF DeqStatFails, EnqSeq, EnqHolds
<1> DEFINE z == <<>>
           g == <<dbuf>>
           c == mq \o EnqSeq
<1>5. z \in Seq(Event) /\ g \in Seq(Event) /\ c \in Seq(Event)
  BY <1>1, FlightType, HandTypes, Single, ConcatProperties
<1>6. (g \o mq) \o EnqSeq = g \o c /\ (z \o mq) \o EnqSeq = z \o c
  BY <1>1, <1>5, FlightType, ConcatAssociative
<1>7. z \o g = g
  BY <1>5, ConcatEmptySeq
<1>8. InFlight = (z \o g) \o c /\ InFlight' = z \o c
  BY <1>3, <1>4, <1>6, <1>7, FlightIs
<1> HIDE DEF z, g, c
<1> QED
  BY <1>2, <1>4, <1>5, <1>8, StoreDiscards

\* A packet read by the drain is thrown away.
LEMMA StoreDrains ==
  ASSUME ThreadInv, LossInv, DeqDrain, UNCHANGED gbl_done
  PROVE  Store!Next
<1>1. TypeInv
  BY DEF ThreadInv, AccountInv, OrderInv
<1>2. gbl_done
  BY DoneFirst DEF DeqDrain
<1>3. DeqSeq = <<>> /\ DeqSeq' = <<>> /\ mq # <<>> /\ mq' = Tail(mq)
  BY DEF DeqDrain, DeqSeq, DeqHolds, TakeMessage
<1>4. UNCHANGED <<nrecv, cuts, written, EnqSeq>>
  BY DEF DeqDrain, EnqSeq, EnqHolds
<1> DEFINE z == <<>>
           g == <<Head(mq)>>
           c == Tail(mq) \o EnqSeq
<1>5. Head(mq) \in Event /\ Tail(mq) \in Seq(Event)
  BY <1>1, <1>3, FlightType, HeadTailProperties
<1>6. z \in Seq(Event) /\ g \in Seq(Event) /\ c \in Seq(Event)
  BY <1>1, <1>5, FlightType, Single, ConcatProperties
<1>7. (z \o Tail(mq)) \o EnqSeq = z \o c /\ (g \o Tail(mq)) \o EnqSeq = g \o c
  BY <1>1, <1>5, <1>6, FlightType, ConcatAssociative
<1>8. (g \o Tail(mq)) \o EnqSeq = (z \o mq) \o EnqSeq /\ z \o g = g
  BY <1>1, <1>3, <1>6, FlightType, TakeKeeps, ConcatEmptySeq
<1>9. InFlight = (z \o g) \o c /\ InFlight' = z \o c
  BY <1>3, <1>4, <1>7, <1>8, FlightIs
<1> HIDE DEF z, g, c
<1> QED
  BY <1>2, <1>4, <1>6, <1>9, StoreDiscards

LEMMA StoreCuts ==
  ASSUME UNCHANGED <<nrecv, written, gbl_done>>, InFlight' = InFlight,
         cuts' = cuts \/ cuts' = Append(cuts, Len(written))
  PROVE  Store!Next \/ UNCHANGED Store!vars
<1>1. CASE cuts' = cuts
  BY <1>1, StoreStutters
<1>2. CASE cuts' = Append(cuts, Len(written))
  <2>1. Store!Cut
    BY <1>2 DEF Store!Cut
  <2> QED
    BY <2>1 DEF Store!Next
<1> QED
  BY <1>1, <1>2

\* A step of the dequeuer.  What the enqueuer holds stays.
LEMMA DeqStoreStep ==
  ASSUME ThreadInv, LossInv, DeqStep \/ DeqCasOff, UNCHANGED gbl_done
  PROVE  Store!Next \/ UNCHANGED Store!vars
<1>1. TypeInv /\ (dpc = "start" => dret = "intr")
  BY DEF ThreadInv, AccountInv, OrderInv
<1>2. UNCHANGED <<nrecv, EnqSeq>>
  BY DEF DeqStep, DeqCasOff, DeqStart, DeqStartFails, DeqCheck, DeqReceive,
         DeqStat, DeqStatFails, DeqInterrupted, DeqReadFails, DeqTestRotate,
         DeqRotate, DeqRotateFails, DeqSkipWrite, DeqWrite, DeqWriteFails,
         DeqClose, DeqDrain, DeqDrainEnds, DeqFinish, DeqSwitchOff,
         EnqSeq, EnqHolds
<1>3. CASE DeqReceive
  <2>1. /\ DeqSeq = <<>> /\ DeqSeq' = <<Head(mq)>> /\ mq # <<>> /\ mq' = Tail(mq)
        /\ UNCHANGED <<written, cuts>>
    BY <1>3 DEF DeqReceive, TakeMessage, DeqSeq, DeqHolds
  <2>2. InFlight' = InFlight
    BY <1>1, <1>2, <2>1, FlightIs, FlightType, TakeKeeps
  <2> QED
    BY <1>2, <2>1, <2>2, StoreStutters
<1>4. CASE DeqFinish
  <2>1. gbl_done /\ DestroyQueue(dq) /\ UNCHANGED <<written, cuts, DeqSeq>>
    BY <1>4, DoneFirst DEF DeqFinish, DeqSeq, DeqHolds
  <2> QED
    BY <1>2, <2>1, StoreDestroys
<1>5. CASE \/ DeqStart \/ DeqStartFails \/ DeqCheck(gbl_done) \/ DeqStat
           \/ DeqInterrupted(FALSE) \/ DeqReadFails
           \/ DeqTestRotate(gbl_done, gbl_rotate_dequeue)
           \/ DeqRotate(gbl_done) \/ DeqRotateFails(gbl_done)
           \/ DeqSkipWrite \/ DeqClose \/ DeqDrainEnds(FALSE) \/ DeqCasOff
  <2>1. UNCHANGED <<written, mq>> /\ (cuts' = cuts \/ cuts' = Append(cuts, Len(written)))
    BY <1>5 DEF DeqStart, OpenQueue, DeqStartFails, DeqCheck, DeqStat,
                DeqInterrupted, DeqReadFails, DeqTestRotate, DeqRotate,
                DeqRotateFails, DeqStatsRotate, DeqSkipWrite, DeqClose,
                DeqDrainEnds, DeqCasOff, DeqSwitchOff
  <2>2. DeqSeq' = DeqSeq
    BY <1>1, <1>5 DEF DeqStart, DeqStartFails, DeqCheck, DeqStat,
                DeqInterrupted, DeqReadFails, DeqTestRotate, DeqRotate,
                DeqRotateFails, DeqSkipWrite, DeqClose,
                DeqDrainEnds, DeqCasOff, DeqSwitchOff, DeqSeq, DeqHolds
  <2>3. InFlight' = InFlight
    BY <1>2, <2>1, <2>2, FlightIs
  <2> QED
    BY <1>2, <2>1, <2>3, StoreCuts
<1> QED
  BY <1>3, <1>4, <1>5, StoreWrites, StoreSpoils, StoreForgets, StoreDrains
     DEF DeqStep

\* A termination signal closes the pipe; the other steps of the signal thread,
\* the main thread and the environment leave it alone.
LEMMA ControlStoreStep ==
  ASSUME \/ SendHup \/ SendTerm \/ SignalThread \/ MainThread
         \/ UNCHANGED vars
  PROVE  Store!Next \/ UNCHANGED Store!vars
<1>1. UNCHANGED pvars
  BY DEF SendHup, SendTerm, SignalThread, SigCheck, SigTerm, SigHup,
         SigHupDequeue, MainThread, MainLoop, MainJoin
<1>2. InFlight' = InFlight
  BY <1>1 DEF InFlight, DeqHolds, EnqHolds
<1>3. CASE SigTerm
  <2>1. Store!Close
    BY <1>1, <1>2, <1>3 DEF Store!Close, SigTerm
  <2> QED
    BY <2>1 DEF Store!Next
<1>4. CASE UNCHANGED gbl_done
  BY <1>1, <1>2, <1>4, StoreStutters
<1> QED
  BY <1>3, <1>4 DEF SendHup, SendTerm, SignalThread, SigCheck, SigHup,
                    SigHupDequeue, MainThread, MainLoop, MainJoin

LEMMA StoreNext ==
  ThreadInv /\ LossInv /\ [Next]_vars => [Store!Next]_(Store!vars)
<1> SUFFICES ASSUME ThreadInv, LossInv, [Next]_vars
             PROVE  Store!Next \/ UNCHANGED Store!vars
  OBVIOUS
<1>1. CASE Enqueuer
  BY <1>1, EnqStoreStep DEF Enqueuer, EnqCasOff
<1>2. CASE Dequeuer
  BY <1>2, DeqStoreStep DEF Dequeuer, DeqCasOff
<1>3. CASE SendHup \/ SendTerm \/ SignalThread \/ MainThread \/ UNCHANGED vars
  BY <1>3, ControlStoreStep
<1> QED
  BY <1>1, <1>2, <1>3 DEF Next, Running, Ended

\* The four threads implement the FIFO pipe of EventStore, however large the
\* queue and whatever fails: a packet received goes to the end of the pipe,
\* only the oldest one is journalled, and a packet is lost only where the
\* pipe says so.
THEOREM StoreImplemented == Spec => ImplementsStore
  BY StoreInit, StoreNext, ThreadInvHolds, LossHolds, PTL
     DEF Spec, ImplementsStore, Store!Spec

=============================================================================
