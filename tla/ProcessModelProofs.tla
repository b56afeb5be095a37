-------------------------- MODULE ProcessModelProofs --------------------------
(***************************************************************************)
(* Theorems about the journaller as three processes, for every queue type  *)
(* and capacity, any number of datagrams, rotate signals and killed        *)
(* workers, and every set of calls that may fail.                          *)
(***************************************************************************)
EXTENDS ProcessModel, PipelineProofs

USE PipelineAssumption, ProcessAssumption
USE DEF eloc, ecnt, evars, jvars, dloc, dvars, qvars, pvars,
        wvars, supvars, bounds, vars

-----------------------------------------------------------------------------
(* Types *)

ControlTypeOK ==
  /\ spc \in {"check", "start_deq", "start_enq", "wait", "hup_deq", "off_deq",
              "hup_enq", "off_enq", "sleep", "reap", "done", "exit"}
  /\ sdone \in BOOLEAN /\ srotate \in [Workers -> BOOLEAN]
  /\ proc \in [Workers -> ProcState]
  /\ pending \in [Workers -> SUBSET {"TERM", "HUP"}]
  /\ done \in [Workers -> BOOLEAN] /\ rotate \in [Workers -> BOOLEAN]
  /\ nhup \in 0..MaxHup /\ nkill \in 0..MaxKill

LEMMA TypeParts == TypeOK <=> PipelineTypeOK /\ ControlTypeOK
  BY DEF TypeOK, ControlTypeOK

LEMMA ControlInit == Init => ControlTypeOK
<1> SUFFICES ASSUME Init PROVE ControlTypeOK
  OBVIOUS
<1> USE DEF Init, ControlTypeOK, ProcState
<1>1. /\ srotate \in [Workers -> BOOLEAN] /\ proc \in [Workers -> ProcState]
      /\ pending \in [Workers -> SUBSET {"TERM", "HUP"}]
      /\ done \in [Workers -> BOOLEAN] /\ rotate \in [Workers -> BOOLEAN]
  OBVIOUS
<1>2. nhup \in 0..MaxHup /\ nkill \in 0..MaxKill
  OBVIOUS
<1>3. /\ sdone \in BOOLEAN
      /\ spc \in {"check", "start_deq", "start_enq", "wait", "hup_deq",
                  "off_deq", "hup_enq", "off_enq", "sleep", "reap", "done",
                  "exit"}
  OBVIOUS
<1> QED
  BY <1>1, <1>2, <1>3

\* The tables that are indexed by a worker or by a control point.
LEMMA Tables ==
  /\ StartAt["deq"] = "start_deq" /\ StartAt["enq"] = "start_enq"
  /\ ForwardAt["deq"] = "hup_deq" /\ ForwardAt["enq"] = "hup_enq"
  /\ OffAt["deq"] = "off_deq" /\ OffAt["enq"] = "off_enq"
  /\ NextForward["deq"] = "hup_enq" /\ NextForward["enq"] = "check"
  /\ DOMAIN Interrupt = {"wait", "reap"}
  /\ Interrupt["wait"] = "hup_deq" /\ Interrupt["reap"] = "done"
  BY DEF StartAt, ForwardAt, OffAt, NextForward, Interrupt

\* A signal to the supervisor leaves it at a control point of its own.
LEMMA InterruptedPC ==
  ASSUME SupInterrupted
  PROVE  spc' = spc \/ spc' \in {"hup_deq", "done"}
  BY Tables DEF SupInterrupted

LEMMA ControlSupervisor ==
  ASSUME ControlTypeOK, Supervisor
  PROVE  ControlTypeOK' /\ UNCHANGED pvars
<1> USE Tables DEF ControlTypeOK, Workers, ProcState
<1>1. CASE SupCheck \/ SupQuit \/ SupFinish
  <2>1. UNCHANGED <<pvars, proc, done, rotate, srotate, bounds>>
    BY <1>1 DEF SupCheck, SupQuit, SupFinish
  <2>2. /\ spc' \in {"sleep", "start_deq", "reap", "done"}
        /\ sdone' \in BOOLEAN
    BY <1>1 DEF SupCheck, SupQuit, SupFinish
  <2>3. pending' \in [Workers -> SUBSET {"TERM", "HUP"}]
    BY <1>1 DEF SupCheck, SupQuit, SupFinish
  <2> QED
    BY <2>1, <2>2, <2>3
<1>2. ASSUME NEW w \in Workers, SupStart(w)
      PROVE  ControlTypeOK' /\ UNCHANGED pvars
  <2>1. UNCHANGED <<pvars, sdone, srotate, bounds>> /\ spc' \in {"start_enq", "wait"}
    BY <1>2 DEF SupStart
  <2>2. /\ proc' \in [Workers -> ProcState]
        /\ pending' \in [Workers -> SUBSET {"TERM", "HUP"}]
        /\ done' \in [Workers -> BOOLEAN] /\ rotate' \in [Workers -> BOOLEAN]
    <3>1. CASE UNCHANGED wvars
      BY <3>1
    <3>2. CASE /\ proc' = [proc EXCEPT ![w] = "fork"]
               /\ pending' = [pending EXCEPT ![w] = {}]
               /\ done' = [done EXCEPT ![w] = FALSE]
               /\ rotate' = [rotate EXCEPT ![w] = FALSE]
      <4>1. proc' \in [Workers -> ProcState]
        BY <3>2
      <4>2. pending' \in [Workers -> SUBSET {"TERM", "HUP"}]
        BY <3>2
      <4>3. done' \in [Workers -> BOOLEAN] /\ rotate' \in [Workers -> BOOLEAN]
        BY <3>2
      <4> QED
        BY <4>1, <4>2, <4>3
    <3> QED
      BY <1>2, <3>1, <3>2 DEF SupStart
  <2> QED
    BY <2>1, <2>2
<1>3. ASSUME NEW w \in Workers, SupForkFails(w)
      PROVE  ControlTypeOK' /\ UNCHANGED pvars
  BY <1>3 DEF SupForkFails
<1>4. ASSUME NEW w \in Workers, SupWait(w) \/ SupReap(w)
      PROVE  ControlTypeOK' /\ UNCHANGED pvars
  <2>1. /\ UNCHANGED <<pvars, pending, done, rotate, sdone, srotate, bounds>>
        /\ spc' \in {"sleep", "check", spc}
        /\ proc' \in [Workers -> ProcState]
    BY <1>4 DEF SupWait, SupReap
  <2> QED
    BY <2>1
<1>5. ASSUME NEW w \in Workers, SupForward(w)
      PROVE  ControlTypeOK' /\ UNCHANGED pvars
  <2>1. /\ UNCHANGED <<pvars, proc, done, rotate, sdone, srotate, bounds>>
        /\ spc' \in {"off_deq", "off_enq", "hup_enq", "check"}
    BY <1>5 DEF SupForward
  <2>2. pending' \in [Workers -> SUBSET {"TERM", "HUP"}]
    BY <1>5 DEF SupForward
  <2> QED
    BY <2>1, <2>2
<1>6. ASSUME NEW w \in Workers, SupOff(w)
      PROVE  ControlTypeOK' /\ UNCHANGED pvars
  <2>1. /\ UNCHANGED <<pvars, wvars, sdone, bounds>>
        /\ spc' \in {"hup_enq", "check"}
        /\ srotate' \in [Workers -> BOOLEAN]
    BY <1>6 DEF SupOff
  <2> QED
    BY <2>1
<1> QED
  BY <1>1, <1>2, <1>3, <1>4, <1>5, <1>6 DEF Supervisor

LEMMA ControlSignals ==
  ASSUME ControlTypeOK, SendHup \/ SendTerm
  PROVE  ControlTypeOK' /\ UNCHANGED pvars
<1> USE DEF ControlTypeOK
<1>1. /\ UNCHANGED <<pvars, wvars, nkill>>
      /\ spc' = spc \/ spc' \in {"hup_deq", "done"}
  BY InterruptedPC DEF SendHup, SendTerm
<1>2. /\ sdone' \in BOOLEAN /\ srotate' \in [Workers -> BOOLEAN]
  BY DEF SendHup, SendTerm
<1>3. nhup' \in 0..MaxHup
  BY DEF SendHup, SendTerm
<1> QED
  BY <1>1, <1>2, <1>3

LEMMA ControlWorkers ==
  ASSUME ControlTypeOK,
         \/ \E w \in Workers : Worker(w)
         \/ \E w \in Workers, s \in {"TERM", "HUP"} : TakeSignal(w, s)
         \/ \E w \in Workers : Kill(w)
  PROVE  ControlTypeOK'
<1> USE DEF ControlTypeOK, ProcState
<1>1. ASSUME NEW w \in Workers, Worker(w)
      PROVE  ControlTypeOK'
  <2>1. UNCHANGED <<pending, done, supvars, bounds>>
    BY <1>1 DEF Worker, Exec, ExecFails, Run
  <2>2. proc' \in [Workers -> ProcState] /\ rotate' \in [Workers -> BOOLEAN]
    BY <1>1 DEF Worker, Exec, ExecFails, Run, CasOff
  <2> QED
    BY <2>1, <2>2
<1>2. ASSUME NEW w \in Workers, NEW s \in {"TERM", "HUP"}, TakeSignal(w, s)
      PROVE  ControlTypeOK'
  <2>1. UNCHANGED <<supvars, bounds>>
    BY <1>2 DEF TakeSignal
  <2>2. pending' \in [Workers -> SUBSET {"TERM", "HUP"}]
    BY <1>2 DEF TakeSignal
  <2>3. /\ proc' \in [Workers -> ProcState]
        /\ done' \in [Workers -> BOOLEAN] /\ rotate' \in [Workers -> BOOLEAN]
    BY <1>2 DEF TakeSignal, HandleInFork, HandleInBoot, Handle
  <2> QED
    BY <2>1, <2>2, <2>3
<1>3. ASSUME NEW w \in Workers, Kill(w)
      PROVE  ControlTypeOK'
  <2>1. UNCHANGED <<pending, done, rotate, supvars, nhup>>
    BY <1>3 DEF Kill
  <2>2. nkill' \in 0..MaxKill /\ proc' \in [Workers -> ProcState]
    BY <1>3 DEF Kill
  <2> QED
    BY <2>1, <2>2
<1> QED
  BY <1>1, <1>2, <1>3

LEMMA ControlNext ==
  ASSUME ControlTypeOK, [Next]_vars
  PROVE  ControlTypeOK'
<1>1. CASE UNCHANGED vars
  BY <1>1 DEF ControlTypeOK
<1> QED
  BY <1>1, ControlSupervisor, ControlSignals, ControlWorkers DEF Next, Ended

-----------------------------------------------------------------------------
(* Order and accounting across deaths and restarts *)

\* A killed enqueuer takes the packet in its hand with it: it is dropped.
LEMMA EnqDiesKeeps ==
  ASSUME AccountInv, EnqDies
  PROVE  AccountInv'
<1>1. /\ UNCHANGED <<nrecv, ereported, dvars, qvars>>
      /\ epc' = "start" /\ ebuf' = Zeroed /\ eret' = "intr" /\ retry' = 0
      /\ eq' = Closed /\ esince' = 0 /\ dropped' = dropped \cup EnqHand
  BY DEF EnqDies
<1>2. EnqHand' = {} /\ DeqHand' = DeqHand
  BY <1>1 DEF EnqHand, EnqHolds, DeqHand, DeqHolds
<1>3. TypeInv'
  <2>1. EnqHand \subseteq Event
    BY DEF AccountInv, OrderInv, TypeInv, PipelineTypeOK, EnqTypeOK, EnqHand
  <2>2. EnqTypeOK'
    BY <1>1, <2>1, ZeroedType DEF AccountInv, OrderInv, TypeInv, PipelineTypeOK,
                                  EnqTypeOK, EnqPC, Closed
  <2>3. (DeqTypeOK /\ QueueTypeOK /\ JournalTypeOK)'
    BY <1>1 DEF AccountInv, OrderInv, TypeInv, PipelineTypeOK, DeqTypeOK,
                QueueTypeOK, JournalTypeOK
  <2> QED
    BY <1>1, <2>2, <2>3 DEF AccountInv, OrderInv, TypeInv, PipelineTypeOK
<1>4. OrderInv'
  BY <1>1, <1>2, <1>3, OrderShrinks DEF AccountInv, OrderInv
<1>5. Accounted'
  <2>1. /\ At(4)' = At(4) \ At(4) /\ At(5)' = At(5) \cup At(4)
        /\ \A m \in {1, 2, 3, 6, 7} : At(m)' = At(m)
    BY <1>1, <1>2, PlacesAre, IdsUnion DEF PlacesListed
  <2> QED
    BY <1>1, <2>1, PlacesAre, Move DEF PlacesListed, AccountInv
<1> QED
  BY <1>1, <1>4, <1>5 DEF AccountInv

\* A killed dequeuer takes the packet in its hand with it: it is not written.
LEMMA DeqDiesKeeps ==
  ASSUME AccountInv, DeqDies
  PROVE  AccountInv'
<1>1. /\ UNCHANGED <<written, cuts, reports, evars, qvars>>
      /\ dpc' = "start" /\ dbuf' = Zeroed /\ dret' = "intr" /\ max' = 0
      /\ dq' = Closed /\ dsince' = 0 /\ unwritten' = unwritten \cup DeqHand
  BY DEF DeqDies
<1>2. DeqHand' = {} /\ EnqHand' = EnqHand
  BY <1>1 DEF EnqHand, EnqHolds, DeqHand, DeqHolds
<1>3. TypeInv'
  <2>1. DeqHand \subseteq Event
    BY DEF AccountInv, OrderInv, TypeInv, PipelineTypeOK, DeqTypeOK, DeqHand
  <2>2. DeqTypeOK'
    BY <1>1, ZeroedType DEF DeqTypeOK, DeqPC, Closed
  <2>3. JournalTypeOK'
    BY <1>1, <2>1 DEF AccountInv, OrderInv, TypeInv, PipelineTypeOK,
                      JournalTypeOK
  <2>4. (EnqTypeOK /\ QueueTypeOK)'
    BY <1>1 DEF AccountInv, OrderInv, TypeInv, PipelineTypeOK, EnqTypeOK,
                QueueTypeOK
  <2> QED
    BY <1>1, <2>2, <2>3, <2>4 DEF TypeInv, PipelineTypeOK
<1>4. OrderInv'
  BY <1>1, <1>2, <1>3, OrderShrinks DEF AccountInv, OrderInv
<1>5. Accounted'
  <2>1. /\ At(2)' = At(2) \ At(2) /\ At(6)' = At(6) \cup At(2)
        /\ \A m \in {1, 3, 4, 5, 7} : At(m)' = At(m)
    BY <1>1, <1>2, PlacesAre, IdsUnion DEF PlacesListed
  <2> QED
    BY <1>1, <2>1, PlacesAre, Move DEF PlacesListed, AccountInv
<1> QED
  BY <1>1, <1>4, <1>5 DEF AccountInv

\* What a step of the processes does to the pipeline.
LEMMA PipelineMoves ==
  ASSUME ControlTypeOK, [Next]_vars
  PROVE  EnqWork \/ DeqWork \/ EnqDies \/ DeqDies \/ UNCHANGED pvars
<1>1. CASE Supervisor \/ SendHup \/ SendTerm \/ Ended \/ UNCHANGED vars
  BY <1>1, ControlSupervisor, ControlSignals DEF Ended
<1>2. ASSUME NEW w \in Workers, Worker(w)
      PROVE  EnqWork \/ DeqWork \/ UNCHANGED pvars
  <2>1. done[w] \in BOOLEAN /\ rotate[w] \in BOOLEAN
    BY DEF ControlTypeOK
  <2>2. CASE Exec(w) \/ ExecFails(w)
    BY <2>2 DEF Exec, ExecFails
  <2>3. CASE Run(w) /\ w = "enq"
    <3>1. EnqStep \/ EnqSwitchOff
      BY <2>3 DEF Run, Step, CasOff
    <3> QED
      BY <2>1, <2>3, <3>1 DEF EnqStep, EnqWork
  <2>4. CASE Run(w) /\ w = "deq"
    <3>1. DeqStep \/ DeqSwitchOff
      BY <2>4 DEF Run, Step, CasOff
    <3> QED
      BY <2>1, <2>4, <3>1 DEF DeqStep, DeqWork
  <2> QED
    BY <1>2, <2>2, <2>3, <2>4 DEF Worker, Workers
<1>3. ASSUME NEW w \in Workers, NEW s \in {"TERM", "HUP"}, TakeSignal(w, s)
      PROVE  EnqWork \/ DeqWork \/ UNCHANGED pvars
  BY <1>3 DEF TakeSignal, HandleInFork, HandleInBoot, Handle, Interrupted,
              EnqWork, DeqWork
<1>4. ASSUME NEW w \in Workers, Kill(w)
      PROVE  EnqDies \/ DeqDies
  BY <1>4 DEF Kill
<1> QED
  BY <1>1, <1>2, <1>3, <1>4 DEF Next

KeptInv == ControlTypeOK /\ AccountInv

LEMMA KeptInit == Init => KeptInv
  BY ControlInit, AccountInit DEF Init, KeptInv

LEMMA KeptNext == KeptInv /\ [Next]_vars => KeptInv'
  BY ControlNext, PipelineMoves, AccountStep, EnqDiesKeeps, DeqDiesKeeps
     DEF KeptInv

LEMMA KeptHolds == Spec => []KeptInv
  BY KeptInit, KeptNext, PTL DEF Spec

\* Workers that are killed at any point and started again, in any order and
\* with any signals pending, neither reorder nor double a packet, and none
\* disappears unnoticed: what a killed worker held is given up, and nothing
\* else.
THEOREM PacketsCorrect == Spec => []PacketsKept
<1>1. KeptInv => PacketsKept
  BY TypeParts DEF KeptInv, AccountInv, OrderInv, TypeInv, PacketsKept
<1> QED
  BY <1>1, KeptHolds, PTL

-----------------------------------------------------------------------------
(* Supervision *)

Started(w) == proc[w] \notin {"none", "reaped"}

\* From the second start to the end of a turn of its loop the supervisor has
\* no worker that was waited for and not started again.
SupervisedInv ==
  /\ spc \in {"wait", "hup_deq", "off_deq", "hup_enq", "off_enq"} =>
       \A w \in Workers : Started(w)
  /\ spc = "start_enq" => Started("deq")

LEMMA SupervisedInit == Init => SupervisedInv
  BY DEF Init, SupervisedInv

\* A worker does not undo its start: only the supervisor waits for it.
LEMMA StartedStays ==
  ASSUME ControlTypeOK, NEW w \in Workers, Started(w),
         \/ \E v \in Workers : Worker(v)
         \/ \E v \in Workers, s \in {"TERM", "HUP"} : TakeSignal(v, s)
         \/ \E v \in Workers : Kill(v)
  PROVE  Started(w)' /\ UNCHANGED spc
<1> USE DEF ControlTypeOK, Started
<1>1. ASSUME NEW v \in Workers, Worker(v)
      PROVE  Started(w)' /\ UNCHANGED spc
  BY <1>1 DEF Worker, Exec, ExecFails, Run
<1>2. ASSUME NEW v \in Workers, NEW s \in {"TERM", "HUP"}, TakeSignal(v, s)
      PROVE  Started(w)' /\ UNCHANGED spc
  BY <1>2 DEF TakeSignal, HandleInFork, HandleInBoot, Handle
<1>3. ASSUME NEW v \in Workers, Kill(v)
      PROVE  Started(w)' /\ UNCHANGED spc
  BY <1>3 DEF Kill
<1> QED
  BY <1>1, <1>2, <1>3

LEMMA SupervisedNext == KeptInv /\ SupervisedInv /\ [Next]_vars => SupervisedInv'
<1> SUFFICES ASSUME KeptInv, SupervisedInv, [Next]_vars
             PROVE  SupervisedInv'
  OBVIOUS
<1> USE Tables DEF SupervisedInv, Started, Workers
<1>1. CASE SupCheck \/ SupQuit \/ SupFinish \/ Ended \/ UNCHANGED vars
  BY <1>1 DEF SupCheck, SupQuit, SupFinish, Ended
<1>2. ASSUME NEW w \in Workers, SupStart(w)
      PROVE  SupervisedInv'
  <2>1. /\ proc \in [Workers -> ProcState]
        /\ \/ proc' = [proc EXCEPT ![w] = "fork"]
           \/ ~MustStart(w) /\ proc' = proc
    BY <1>2 DEF SupStart, KeptInv, ControlTypeOK
  <2>2. proc'[w] \notin {"none", "reaped"} /\ (\A v \in Workers : v # w => proc'[v] = proc[v])
    BY <2>1 DEF MustStart
  <2>3. \/ w = "deq" /\ spc' = "start_enq"
        \/ w = "enq" /\ spc = "start_enq" /\ spc' = "wait"
    BY <1>2 DEF SupStart
  <2> QED
    BY <2>2, <2>3
<1>3. ASSUME NEW w \in Workers, SupForkFails(w) \/ SupWait(w) \/ SupReap(w)
      PROVE  SupervisedInv'
  <2>1. spc' \in {"exit", "sleep", "check", "reap"}
    BY <1>3 DEF SupForkFails, SupWait, SupReap
  <2> QED
    BY <2>1
<1>4. ASSUME NEW w \in Workers, SupForward(w) \/ SupOff(w)
      PROVE  SupervisedInv'
  <2>1. /\ proc' = proc
        /\ spc \in {"hup_deq", "off_deq", "hup_enq", "off_enq"}
        /\ spc' # "start_enq"
    BY <1>4 DEF SupForward, SupOff
  <2> QED
    BY <2>1
<1>5. CASE SendHup \/ SendTerm
  <2>1. /\ proc' = proc
        /\ spc' = spc \/ spc' = "done" \/ (spc = "wait" /\ spc' = "hup_deq")
    BY <1>5 DEF SendHup, SendTerm, SupInterrupted
  <2> QED
    BY <2>1
<1>6. CASE \/ \E w \in Workers : Worker(w)
           \/ \E w \in Workers, s \in {"TERM", "HUP"} : TakeSignal(w, s)
           \/ \E w \in Workers : Kill(w)
  <2>1. UNCHANGED spc
    BY <1>6 DEF Worker, Exec, ExecFails, Run, TakeSignal, Kill
  <2>2. \A w \in Workers : Started(w) => Started(w)'
    BY <1>6, StartedStays DEF KeptInv
  <2> QED
    BY <2>1, <2>2
<1> QED
  BY <1>1, <1>2, <1>3, <1>4, <1>5, <1>6 DEF Next, Supervisor

LEMMA SupervisedHolds == Spec => []SupervisedInv
  BY SupervisedInit, SupervisedNext, KeptHolds, PTL DEF Spec

\* However often workers die, the supervisor never waits with a worker
\* missing: each one runs or has ended and is still to be waited for.
THEOREM SupervisedCorrect == Spec => []Supervised
<1>1. KeptInv /\ SupervisedInv => Supervised
  BY DEF KeptInv, ControlTypeOK, ProcState, SupervisedInv, Started, Supervised,
         Live, HasExited, WasKilled
<1> QED
  BY <1>1, KeptHolds, SupervisedHolds, PTL

-----------------------------------------------------------------------------
(* Loss *)

\* No termination signal reaches a worker before the supervisor sends SIGQUIT,
\* and no rotate signal before one was sent to the supervisor.
SignalInv ==
  /\ ~QuitSent => \A w \in Workers : ~done[w] /\ "TERM" \notin pending[w]
  /\ nhup = 0 => \A w \in Workers : ~srotate[w] /\ "HUP" \notin pending[w]

LEMMA SignalInit == Init => SignalInv
  BY DEF Init, SignalInv

\* SIGQUIT, once sent, remains sent.
LEMMA QuitStays ==
  ASSUME [Next]_vars, QuitSent
  PROVE  QuitSent'
<1> USE Tables DEF QuitSent, Workers
<1>1. CASE Supervisor
  BY <1>1 DEF Supervisor, SupCheck, SupQuit, SupFinish, SupStart, SupForkFails,
              SupWait, SupForward, SupOff, SupReap
<1>2. CASE SendHup \/ SendTerm
  BY <1>2 DEF SendHup, SendTerm, SupInterrupted, SupAlive
<1>3. CASE \/ \E w \in Workers : Worker(w)
           \/ \E w \in Workers, s \in {"TERM", "HUP"} : TakeSignal(w, s)
           \/ \E w \in Workers : Kill(w)
           \/ Ended \/ UNCHANGED vars
  BY <1>3 DEF Worker, Exec, ExecFails, Run, TakeSignal, Kill, Ended
<1> QED
  BY <1>1, <1>2, <1>3 DEF Next

LEMMA SignalNext == KeptInv /\ SignalInv /\ [Next]_vars => SignalInv'
<1> SUFFICES ASSUME KeptInv, SignalInv, [Next]_vars
             PROVE  SignalInv'
  OBVIOUS
<1>1. /\ done \in [Workers -> BOOLEAN] /\ srotate \in [Workers -> BOOLEAN]
      /\ pending \in [Workers -> SUBSET {"TERM", "HUP"}]
      /\ nhup \in Nat
  BY DEF KeptInv, ControlTypeOK
<1>2. ~QuitSent' => ~QuitSent
  BY QuitStays
<1>3. CASE UNCHANGED <<pending, done, srotate, nhup>>
  BY <1>2, <1>3 DEF SignalInv
<1>4. ASSUME NEW w \in Workers, SupStart(w)
      PROVE  SignalInv'
  <2>1. /\ UNCHANGED <<srotate, nhup>>
        /\ \/ UNCHANGED <<pending, done>>
           \/ /\ pending' = [pending EXCEPT ![w] = {}]
              /\ done' = [done EXCEPT ![w] = FALSE]
    BY <1>4 DEF SupStart
  <2>2. \A v \in Workers : pending'[v] \subseteq pending[v] /\ (done'[v] => done[v])
    BY <1>1, <2>1
  <2> QED
    BY <1>2, <2>1, <2>2 DEF SignalInv
<1>5. ASSUME NEW w \in Workers, SupForward(w)
      PROVE  SignalInv'
  <2>1. /\ UNCHANGED <<srotate, nhup, done>>
        /\ \/ pending' = pending
           \/ /\ srotate[w]
              /\ pending' = [pending EXCEPT ![w] = IF Live(w) THEN @ \cup {"HUP"} ELSE @]
    BY <1>5 DEF SupForward
  <2>2. \A v \in Workers : "TERM" \in pending'[v] => "TERM" \in pending[v]
    BY <1>1, <2>1
  <2>3. nhup = 0 => pending' = pending
    BY <2>1 DEF SignalInv
  <2> QED
    BY <1>2, <2>1, <2>2, <2>3 DEF SignalInv
<1>6. ASSUME NEW w \in Workers, SupOff(w)
      PROVE  SignalInv'
  <2>1. UNCHANGED <<pending, done, nhup>> /\ srotate' = [srotate EXCEPT ![w] = FALSE]
    BY <1>6 DEF SupOff
  <2>2. \A v \in Workers : srotate'[v] => srotate[v]
    BY <1>1, <2>1
  <2> QED
    BY <1>2, <2>1, <2>2 DEF SignalInv
<1>7. CASE SupQuit
  <2>1. /\ UNCHANGED <<done, srotate, nhup>> /\ QuitSent'
        /\ \A v \in Workers : "HUP" \in pending'[v] => "HUP" \in pending[v]
    BY <1>1, <1>7 DEF SupQuit, QuitSent
  <2> QED
    BY <2>1 DEF SignalInv
<1>8. CASE SendHup
  <2>1. nhup' # 0 /\ UNCHANGED <<pending, done>>
    BY <1>1, <1>8 DEF SendHup
  <2> QED
    BY <1>2, <2>1 DEF SignalInv
<1>9. ASSUME NEW w \in Workers, NEW s \in {"TERM", "HUP"}, TakeSignal(w, s)
      PROVE  SignalInv'
  <2>1. /\ UNCHANGED <<srotate, nhup>> /\ s \in pending[w]
        /\ \A v \in Workers : pending'[v] \subseteq pending[v]
    BY <1>1, <1>9 DEF TakeSignal
  <2>2. s = "HUP" => \A v \in Workers : done'[v] => done[v]
    BY <1>1, <1>9 DEF TakeSignal, HandleInFork, HandleInBoot, Handle
  <2>3. ~QuitSent => s = "HUP"
    BY <2>1 DEF SignalInv
  <2> QED
    BY <1>2, <2>1, <2>2, <2>3 DEF SignalInv
<1> QED
  <2>1. SupCheck \/ SupFinish \/ SendTerm \/ Ended \/ UNCHANGED vars
          => UNCHANGED <<pending, done, srotate, nhup>>
    BY DEF SupCheck, SupFinish, SendTerm, Ended
  <2>2. \A w \in Workers : SupForkFails(w) \/ SupWait(w) \/ SupReap(w)
          => UNCHANGED <<pending, done, srotate, nhup>>
    BY DEF SupForkFails, SupWait, SupReap
  <2>3. \A w \in Workers : Worker(w) \/ Kill(w)
          => UNCHANGED <<pending, done, srotate, nhup>>
    BY DEF Worker, Exec, ExecFails, Run, Kill
  <2> QED
    BY <1>3, <1>4, <1>5, <1>6, <1>7, <1>8, <1>9, <2>1, <2>2, <2>3
       DEF Next, Supervisor

LEMMA SignalHolds == Spec => []SignalInv
  BY SignalInit, SignalNext, KeptHolds, PTL DEF Spec

\* The death of a worker removes no queue.
LEMMA LoopsDies ==
  ASSUME InLoops, EnqDies \/ DeqDies
  PROVE  InLoops'
<1>1. CASE EnqDies
  BY <1>1 DEF EnqDies, InLoops, Usable
<1>2. CASE DeqDies
  BY <1>2 DEF DeqDies, InLoops, Usable
<1> QED
  BY <1>1, <1>2

\* What a step of the processes does to the pipeline, with the part of the
\* control it depends on.
LEMMA StepKinds ==
  ASSUME ControlTypeOK, [Next]_vars
  PROVE  \/ EnqStep \/ EnqSwitchOff
         \/ DeqStep \/ DeqSwitchOff
         \/ /\ EnqSendInterrupted
            /\ \E s \in {"TERM", "HUP"} : s \in pending["enq"]
         \/ DeqInterrupted(TRUE) \/ DeqDrainEnds(TRUE)
         \/ (EnqDies \/ DeqDies) /\ nkill' = nkill + 1
         \/ UNCHANGED pvars
<1>1. CASE Supervisor \/ SendHup \/ SendTerm \/ Ended \/ UNCHANGED vars
  BY <1>1, ControlSupervisor, ControlSignals DEF Ended
<1>2. ASSUME NEW w \in Workers, Worker(w)
      PROVE  \/ EnqStep \/ EnqSwitchOff \/ DeqStep \/ DeqSwitchOff
             \/ UNCHANGED pvars
  BY <1>2 DEF Worker, Exec, ExecFails, Run, Step, CasOff
<1>3. ASSUME NEW w \in Workers, NEW s \in {"TERM", "HUP"}, TakeSignal(w, s)
      PROVE  \/ EnqSendInterrupted /\ s \in pending["enq"]
             \/ DeqInterrupted(TRUE) \/ DeqDrainEnds(TRUE) \/ UNCHANGED pvars
  BY <1>3 DEF TakeSignal, HandleInFork, HandleInBoot, Handle, Interrupted
<1>4. ASSUME NEW w \in Workers, Kill(w)
      PROVE  (EnqDies \/ DeqDies) /\ nkill' = nkill + 1
  BY <1>4 DEF Kill
<1> QED
  BY <1>1, <1>2, <1>3, <1>4 DEF Next

\* What LossExplained needs to be inductive: until SIGQUIT is sent no worker
\* has left its loop, so no destructor has removed the queue.
LossInv ==
  ~QuitSent =>
    /\ InLoops
    /\ nkill = 0 /\ "journal_write" \notin Faults => unwritten = {}
    /\ nkill = 0 /\ nhup = 0 /\ QueueType = "mq" => dropped = {}

LEMMA LossInit == Init => LossInv
  BY LoopsInit DEF Init, PipelineInit, LossInv

\* As long as no worker was told to stop, none leaves its loop.
LEMMA LoopsLast ==
  ASSUME InLoops, ~done["enq"], ~done["deq"],
         \/ EnqStep \/ EnqSwitchOff \/ DeqStep \/ DeqSwitchOff
         \/ EnqSendInterrupted \/ DeqInterrupted(TRUE) \/ DeqDrainEnds(TRUE)
  PROVE  epc' # "fini" /\ dpc' # "close"
<1>1. CASE EnqStep \/ EnqSwitchOff \/ EnqSendInterrupted
  BY <1>1 DEF InLoops, EnqStep, EnqStart, EnqStartFails, EnqCheck, EnqReceive,
              EnqInterrupted, EnqSocketError, EnqTestRotate, EnqRotateStats,
              EnqSkipWrite, EnqSend, EnqSendAgain, EnqSendFails, EnqFinish,
              EnqSwitchOff, EnqSendInterrupted
<1>2. CASE \/ DeqStep \/ DeqSwitchOff \/ DeqInterrupted(TRUE)
           \/ DeqDrainEnds(TRUE)
  <2>1. dpc' # "close"
    BY <1>2 DEF DeqStep, DeqStart, DeqStartFails, DeqCheck, DeqReceive,
                DeqStat, DeqStatFails, DeqInterrupted, DeqReadFails,
                DeqTestRotate, DeqRotate, DeqRotateFails, DeqSkipWrite,
                DeqWrite, DeqWriteFails, DeqClose, DeqDrain, DeqDrainEnds,
                DeqFinish, DeqSwitchOff
  <2>2. epc' = epc
    BY <1>2 DEF DeqStep, DeqStart, DeqStartFails, DeqCheck, DeqReceive,
                DeqStat, DeqStatFails, DeqInterrupted, DeqReadFails,
                DeqTestRotate, DeqRotate, DeqRotateFails, DeqSkipWrite,
                DeqWrite, DeqWriteFails, DeqClose, DeqDrain, DeqDrainEnds,
                DeqFinish, DeqSwitchOff
  <2> QED
    BY <2>1, <2>2 DEF InLoops
<1> QED
  BY <1>1, <1>2

\* The enqueuer gives a packet up on a full System V queue, or when a signal
\* interrupts the wait for a POSIX queue.
LEMMA DropsNot ==
  ASSUME InLoops, EnqStep \/ EnqSwitchOff, QueueType = "mq"
  PROVE  UNCHANGED dropped
  BY DEF EnqStep, EnqStart, EnqStartFails, EnqCheck, EnqReceive,
         EnqInterrupted, EnqSocketError, EnqTestRotate, EnqRotateStats,
         EnqSkipWrite, EnqSend, EnqSendAgain, EnqSendFails, EnqFinish,
         EnqSwitchOff

LEMMA LossNext ==
  KeptInv /\ SignalInv /\ LossInv /\ [Next]_vars => LossInv'
<1> SUFFICES ASSUME KeptInv, SignalInv, LossInv, [Next]_vars, ~QuitSent'
             PROVE  /\ InLoops'
                    /\ nkill' = 0 /\ "journal_write" \notin Faults
                         => unwritten' = {}
                    /\ nkill' = 0 /\ nhup' = 0 /\ QueueType = "mq"
                         => dropped' = {}
  BY DEF LossInv
<1>1. /\ InLoops
      /\ nkill = 0 /\ "journal_write" \notin Faults => unwritten = {}
      /\ nkill = 0 /\ nhup = 0 /\ QueueType = "mq" => dropped = {}
      /\ ~done["enq"] /\ ~done["deq"] /\ "TERM" \notin pending["enq"]
  BY QuitStays DEF LossInv, SignalInv, Workers
<1>2. (nkill' = 0 => nkill = 0) /\ (nhup' = 0 => nhup = 0)
  <2>1. /\ nkill \in Nat /\ nhup \in Nat
        /\ nkill' = nkill \/ nkill' = nkill + 1
        /\ nhup' = nhup \/ nhup' = nhup + 1
    BY DEF KeptInv, ControlTypeOK, Next, Supervisor, SupCheck, SupQuit,
           SupFinish, SupStart, SupForkFails, SupWait, SupForward, SupOff,
           SupReap, SendHup, SendTerm, Worker, Exec, ExecFails, Run,
           TakeSignal, Kill, Ended
  <2> QED
    BY <2>1
<1>3. CASE EnqStep \/ EnqSwitchOff
  <2>1. EnqWork
    BY <1>3 DEF EnqStep, EnqWork, KeptInv, ControlTypeOK, Workers
  <2> QED
    BY <1>1, <1>2, <1>3, <2>1, LoopsLast, LoopsEnqWork, DropsNot
<1>4. CASE \/ DeqStep \/ DeqSwitchOff
           \/ DeqInterrupted(TRUE) \/ DeqDrainEnds(TRUE)
  <2>1. DeqWork
    BY <1>4 DEF DeqStep, DeqWork, KeptInv, ControlTypeOK, Workers
  <2> QED
    BY <1>1, <1>2, <1>4, <2>1, LoopsLast, LoopsDeqWork
<1>5. CASE /\ EnqSendInterrupted
           /\ \E s \in {"TERM", "HUP"} : s \in pending["enq"]
  <2>1. EnqWork
    BY <1>5 DEF EnqWork
  <2>2. nhup # 0
    BY <1>1, <1>5 DEF SignalInv, Workers
  <2> QED
    BY <1>1, <1>2, <1>5, <2>1, <2>2, LoopsLast, LoopsEnqWork
<1>6. CASE (EnqDies \/ DeqDies) /\ nkill' = nkill + 1
  <2>1. nkill' # 0
    BY <1>6 DEF KeptInv, ControlTypeOK
  <2> QED
    BY <1>1, <1>6, <2>1, LoopsDies
<1>7. CASE UNCHANGED pvars
  BY <1>1, <1>2, <1>7, LoopsStay
<1> QED
  BY <1>3, <1>4, <1>5, <1>6, <1>7, StepKinds DEF KeptInv

LEMMA LossHolds == Spec => []LossInv
  BY LossInit, LossNext, KeptHolds, SignalHolds, PTL DEF Spec

\* Until the supervisor sends SIGQUIT the queue loses nothing, whichever
\* workers die and are started again.  Between the queue and the journal a
\* packet is lost only by a killed worker or a failed write, and before a
\* POSIX queue only by a killed worker or a rotate signal.
THEOREM LossCorrect == Spec => []LossExplained
<1>1. LossInv => LossExplained
  BY DEF LossInv, InLoops, LossExplained
<1> QED
  BY <1>1, LossHolds, PTL

-----------------------------------------------------------------------------
(* Reasons to rotate *)

\* A rotate signal to the supervisor is worth one rotation as long as it has
\* not served: while it is to be passed on, while it is pending for the
\* dequeuer, and while the switch of the dequeuer is on and the dequeuer has
\* not yet rotated for it.
Forwarding == IF srotate["deq"] /\ spc # "off_deq" THEN 1 ELSE 0

Pending == IF "HUP" \in pending["deq"] THEN 1 ELSE 0

Switched ==
  IF proc["deq"] = "run" /\ rotate["deq"] /\ dpc \notin {"off", "exit"}
    THEN 1 ELSE 0

\* The dequeuer that lives when SIGQUIT is sent closes its journal once.
Closable ==
  IF /\ QuitSent /\ proc["deq"] \in {"fork", "boot", "run"}
     /\ dpc \notin {"drain", "fini", "done"}
    THEN 1 ELSE 0

Quits == IF QuitSent THEN 1 ELSE 0

\* Rotations made and still to be made, and the reasons for them.
Balance ==
  Len(cuts) + CommandHeld + Switched + Pending + Forwarding + Closable
    <= Taken + nhup + Quits

\* The dequeuer rotates for a command in its buffer or for the switch, or
\* passes the rotation over because it was told to stop.
Justified == dpc = "stats" => dbuf.rotate \/ rotate["deq"] \/ done["deq"]

\* A dequeuer that does not run is at the start of its program or at an end.
Parked == proc["deq"] # "run" => dpc \in {"start", "done", "exit"}

\* A new dequeuer finds its switches off.
Fresh == proc["deq"] \in {"fork", "boot"} => ~rotate["deq"] /\ ~done["deq"]

SpuriousInv == RotationInv /\ Justified /\ Parked /\ Fresh /\ Balance

LEMMA SpuriousInit == Init => SpuriousInv
<1> SUFFICES ASSUME Init PROVE SpuriousInv
  OBVIOUS
<1>1. RotationInv /\ Taken = 0 /\ Len(cuts) = 0
  BY RotationInit DEF Init
<1>2. /\ CommandHeld = 0 /\ Switched = 0 /\ Pending = 0 /\ Forwarding = 0
      /\ Closable = 0 /\ Quits = 0 /\ nhup = 0
  BY DEF Init, PipelineInit, CommandHeld, Switched, Pending, Forwarding,
         Closable, Quits, QuitSent, Workers
<1>3. Justified /\ Parked /\ Fresh
  BY DEF Init, PipelineInit, Justified, Parked, Fresh, Workers
<1> QED
  BY <1>1, <1>2, <1>3 DEF SpuriousInv, Balance

LEMMA CreditTypes ==
  /\ Switched \in {0, 1} /\ Pending \in {0, 1} /\ Forwarding \in {0, 1}
  /\ Closable \in {0, 1} /\ Quits \in {0, 1} /\ CommandHeld \in {0, 1}
  /\ Switched' \in {0, 1} /\ Pending' \in {0, 1} /\ Forwarding' \in {0, 1}
  /\ Closable' \in {0, 1} /\ Quits' \in {0, 1} /\ CommandHeld' \in {0, 1}
  BY DEF Switched, Pending, Forwarding, Closable, Quits, CommandHeld

LEMMA DeqDiesKeepsTaken ==
  ASSUME DeqDies \/ EnqDies
  PROVE  /\ RotateCommandsTaken' = RotateCommandsTaken /\ Taken' = Taken
         /\ cuts' = cuts
         /\ DeqDies => CommandHeld' = 0 /\ dpc' = "start"
         /\ EnqDies => UNCHANGED <<CommandHeld, dpc, dbuf, dret>>
<1>1. CASE DeqDies
  <2>1. /\ UNCHANGED <<written, cuts>> /\ DeqHand' = {}
        /\ unwritten' = unwritten \cup DeqHand /\ dpc' = "start"
    BY <1>1 DEF DeqDies, DeqHand, DeqHolds
  <2>2. RotateCommandsTaken' = RotateCommandsTaken
    BY <2>1 DEF RotateCommandsTaken
  <2>3. CommandHeld' = 0
    BY <2>1 DEF CommandHeld
  <2>4. EnqDies => UNCHANGED <<CommandHeld, dpc, dbuf, dret>>
    BY DEF EnqDies, CommandHeld
  <2> QED
    BY <2>1, <2>2, <2>3, <2>4 DEF Taken
<1>2. CASE EnqDies
  <2>1. UNCHANGED dvars
    BY <1>2 DEF EnqDies
  <2>2. DeqHand' = DeqHand
    BY <2>1 DEF DeqHand, DeqHolds
  <2>3. RotateCommandsTaken' = RotateCommandsTaken
    BY <2>1, <2>2 DEF RotateCommandsTaken
  <2>4. UNCHANGED <<CommandHeld, dpc, dbuf, dret>>
    BY <2>1 DEF CommandHeld
  <2>5. DeqDies => CommandHeld' = 0 /\ dpc' = "start"
    BY DEF DeqDies, CommandHeld
  <2> QED
    BY <2>1, <2>3, <2>4, <2>5 DEF Taken
<1> QED
  BY <1>1, <1>2

\* What a step does to the credits while the dequeuer itself does not move:
\* a signal is sent, passed on, or lost; or SIGQUIT is sent.
CreditsFall ==
  /\ Switched' <= Switched /\ Pending' <= Pending /\ Closable' <= Closable

SignalSent ==
  /\ nhup' = nhup + 1 /\ CreditsFall /\ Quits' = Quits

SignalPassed ==
  /\ nhup' = nhup /\ Quits' = Quits /\ Forwarding = 1 /\ Forwarding' = 0
  /\ Switched' <= Switched /\ Closable' <= Closable

QuitPassed ==
  /\ nhup' = nhup /\ Quits = 0 /\ Quits' = 1 /\ Closable = 0
  /\ Switched' <= Switched /\ Pending' <= Pending /\ Forwarding' <= Forwarding

SignalsLost ==
  /\ nhup' = nhup /\ CreditsFall /\ Quits' = Quits /\ Forwarding' <= Forwarding

CreditsMove == SignalSent \/ SignalPassed \/ QuitPassed \/ SignalsLost

\* A credit is 0 or 1, so it falls unless it is switched on.
LEMMA Falls ==
  /\ (Switched' = 1 => Switched = 1) => Switched' <= Switched
  /\ (Pending' = 1 => Pending = 1) => Pending' <= Pending
  /\ (Closable' = 1 => Closable = 1) => Closable' <= Closable
  /\ (Forwarding' = 1 => Forwarding = 1) => Forwarding' <= Forwarding
<1>1. (Switched' = 1 => Switched = 1) => Switched' <= Switched
  BY CreditTypes
<1>2. (Pending' = 1 => Pending = 1) => Pending' <= Pending
  BY CreditTypes
<1>3. (Closable' = 1 => Closable = 1) => Closable' <= Closable
  BY CreditTypes
<1>4. (Forwarding' = 1 => Forwarding = 1) => Forwarding' <= Forwarding
  BY CreditTypes
<1> QED
  BY <1>1, <1>2, <1>3, <1>4

\* Credits fall when the variables they depend on only turn off.
LEMMA TurnOff ==
  ASSUME proc'["deq"] = "run" /\ rotate'["deq"] /\ dpc' \notin {"off", "exit"}
           => proc["deq"] = "run" /\ rotate["deq"] /\ dpc \notin {"off", "exit"},
         "HUP" \in pending'["deq"] => "HUP" \in pending["deq"]
  PROVE  Switched' <= Switched /\ Pending' <= Pending
<1>1. Switched' = 1 => Switched = 1
  BY DEF Switched
<1>2. Pending' = 1 => Pending = 1
  BY DEF Pending
<1> QED
  BY <1>1, <1>2, Falls

LEMMA ClosableFalls ==
  ASSUME QuitSent' => QuitSent,
         proc'["deq"] \in {"fork", "boot", "run"} /\ QuitSent'
           => proc["deq"] \in {"fork", "boot", "run"},
         dpc \in {"drain", "fini", "done"} =>
           dpc' \in {"drain", "fini", "done"} \/ proc'["deq"] = "killed"
  PROVE  Closable' <= Closable
<1>1. Closable' = 1 => Closable = 1
  BY DEF Closable
<1> QED
  BY <1>1, Falls

LEMMA CreditsSupervisor ==
  ASSUME KeptInv, SpuriousInv, Supervisor
  PROVE  CreditsMove
<1> USE Tables DEF Workers
<1>1. /\ proc \in [Workers -> ProcState] /\ rotate \in [Workers -> BOOLEAN]
      /\ pending \in [Workers -> SUBSET {"TERM", "HUP"}]
      /\ srotate \in [Workers -> BOOLEAN]
      /\ UNCHANGED <<pvars, bounds>>
  <2>1. ControlTypeOK
    BY DEF KeptInv
  <2>2. UNCHANGED bounds
    BY DEF Supervisor, SupCheck, SupQuit, SupFinish, SupStart, SupForkFails,
           SupWait, SupForward, SupOff, SupReap
  <2> QED
    BY <2>1, <2>2, ControlSupervisor DEF ControlTypeOK
<1>2. CASE SupCheck \/ SupFinish
  <2>1. /\ UNCHANGED <<proc, pending, rotate, srotate>>
        /\ QuitSent' = QuitSent /\ (spc = "off_deq") = (spc' = "off_deq")
    BY <1>2 DEF SupCheck, SupFinish, QuitSent
  <2>2. UNCHANGED <<Switched, Pending, Forwarding, Closable, Quits>>
    BY <1>1, <2>1 DEF Switched, Pending, Forwarding, Closable, Quits
  <2> QED
    BY <1>1, <2>2, CreditTypes DEF CreditsMove, SignalsLost, CreditsFall
<1>3. ASSUME NEW w \in Workers, SupStart(w)
      PROVE  CreditsMove
  <2>1. /\ UNCHANGED srotate /\ spc' \in {"start_enq", "wait"}
        /\ spc \in {"start_deq", "start_enq"}
        /\ \/ UNCHANGED <<proc, pending, rotate>>
           \/ /\ proc' = [proc EXCEPT ![w] = "fork"]
              /\ pending' = [pending EXCEPT ![w] = {}]
              /\ rotate' = [rotate EXCEPT ![w] = FALSE]
    BY <1>3 DEF SupStart
  <2>2. /\ proc'["deq"] \in {proc["deq"], "fork"}
        /\ pending'["deq"] \subseteq pending["deq"]
        /\ proc'["deq"] = "run" => rotate'["deq"] = rotate["deq"]
    BY <1>1, <2>1
  <2>3. ~QuitSent /\ ~QuitSent'
    BY <2>1 DEF QuitSent
  <2>4. Switched' <= Switched /\ Pending' <= Pending
    BY <1>1, <2>2, TurnOff
  <2>5. Closable' = 0 /\ Closable = 0 /\ Quits' = Quits
    BY <2>3 DEF Closable, Quits
  <2>6. Forwarding' = Forwarding
    BY <2>1 DEF Forwarding
  <2> QED
    BY <1>1, <2>4, <2>5, <2>6, CreditTypes DEF CreditsMove, SignalsLost, CreditsFall
<1>4. ASSUME NEW w \in Workers, SupForkFails(w) \/ SupWait(w) \/ SupReap(w)
      PROVE  CreditsMove
  <2>1. /\ UNCHANGED <<pending, rotate, srotate>>
        /\ QuitSent' = QuitSent /\ spc # "off_deq" /\ spc' # "off_deq"
        /\ proc' = proc \/ proc' = [proc EXCEPT ![w] = "reaped"]
    BY <1>4 DEF SupForkFails, SupWait, SupReap, QuitSent
  <2>2. proc'["deq"] \in {proc["deq"], "reaped"}
    BY <1>1, <2>1
  <2>3. Switched' <= Switched /\ Pending' <= Pending
    BY <1>1, <2>1, <2>2, TurnOff
  <2>4. Closable' <= Closable
    BY <1>1, <2>1, <2>2, ClosableFalls
  <2>5. Forwarding' = Forwarding /\ Quits' = Quits
    BY <2>1 DEF Forwarding, Quits
  <2> QED
    BY <1>1, <2>3, <2>4, <2>5, CreditTypes DEF CreditsMove, SignalsLost, CreditsFall
<1>5. ASSUME NEW w \in Workers, SupForward(w)
      PROVE  CreditsMove
  <2>1. /\ UNCHANGED <<proc, rotate, srotate>> /\ ~QuitSent /\ ~QuitSent'
        /\ w = "enq" => /\ pending'["deq"] = pending["deq"]
                        /\ spc # "off_deq" /\ spc' # "off_deq"
        /\ w = "deq" => \/ srotate["deq"] /\ spc = "hup_deq" /\ spc' = "off_deq"
                        \/ /\ pending' = pending
                           /\ spc = "hup_deq" /\ spc' = "hup_enq"
    BY <1>1, <1>5 DEF SupForward, QuitSent
  <2>2. UNCHANGED <<Switched, Closable, Quits>>
    BY <1>1, <2>1 DEF Switched, Closable, Quits
  <2>3. CASE w = "deq" /\ srotate["deq"] /\ spc = "hup_deq" /\ spc' = "off_deq"
    <3>1. Forwarding = 1 /\ Forwarding' = 0
      BY <2>3 DEF Forwarding
    <3> QED
      BY <1>1, <2>2, <3>1, CreditTypes DEF CreditsMove, SignalPassed
  <2>4. CASE /\ pending'["deq"] = pending["deq"]
             /\ spc # "off_deq" /\ spc' # "off_deq"
    <3>1. Forwarding' = Forwarding /\ Pending' = Pending
      BY <2>1, <2>4 DEF Forwarding, Pending
    <3> QED
      BY <1>1, <2>2, <3>1, CreditTypes DEF CreditsMove, SignalsLost, CreditsFall
  <2> QED
    BY <2>1, <2>3, <2>4
<1>6. ASSUME NEW w \in Workers, SupOff(w)
      PROVE  CreditsMove
  <2>1. /\ UNCHANGED <<proc, pending, rotate>> /\ ~QuitSent /\ ~QuitSent'
        /\ srotate'["deq"] => srotate["deq"] /\ spc # "off_deq"
    BY <1>1, <1>6 DEF SupOff, QuitSent
  <2>2. UNCHANGED <<Switched, Pending, Closable, Quits>>
    BY <1>1, <2>1 DEF Switched, Pending, Closable, Quits
  <2>3. Forwarding' = 1 => Forwarding = 1
    BY <2>1 DEF Forwarding
  <2> QED
    BY <1>1, <2>2, <2>3, CreditTypes, Falls
       DEF CreditsMove, SignalsLost, CreditsFall
<1>7. CASE SupQuit
  <2>1. /\ UNCHANGED <<proc, rotate, srotate>> /\ ~QuitSent /\ QuitSent'
        /\ "HUP" \in pending'["deq"] <=> "HUP" \in pending["deq"]
        /\ spc # "off_deq" /\ spc' # "off_deq"
    BY <1>1, <1>7 DEF SupQuit, QuitSent
  <2>2. UNCHANGED <<Switched, Pending, Forwarding>>
    BY <1>1, <2>1 DEF Switched, Pending, Forwarding
  <2>3. Quits = 0 /\ Quits' = 1 /\ Closable = 0
    BY <2>1 DEF Quits, Closable
  <2> QED
    BY <1>1, <2>2, <2>3, CreditTypes DEF CreditsMove, QuitPassed
<1> QED
  BY <1>2, <1>3, <1>4, <1>5, <1>6, <1>7 DEF Supervisor

LEMMA CreditsSignals ==
  ASSUME KeptInv, SendHup \/ SendTerm
  PROVE  CreditsMove
<1>1. /\ UNCHANGED <<pvars, proc, pending, rotate>>
      /\ QuitSent' = QuitSent
  <2>1. UNCHANGED <<pvars, wvars>>
    BY DEF SendHup, SendTerm
  <2>2. \/ spc' = spc
        \/ spc = "wait" /\ spc' = "hup_deq"
        \/ spc = "reap" /\ spc' = "done"
    BY Tables DEF SendHup, SendTerm, SupInterrupted
  <2>3. QuitSent' = QuitSent
    BY <2>2 DEF QuitSent
  <2> QED
    BY <2>1, <2>3
<1>2. UNCHANGED <<Switched, Pending, Closable, Quits>>
  BY <1>1 DEF Switched, Pending, Closable, Quits
<1>3. CASE SendHup
  BY <1>2, <1>3, CreditTypes DEF SendHup, CreditsMove, SignalSent, CreditsFall
<1>4. CASE SendTerm
  <2>1. srotate' = srotate /\ nhup' = nhup /\ (spc = "off_deq" => spc' = spc)
    BY <1>4, Tables DEF SendTerm, SupInterrupted
  <2>2. Forwarding' = 1 => Forwarding = 1
    BY <2>1 DEF Forwarding
  <2> QED
    BY <1>2, <2>1, <2>2, CreditTypes, Falls
       DEF CreditsMove, SignalsLost, CreditsFall
<1> QED
  BY <1>3, <1>4

\* The steps of the workers in which the dequeuer neither runs nor takes a
\* signal.
DeqRests ==
  \/ \E w \in Workers : Exec(w) \/ ExecFails(w) \/ Kill(w)
  \/ Run("enq")
  \/ \E s \in {"TERM", "HUP"} : TakeSignal("enq", s)

LEMMA CreditsRest ==
  ASSUME KeptInv, SpuriousInv, DeqRests
  PROVE  CreditsMove
<1> USE DEF Workers
<1>1. /\ proc \in [Workers -> ProcState] /\ rotate \in [Workers -> BOOLEAN]
      /\ pending \in [Workers -> SUBSET {"TERM", "HUP"}]
  BY DEF KeptInv, ControlTypeOK
<1>2. UNCHANGED <<supvars, nhup>>
  BY DEF DeqRests, Exec, ExecFails, Kill, Run, TakeSignal
<1>3. UNCHANGED <<Forwarding, Quits>> /\ QuitSent' = QuitSent
  BY <1>2 DEF Forwarding, Quits, QuitSent
<1>4. SUFFICES Switched' <= Switched /\ Pending' <= Pending /\ Closable' <= Closable
  BY <1>2, <1>3, CreditTypes DEF CreditsMove, SignalsLost, CreditsFall
<1>5. ASSUME NEW w \in Workers, Exec(w) \/ ExecFails(w)
      PROVE  Switched' <= Switched /\ Pending' <= Pending /\ Closable' <= Closable
  <2>1. /\ UNCHANGED <<pvars, pending, rotate>>
        /\ \/ proc'["deq"] = proc["deq"]
           \/ /\ proc["deq"] \in {"fork", "boot"}
              /\ proc'["deq"] \in {"boot", "run", "exited"}
    BY <1>1, <1>5 DEF Exec, ExecFails
  <2>2. proc["deq"] \in {"fork", "boot"} => ~rotate["deq"]
    BY DEF SpuriousInv, Fresh
  <2>3. Switched' <= Switched /\ Pending' <= Pending
    BY <2>1, <2>2, TurnOff
  <2> QED
    BY <1>3, <2>1, <2>3, ClosableFalls
<1>6. ASSUME NEW w \in Workers, Kill(w)
      PROVE  Switched' <= Switched /\ Pending' <= Pending /\ Closable' <= Closable
  <2>1. /\ UNCHANGED <<pending, rotate>>
        /\ \/ w = "enq" /\ proc'["deq"] = proc["deq"] /\ dpc' = dpc
           \/ w = "deq" /\ proc'["deq"] = "killed"
    BY <1>1, <1>6 DEF Kill, EnqDies
  <2>2. Switched' <= Switched /\ Pending' <= Pending
    BY <2>1, TurnOff
  <2> QED
    BY <1>3, <2>1, <2>2, ClosableFalls
<1>7. CASE Run("enq") \/ \E s \in {"TERM", "HUP"} : TakeSignal("enq", s)
  <2>1. /\ proc'["deq"] = proc["deq"] /\ rotate'["deq"] = rotate["deq"]
        /\ pending'["deq"] = pending["deq"]
    <3>1. CASE Run("enq")
      BY <1>1, <3>1 DEF Run, CasOff
    <3>2. CASE \E s \in {"TERM", "HUP"} : TakeSignal("enq", s)
      BY <1>1, <3>2 DEF TakeSignal, HandleInFork, HandleInBoot, Handle
    <3> QED
      BY <1>7, <3>1, <3>2
  <2>2. dpc' = dpc
    <3>1. EnqWork \/ UNCHANGED pvars
      <4>1. done["enq"] \in BOOLEAN /\ rotate["enq"] \in BOOLEAN
        BY DEF KeptInv, ControlTypeOK
      <4>2. EnqStep \/ EnqSwitchOff \/ EnqSendInterrupted \/ UNCHANGED pvars
        BY <1>7 DEF Run, Step, CasOff, TakeSignal, HandleInFork, HandleInBoot,
                    Handle, Interrupted
      <4> QED
        BY <4>1, <4>2 DEF EnqStep, EnqWork
    <3> QED
      BY <3>1, TypeEnqWork DEF KeptInv, AccountInv, OrderInv
  <2>3. Switched' <= Switched /\ Pending' <= Pending
    BY <2>1, <2>2, TurnOff
  <2> QED
    BY <1>3, <2>1, <2>2, <2>3, ClosableFalls
<1> QED
  BY <1>5, <1>6, <1>7 DEF DeqRests

\* Who moves: the dequeuer runs, or takes a signal, or does neither.
LEMMA WhoMoves ==
  ASSUME KeptInv, [Next]_vars
  PROVE  \/ Run("deq")
         \/ \E s \in {"TERM", "HUP"} : TakeSignal("deq", s)
         \/ /\ \/ Supervisor \/ SendHup \/ SendTerm \/ DeqRests
               \/ UNCHANGED vars
            /\ EnqWork \/ EnqDies \/ DeqDies \/ UNCHANGED pvars
<1>1. CASE Supervisor \/ SendHup \/ SendTerm \/ Ended \/ UNCHANGED vars
  BY <1>1, ControlSupervisor, ControlSignals DEF Ended, KeptInv
<1>2. CASE DeqRests
  <2>1. EnqStep \/ EnqSwitchOff \/ EnqSendInterrupted \/ EnqDies \/ DeqDies
          \/ UNCHANGED pvars
    BY <1>2 DEF DeqRests, Exec, ExecFails, Kill, Run, Step, CasOff, TakeSignal,
                HandleInFork, HandleInBoot, Handle, Interrupted
  <2>2. done["enq"] \in BOOLEAN /\ rotate["enq"] \in BOOLEAN
    BY DEF KeptInv, ControlTypeOK, Workers
  <2> QED
    BY <1>2, <2>1, <2>2 DEF EnqStep, EnqWork
<1>3. CASE \/ \E w \in Workers : Worker(w) \/ Kill(w)
           \/ \E w \in Workers, s \in {"TERM", "HUP"} : TakeSignal(w, s)
  <2>1. \/ DeqRests \/ Run("deq")
        \/ \E s \in {"TERM", "HUP"} : TakeSignal("deq", s)
    BY <1>3 DEF Worker, DeqRests, Workers
  <2> QED
    BY <1>2, <2>1
<1> QED
  BY <1>1, <1>3 DEF Next

\* The dequeuer runs: its switch only turns off, and is off after a rotation;
\* the credit of the close goes with the close.
LEMMA CreditsRun ==
  ASSUME KeptInv, LossInv, Run("deq")
  PROVE  /\ DeqWork
         /\ UNCHANGED <<Pending, Forwarding, Quits, nhup>>
         /\ Switched' <= Switched /\ (dpc = "stats" => Switched' = 0)
         /\ dpc # "close" => Closable' <= Closable
         /\ dpc = "close" => Closable = 1 /\ Closable' = 0
         /\ dpc = "stats" /\ done["deq"] => UNCHANGED cuts
<1>1. /\ proc["deq"] = "run" /\ UNCHANGED <<proc, pending, supvars, nhup>>
      /\ done["deq"] \in BOOLEAN /\ rotate \in [Workers -> BOOLEAN]
  BY DEF Run, KeptInv, ControlTypeOK, Workers
<1>2. /\ \/ DeqStep /\ rotate' = rotate
         \/ DeqSwitchOff /\ ~rotate'["deq"]
  BY <1>1 DEF Run, Step, CasOff, Workers
<1>3. DeqWork
  BY <1>1, <1>2 DEF DeqStep, DeqWork, Workers
<1>4. /\ dpc = "stats" => dpc' \in {"off", "exit"}
      /\ dpc \in {"off", "exit"} => DeqSwitchOff
      /\ dpc = "close" => dpc' = "drain"
      /\ dpc \in {"drain", "fini", "done"} => dpc' \in {"drain", "fini", "done"}
      /\ dpc = "stats" /\ done["deq"] => UNCHANGED cuts
  BY <1>2
     DEF DeqStep, DeqStart, DeqStartFails, DeqCheck, DeqReceive, DeqStat,
         DeqStatFails, DeqInterrupted, DeqReadFails, DeqTestRotate, DeqRotate,
         DeqRotateFails, DeqSkipWrite, DeqWrite, DeqWriteFails, DeqClose,
         DeqDrain, DeqDrainEnds, DeqFinish, DeqSwitchOff
<1>5. UNCHANGED <<Pending, Forwarding, Quits>> /\ QuitSent' = QuitSent
  BY <1>1 DEF Pending, Forwarding, Quits, QuitSent
<1>6. Switched' <= Switched
  <2>1. DeqSwitchOff => ~rotate'["deq"]
    BY <1>2, <1>4
       DEF DeqStep, DeqStart, DeqStartFails, DeqCheck, DeqReceive, DeqStat,
         DeqStatFails, DeqInterrupted, DeqReadFails, DeqTestRotate, DeqRotate,
         DeqRotateFails, DeqSkipWrite, DeqWrite, DeqWriteFails, DeqClose,
         DeqDrain, DeqDrainEnds, DeqFinish, DeqSwitchOff
  <2>2. rotate'["deq"] => rotate["deq"]
    BY <1>2
  <2> QED
    BY <1>1, <1>4, <2>1, <2>2, TurnOff
<1>7. dpc = "stats" => Switched' = 0
  BY <1>4 DEF Switched
<1>8. Closable' <= Closable
  BY <1>1, <1>4, <1>5, ClosableFalls
<1>9. dpc = "close" => Closable = 1 /\ Closable' = 0
  BY <1>1, <1>4 DEF Closable, LossInv, InLoops
<1> QED
  BY <1>1, <1>3, <1>4, <1>5, <1>6, <1>7, <1>8, <1>9

\* The dequeuer takes a signal: the credit of a rotate signal goes from the
\* pending signal to the switch, or is lost.
LEMMA CreditsTake ==
  ASSUME KeptInv, NEW s \in {"TERM", "HUP"}, TakeSignal("deq", s)
  PROVE  /\ \/ DeqWork /\ dpc \notin {"stats", "close"}
            \/ UNCHANGED pvars
         /\ UNCHANGED <<Forwarding, Quits, nhup>>
         /\ Closable' <= Closable
         /\ \/ Switched' <= Switched /\ Pending' <= Pending
            \/ Pending = 1 /\ Pending' = 0
<1>1. /\ proc \in [Workers -> ProcState] /\ rotate \in [Workers -> BOOLEAN]
      /\ pending \in [Workers -> SUBSET {"TERM", "HUP"}]
  BY DEF KeptInv, ControlTypeOK
<1>2. UNCHANGED <<supvars, nhup>> /\ s \in pending["deq"]
      /\ pending'["deq"] = pending["deq"] \ {s}
  BY <1>1 DEF TakeSignal, Workers
<1>3. UNCHANGED <<Forwarding, Quits>> /\ QuitSent' = QuitSent
  BY <1>2 DEF Forwarding, Quits, QuitSent
<1>4. \/ UNCHANGED pvars
      \/ DeqWork /\ dpc = "read" /\ dpc' = "rot"
      \/ DeqWork /\ dpc = "drain" /\ dpc' = "fini"
  BY DEF TakeSignal, HandleInFork, HandleInBoot, Handle, Interrupted, DeqWork,
         DeqInterrupted, DeqDrainEnds
<1>5. /\ proc'["deq"] \in {proc["deq"], "killed"}
      /\ s = "TERM" => rotate'["deq"] = rotate["deq"]
  BY <1>1 DEF TakeSignal, HandleInFork, HandleInBoot, Handle, Workers
<1>6. Closable' <= Closable
  BY <1>3, <1>4, <1>5, ClosableFalls
<1>7. CASE s = "TERM"
  BY <1>2, <1>3, <1>4, <1>5, <1>6, <1>7, TurnOff
<1>8. CASE s = "HUP"
  <2>1. Pending = 1 /\ Pending' = 0
    BY <1>2, <1>8 DEF Pending
  <2> QED
    BY <1>2, <1>3, <1>4, <1>6, <2>1
<1> QED
  BY <1>7, <1>8

LEMMA FlagsNext ==
  ASSUME KeptInv, SpuriousInv, [Next]_vars
  PROVE  Justified' /\ Parked' /\ Fresh'
<1> USE DEF Workers
<1>1. /\ proc \in [Workers -> ProcState] /\ rotate \in [Workers -> BOOLEAN]
      /\ done \in [Workers -> BOOLEAN]
      /\ Justified /\ Parked /\ Fresh
  BY DEF KeptInv, ControlTypeOK, SpuriousInv
<1>2. CASE Run("deq")
  <2>1. /\ proc["deq"] = "run" /\ proc' = proc /\ done' = done
    BY <1>2 DEF Run
  <2>2. dpc' = "stats" => dbuf'.rotate \/ rotate'["deq"] \/ done["deq"]
    BY <1>2
       DEF Run, Step, CasOff, HeaderIsRotate,
           DeqStep, DeqStart, DeqStartFails, DeqCheck, DeqReceive, DeqStat,
           DeqStatFails, DeqInterrupted, DeqReadFails, DeqTestRotate, DeqRotate,
           DeqRotateFails, DeqSkipWrite, DeqWrite, DeqWriteFails, DeqClose,
           DeqDrain, DeqDrainEnds, DeqFinish, DeqSwitchOff
  <2> QED
    BY <2>1, <2>2 DEF Justified, Parked, Fresh
<1>3. ASSUME NEW s \in {"TERM", "HUP"}, TakeSignal("deq", s)
      PROVE  Justified' /\ Parked' /\ Fresh'
  <2>1. CASE HandleInFork("deq") \/ HandleInBoot("deq")
    <3>1. /\ UNCHANGED <<pvars, rotate, done>> /\ proc["deq"] # "run"
          /\ proc'["deq"] \in {proc["deq"], "killed"}
      BY <1>1, <2>1 DEF HandleInFork, HandleInBoot
    <3> QED
      BY <1>1, <3>1 DEF Justified, Parked, Fresh
  <2>2. CASE Handle("deq", s)
    <3>1. /\ proc["deq"] = "run" /\ proc' = proc
          /\ UNCHANGED <<dpc, dbuf>> \/ dpc' \in {"rot", "fini"}
          /\ rotate["deq"] => rotate'["deq"]
          /\ done["deq"] => done'["deq"]
      BY <1>1, <2>2 DEF Handle, Interrupted, DeqInterrupted, DeqDrainEnds
    <3> QED
      BY <1>1, <3>1 DEF Justified, Parked, Fresh
  <2> QED
    BY <1>3, <2>1, <2>2 DEF TakeSignal
<1>4. CASE DeqRests
  <2>1. ASSUME NEW w \in Workers, Exec(w) \/ ExecFails(w)
        PROVE  Justified' /\ Parked' /\ Fresh'
    <3>1. /\ UNCHANGED <<pvars, rotate, done>>
          /\ \/ proc'["deq"] = proc["deq"]
             \/ /\ proc["deq"] \in {"fork", "boot"}
                /\ proc'["deq"] \in {"boot", "run", "exited"}
      BY <1>1, <2>1 DEF Exec, ExecFails
    <3> QED
      BY <1>1, <3>1 DEF Justified, Parked, Fresh
  <2>2. ASSUME NEW w \in Workers, Kill(w)
        PROVE  Justified' /\ Parked' /\ Fresh'
    <3>1. /\ UNCHANGED <<rotate, done>>
          /\ \/ w = "enq" /\ proc'["deq"] = proc["deq"] /\ UNCHANGED <<dpc, dbuf>>
             \/ w = "deq" /\ proc'["deq"] = "killed" /\ dpc' = "start"
      BY <1>1, <2>2 DEF Kill, EnqDies, DeqDies
    <3> QED
      BY <1>1, <3>1 DEF Justified, Parked, Fresh
  <2>3. CASE Run("enq") \/ \E s \in {"TERM", "HUP"} : TakeSignal("enq", s)
    <3>1. /\ proc'["deq"] = proc["deq"] /\ rotate'["deq"] = rotate["deq"]
          /\ done'["deq"] = done["deq"]
      <4>1. CASE Run("enq")
        BY <1>1, <4>1 DEF Run, CasOff
      <4>2. CASE \E s \in {"TERM", "HUP"} : TakeSignal("enq", s)
        BY <1>1, <4>2 DEF TakeSignal, HandleInFork, HandleInBoot, Handle
      <4> QED
        BY <2>3, <4>1, <4>2
    <3>2. UNCHANGED <<dpc, dbuf>>
      <4>1. done["enq"] \in BOOLEAN /\ rotate["enq"] \in BOOLEAN
        BY <1>1
      <4>2. EnqStep \/ EnqSwitchOff \/ EnqSendInterrupted \/ UNCHANGED pvars
        BY <2>3 DEF Run, Step, CasOff, TakeSignal, HandleInFork, HandleInBoot,
                    Handle, Interrupted
      <4>3. EnqWork \/ UNCHANGED pvars
        BY <4>1, <4>2 DEF EnqStep, EnqWork
      <4> QED
        BY <4>3, TypeEnqWork DEF KeptInv, AccountInv, OrderInv
    <3> QED
      BY <1>1, <3>1, <3>2 DEF Justified, Parked, Fresh
  <2> QED
    BY <1>4, <2>1, <2>2, <2>3 DEF DeqRests
<1>5. ASSUME NEW w \in Workers, SupStart(w)
      PROVE  Justified' /\ Parked' /\ Fresh'
  <2>1. /\ UNCHANGED pvars
        /\ \/ UNCHANGED wvars
           \/ /\ MustStart(w) /\ proc' = [proc EXCEPT ![w] = "fork"]
              /\ done' = [done EXCEPT ![w] = FALSE]
              /\ rotate' = [rotate EXCEPT ![w] = FALSE]
    BY <1>5 DEF SupStart
  <2>2. \/ /\ proc'["deq"] = proc["deq"] /\ rotate'["deq"] = rotate["deq"]
           /\ done'["deq"] = done["deq"]
        \/ /\ proc["deq"] \in {"none", "reaped"} /\ proc'["deq"] = "fork"
           /\ ~rotate'["deq"] /\ ~done'["deq"]
    BY <1>1, <2>1 DEF MustStart
  <2> QED
    BY <1>1, <2>1, <2>2 DEF Justified, Parked, Fresh
<1>6. ASSUME NEW w \in Workers, SupWait(w) \/ SupReap(w)
      PROVE  Justified' /\ Parked' /\ Fresh'
  <2>1. /\ UNCHANGED <<pvars, rotate, done>>
        /\ \/ proc'["deq"] = proc["deq"]
           \/ /\ HasExited("deq") \/ WasKilled("deq")
              /\ proc'["deq"] = "reaped"
    BY <1>1, <1>6 DEF SupWait, SupReap
  <2>2. HasExited("deq") \/ WasKilled("deq") => dpc \in {"start", "done", "exit"}
    BY <1>1 DEF HasExited, WasKilled, PC, Parked
  <2> QED
    BY <1>1, <2>1, <2>2 DEF Justified, Parked, Fresh
<1>7. CASE \/ SupCheck \/ SupQuit \/ SupFinish \/ SendHup \/ SendTerm
           \/ (\E w \in Workers : SupForkFails(w) \/ SupForward(w) \/ SupOff(w))
           \/ UNCHANGED vars
  <2>1. UNCHANGED <<pvars, proc, rotate, done>>
    BY <1>7 DEF SupCheck, SupQuit, SupFinish, SendHup, SendTerm, SupForkFails,
                SupForward, SupOff
  <2> QED
    BY <1>1, <2>1 DEF Justified, Parked, Fresh
<1> QED
  BY <1>2, <1>3, <1>4, <1>5, <1>6, <1>7, WhoMoves DEF Supervisor

\* In this proof the values after the step are constants: sums of primed
\* operators are beyond the solver.
LEMMA BalanceNext ==
  ASSUME KeptInv, LossInv, SpuriousInv, [Next]_vars,
         Len(cuts') \in Nat, Taken' \in Nat, nhup' \in Nat
  PROVE  Balance'
<1>1. /\ Len(cuts) \in Nat /\ Taken \in Nat /\ nhup \in Nat
      /\ dret \in {"event", "intr"}
  BY DEF SpuriousInv, RotationInv, Taken, KeptInv, ControlTypeOK, AccountInv,
         OrderInv, TypeInv, PipelineTypeOK, DeqTypeOK
<1>2. /\ Switched \in Nat /\ Pending \in Nat /\ Forwarding \in Nat
      /\ Closable \in Nat /\ Quits \in Nat /\ CommandHeld \in Nat
      /\ Switched' \in Nat /\ Pending' \in Nat /\ Forwarding' \in Nat
      /\ Closable' \in Nat /\ Quits' \in Nat /\ CommandHeld' \in Nat
  BY CreditTypes
<1>3. Len(cuts) + CommandHeld + Switched + Pending + Forwarding + Closable
        <= Taken + nhup + Quits
  BY DEF SpuriousInv, Balance
<1>4. PICK cu \in Nat, co \in Nat, sw \in Nat, pe \in Nat, fo \in Nat,
           cl \in Nat, ta \in Nat, hu \in Nat, qu \in Nat :
             /\ cu = Len(cuts') /\ co = CommandHeld' /\ sw = Switched'
             /\ pe = Pending' /\ fo = Forwarding' /\ cl = Closable'
             /\ ta = Taken' /\ hu = nhup' /\ qu = Quits'
  BY <1>2, Zenon
<1>5. SUFFICES cu + co + sw + pe + fo + cl <= ta + hu + qu
  BY <1>4, Zenon DEF Balance
<1>6. sw <= 1 /\ pe <= 1 /\ fo <= 1 /\ cl <= 1 /\ qu <= 1
  BY <1>4, CreditTypes
<1>7. CASE Run("deq")
  <2>1. RotatesNot \/ Rotates \/ Closes
    BY <1>7, CreditsRun, RotationDeqWork DEF SpuriousInv
  <2>2. pe = Pending /\ fo = Forwarding /\ qu = Quits /\ hu = nhup
    BY <1>4, <1>7, CreditsRun
  <2>3. sw <= Switched
    BY <1>4, <1>7, CreditsRun, Zenon
  <2>4. CASE RotatesNot
    <3>1. cu = Len(cuts) /\ Taken + co <= ta + CommandHeld
      BY <1>4, <2>4, Zenon DEF RotatesNot
    <3>2. cl <= Closable
      <4>1. Closable' <= Closable
        BY <1>7, <2>4, CreditsRun DEF RotatesNot
      <4> QED
        BY <1>4, <4>1, Zenon
    <3> QED
      BY <1>1, <1>2, <1>3, <2>2, <2>3, <3>1, <3>2
  <2>5. CASE Rotates
    <3>1. /\ dpc = "stats" /\ co = 0 /\ ta = Taken /\ sw = 0
          /\ cu <= Len(cuts) + 1 /\ cl <= Closable
      <4>1. /\ dpc = "stats" /\ CommandHeld' = 0 /\ Taken' = Taken
            /\ Len(cuts') <= Len(cuts) + 1
        BY <2>5 DEF Rotates
      <4>2. Switched' = 0 /\ Closable' <= Closable
        BY <1>7, <4>1, CreditsRun
      <4> QED
        BY <1>4, <4>1, <4>2, Zenon
    <3>2. cu = Len(cuts) \/ CommandHeld = 1 \/ Switched = 1
      <4>1. CASE done["deq"]
        <5>1. UNCHANGED cuts
          BY <1>7, <3>1, <4>1, CreditsRun
        <5> QED
          BY <1>4, <5>1
      <4>2. CASE rotate["deq"]
        BY <1>7, <3>1, <4>2 DEF Switched, Run
      <4>3. CASE dbuf.rotate
        BY <1>1, <3>1, <4>3
           DEF CommandHeld, SpuriousInv, RotationInv, BufferClear
      <4> QED
        BY <3>1, <4>1, <4>2, <4>3 DEF SpuriousInv, Justified
    <3>3. cu <= Len(cuts) + CommandHeld + Switched
      <4>1. CASE cu = Len(cuts)
        BY <1>1, <1>2, <4>1
      <4>2. CASE CommandHeld = 1
        BY <1>1, <1>2, <3>1, <4>2
      <4>3. CASE Switched = 1
        BY <1>1, <1>2, <3>1, <4>3
      <4> QED
        BY <3>2, <4>1, <4>2, <4>3
    <3> QED
      BY <1>1, <1>2, <1>3, <2>2, <3>1, <3>3
  <2>6. CASE Closes
    <3>1. /\ CommandHeld = 0 /\ co = 0 /\ ta = Taken /\ Closable = 1 /\ cl = 0
          /\ cu <= Len(cuts) + 1
      <4>1. /\ dpc = "close" /\ CommandHeld = 0 /\ CommandHeld' = 0
            /\ Taken' = Taken /\ Len(cuts') <= Len(cuts) + 1
        BY <2>6 DEF Closes
      <4>2. Closable = 1 /\ Closable' = 0
        BY <1>7, <4>1, CreditsRun
      <4> QED
        BY <1>4, <4>1, <4>2, Zenon
    <3> QED
      BY <1>1, <1>2, <1>3, <2>2, <2>3, <3>1
  <2> QED
    BY <2>1, <2>4, <2>5, <2>6
<1>8. ASSUME NEW s \in {"TERM", "HUP"}, TakeSignal("deq", s)
      PROVE  cu + co + sw + pe + fo + cl <= ta + hu + qu
  <2>1. fo = Forwarding /\ qu = Quits /\ hu = nhup
    BY <1>4, <1>8, CreditsTake
  <2>2. cl <= Closable
    BY <1>4, <1>8, CreditsTake, Zenon
  <2>3. sw + pe <= Switched + Pending
    <3>1. CASE Switched' <= Switched /\ Pending' <= Pending
      <4>1. sw <= Switched /\ pe <= Pending
        BY <1>4, <3>1, Zenon
      <4> QED
        BY <1>2, <4>1
    <3>2. CASE Pending = 1 /\ Pending' = 0
      <4>1. pe = 0 /\ Pending = 1
        BY <1>4, <3>2
      <4> QED
        BY <1>2, <1>6, <4>1
    <3> QED
      BY <1>8, <3>1, <3>2, CreditsTake
  <2>4. cu = Len(cuts) /\ Taken + co <= ta + CommandHeld
    <3>1. CASE DeqWork /\ dpc \notin {"stats", "close"}
      <4>1. RotatesNot
        BY <3>1, RotationDeqWork DEF SpuriousInv, Rotates, Closes
      <4> QED
        BY <1>4, <4>1, Zenon DEF RotatesNot
    <3>2. CASE UNCHANGED pvars
      <4>1. Taken' = Taken /\ cuts' = cuts /\ CommandHeld' = CommandHeld
        BY <3>2, RotationEnqWork DEF SpuriousInv
      <4> QED
        BY <1>1, <1>2, <1>4, <4>1
    <3> QED
      BY <1>8, <3>1, <3>2, CreditsTake
  <2> QED
    BY <1>1, <1>2, <1>3, <2>1, <2>2, <2>3, <2>4
<1>9. CASE /\ \/ Supervisor \/ SendHup \/ SendTerm \/ DeqRests
              \/ UNCHANGED vars
           /\ EnqWork \/ EnqDies \/ DeqDies \/ UNCHANGED pvars
  <2>1. cu = Len(cuts) /\ ta = Taken /\ co <= CommandHeld
    <3>1. CASE EnqWork \/ UNCHANGED pvars
      <4>1. Taken' = Taken /\ cuts' = cuts /\ CommandHeld' = CommandHeld
        BY <3>1, RotationEnqWork DEF SpuriousInv
      <4> QED
        BY <1>1, <1>2, <1>4, <4>1
    <3>2. CASE EnqDies \/ DeqDies
      <4>1. Taken' = Taken /\ cuts' = cuts
        BY <3>2, DeqDiesKeepsTaken
      <4>2. CommandHeld' = 0 \/ CommandHeld' = CommandHeld
        BY <3>2, DeqDiesKeepsTaken
      <4> QED
        BY <1>1, <1>2, <1>4, <4>1, <4>2
    <3> QED
      BY <1>9, <3>1, <3>2
  <2>2. CreditsMove
    <3>1. CASE UNCHANGED vars
      <4>1. UNCHANGED <<Switched, Pending, Forwarding, Closable, Quits, nhup>>
        BY <3>1 DEF Switched, Pending, Forwarding, Closable, Quits, QuitSent
      <4> QED
        BY <4>1, CreditTypes DEF CreditsMove, SignalsLost, CreditsFall
    <3> QED
      BY <1>9, <3>1, CreditsSupervisor, CreditsSignals, CreditsRest
  <2>3. CASE SignalSent
    <3>1. hu = nhup + 1 /\ qu = Quits
      BY <1>4, <2>3 DEF SignalSent
    <3>2. sw <= Switched /\ pe <= Pending /\ cl <= Closable
      BY <1>4, <2>3, Zenon DEF SignalSent, CreditsFall
    <3> QED
      BY <1>1, <1>2, <1>3, <1>6, <2>1, <3>1, <3>2
  <2>4. CASE SignalPassed
    <3>1. hu = nhup /\ qu = Quits /\ Forwarding = 1 /\ fo = 0
      BY <1>4, <2>4 DEF SignalPassed
    <3>2. sw <= Switched /\ cl <= Closable
      BY <1>4, <2>4, Zenon DEF SignalPassed
    <3> QED
      BY <1>1, <1>2, <1>3, <1>6, <2>1, <3>1, <3>2
  <2>5. CASE QuitPassed
    <3>1. hu = nhup /\ Quits = 0 /\ qu = 1 /\ Closable = 0
      BY <1>4, <2>5 DEF QuitPassed
    <3>2. sw <= Switched /\ pe <= Pending /\ fo <= Forwarding
      BY <1>4, <2>5, Zenon DEF QuitPassed
    <3> QED
      BY <1>1, <1>2, <1>3, <1>6, <2>1, <3>1, <3>2
  <2>6. CASE SignalsLost
    <3>1. hu = nhup /\ qu = Quits
      BY <1>4, <2>6 DEF SignalsLost
    <3>2. sw <= Switched /\ pe <= Pending /\ cl <= Closable /\ fo <= Forwarding
      BY <1>4, <2>6, Zenon DEF SignalsLost, CreditsFall
    <3> QED
      BY <1>1, <1>2, <1>3, <2>1, <3>1, <3>2
  <2> QED
    BY <2>2, <2>3, <2>4, <2>5, <2>6 DEF CreditsMove
<1> QED
  BY <1>7, <1>8, <1>9, WhoMoves

LEMMA SpuriousNext ==
  KeptInv /\ LossInv /\ SpuriousInv /\ [Next]_vars => SpuriousInv'
<1> SUFFICES ASSUME KeptInv, LossInv, SpuriousInv, [Next]_vars
             PROVE  SpuriousInv'
  OBVIOUS
<1>1. KeptInv'
  BY KeptNext
<1>2. /\ BufferClear' /\ IsFiniteSet(RotateCommandsTaken')
      /\ Len(cuts') \in Nat /\ Taken' \in Nat
  <2>1. CASE DeqWork
    BY <2>1, RotationDeqWork DEF SpuriousInv
  <2>2. CASE EnqWork \/ UNCHANGED pvars
    BY <2>2, RotationEnqWork DEF SpuriousInv, RotationInv
  <2>3. CASE EnqDies \/ DeqDies
    <3>1. /\ RotateCommandsTaken' = RotateCommandsTaken /\ Taken' = Taken
          /\ cuts' = cuts
          /\ dpc' = "start" \/ UNCHANGED <<dpc, dret, dbuf>>
      BY <2>3, DeqDiesKeepsTaken
    <3> QED
      BY <3>1 DEF SpuriousInv, RotationInv, BufferClear, Taken
  <2> QED
    BY <2>1, <2>2, <2>3, PipelineMoves DEF KeptInv
<1>3. nhup' \in Nat
  BY <1>1 DEF KeptInv, ControlTypeOK
<1>4. Balance'
  BY <1>2, <1>3, BalanceNext
<1>5. Justified' /\ Parked' /\ Fresh'
  BY FlagsNext
<1> QED
  BY <1>1, <1>2, <1>4, <1>5 DEF SpuriousInv, RotationInv, Taken, KeptInv

LEMMA SpuriousHolds == Spec => []SpuriousInv
  BY SpuriousInit, SpuriousNext, KeptHolds, LossHolds, PTL DEF Spec

\* One rotate signal to the supervisor rotates the journal at most once,
\* however it is merged with others, passed on, lost between fork and exec or
\* taken by a dequeuer that dies: every other rotation is that of a rotate
\* command taken from the queue, or the one close after SIGQUIT.
THEOREM RotationsCorrect == Spec => []NoSpuriousRotation
<1>1. KeptInv /\ SpuriousInv => NoSpuriousRotation
  <2> SUFFICES ASSUME KeptInv, SpuriousInv
               PROVE  NoSpuriousRotation
    OBVIOUS
  <2>1. /\ Len(cuts) \in Nat /\ Taken \in Nat /\ nhup \in Nat /\ Quits \in Nat
        /\ CommandHeld \in Nat /\ Switched \in Nat /\ Pending \in Nat
        /\ Forwarding \in Nat /\ Closable \in Nat
    BY CreditTypes DEF SpuriousInv, RotationInv, Taken, KeptInv, ControlTypeOK
  <2>2. Len(cuts) <= Taken + nhup + Quits
    BY <2>1 DEF SpuriousInv, Balance
  <2> QED
    BY <2>2 DEF NoSpuriousRotation, Taken, Quits
<1> QED
  BY <1>1, KeptHolds, SpuriousHolds, PTL

=============================================================================
