-------------------------------- MODULE Tools --------------------------------
(***************************************************************************)
(* The journal tools one after the other on one disk, as a user runs them: *)
(* a journal is sent again or counted, or it is split first and its pieces *)
(* are.                                                                    *)
(***************************************************************************)
EXTENDS Split, Emitter, EventStats

CONSTANTS
  Numbers,       \* values of the options -n
  EmitOptions    \* combinations of the emitter's other options

VARIABLE tool

vars == <<disk, tool, svars, emitvars, tvars>>

Init ==
  /\ DiskInit /\ tool = "none"
  /\ SplitInit /\ EmitterInit /\ StatsInit

StartSplit ==
  /\ tool = "none" /\ epc = "idle" /\ tpc = "idle" /\ tool' = "split"
  /\ \E n \in Numbers, gz \in BOOLEAN : SplitStart(n, gz)
  /\ UNCHANGED <<emitvars, tvars>>

\* the journal, alone or after a name that is wrong, or its pieces
StartEmitter ==
  /\ tool = "none" /\ tpc = "idle" /\ tool' = "emit"
  /\ \E files \in IF spc = "idle" THEN {<<>>, <<Input>>, <<Missing, Input>>}
                  ELSE {PiecesInOrder},
        n \in Numbers, o \in EmitOptions, transport \in BOOLEAN :
       EmitterStart(files, [number |-> n, rate |-> "r" \in o, timings |-> "t" \in o,
                            repeat |-> "d" \in o], transport)
  /\ UNCHANGED <<svars, tvars>>

StartStats ==
  /\ tool = "none" /\ epc = "idle" /\ tool' = "stats"
  /\ \E f \in DOMAIN disk \cup {Missing} : StatsStart(f)
  /\ UNCHANGED <<svars, emitvars>>

RunTool ==
  /\ \/ tool = "split" /\ SplitStep /\ UNCHANGED <<emitvars, tvars>>
     \/ tool = "emit" /\ EmitterStep /\ UNCHANGED <<svars, tvars>>
     \/ tool = "stats" /\ StatsStep /\ UNCHANGED <<svars, emitvars>>
  /\ UNCHANGED tool

Signal == tool = "emit" /\ EmitterSignal /\ UNCHANGED <<tool, svars, tvars>>

\* a tool has ended
Exit ==
  /\ \/ tool = "split" /\ spc = "done"
     \/ tool = "emit" /\ epc = "done"
     \/ tool = "stats" /\ tpc = "done"
  /\ tool' = "none"
  /\ UNCHANGED <<disk, svars, emitvars, tvars>>

Next == StartSplit \/ StartEmitter \/ StartStats \/ RunTool \/ Signal \/ Exit

Spec == Init /\ [][Next]_vars /\ WF_vars(RunTool)

-----------------------------------------------------------------------------
(* Properties *)

TypeOK ==
  /\ \A f \in DOMAIN disk : disk[f] \in Seq(Event)
  /\ tool \in {"none", "split", "emit", "stats"}
  /\ spc \in {"idle", "read", "rename", "end", "done"}
  /\ tmp \in Seq(Event) /\ sret \in 0..1
  /\ current_count \in 0..Len(disk[Input]) /\ spos \in 1..(Len(disk[Input]) + 1)
  /\ epc \in {"idle", "open", "read", "timings", "rate", "emit", "done"}
  /\ (offset = 0 \/ offset < Len(args)) /\ total_count \in 0..MaxEmitted /\ eret \in 0..3
  /\ now \in Nat /\ time_to_sleep \in 0..(Width - 1)
  /\ tpc \in {"idle", "read", "print", "done"} /\ tret \in 0..1
  /\ \A n \in DOMAIN stats : stats[n].min_bytes \in 0..ShortMax
                            /\ stats[n].max_bytes \in 0..ShortMax

(* lwes-journal-split: all events, in order, in pieces named by their      *)
(* times, and two pieces get one name only if their times are the same.    *)
SplitCorrect == SplitComplete /\ PiecesFaithful /\ CollisionNeedsSameTime

(* lwes-journal-emitter: the events of its files in order, none after a    *)
(* signal but the one in hand, and an exit status that tells how it ended. *)
EmissionCorrect == TypeOK /\ EmittedInOrder /\ ExitStatusMeans /\ StopsAfterSignal

(* lwes-journal-emitter keeps the rate of -r and the distances of -t.      *)
EmissionPaced == RateKept /\ TimingsKept

(* lwes-journal-stats: the lines of its table and the line below them.     *)
TablesExact == TableExact /\ TotalExact

(* Splitting loses nothing for those who send: the pieces of a journal, if *)
(* splitting reported success and their names are apart, are sent as the   *)
(* journal itself would be.                                                *)
SplitThenEmit ==
  /\ sret = 0 /\ ~collided /\ ~spoilt /\ InTimeOrder(disk[Input])
  /\ spc = "done" /\ epc = "done" /\ eret = 0
  /\ args = PiecesInOrder /\ opts.number = 0
  => EmittedIds = [i \in DOMAIN disk[Input] |-> disk[Input][i].id]

=============================================================================
