----------------------------- MODULE EventStats ------------------------------
(***************************************************************************)
(* lwes-journal-stats: counts the events of a journal by name.  The hash   *)
(* table is a function from the names seen so far; sorting it for the      *)
(* output changes nothing.  min_bytes and max_bytes are unsigned short.    *)
(***************************************************************************)
EXTENDS JournalFiles

CONSTANTS
  ShortMax,     \* 65535, the largest unsigned short
  AddedBytes,   \* 59, what other tools add to an event
  NoName        \* name of an event from which no name can be read

VARIABLES
  tpc, tfile, tpos, tret,
  stats,        \* the hash table
  printed       \* the line TOTAL

tvars == <<tpc, tfile, tpos, tret, stats, printed>>

Fresh == [total_events |-> 0, total_bytes |-> 0, min_bytes |-> ShortMax,
          max_bytes |-> 0]

StatsInit ==
  /\ tpc = "idle" /\ tfile = Missing /\ tpos = 1 /\ tret = 0
  /\ stats = [n \in {} |-> Fresh] /\ printed = Fresh

Short(x) == x % (ShortMax + 1)

MutUpsert(s, bytes) ==
  [total_events |-> s.total_events + 1,
   total_bytes |-> s.total_bytes + bytes,
   min_bytes |-> Short(IF bytes < s.min_bytes THEN bytes ELSE s.min_bytes),
   max_bytes |-> Short(IF bytes < s.max_bytes THEN bytes ELSE s.max_bytes)]

Upsert(s, bytes) ==
  [total_events |-> s.total_events + 1,
   total_bytes |-> s.total_bytes + bytes,
   min_bytes |-> Short(IF bytes < s.min_bytes THEN bytes ELSE s.min_bytes),
   max_bytes |-> Short(IF bytes > s.max_bytes THEN bytes ELSE s.max_bytes)]

\* upsert_stats
UpsertStats(name, size) ==
  LET old == IF name \in DOMAIN stats THEN stats[name] ELSE Fresh
  IN  stats' = (name :> Upsert(old, size + AddedBytes)) @@ stats

\* of the tools only this one tests that the journal could be opened
StatsStart(f) ==
  /\ tpc = "idle"
  /\ tfile' = f
  /\ IF f \in DOMAIN disk THEN tpc' = "read" /\ UNCHANGED tret
                          ELSE tpc' = "done" /\ tret' = 1
  /\ UNCHANGED <<disk, tpos, stats, printed>>

StatsRead ==
  /\ tpc = "read" /\ HasHeader(tfile, tpos)
  /\ LET e == Content(tfile)[tpos]
     IN  IF e.cut \/ e.name = NoName
         THEN tret' = 1 /\ tpc' = "print" /\ UNCHANGED <<tpos, stats>>
         ELSE /\ UpsertStats(e.name, e.size)
              /\ tpos' = tpos + 1
              /\ UNCHANGED <<tpc, tret>>
  /\ UNCHANGED <<disk, tfile, printed>>

StatsEof ==
  /\ tpc = "read" /\ ~HasHeader(tfile, tpos)
  /\ tpc' = "print"
  /\ UNCHANGED <<disk, tfile, tpos, tret, stats, printed>>

\* print_stats: the sums, and the least and the greatest of all names
StatsPrint ==
  LET Of(field(_)) == {field(stats[n]) : n \in DOMAIN stats}
  IN  /\ tpc = "print"
      /\ printed' =
           [total_events |-> MapThenSumSet(LAMBDA n : stats[n].total_events, DOMAIN stats),
            total_bytes |-> MapThenSumSet(LAMBDA n : stats[n].total_bytes, DOMAIN stats),
            min_bytes |-> Min({ShortMax} \cup Of(LAMBDA s : s.min_bytes)),
            max_bytes |-> Max({0} \cup Of(LAMBDA s : s.max_bytes))]
      /\ tpc' = "done"
      /\ UNCHANGED <<disk, tfile, tpos, tret, stats>>

StatsStep == StatsRead \/ StatsEof \/ StatsPrint

-----------------------------------------------------------------------------
(* Properties *)

Counted == SubSeq(Content(tfile), 1, tpos - 1)
Bytes(i) == Counted[i].size + AddedBytes

(* The table against its definition, after every event: per name the       *)
(* number of events, the sum of their sizes, and the smallest and largest  *)
(* size; the last two only if every size with the added bytes fits an      *)
(* unsigned short, which a datagram of 65477 bytes does not.               *)
TableExact ==
  /\ DOMAIN stats = {Counted[i].name : i \in DOMAIN Counted}
  /\ \A n \in DOMAIN stats :
       LET mine == {i \in DOMAIN Counted : Counted[i].name = n}
           sizes == {Bytes(i) : i \in mine}
       IN  /\ stats[n].total_events = Cardinality(mine)
           /\ stats[n].total_bytes = MapThenSumSet(Bytes, mine)
           /\ Max(sizes) <= ShortMax =>
                stats[n].min_bytes = Min(sizes) /\ stats[n].max_bytes = Max(sizes)

(* The line TOTAL is that of the journal: all its events when the exit     *)
(* status is 0, those before the damage otherwise.                         *)
TotalExact ==
  tpc = "done" =>
    /\ printed.total_events = Len(Counted)
    /\ printed.total_bytes = MapThenSumSet(Bytes, DOMAIN Counted)
    /\ tret = 0 => Counted = disk[tfile]

=============================================================================
