------------------------------- MODULE Journal -------------------------------
(***************************************************************************)
(* Journal files on disk: journal_file.c, journal_gz.c, rename_journal.c   *)
(* and the way queue_to_journal.c (rotate) and serial_model.c use them.    *)
(*                                                                         *)
(* The process writes to the file with the path of journal jcurr.  A       *)
(* rotation closes it, renames it to path.<date>.<opened>.<closed>.ext and *)
(* opens the next of NJournals paths; a file found at that path was left   *)
(* by a crash or by a failed rename and is renamed first, then fopen       *)
(* truncates what is still there.  The process may crash between any two   *)
(* system calls and is started again by its operator.                      *)
(*                                                                         *)
(* A packet is its number and the second in which it was written.  The     *)
(* stdio or zlib buffer reaches the file in pieces that the program does   *)
(* not control; a crash loses the rest.                                    *)
(***************************************************************************)
EXTENDS Integers, Sequences, FiniteSets, Functions

CONSTANTS
  JournTypes,      \* values of arg_journ_type: "file", "gz" or both
  NJournals,       \* arg_njournalls
  Apart,           \* TRUE: starts, rotations, stops lie a second apart
  MaxTime,         \* bound: seconds
  MaxPackets,      \* bound: packets written
  MaxCrashes,      \* bound: crashes
  MaxFailedRenames \* bound: failed calls of rename

ASSUME JournalAssumption ==
  /\ JournTypes \subseteq {"file", "gz"}
  /\ NJournals \in Nat \ {0}
  /\ Apart \in BOOLEAN
  /\ MaxTime \in Nat /\ MaxPackets \in Nat
  /\ MaxCrashes \in Nat /\ MaxFailedRenames \in Nat

Journals == 0..(NJournals - 1)
Packet == [id: Nat, time: Nat]

\* What stat finds at the path of a journal: whether there is a file, its
\* packets, whether its size is more than zero, and st_ctime.
File == [exists: BOOLEAN, data: Seq(Packet), sized: BOOLEAN, ctime: Nat]
NoFile == [exists |-> FALSE, data |-> <<>>, sized |-> FALSE, ctime |-> 0]

\* The name of an archived file; the formatted date is a function of now.
Name == [journal: Journals, last: Nat, now: Nat]

VARIABLES
  arg_journ_type,  \* an option, the same for all runs of the program
  clock,    \* time(NULL)
  jpc,      \* control point of the writer
  stop,     \* the close under way is the one at shutdown
  jcurr,    \* index of the current journal
  ot,       \* when the current journal was opened
  active,   \* journal -> the file at its path
  archive,  \* name -> packets of the renamed file
  buf,      \* packets written and still in the buffer of the process
  npackets, \* packets written
  flushed,  \* packets that have reached a file
  crashes, failures

fvars == <<active, archive>>
bounds == <<arg_journ_type, crashes, failures>>
vars == <<clock, jpc, stop, jcurr, ot, fvars, buf, npackets, flushed, bounds>>

Init ==
  /\ arg_journ_type \in JournTypes
  /\ clock = 1 /\ jpc = "down" /\ stop = FALSE /\ jcurr = 0 /\ ot = 0
  /\ active = [j \in Journals |-> NoFile]
  /\ archive = <<>>
  /\ buf = <<>> /\ npackets = 0 /\ flushed = {}
  /\ crashes = 0 /\ failures = 0

-----------------------------------------------------------------------------
(* rename_journal *)

\* Mutant: the two times are swapped in the name.
MutNewPath(j, last) == [journal |-> j, last |-> clock, now |-> last]

NewPath(j, last) == [journal |-> j, last |-> last, now |-> clock]

\* rename() replaces a file that has the new name.
RenameJournal(j, last) ==
  \/ /\ archive' = [n \in DOMAIN archive \cup {NewPath(j, last)} |->
                      IF n = NewPath(j, last) THEN active[j].data
                                              ELSE archive[n]]
     /\ active' = [active EXCEPT ![j] = NoFile]
     /\ UNCHANGED failures
  \/ /\ failures < MaxFailedRenames
     /\ failures' = failures + 1
     /\ UNCHANGED fvars

-----------------------------------------------------------------------------
(* xopen with O_WRONLY *)

\* The journaller starts and opens its first journal.
Start ==
  /\ jpc = "down" /\ (Apart => clock > ot)
  /\ jpc' = "stat" /\ jcurr' = 0 /\ stop' = FALSE
  /\ UNCHANGED <<clock, ot, fvars, buf, npackets, flushed, bounds>>

\* Mutant: a compressed file that was left is not recognised.
MutLeftOver(j) == active[j].exists /\ arg_journ_type = "file"

\* A file found by stat is renamed: a plain one as reaching back to time 0,
\* a compressed one, unless it is empty, as reaching back to st_ctime.
LeftOver(j) == active[j].exists /\ (arg_journ_type = "gz" => active[j].sized)

\* Mutant: every file that was left is named after its last change.
MutEpoch(j) == active[j].ctime

Epoch(j) == IF arg_journ_type = "gz" THEN active[j].ctime ELSE 0

RenameLeftOver ==
  /\ jpc = "stat"
  /\ IF LeftOver(jcurr)
       THEN RenameJournal(jcurr, Epoch(jcurr))
       ELSE UNCHANGED <<fvars, failures>>
  /\ jpc' = "fopen"
  /\ UNCHANGED <<clock, stop, jcurr, ot, buf, npackets, flushed, arg_journ_type,
                 crashes>>

\* fopen or gzopen with mode "wb" creates the file or truncates it.
Create ==
  /\ jpc = "fopen"
  /\ active' = [active EXCEPT ![jcurr] =
       [exists |-> TRUE, data |-> <<>>, sized |-> FALSE, ctime |-> clock]]
  /\ ot' = clock
  /\ jpc' = "run"
  /\ UNCHANGED <<clock, stop, jcurr, archive, buf, npackets, flushed, bounds>>

-----------------------------------------------------------------------------
(* xwrite, and the buffer that is written to the file behind its back *)

Write ==
  /\ jpc = "run" /\ npackets < MaxPackets
  /\ npackets' = npackets + 1
  /\ buf' = Append(buf, [id |-> npackets + 1, time |-> clock])
  /\ UNCHANGED <<clock, jpc, stop, jcurr, ot, fvars, flushed, bounds>>

\* The first k packets of the buffer reach the file.
FlushTo(k) ==
  /\ active' = [active EXCEPT ![jcurr] =
       [exists |-> TRUE, data |-> @.data \o SubSeq(buf, 1, k),
        sized |-> TRUE, ctime |-> clock]]
  /\ flushed' = flushed \cup {buf[i].id : i \in 1..k}

Flush ==
  /\ jpc = "run"
  /\ \E k \in 1..Len(buf) :
       FlushTo(k) /\ buf' = SubSeq(buf, k + 1, Len(buf))
  /\ UNCHANGED <<clock, jpc, stop, jcurr, ot, archive, npackets, bounds>>

-----------------------------------------------------------------------------
(* xclose *)

\* fclose or gzclose writes what is left in the buffer; gzclose writes the
\* gzip trailer even to an empty file.
Close(final) ==
  /\ jpc = "run" /\ (Apart => clock > ot)
  /\ IF buf = <<>> /\ arg_journ_type = "file"
       THEN UNCHANGED <<active, flushed>>
       ELSE FlushTo(Len(buf))
  /\ buf' = <<>>
  /\ stop' = final
  /\ jpc' = "rename"
  /\ UNCHANGED <<clock, jcurr, ot, archive, npackets, bounds>>

\* The closed file is renamed; the result is ignored.  rotate() goes on to
\* the next journal, at shutdown the process ends.
RenameClosed ==
  /\ jpc = "rename"
  /\ RenameJournal(jcurr, ot)
  /\ IF stop THEN jpc' = "down" /\ UNCHANGED jcurr
             ELSE jpc' = "stat" /\ jcurr' = (jcurr + 1) % NJournals
  /\ UNCHANGED <<clock, stop, ot, buf, npackets, flushed, arg_journ_type,
                 crashes>>

-----------------------------------------------------------------------------
(* The environment *)

\* The process dies, or exits because a journal cannot be closed or opened:
\* what is in its buffer is lost.
Crash ==
  /\ jpc # "down" /\ crashes < MaxCrashes
  /\ crashes' = crashes + 1
  /\ jpc' = "down" /\ buf' = <<>>
  /\ UNCHANGED <<clock, stop, jcurr, ot, fvars, npackets, flushed,
                 arg_journ_type, failures>>

Tick ==
  /\ clock < MaxTime
  /\ clock' = clock + 1
  /\ UNCHANGED <<jpc, stop, jcurr, ot, fvars, buf, npackets, flushed, bounds>>

Next ==
  \/ Start \/ RenameLeftOver \/ Create
  \/ Write \/ Flush
  \/ \E final \in BOOLEAN : Close(final)
  \/ RenameClosed
  \/ Crash \/ Tick

Spec == Init /\ [][Next]_vars

-----------------------------------------------------------------------------
TypeOK ==
  /\ arg_journ_type \in {"file", "gz"}
  /\ clock \in Nat /\ ot \in Nat
  /\ jpc \in {"down", "stat", "fopen", "run", "rename"}
  /\ stop \in BOOLEAN /\ jcurr \in Journals
  /\ DOMAIN archive \subseteq Name
  /\ \A n \in DOMAIN archive : archive[n] \in Seq(Packet)
  /\ \A j \in Journals : active[j] \in File
  /\ buf \in Seq(Packet) /\ npackets \in Nat
  /\ flushed \subseteq 1..npackets
  /\ crashes \in Nat /\ failures \in Nat

-----------------------------------------------------------------------------
PacketIds(s) == {s[i].id : i \in DOMAIN s}

Stored ==
  (UNION {PacketIds(active[j].data) : j \in Journals})
    \cup (UNION {PacketIds(archive[n]) : n \in DOMAIN archive})

\* A packet that has reached a file stays in a file: no file with packets
\* is truncated, no archived file is replaced ("writes all events caught to
\* a file which can be processed later").
Durable == flushed \subseteq Stored

\* Files survive rotations, crashes at any point with restarts, or one failed
\* rename, which the next opening of that path makes good.
DurableIfTolerable ==
  failures = 0 \/ (crashes = 0 /\ failures = 1) => Durable

\* No packet is in two files, or in a file and in the buffer: recovery
\* renames what a crash left and never writes a packet again.
NoDuplicates ==
  /\ \A n, m \in DOMAIN archive :
       n # m => PacketIds(archive[n]) \cap PacketIds(archive[m]) = {}
  /\ \A n \in DOMAIN archive, j \in Journals :
       PacketIds(archive[n]) \cap PacketIds(active[j].data) = {}
  /\ \A j, k \in Journals :
       j # k => PacketIds(active[j].data) \cap PacketIds(active[k].data) = {}
  /\ PacketIds(buf) \cap flushed = {}

\* The names of the archived files of one journal, ordered by closing time
\* and then by opening time, give their packets in the order of writing:
\* a consumer that sorts the names processes the packets in order.
Older(n, m) == n.now < m.now \/ (n.now = m.now /\ n.last < m.last)

NamesInOrder ==
  \A n, m \in DOMAIN archive :
    n.journal = m.journal /\ Older(n, m) =>
      \A x \in PacketIds(archive[n]), y \in PacketIds(archive[m]) : x < y

\* The interval in the name of an archived file contains the times at which
\* its packets were written, also for the plain files left by a crash
\* ("Crashed files may include data from the past").  A compressed file that
\* was left is named from its last change and may have older packets.
IntervalCovers ==
  arg_journ_type = "file" =>
    \A n \in DOMAIN archive : \A i \in DOMAIN archive[n] :
      n.last <= archive[n][i].time /\ archive[n][i].time <= n.now

\* What has reached a file stays in a file, and in one only, through any
\* number of crashes and recoveries or one failed rename.
DurableOnce == TypeOK /\ DurableIfTolerable /\ NoDuplicates

=============================================================================
