---------------------------- MODULE JournalFiles -----------------------------
(***************************************************************************)
(* What the journal tools see of the disk: files by name, each a sequence  *)
(* of events as their headers and bodies are read with gzread.  The last   *)
(* event of a file may be cut, its header there and its body not; a header *)
(* that is cut itself reads like the end of the file.  The codec of the    *)
(* header is the subject of module Header.                                 *)
(***************************************************************************)
EXTENDS Integers, Sequences, FiniteSetsExt, SequencesExt

CONSTANT
  Journals   \* contents of the journal that the tools are given

Event == [id: Nat, time: Nat, name: STRING, size: Nat, cut: BOOLEAN]

ASSUME JournalAssumption ==
  \A j \in Journals :
    /\ j \in Seq(Event)
    /\ \A i \in DOMAIN j : /\ j[i].time > 0
                           /\ j[i].cut => i = Len(j)

VARIABLE disk   \* content of each file, by name

\* a name is a pair of times; the journal's own and that of no file are apart
Input == <<-1, -1>>
Missing == <<-2, -2>>

\* a file that cannot be opened reads like an empty one: gzread(NULL) is -1
Content(f) == IF f \in DOMAIN disk THEN disk[f] ELSE <<>>

\* gzread (file, header, 22) == 22
HasHeader(f, pos) == pos <= Len(Content(f))

\* gzread (file, buf, size) == size
HasBody(f, pos) == ~Content(f)[pos].cut

Whole(events) == SelectSeq(events, LAMBDA e : ~e.cut)

DiskInit == \E j \in Journals : disk = (Input :> j)
=============================================================================
