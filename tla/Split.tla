-------------------------------- MODULE Split --------------------------------
(***************************************************************************)
(* lwes-journal-split: copies a journal into files of number events each.  *)
(* Events go to a temporary file, which is closed and renamed when it is   *)
(* full, and once more at the end.  The new name has the receipt times of  *)
(* the first and of the last event, in milliseconds; it is the pair of     *)
(* them here.                                                              *)
(***************************************************************************)
EXTENDS JournalFiles

CONSTANT
  SplitFaults   \* calls that may fail: "write", "rename", "close"

VARIABLES
  spc, number, spos,
  current_count, start_file_timestamp, end_file_timestamp,
  tmp,          \* content of the temporary file
  tmp_open,     \* its handle has not been closed
  sret,
  collided,     \* history: a rename replaced a file of this run
  spoilt        \* history: a gzclose failed and its file is incomplete

svars == <<spc, number, spos, current_count, start_file_timestamp,
           end_file_timestamp, tmp, tmp_open, sret, collided, spoilt>>

SplitInit ==
  /\ spc = "idle" /\ number = 0 /\ spos = 1
  /\ current_count = 0 /\ start_file_timestamp = 0 /\ end_file_timestamp = 0
  /\ tmp = <<>> /\ tmp_open = FALSE /\ sret = 0
  /\ collided = FALSE /\ spoilt = FALSE

\* options and the name of the journal: without .gz the program ends, with a
\* name that is not standard it warns and takes all of it as the prefix
SplitStart(n, gz) ==
  /\ spc = "idle"
  /\ number' = n
  /\ IF gz THEN spc' = "read" /\ tmp_open' = TRUE /\ UNCHANGED sret
           ELSE spc' = "done" /\ sret' = 1 /\ UNCHANGED tmp_open
  /\ UNCHANGED <<disk, spos, current_count, start_file_timestamp,
                 end_file_timestamp, tmp, collided, spoilt>>

SplitEof ==
  /\ spc = "read" /\ ~HasHeader(Input, spos)
  /\ spc' = "end"
  /\ UNCHANGED <<disk, number, spos, current_count, start_file_timestamp,
                 end_file_timestamp, tmp, tmp_open, sret, collided, spoilt>>

\* the times are taken from the header before anything is written
SplitTimes ==
  LET t == Content(Input)[spos].time
  IN  /\ start_file_timestamp' = IF start_file_timestamp = 0 THEN t
                                 ELSE start_file_timestamp
      /\ end_file_timestamp' = t

SplitCopy ==
  /\ spc = "read" /\ HasHeader(Input, spos) /\ HasBody(Input, spos)
  /\ SplitTimes
  /\ tmp' = Append(tmp, Content(Input)[spos])
  /\ current_count' = current_count + 1 /\ spos' = spos + 1
  /\ spc' = IF current_count + 1 = number THEN "rename" ELSE "read"
  /\ UNCHANGED <<disk, number, tmp_open, sret, collided, spoilt>>

\* the header is written before the body is read
SplitReadFails ==
  /\ spc = "read" /\ HasHeader(Input, spos) /\ ~HasBody(Input, spos)
  /\ SplitTimes
  /\ tmp' = Append(tmp, Content(Input)[spos])
  /\ sret' = 1 /\ spc' = "end"
  /\ UNCHANGED <<disk, number, spos, current_count, tmp_open, collided, spoilt>>

\* gzwrite of the header fails, or of the body after it
SplitWriteFails ==
  /\ "write" \in SplitFaults
  /\ spc = "read" /\ HasHeader(Input, spos) /\ HasBody(Input, spos)
  /\ SplitTimes
  /\ \/ UNCHANGED tmp
     \/ tmp' = Append(tmp, [Content(Input)[spos] EXCEPT !.cut = TRUE])
  /\ sret' = 1 /\ spc' = "end"
  /\ UNCHANGED <<disk, number, spos, current_count, tmp_open, collided, spoilt>>

\* gzclose, whose result nobody looks at: the end of the file may be missing
AfterClose ==
  {tmp} \cup (IF "close" \in SplitFaults /\ tmp # <<>> THEN {Front(tmp)} ELSE {})

NewName == <<start_file_timestamp, end_file_timestamp>>

\* rename replaces a file of the same name
RenameTmp(content) ==
  /\ disk' = (NewName :> content) @@ disk
  /\ collided' = (collided \/ NewName \in DOMAIN disk)
  /\ spoilt' = (spoilt \/ content # tmp)

MutSplitRename ==
  /\ spc = "rename"
  /\ \E content \in AfterClose : RenameTmp(content)
  /\ current_count' = 0 /\ tmp' = <<>>
  /\ spc' = "read"
  /\ UNCHANGED <<number, spos, start_file_timestamp, end_file_timestamp, tmp_open,
                 sret>>

\* a full file is closed and renamed and a new temporary file is opened; the
\* time of the last event stays
SplitRename ==
  /\ spc = "rename"
  /\ \E content \in AfterClose : RenameTmp(content)
  /\ start_file_timestamp' = 0 /\ current_count' = 0 /\ tmp' = <<>>
  /\ spc' = "read"
  /\ UNCHANGED <<number, spos, end_file_timestamp, tmp_open, sret>>

\* the handle stays closed when the loop is left after a failed rename
SplitRenameFails ==
  /\ "rename" \in SplitFaults
  /\ spc = "rename"
  /\ \E content \in AfterClose : /\ tmp' = content
                                 /\ spoilt' = (spoilt \/ content # tmp)
  /\ tmp_open' = FALSE /\ sret' = 1 /\ spc' = "end"
  /\ UNCHANGED <<disk, number, spos, current_count, start_file_timestamp,
                 end_file_timestamp, collided>>

MutSplitEnd ==
  /\ spc = "end"
  /\ tmp' = <<>> /\ tmp_open' = FALSE /\ spc' = "done"
  /\ UNCHANGED <<disk, number, spos, current_count, start_file_timestamp,
                 end_file_timestamp, sret, collided, spoilt>>

\* the last file is renamed whatever is in it
SplitEnd ==
  /\ spc = "end"
  /\ \E content \in IF tmp_open THEN AfterClose ELSE {tmp} : RenameTmp(content)
  /\ tmp' = <<>> /\ tmp_open' = FALSE /\ spc' = "done"
  /\ UNCHANGED <<number, spos, current_count, start_file_timestamp,
                 end_file_timestamp, sret>>

\* the last rename fails; or the second gzclose of a closed handle, which is
\* undefined, ends the program
SplitEndFails ==
  /\ spc = "end" /\ ("rename" \in SplitFaults \/ ~tmp_open)
  /\ tmp_open' = FALSE /\ sret' = 1 /\ spc' = "done"
  /\ UNCHANGED <<disk, number, spos, current_count, start_file_timestamp,
                 end_file_timestamp, tmp, collided, spoilt>>

SplitStep ==
  \/ SplitEof \/ SplitCopy \/ SplitReadFails \/ SplitWriteFails
  \/ SplitRename \/ SplitRenameFails \/ SplitEnd \/ SplitEndFails

-----------------------------------------------------------------------------
(* Properties *)

Pieces == DOMAIN disk \ {Input}

\* the pieces as a shell lists them: by the time of the first event, then of
\* the last
PiecesInOrder ==
  SetToSortSeq(Pieces, LAMBDA a, b : a[1] < b[1] \/ (a[1] = b[1] /\ a[2] < b[2]))

Joined == FlattenSeq([i \in DOMAIN PiecesInOrder |-> disk[PiecesInOrder[i]]])

InTimeOrder(events) ==
  \A i, j \in DOMAIN events : i < j => events[i].time <= events[j].time

(* An exit status of 0 means that nothing is missing: the pieces, in the   *)
(* order of their names, are the journal.  This needs what the program     *)
(* does not look at: that no two pieces have the same name, since rename   *)
(* replaces, that gzclose could write what it had buffered, and that the   *)
(* clock did not run backwards.                                            *)
SplitComplete ==
  spc = "done" /\ sret = 0 /\ ~collided /\ ~spoilt /\ InTimeOrder(disk[Input])
    => Joined = disk[Input]

(* Failing or not, a piece holds consecutive events of the journal, no     *)
(* more than asked for, and its name has the time of its first event and   *)
(* no time before its last; an event without its body is the last of all.  *)
PiecesFaithful ==
  \A name \in Pieces :
    LET piece == disk[name]
    IN  /\ number > 0 => Len(Whole(piece)) <= number
        /\ \E i \in 0..Len(disk[Input]) :
             /\ i + Len(piece) <= Len(disk[Input])
             /\ \A k \in DOMAIN piece :
                  piece[k] \in {disk[Input][i + k], [disk[Input][i + k] EXCEPT !.cut = TRUE]}
        /\ \A k \in DOMAIN piece : piece[k].cut => k = Len(piece) /\ sret = 1
        /\ piece # <<>> => name[1] = piece[1].time
        /\ InTimeOrder(disk[Input]) =>
             \A k \in DOMAIN piece : piece[k].time <= name[2]

(* The names tell the pieces apart unless a whole piece and the next one   *)
(* lie within one millisecond: with the clock running forwards two pieces  *)
(* get the same name only if all their events have the same time.          *)
CollisionNeedsSameTime ==
  collided /\ InTimeOrder(disk[Input]) =>
    \E i \in 1..(Len(disk[Input]) - number) :
      disk[Input][i].time = disk[Input][i + number].time

=============================================================================
