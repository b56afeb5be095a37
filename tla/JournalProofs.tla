---------------------------- MODULE JournalProofs ----------------------------
(***************************************************************************)
(* Proofs about the journal files, for any number of journals, crashes and *)
(* failed renames and both kinds of files:                                 *)
(*                                                                         *)
(*   DurableCorrect   what has reached a file stays in one file            *)
(*   NamesCorrect     the names give the packets in the order of writing   *)
(*   IntervalCorrect  the interval of a name covers its packets            *)
(*                                                                         *)
(* The first two assume Apart: two files of one journal that are renamed   *)
(* within a second may get one name.  What they rest on is NameInv: once a *)
(* file of a journal is archived in the current second, the path of this   *)
(* journal is free or the file there was opened in this second, and such a *)
(* file is not renamed before the next one.                                *)
(***************************************************************************)
EXTENDS Journal, FiniteSetTheorems, SequenceTheorems, TLAPS

-----------------------------------------------------------------------------
(* Types *)

TypeInv == TypeOK /\ active \in [Journals -> File]

USE JournalAssumption DEF Journals

LEMMA SeqParts ==
  ASSUME NEW s \in Seq(Packet), NEW b \in Seq(Packet), NEW k \in 0..Len(b)
  PROVE  LET t == s \o SubSeq(b, 1, k)
         IN  /\ t \in Seq(Packet)
             /\ Len(t) = Len(s) + k
             /\ \A i \in 1..Len(s) : t[i] = s[i]
             /\ \A i \in 1..k : t[Len(s) + i] = b[i]
<1> DEFINE u == SubSeq(b, 1, k)
<1>1. u \in Seq(Packet) /\ Len(u) = k /\ \A i \in 1..k : u[i] = b[i]
  OBVIOUS
<1> HIDE DEF u
<1>2. /\ s \o u \in Seq(Packet)
      /\ Len(s \o u) = Len(s) + k
      /\ \A i \in 1..Len(s) : (s \o u)[i] = s[i]
      /\ \A i \in 1..k : (s \o u)[Len(s) + i] = u[i]
  BY <1>1
<1>3. QED
  BY <1>1, <1>2 DEF u

\* Every element of the longer file comes from the file or from the buffer.
LEMMA SeqPartsEach ==
  ASSUME NEW s \in Seq(Packet), NEW b \in Seq(Packet), NEW k \in 0..Len(b),
         NEW i \in DOMAIN (s \o SubSeq(b, 1, k))
  PROVE  LET t == s \o SubSeq(b, 1, k)
         IN  \/ i \in DOMAIN s /\ t[i] = s[i]
             \/ \E m \in 1..k : m \in DOMAIN b /\ t[i] = b[m]
<1> DEFINE t == s \o SubSeq(b, 1, k)
<1>1. /\ t \in Seq(Packet)
      /\ Len(t) = Len(s) + k
      /\ \A x \in 1..Len(s) : t[x] = s[x]
      /\ \A x \in 1..k : t[Len(s) + x] = b[x]
  BY SeqParts
<1>2. i \in 1..Len(t)
  BY <1>1
<1> HIDE DEF t
<1>3. CASE i <= Len(s)
  BY <1>1, <1>2, <1>3 DEF t
<1>4. CASE i > Len(s)
  <2>1. i - Len(s) \in 1..k /\ i = Len(s) + (i - Len(s))
    BY <1>1, <1>2, <1>4
  <2>2. t[i] = b[i - Len(s)]
    BY <1>1, <2>1
  <2>3. i - Len(s) \in DOMAIN b
    BY <2>1
  <2>4. QED
    BY <2>1, <2>2, <2>3 DEF t
<1>5. QED
  BY <1>2, <1>3, <1>4

LEMMA IdsEmpty == PacketIds(<<>>) = {}
  BY DEF PacketIds

\* The packets of a file after part of the buffer has been written to it.
LEMMA IdsFlush ==
  ASSUME NEW s \in Seq(Packet), NEW b \in Seq(Packet), NEW k \in 0..Len(b)
  PROVE  PacketIds(s \o SubSeq(b, 1, k))
           = PacketIds(s) \cup {b[i].id : i \in 1..k}
<1> DEFINE t == s \o SubSeq(b, 1, k)
<1>1. /\ t \in Seq(Packet)
      /\ Len(t) = Len(s) + k
      /\ \A i \in 1..Len(s) : t[i] = s[i]
      /\ \A i \in 1..k : t[Len(s) + i] = b[i]
  BY SeqParts
<1>2. \A i \in DOMAIN t : t[i].id \in PacketIds(s) \cup {b[m].id : m \in 1..k}
  BY SeqPartsEach DEF PacketIds
<1> HIDE DEF t
<1>3. \A i \in DOMAIN s : i \in DOMAIN t /\ t[i] = s[i]
  BY <1>1
<1>4. \A i \in 1..k : Len(s) + i \in DOMAIN t /\ t[Len(s) + i] = b[i]
  BY <1>1
<1>5. PacketIds(s) \subseteq PacketIds(t)
  BY <1>3 DEF PacketIds
<1>6. {b[i].id : i \in 1..k} \subseteq PacketIds(t)
  BY <1>4 DEF PacketIds
<1>7. PacketIds(t) \subseteq PacketIds(s) \cup {b[i].id : i \in 1..k}
  BY <1>2 DEF PacketIds
<1>8. QED
  BY <1>5, <1>6, <1>7 DEF t

LEMMA NewPathType ==
  ASSUME clock \in Nat, NEW j \in Journals, NEW last \in Nat
  PROVE  /\ NewPath(j, last) \in Name
         /\ NewPath(j, last).journal = j
         /\ NewPath(j, last).last = last
         /\ NewPath(j, last).now = clock
  BY DEF NewPath, Name

LEMMA NoFileType ==
  /\ NoFile \in File
  /\ ~NoFile.exists /\ ~NoFile.sized /\ NoFile.data = <<>>
  BY DEF NoFile, File

\* A rename moves the file to its new name or, when it fails, nothing.
LEMMA RenameEffect ==
  ASSUME TypeInv, NEW j \in Journals, NEW last \in Nat, RenameJournal(j, last)
  PROVE  \/ /\ DOMAIN archive' = DOMAIN archive \cup {NewPath(j, last)}
            /\ archive'[NewPath(j, last)] = active[j].data
            /\ \A n \in DOMAIN archive :
                 n # NewPath(j, last) => archive'[n] = archive[n]
            /\ active'[j] = NoFile
            /\ \A k \in Journals : k # j => active'[k] = active[k]
            /\ active' \in [Journals -> File]
            /\ failures' = failures
         \/ /\ archive' = archive /\ active' = active
            /\ failures' = failures + 1
<1> DEFINE p == NewPath(j, last)
<1> HIDE DEF p
<1>1. CASE /\ archive' = [n \in DOMAIN archive \cup {p} |->
                             IF n = p THEN active[j].data ELSE archive[n]]
           /\ active' = [active EXCEPT ![j] = NoFile]
           /\ failures' = failures
  <2>1. active' \in [Journals -> File]
    BY <1>1, NoFileType DEF TypeInv
  <2>2. active'[j] = NoFile /\ \A k \in Journals : k # j => active'[k] = active[k]
    BY <1>1 DEF TypeInv
  <2>3. /\ DOMAIN archive' = DOMAIN archive \cup {p}
        /\ archive'[p] = active[j].data
        /\ \A n \in DOMAIN archive : n # p => archive'[n] = archive[n]
    BY <1>1
  <2>4. QED
    BY <1>1, <2>1, <2>2, <2>3 DEF p
<1>2. CASE failures' = failures + 1 /\ UNCHANGED fvars
  BY <1>2 DEF fvars
<1>3. QED
  BY <1>1, <1>2 DEF RenameJournal, p

LEMMA FlushEffect ==
  ASSUME TypeInv, NEW k \in 0..Len(buf), FlushTo(k)
  PROVE  /\ \A j \in Journals : j # jcurr => active'[j] = active[j]
         /\ active'[jcurr].exists /\ active'[jcurr].sized
         /\ active'[jcurr].data = active[jcurr].data \o SubSeq(buf, 1, k)
         /\ PacketIds(active'[jcurr].data)
              = PacketIds(active[jcurr].data) \cup {buf[i].id : i \in 1..k}
         /\ active' \in [Journals -> File]
         /\ flushed' = flushed \cup {buf[i].id : i \in 1..k}
<1>1. /\ jcurr \in Journals /\ buf \in Seq(Packet) /\ clock \in Nat
      /\ active \in [Journals -> File]
      /\ active[jcurr].data \in Seq(Packet)
  BY DEF TypeInv, TypeOK, File
<1> DEFINE d == active[jcurr].data \o SubSeq(buf, 1, k)
           f == [exists |-> TRUE, data |-> d, sized |-> TRUE, ctime |-> clock]
<1>2. d \in Seq(Packet)
  BY <1>1, SeqParts
<1>3. PacketIds(d) = PacketIds(active[jcurr].data) \cup {buf[i].id : i \in 1..k}
  BY <1>1, IdsFlush
<1>4. active' = [active EXCEPT ![jcurr] = f]
  BY <1>1 DEF FlushTo
<1> HIDE DEF d
<1>5. f \in File
  BY <1>1, <1>2 DEF File
<1>6. flushed' = flushed \cup {buf[i].id : i \in 1..k}
  BY DEF FlushTo
<1>7. f.exists /\ f.sized /\ f.data = d
  OBVIOUS
<1> HIDE DEF f
<1>8. active'[jcurr] = f /\ (\A j \in Journals : j # jcurr => active'[j] = active[j])
        /\ active' \in [Journals -> File]
  BY <1>1, <1>4, <1>5
<1>9. active'[jcurr].data = d
  BY <1>8, <1>7
<1>10. QED
  BY <1>3, <1>6, <1>7, <1>8, <1>9 DEF d

-----------------------------------------------------------------------------
(* The buffer of the process *)

\* The packets of the buffer were written in order, until now, and after all
\* that has reached a file; only an open journal has one.
BufferInv ==
  /\ jpc # "run" => buf = <<>>
  /\ \A i \in DOMAIN buf : buf[i].id \in 1..npackets /\ buf[i].time <= clock
  /\ \A i, k \in DOMAIN buf : i < k => buf[i].id < buf[k].id
  /\ \A x \in flushed : \A i \in DOMAIN buf : x < buf[i].id

LEMMA TypeStep ==
  ASSUME TypeInv, BufferInv, [Next]_vars
  PROVE  TypeInv'
<1>1. /\ arg_journ_type \in {"file", "gz"}
      /\ clock \in Nat /\ ot \in Nat
      /\ jcurr \in Journals
      /\ DOMAIN archive \subseteq Name
      /\ \A n \in DOMAIN archive : archive[n] \in Seq(Packet)
      /\ active \in [Journals -> File]
      /\ buf \in Seq(Packet) /\ npackets \in Nat
      /\ flushed \subseteq 1..npackets
      /\ crashes \in Nat /\ failures \in Nat
      /\ stop \in BOOLEAN
      /\ jpc \in {"down", "stat", "fopen", "run", "rename"}
  BY DEF TypeInv, TypeOK
<1>2. ASSUME NEW j \in Journals, NEW last \in Nat, RenameJournal(j, last)
      PROVE  /\ active' \in [Journals -> File]
             /\ DOMAIN archive' \subseteq Name
             /\ \A n \in DOMAIN archive' : archive'[n] \in Seq(Packet)
             /\ failures' \in Nat
  <2>1. active[j].data \in Seq(Packet)
    BY <1>1 DEF File
  <2>2. NewPath(j, last) \in Name
    BY <1>1, NewPathType
  <2> DEFINE p == NewPath(j, last)
  <2>3. \/ /\ DOMAIN archive' = DOMAIN archive \cup {p}
           /\ archive'[p] = active[j].data
           /\ \A n \in DOMAIN archive : n # p => archive'[n] = archive[n]
           /\ active' \in [Journals -> File]
           /\ failures' = failures
        \/ archive' = archive /\ active' = active /\ failures' = failures + 1
    BY <1>2, RenameEffect
  <2> HIDE DEF p
  <2>4. p \in Name
    BY <2>2 DEF p
  <2>5. QED
    BY <1>1, <2>1, <2>3, <2>4
<1>3. ASSUME NEW k \in 0..Len(buf), FlushTo(k)
      PROVE  active' \in [Journals -> File] /\ flushed' \subseteq 1..npackets
  <2>1. \A i \in 1..k : buf[i].id \in 1..npackets
    BY <1>1 DEF BufferInv
  <2>2. active' \in [Journals -> File]
          /\ flushed' = flushed \cup {buf[i].id : i \in 1..k}
    BY <1>3, FlushEffect
  <2>3. QED
    BY <1>1, <2>1, <2>2
<1>4. active' \in [Journals -> File] => \A j \in Journals : active'[j] \in File
  OBVIOUS
<1>5. CASE Start
  <2>1. 0 \in Journals
    OBVIOUS
  <2>2. QED
    BY <1>1, <1>5, <2>1 DEF Start, TypeInv, TypeOK, fvars, bounds
<1>6. CASE RenameLeftOver
  <2>1. Epoch(jcurr) \in Nat
    BY <1>1 DEF Epoch, File
  <2>2. /\ active' \in [Journals -> File]
        /\ DOMAIN archive' \subseteq Name
        /\ \A n \in DOMAIN archive' : archive'[n] \in Seq(Packet)
        /\ failures' \in Nat
    BY <1>1, <1>2, <1>6, <2>1 DEF RenameLeftOver, fvars
  <2>3. QED
    BY <1>1, <1>4, <1>6, <2>2 DEF RenameLeftOver, TypeInv, TypeOK
<1>7. CASE Create
  <2> DEFINE f == [exists |-> TRUE, data |-> <<>>, sized |-> FALSE,
                   ctime |-> clock]
  <2>1. f \in File
    BY <1>1 DEF File
  <2>2. active' = [active EXCEPT ![jcurr] = f]
    BY <1>7 DEF Create
  <2> HIDE DEF f
  <2>3. active' \in [Journals -> File]
    BY <1>1, <2>1, <2>2
  <2>4. QED
    BY <1>1, <1>4, <1>7, <2>3 DEF Create, TypeInv, TypeOK, bounds
<1>8. CASE Write
  <2> DEFINE p == [id |-> npackets + 1, time |-> clock]
  <2>1. p \in Packet
    BY <1>1 DEF Packet
  <2> HIDE DEF p
  <2>2. buf' \in Seq(Packet)
    BY <1>1, <1>8, <2>1 DEF Write, p
  <2>3. npackets' \in Nat /\ flushed' \subseteq 1..npackets'
    BY <1>1, <1>8 DEF Write
  <2>4. QED
    BY <1>1, <1>4, <1>8, <2>2, <2>3 DEF Write, TypeInv, TypeOK, fvars, bounds
<1>9. CASE Flush
  <2>1. PICK k \in 1..Len(buf) :
          FlushTo(k) /\ buf' = SubSeq(buf, k + 1, Len(buf))
    BY <1>9 DEF Flush
  <2>2. k \in 0..Len(buf)
    BY <1>1
  <2>3. buf' \in Seq(Packet)
    BY <1>1, <2>1
  <2>4. QED
    BY <1>1, <1>3, <1>4, <1>9, <2>1, <2>2, <2>3
       DEF Flush, TypeInv, TypeOK, bounds
<1>10. ASSUME NEW final \in BOOLEAN, Close(final)
       PROVE  TypeInv'
  <2>1. Len(buf) \in 0..Len(buf)
    BY <1>1
  <2>2. active' \in [Journals -> File] /\ flushed' \subseteq 1..npackets
    BY <1>1, <1>3, <1>10, <2>1 DEF Close
  <2>3. QED
    BY <1>1, <1>4, <1>10, <2>2 DEF Close, TypeInv, TypeOK, bounds
<1>11. CASE RenameClosed
  <2>1. /\ active' \in [Journals -> File]
        /\ DOMAIN archive' \subseteq Name
        /\ \A n \in DOMAIN archive' : archive'[n] \in Seq(Packet)
        /\ failures' \in Nat
    BY <1>1, <1>2, <1>11 DEF RenameClosed
  <2>2. (jcurr + 1) % NJournals \in Journals
    BY <1>1
  <2>3. jcurr' \in Journals /\ jpc' \in {"down", "stat"}
    BY <1>1, <1>11, <2>2 DEF RenameClosed
  <2>4. QED
    BY <1>1, <1>4, <1>11, <2>1, <2>3 DEF RenameClosed, TypeInv, TypeOK
<1>12. CASE Crash
  BY <1>1, <1>12 DEF Crash, TypeInv, TypeOK, fvars
<1>13. CASE Tick
  BY <1>1, <1>13 DEF Tick, TypeInv, TypeOK, fvars, bounds
<1>14. CASE UNCHANGED vars
  BY <1>1, <1>14 DEF vars, TypeInv, TypeOK, fvars, bounds
<1>15. QED
  BY <1>5, <1>6, <1>7, <1>8, <1>9, <1>10, <1>11, <1>12, <1>13, <1>14 DEF Next

LEMMA BufferStep ==
  ASSUME TypeInv, BufferInv, [Next]_vars
  PROVE  BufferInv'
<1>1. /\ clock \in Nat /\ buf \in Seq(Packet) /\ npackets \in Nat
      /\ flushed \subseteq 1..npackets
  BY DEF TypeInv, TypeOK
<1>2. ASSUME buf' = <<>>
      PROVE  BufferInv'
  BY <1>2 DEF BufferInv
<1>3. CASE Write
  <2> DEFINE p == [id |-> npackets + 1, time |-> clock]
  <2>1. p.id = npackets + 1 /\ p.time = clock
    OBVIOUS
  <2> HIDE DEF p
  <2>2. /\ Len(buf') = Len(buf) + 1 /\ buf' \in Seq({p} \cup Packet)
        /\ \A i \in 1..Len(buf) : buf'[i] = buf[i]
        /\ buf'[Len(buf) + 1] = p
    BY <1>1, <1>3 DEF Write, p
  <2>3. jpc' = "run" /\ npackets' = npackets + 1 /\ clock' = clock
          /\ flushed' = flushed
    BY <1>3 DEF Write
  <2>4. DOMAIN buf' = 1..(Len(buf) + 1)
    BY <2>2
  <2>5. \A i \in DOMAIN buf' :
          \/ i \in DOMAIN buf /\ buf'[i] = buf[i]
          \/ i = Len(buf) + 1 /\ buf'[i] = p
    BY <1>1, <2>2, <2>4
  <2>6. \A i \in DOMAIN buf' : buf'[i].id \in 1..npackets' /\ buf'[i].time <= clock'
    BY <1>1, <2>1, <2>3, <2>5 DEF BufferInv
  <2>7. \A i, k \in DOMAIN buf' : i < k => buf'[i].id < buf'[k].id
    <3> SUFFICES ASSUME NEW i \in DOMAIN buf', NEW k \in DOMAIN buf', i < k
                 PROVE  buf'[i].id < buf'[k].id
      OBVIOUS
    <3>1. i \in DOMAIN buf /\ buf'[i] = buf[i] /\ buf[i].id \in 1..npackets
      BY <1>1, <2>4, <2>5 DEF BufferInv
    <3>2. CASE k \in DOMAIN buf /\ buf'[k] = buf[k]
      BY <3>1, <3>2 DEF BufferInv
    <3>3. CASE buf'[k] = p
      BY <1>1, <2>1, <3>1, <3>3
    <3>4. QED
      BY <2>5, <3>2, <3>3
  <2>8. \A x \in flushed' : \A i \in DOMAIN buf' : x < buf'[i].id
    BY <1>1, <2>1, <2>3, <2>5 DEF BufferInv
  <2>9. QED
    BY <2>3, <2>6, <2>7, <2>8 DEF BufferInv
<1>4. CASE Flush
  <2>1. PICK k \in 1..Len(buf) :
          FlushTo(k) /\ buf' = SubSeq(buf, k + 1, Len(buf))
    BY <1>4 DEF Flush
  <2>2. Len(buf') = Len(buf) - k /\ DOMAIN buf' = 1..(Len(buf) - k)
    BY <1>1, <2>1
  <2>3. \A i \in DOMAIN buf' : k + i \in DOMAIN buf /\ buf'[i] = buf[k + i]
    BY <1>1, <2>1, <2>2
  <2>4. k \in 0..Len(buf)
    BY <1>1
  <2>5. flushed' = flushed \cup {buf[i].id : i \in 1..k}
    BY <2>1, <2>4, FlushEffect
  <2>6. npackets' = npackets /\ clock' = clock /\ jpc' = "run"
    BY <1>4 DEF Flush
  <2>7. \A i \in DOMAIN buf' : buf'[i].id \in 1..npackets' /\ buf'[i].time <= clock'
    BY <2>3, <2>6 DEF BufferInv
  <2>8. \A i, m \in DOMAIN buf' : i < m => buf'[i].id < buf'[m].id
    <3> SUFFICES ASSUME NEW i \in DOMAIN buf', NEW m \in DOMAIN buf', i < m
                 PROVE  buf'[i].id < buf'[m].id
      OBVIOUS
    <3>1. k + i < k + m
      BY <2>2
    <3>2. QED
      BY <2>3, <3>1 DEF BufferInv
  <2>9. ASSUME NEW x \in flushed', NEW i \in DOMAIN buf'
        PROVE  x < buf'[i].id
    <3>1. CASE x \in flushed
      BY <2>3, <2>9, <3>1 DEF BufferInv
    <3>2. CASE \E m \in 1..k : x = buf[m].id
      <4>1. PICK m \in 1..k : x = buf[m].id
        BY <3>2
      <4>2. m \in DOMAIN buf /\ m < k + i
        BY <1>1, <2>2
      <4>3. QED
        BY <2>3, <4>1, <4>2 DEF BufferInv
    <3>3. QED
      BY <2>5, <3>1, <3>2
  <2>10. QED
    BY <2>6, <2>7, <2>8, <2>9 DEF BufferInv
<1>5. CASE (\E final \in BOOLEAN : Close(final)) \/ Crash
  <2>1. buf' = <<>>
    BY <1>5 DEF Close, Crash
  <2>2. QED
    BY <1>2, <2>1
<1>6. CASE Start \/ RenameLeftOver \/ Create \/ RenameClosed
  <2>1. buf = <<>> /\ buf' = buf
    BY <1>6 DEF BufferInv, Start, RenameLeftOver, Create, RenameClosed
  <2>2. QED
    BY <1>2, <2>1
<1>7. CASE Tick
  <2>1. clock' = clock + 1 /\ buf' = buf /\ npackets' = npackets
          /\ flushed' = flushed /\ jpc' = jpc
    BY <1>7 DEF Tick
  <2>2. \A i \in DOMAIN buf : buf[i].time \in Nat
    <3>1. \A i \in DOMAIN buf : buf[i] \in Packet
      BY <1>1
    <3>2. QED
      BY <3>1 DEF Packet
  <2>3. \A i \in DOMAIN buf : buf[i].time <= clock + 1
    BY <1>1, <2>2 DEF BufferInv
  <2>4. QED
    BY <2>1, <2>3 DEF BufferInv
<1>8. CASE UNCHANGED vars
  BY <1>8 DEF vars, BufferInv
<1>9. QED
  BY <1>3, <1>4, <1>5, <1>6, <1>7, <1>8 DEF Next

-----------------------------------------------------------------------------
(* The files *)

\* Files hold flushed packets, a path without a file or with an empty one
\* none, and the current journal has a file until it is renamed.
FileInv ==
  /\ \A j \in Journals : PacketIds(active[j].data) \subseteq flushed
  /\ \A n \in DOMAIN archive : PacketIds(archive[n]) \subseteq flushed
  /\ \A j \in Journals :
       ~active[j].exists \/ ~active[j].sized => active[j].data = <<>>
  /\ jpc \in {"run", "rename"} => active[jcurr].exists

\* The file of the current journal is archived under the name p.
Moved(p) ==
  /\ DOMAIN archive' = DOMAIN archive \cup {p}
  /\ archive'[p] = active[jcurr].data
  /\ \A n \in DOMAIN archive : n # p => archive'[n] = archive[n]
  /\ active'[jcurr] = NoFile
  /\ \A j \in Journals : j # jcurr => active'[j] = active[j]
  /\ flushed' = flushed

\* What a step does to the files.
Archives ==
  \E last \in Nat :
    /\ jpc \in {"stat", "rename"} /\ active[jcurr].exists
    /\ last = IF jpc = "stat" THEN Epoch(jcurr) ELSE ot
    /\ Moved(NewPath(jcurr, last))
    /\ UNCHANGED <<clock, ot, failures, crashes, arg_journ_type>>
    /\ jpc' \in {"fopen", "stat", "down"}

Grows ==
  \E k \in 0..Len(buf) :
    /\ jpc = "run" /\ FlushTo(k)
    /\ UNCHANGED <<archive, clock, ot, jcurr, failures, crashes, arg_journ_type>>
    /\ jpc' \in {"run", "rename"}

Keeps == UNCHANGED <<active, archive, flushed>>

LEMMA StepKinds ==
  ASSUME TypeInv, FileInv, [Next]_vars
  PROVE  Keeps \/ Create \/ Archives \/ Grows
<1>1. /\ clock \in Nat /\ ot \in Nat /\ jcurr \in Journals
      /\ buf \in Seq(Packet) /\ active \in [Journals -> File]
  BY DEF TypeInv, TypeOK
<1>2. ASSUME NEW last \in Nat, RenameJournal(jcurr, last)
      PROVE  \/ active' = active /\ archive' = archive
             \/ /\ failures' = failures
                /\ flushed' = flushed => Moved(NewPath(jcurr, last))
  <2> DEFINE p == NewPath(jcurr, last)
  <2>1. \/ /\ DOMAIN archive' = DOMAIN archive \cup {p}
           /\ archive'[p] = active[jcurr].data
           /\ \A n \in DOMAIN archive : n # p => archive'[n] = archive[n]
           /\ active'[jcurr] = NoFile
           /\ \A k \in Journals : k # jcurr => active'[k] = active[k]
           /\ failures' = failures
        \/ archive' = archive /\ active' = active
    BY <1>1, <1>2, RenameEffect
  <2> HIDE DEF p
  <2>2. QED
    BY <2>1 DEF Moved, p
<1>3. CASE RenameLeftOver
  <2>1. CASE LeftOver(jcurr)
    <3>1. Epoch(jcurr) \in Nat
      BY <1>1 DEF Epoch, File
    <3>2. RenameJournal(jcurr, Epoch(jcurr)) /\ flushed' = flushed
            /\ jpc = "stat" /\ jpc' = "fopen"
            /\ UNCHANGED <<clock, ot, crashes, arg_journ_type>>
      BY <1>3, <2>1 DEF RenameLeftOver
    <3>3. active[jcurr].exists
      BY <2>1 DEF LeftOver
    <3>4. CASE active' = active /\ archive' = archive
      BY <3>2, <3>4 DEF Keeps
    <3>5. CASE failures' = failures /\ Moved(NewPath(jcurr, Epoch(jcurr)))
      BY <3>1, <3>2, <3>3, <3>5 DEF Archives
    <3>6. QED
      BY <1>2, <3>1, <3>2, <3>4, <3>5
  <2>2. CASE ~LeftOver(jcurr)
    BY <1>3, <2>2 DEF RenameLeftOver, Keeps, fvars
  <2>3. QED
    BY <2>1, <2>2
<1>4. CASE RenameClosed
  <2>1. RenameJournal(jcurr, ot) /\ flushed' = flushed
          /\ jpc = "rename" /\ jpc' \in {"stat", "down"}
          /\ UNCHANGED <<clock, ot, crashes, arg_journ_type>>
    BY <1>4 DEF RenameClosed
  <2>2. active[jcurr].exists
    BY <2>1 DEF FileInv
  <2>3. CASE active' = active /\ archive' = archive
    BY <2>1, <2>3 DEF Keeps
  <2>4. CASE failures' = failures /\ Moved(NewPath(jcurr, ot))
    BY <1>1, <2>1, <2>2, <2>4 DEF Archives
  <2>5. QED
    BY <1>1, <1>2, <2>1, <2>3, <2>4
<1>5. CASE Flush
  <2>1. PICK k \in 1..Len(buf) : FlushTo(k)
    BY <1>5 DEF Flush
  <2>2. k \in 0..Len(buf)
    BY <1>1
  <2>3. QED
    BY <1>5, <2>1, <2>2 DEF Flush, Grows, bounds
<1>6. ASSUME NEW final \in BOOLEAN, Close(final)
      PROVE  Keeps \/ Grows
  <2>1. Len(buf) \in 0..Len(buf)
    BY <1>1
  <2>2. QED
    BY <1>6, <2>1 DEF Close, Grows, Keeps, bounds
<1>7. CASE Start \/ Write \/ Crash \/ Tick \/ UNCHANGED vars
  BY <1>7 DEF Start, Write, Crash, Tick, vars, fvars, Keeps
<1>8. QED
  BY <1>3, <1>4, <1>5, <1>6, <1>7 DEF Next

LEMMA CreateEffect ==
  ASSUME TypeInv, Create
  PROVE  /\ active'[jcurr].exists /\ ~active'[jcurr].sized
         /\ active'[jcurr].data = <<>>
         /\ \A j \in Journals : j # jcurr => active'[j] = active[j]
         /\ UNCHANGED <<archive, flushed, clock, buf, jcurr, failures, crashes,
                        arg_journ_type>>
         /\ jpc = "fopen" /\ jpc' = "run" /\ ot' = clock
  BY DEF Create, TypeInv, TypeOK, bounds

LEMMA FileStep ==
  ASSUME TypeInv, BufferInv, FileInv, [Next]_vars
  PROVE  FileInv'
<1>1. jcurr \in Journals /\ buf \in Seq(Packet)
  BY DEF TypeInv, TypeOK
<1> DEFINE Held == /\ \A j \in Journals : PacketIds(active[j].data) \subseteq flushed
                   /\ \A n \in DOMAIN archive : PacketIds(archive[n]) \subseteq flushed
           Sized == \A j \in Journals :
                      ~active[j].exists \/ ~active[j].sized => active[j].data = <<>>
<1>2. Held /\ Sized
  BY DEF FileInv
<1>3. Held' /\ Sized'
  <2>1. CASE Keeps
    BY <1>2, <2>1 DEF Keeps
  <2>2. CASE Create
    <3>1. PacketIds(active'[jcurr].data) = {}
      BY <2>2, CreateEffect, IdsEmpty
    <3>2. QED
      BY <1>2, <2>2, <3>1, CreateEffect
  <2>3. CASE Archives
    <3>1. PICK p : Moved(p)
      BY <2>3 DEF Archives
    <3>2. active'[jcurr].data = <<>>
      BY <3>1, NoFileType DEF Moved
    <3>3. PacketIds(active'[jcurr].data) = {}
      BY <3>2, IdsEmpty
    <3>4. PacketIds(archive'[p]) \subseteq flushed
      BY <1>1, <1>2, <3>1 DEF Moved
    <3>5. QED
      BY <1>2, <3>1, <3>2, <3>3, <3>4 DEF Moved
  <2>4. CASE Grows
    <3>1. PICK k \in 0..Len(buf) : FlushTo(k) /\ archive' = archive
      BY <2>4 DEF Grows
    <3>2. /\ \A j \in Journals : j # jcurr => active'[j] = active[j]
          /\ active'[jcurr].exists /\ active'[jcurr].sized
          /\ PacketIds(active'[jcurr].data)
               = PacketIds(active[jcurr].data) \cup {buf[i].id : i \in 1..k}
          /\ flushed' = flushed \cup {buf[i].id : i \in 1..k}
      BY <3>1, FlushEffect
    <3>3. PacketIds(active'[jcurr].data) \subseteq flushed'
      BY <1>1, <1>2, <3>2
    <3>4. QED
      BY <1>2, <3>1, <3>2, <3>3
  <2>5. QED
    BY <2>1, <2>2, <2>3, <2>4, StepKinds
<1>4. jpc' \in {"run", "rename"} => active'[jcurr'].exists
  <2>1. CASE Create
    BY <2>1, CreateEffect
  <2>2. CASE Flush \/ \E final \in BOOLEAN : Close(final)
    <3>1. jpc = "run" /\ jcurr' = jcurr
      BY <2>2 DEF Flush, Close
    <3>2. Keeps \/ Grows
      BY <2>2, StepKinds, <3>1 DEF Next, Create, Archives
    <3>3. CASE Keeps
      BY <3>1, <3>3 DEF Keeps, FileInv
    <3>4. CASE Grows
      BY <3>1, <3>4, FlushEffect DEF Grows
    <3>5. QED
      BY <3>2, <3>3, <3>4
  <2>3. CASE Write \/ Tick \/ UNCHANGED vars
    BY <2>3 DEF Write, Tick, vars, fvars, FileInv
  <2>4. CASE Start \/ RenameLeftOver \/ RenameClosed \/ Crash
    BY <2>4 DEF Start, RenameLeftOver, RenameClosed, Crash
  <2>5. QED
    BY <2>1, <2>2, <2>3, <2>4 DEF Next
<1>5. QED
  BY <1>3, <1>4 DEF FileInv

LEMMA DuplicatesStep ==
  ASSUME TypeInv, BufferInv, FileInv, NoDuplicates, [Next]_vars
  PROVE  NoDuplicates'
<1>1. /\ jcurr \in Journals /\ buf \in Seq(Packet)
      /\ flushed \subseteq Nat
  BY DEF TypeInv, TypeOK
<1> DEFINE F(j) == PacketIds(active[j].data)
           A(n) == PacketIds(archive[n])
           Distinct == \A n, m \in DOMAIN archive : n # m => A(n) \cap A(m) = {}
           NotLeft == \A n \in DOMAIN archive, j \in Journals : A(n) \cap F(j) = {}
           OnePath == \A j, k \in Journals : j # k => F(j) \cap F(k) = {}
<1>2. Distinct /\ NotLeft /\ OnePath
  BY DEF NoDuplicates
<1>3. Distinct' /\ NotLeft' /\ OnePath'
  <2>1. CASE Keeps
    BY <1>2, <2>1 DEF Keeps
  <2>2. CASE Create
    <3>1. /\ PacketIds(active'[jcurr].data) = {}
          /\ \A j \in Journals : j # jcurr =>
               PacketIds(active'[j].data) = PacketIds(active[j].data)
          /\ archive' = archive
      BY <2>2, CreateEffect, IdsEmpty
    <3>2. QED
      BY <1>2, <3>1
  <2>3. CASE Archives
    <3>1. PICK p : Moved(p)
      BY <2>3 DEF Archives
    <3>2. /\ PacketIds(active'[jcurr].data) = {}
          /\ \A j \in Journals : j # jcurr =>
               PacketIds(active'[j].data) = PacketIds(active[j].data)
          /\ DOMAIN archive' = DOMAIN archive \cup {p}
          /\ PacketIds(archive'[p]) = PacketIds(active[jcurr].data)
          /\ \A n \in DOMAIN archive : n # p =>
               PacketIds(archive'[n]) = PacketIds(archive[n])
      BY <3>1, NoFileType, IdsEmpty DEF Moved
    <3>3. Distinct'
      BY <1>1, <1>2, <3>2
    <3>4. NotLeft'
      BY <1>1, <1>2, <3>2
    <3>5. OnePath'
      BY <1>1, <1>2, <3>2
    <3>6. QED
      BY <3>3, <3>4, <3>5
  <2>4. CASE Grows
    <3>1. PICK k \in 0..Len(buf) : FlushTo(k) /\ archive' = archive
      BY <2>4 DEF Grows
    <3> DEFINE new == {buf[i].id : i \in 1..k}
    <3>2. /\ \A j \in Journals : j # jcurr =>
               PacketIds(active'[j].data) = PacketIds(active[j].data)
          /\ PacketIds(active'[jcurr].data) = PacketIds(active[jcurr].data) \cup new
      BY <3>1, FlushEffect
    <3>3. new \cap flushed = {}
      BY <1>1 DEF BufferInv
    <3> HIDE DEF new
    <3>4. /\ \A j \in Journals : PacketIds(active[j].data) \cap new = {}
          /\ \A n \in DOMAIN archive : PacketIds(archive[n]) \cap new = {}
      BY <3>3 DEF FileInv
    <3>5. Distinct'
      BY <1>2, <3>1
    <3>6. NotLeft'
      BY <1>1, <1>2, <3>1, <3>2, <3>4
    <3>7. OnePath'
      BY <1>1, <1>2, <3>2, <3>4
    <3>8. QED
      BY <3>5, <3>6, <3>7
  <2>5. QED
    BY <2>1, <2>2, <2>3, <2>4, StepKinds
<1>4. PacketIds(buf') \cap flushed' = {}
  <2>1. BufferInv' /\ flushed' \subseteq Nat
    BY TypeStep, BufferStep, SMTT(30) DEF TypeInv, TypeOK
  <2>2. QED
    BY <2>1 DEF BufferInv, PacketIds
<1>5. QED
  BY <1>3, <1>4 DEF NoDuplicates

-----------------------------------------------------------------------------
(* Durability *)

\* The names: while a path is opened or closed the last opening was in an
\* earlier second, and a file at a path whose last file was archived in this
\* second was opened in this second.
NameInv ==
  /\ ot <= clock
  /\ jpc \in {"stat", "fopen", "rename"} => ot < clock
  /\ \A n \in DOMAIN archive :
       /\ n.now <= clock
       /\ n.now = clock => ot = clock \/ ~active[n.journal].exists

Tolerable == failures = 0 \/ (crashes = 0 /\ failures = 1)

\* Without crashes and failures only the current journal has a file; and no
\* packet is at a path that is about to be truncated.
RecoverInv ==
  /\ crashes = 0 /\ failures = 0 =>
       \A j \in Journals :
         active[j].exists => j = jcurr /\ jpc \in {"run", "rename"}
  /\ Tolerable /\ jpc = "fopen" => active[jcurr].data = <<>>

\* A name that is given to a file is new.
LEMMA NameIsNew ==
  ASSUME TypeInv, NameInv, jpc \in {"stat", "rename"}, active[jcurr].exists,
         NEW last \in Nat
  PROVE  /\ NewPath(jcurr, last) \notin DOMAIN archive
         /\ \A n \in DOMAIN archive : n.journal = jcurr => n.now < clock
<1>1. /\ clock \in Nat /\ ot \in Nat /\ jcurr \in Journals
      /\ DOMAIN archive \subseteq Name
  BY DEF TypeInv, TypeOK
<1>2. \A n \in DOMAIN archive : n.now \in Nat
  BY <1>1 DEF Name
<1>3. \A n \in DOMAIN archive : n.journal = jcurr => n.now < clock
  BY <1>1, <1>2 DEF NameInv
<1>4. NewPath(jcurr, last).journal = jcurr /\ NewPath(jcurr, last).now = clock
  BY <1>1, NewPathType
<1>5. QED
  BY <1>1, <1>3, <1>4

LEMMA NameStep ==
  ASSUME Apart, TypeInv, FileInv, NameInv, [Next]_vars
  PROVE  NameInv'
<1>1. /\ clock \in Nat /\ ot \in Nat /\ jcurr \in Journals
      /\ DOMAIN archive \subseteq Name
  BY DEF TypeInv, TypeOK
<1>2. \A n \in DOMAIN archive : n.now \in Nat /\ n.journal \in Journals
  BY <1>1 DEF Name
<1>3. ot' <= clock' /\ (jpc' \in {"stat", "fopen", "rename"} => ot' < clock')
  BY <1>1 DEF NameInv, Next, Start, RenameLeftOver, Create, Write, Flush, Close,
              RenameClosed, Crash, Tick, vars
<1> DEFINE Recent == \A n \in DOMAIN archive :
             /\ n.now <= clock
             /\ n.now = clock => ot = clock \/ ~active[n.journal].exists
<1>4. Recent
  BY DEF NameInv
<1>5. Recent'
  <2>1. CASE Tick
    <3>1. clock' = clock + 1 /\ archive' = archive
      BY <2>1 DEF Tick, fvars
    <3>2. \A n \in DOMAIN archive : n.now < clock + 1
      BY <1>1, <1>2, <1>4
    <3>3. \A n \in DOMAIN archive : n.now <= clock' /\ n.now # clock'
      BY <1>1, <1>2, <3>1, <3>2
    <3>4. QED
      BY <3>1, <3>3
  <2>2. CASE Create
    BY <1>4, <2>2, CreateEffect
  <2>3. CASE Archives
    <3>1. PICK last \in Nat :
            /\ Moved(NewPath(jcurr, last))
            /\ jpc \in {"stat", "rename"} /\ active[jcurr].exists
            /\ UNCHANGED <<clock, ot>>
      BY <2>3 DEF Archives
    <3> DEFINE p == NewPath(jcurr, last)
    <3>2. p.now = clock /\ p.journal = jcurr
      BY <1>1, NewPathType
    <3> HIDE DEF p
    <3>3. /\ DOMAIN archive' = DOMAIN archive \cup {p}
          /\ ~active'[jcurr].exists
          /\ \A j \in Journals : j # jcurr => active'[j] = active[j]
      BY <3>1, NoFileType DEF Moved, p
    <3>4. QED
      BY <1>1, <1>2, <1>4, <3>1, <3>2, <3>3
  <2>4. CASE Grows
    <3>1. PICK k \in 0..Len(buf) : FlushTo(k)
      BY <2>4 DEF Grows
    <3>2. /\ archive' = archive /\ clock' = clock /\ ot' = ot
          /\ active[jcurr].exists
      BY <2>4 DEF Grows, FileInv
    <3>3. \A j \in Journals : j # jcurr => active'[j] = active[j]
      BY <3>1, FlushEffect
    <3>4. QED
      BY <1>1, <1>2, <1>4, <3>2, <3>3
  <2>5. CASE Keeps /\ ~Create /\ ~Tick
    <3>1. clock' = clock /\ ot' = ot
      BY <2>5 DEF Next, Start, RenameLeftOver, Write, Flush, Close,
                  RenameClosed, Crash, vars
    <3>2. QED
      BY <1>4, <2>5, <3>1 DEF Keeps
  <2>6. QED
    BY <2>1, <2>2, <2>3, <2>4, <2>5, StepKinds
<1>6. QED
  BY <1>3, <1>5 DEF NameInv

LEMMA RecoverStep ==
  ASSUME TypeInv, FileInv, RecoverInv, [Next]_vars
  PROVE  RecoverInv'
<1>1. /\ jcurr \in Journals /\ crashes \in Nat /\ failures \in Nat
      /\ active \in [Journals -> File]
  BY DEF TypeInv, TypeOK
<1> DEFINE Quiet == crashes = 0 /\ failures = 0
           Only == \A j \in Journals :
                     active[j].exists => j = jcurr /\ jpc \in {"run", "rename"}
<1>2. Quiet => Only
  BY DEF RecoverInv
<1>3. Tolerable /\ jpc = "fopen" => active[jcurr].data = <<>>
  BY DEF RecoverInv
<1>4. CASE RenameLeftOver
  <2>1. jpc = "stat" /\ jpc' = "fopen" /\ jcurr' = jcurr /\ crashes' = crashes
    BY <1>4 DEF RenameLeftOver
  <2>2. CASE ~LeftOver(jcurr)
    <3>1. active' = active /\ failures' = failures
      BY <1>4, <2>2 DEF RenameLeftOver, fvars
    <3>2. active[jcurr].data = <<>>
      BY <1>1, <2>2 DEF LeftOver, FileInv
    <3>3. QED
      BY <1>2, <2>1, <3>1, <3>2 DEF RecoverInv, Tolerable
  <2>3. CASE LeftOver(jcurr)
    <3>1. active[jcurr].exists /\ RenameJournal(jcurr, Epoch(jcurr))
      BY <1>4, <2>3 DEF LeftOver, RenameLeftOver
    <3>2. ~Quiet
      BY <1>1, <1>2, <2>1, <3>1
    <3>3. Epoch(jcurr) \in Nat
      BY <1>1 DEF Epoch, TypeInv, TypeOK, File
    <3>4. \/ active'[jcurr] = NoFile /\ failures' = failures
          \/ failures' = failures + 1
      BY <1>1, <3>1, <3>3, RenameEffect
    <3>5. CASE active'[jcurr] = NoFile /\ failures' = failures
      BY <2>1, <3>2, <3>5, NoFileType DEF RecoverInv
    <3>6. CASE failures' = failures + 1
      <4>1. failures' # 0 /\ ~(crashes' = 0 /\ failures' = 1)
        BY <1>1, <2>1, <3>2, <3>6
      <4>2. QED
        BY <4>1 DEF RecoverInv, Tolerable
    <3>7. QED
      BY <3>4, <3>5, <3>6
  <2>4. QED
    BY <2>2, <2>3
<1>5. CASE RenameClosed
  <2>1. jpc = "rename" /\ jpc' \in {"down", "stat"} /\ crashes' = crashes
          /\ RenameJournal(jcurr, ot)
    BY <1>5 DEF RenameClosed
  <2>2. ot \in Nat
    BY DEF TypeInv, TypeOK
  <2>3. \/ /\ active'[jcurr] = NoFile /\ failures' = failures
           /\ \A j \in Journals : j # jcurr => active'[j] = active[j]
        \/ failures' = failures + 1
    BY <1>1, <2>1, <2>2, RenameEffect
  <2>4. CASE failures' = failures + 1
    <3>1. failures' # 0
      BY <1>1, <2>4
    <3>2. QED
      BY <2>1, <3>1 DEF RecoverInv
  <2>5. CASE /\ active'[jcurr] = NoFile /\ failures' = failures
             /\ \A j \in Journals : j # jcurr => active'[j] = active[j]
    <3>1. Quiet => \A j \in Journals : ~active'[j].exists
      BY <1>2, <2>5, NoFileType
    <3>2. QED
      BY <2>1, <2>5, <3>1 DEF RecoverInv
  <2>6. QED
    BY <2>3, <2>4, <2>5
<1>6. CASE Create
  <2>1. jpc' = "run" /\ jcurr' = jcurr /\ UNCHANGED <<failures, crashes>>
          /\ \A j \in Journals : j # jcurr => active'[j] = active[j]
    BY <1>6, CreateEffect
  <2>2. QED
    BY <1>2, <2>1 DEF RecoverInv
<1>7. CASE Flush \/ \E final \in BOOLEAN : Close(final)
  <2>1. jcurr' = jcurr /\ jpc' \in {"run", "rename"}
          /\ UNCHANGED <<failures, crashes>>
    BY <1>7 DEF Flush, Close, bounds
  <2>2. \A j \in Journals : j # jcurr => active'[j] = active[j]
    <3>1. Keeps \/ Grows
      BY <1>7, StepKinds DEF Next, Flush, Close, Create, Archives
    <3>2. CASE Grows
      BY <3>2, FlushEffect DEF Grows
    <3>3. QED
      BY <3>1, <3>2 DEF Keeps
  <2>3. QED
    BY <1>2, <2>1, <2>2 DEF RecoverInv
<1>8. CASE Crash
  <2>1. crashes' # 0 /\ jpc' = "down"
    BY <1>1, <1>8 DEF Crash
  <2>2. QED
    BY <2>1 DEF RecoverInv
<1>9. CASE Start
  <2>1. jpc = "down" /\ jpc' = "stat" /\ UNCHANGED <<active, failures, crashes>>
    BY <1>9 DEF Start, fvars, bounds
  <2>2. QED
    BY <1>2, <2>1 DEF RecoverInv
<1>10. CASE Write \/ Tick \/ UNCHANGED vars
  <2>1. UNCHANGED <<jpc, jcurr, active, failures, crashes>>
    BY <1>10 DEF Write, Tick, vars, fvars, bounds
  <2>2. QED
    BY <1>2, <1>3, <2>1 DEF RecoverInv, Tolerable
<1>11. QED
  BY <1>4, <1>5, <1>6, <1>7, <1>8, <1>9, <1>10 DEF Next

LEMMA TolerableBefore ==
  ASSUME TypeInv, Tolerable', [Next]_vars
  PROVE  Tolerable
<1>1. crashes \in Nat /\ failures \in Nat
  BY DEF TypeInv, TypeOK
<1>2. failures' = failures \/ failures' = failures + 1
  BY DEF Next, Start, RenameLeftOver, Create, Write, Flush, Close, RenameClosed,
         Crash, Tick, RenameJournal, vars, bounds
<1>3. crashes' = crashes \/ crashes' = crashes + 1
  BY DEF Next, Start, RenameLeftOver, Create, Write, Flush, Close, RenameClosed,
         Crash, Tick, vars, bounds
<1>4. failures = 0 \/ failures' = failures
  BY <1>1, <1>2 DEF Tolerable
<1>5. CASE failures = 0
  BY <1>5 DEF Tolerable
<1>6. CASE failures' = failures /\ failures # 0
  <2>1. crashes' = 0 /\ failures = 1
    BY <1>6 DEF Tolerable
  <2>2. crashes = 0
    BY <1>1, <1>3, <2>1
  <2>3. QED
    BY <2>1, <2>2 DEF Tolerable
<1>7. QED
  BY <1>4, <1>5, <1>6

LEMMA StoredMeans ==
  Durable <=>
    \A x \in flushed : \/ \E j \in Journals : x \in PacketIds(active[j].data)
                       \/ \E n \in DOMAIN archive : x \in PacketIds(archive[n])
<1> DEFINE F == {PacketIds(active[j].data) : j \in Journals}
           A == {PacketIds(archive[n]) : n \in DOMAIN archive}
<1>1. \A x : x \in UNION F <=> \E j \in Journals : x \in PacketIds(active[j].data)
  OBVIOUS
<1>2. \A x : x \in UNION A <=> \E n \in DOMAIN archive : x \in PacketIds(archive[n])
  OBVIOUS
<1>3. Stored = (UNION F) \cup (UNION A)
  BY DEF Stored
<1> HIDE DEF F, A
<1>4. \A x : x \in Stored <=> x \in (UNION F) \/ x \in (UNION A)
  BY <1>3
<1>5. Durable <=> \A x \in flushed : x \in (UNION F) \/ x \in (UNION A)
  BY <1>4 DEF Durable
<1>6. QED
  BY <1>1, <1>2, <1>5

LEMMA DurableStep ==
  ASSUME Apart, TypeInv, FileInv, NameInv, RecoverInv, [Next]_vars,
         DurableIfTolerable
  PROVE  DurableIfTolerable'
<1> SUFFICES ASSUME Tolerable'
             PROVE  Durable'
  BY DEF DurableIfTolerable, Tolerable
<1> DEFINE Kept == \A x \in flushed :
             \/ \E j \in Journals : x \in PacketIds(active[j].data)
             \/ \E n \in DOMAIN archive : x \in PacketIds(archive[n])
<1>1. jcurr \in Journals
  BY DEF TypeInv, TypeOK
<1>2. Tolerable
  BY TolerableBefore
<1>3. Kept
  BY <1>2, StoredMeans DEF DurableIfTolerable, Tolerable
<1>4. Kept'
  <2>1. CASE Keeps
    BY <1>3, <2>1 DEF Keeps
  <2>2. CASE Create
    <3>1. PacketIds(active[jcurr].data) = {}
      BY <1>2, <2>2, CreateEffect, IdsEmpty DEF RecoverInv
    <3>2. QED
      BY <1>3, <2>2, <3>1, CreateEffect
  <2>3. CASE Archives
    <3>1. PICK last \in Nat :
            /\ Moved(NewPath(jcurr, last))
            /\ jpc \in {"stat", "rename"} /\ active[jcurr].exists
      BY <2>3 DEF Archives
    <3> DEFINE p == NewPath(jcurr, last)
    <3>2. p \notin DOMAIN archive
      BY <3>1, NameIsNew
    <3> HIDE DEF p
    <3>3. /\ DOMAIN archive' = DOMAIN archive \cup {p}
          /\ archive'[p] = active[jcurr].data
          /\ \A n \in DOMAIN archive : archive'[n] = archive[n]
          /\ \A j \in Journals : j # jcurr => active'[j] = active[j]
          /\ flushed' = flushed
      BY <3>1, <3>2 DEF Moved, p
    <3>4. ASSUME NEW x \in flushed
          PROVE  \/ \E j \in Journals : x \in PacketIds(active'[j].data)
                 \/ \E n \in DOMAIN archive' : x \in PacketIds(archive'[n])
      <4>1. CASE x \in PacketIds(active[jcurr].data)
        BY <3>3, <4>1
      <4>2. CASE \E j \in Journals : j # jcurr /\ x \in PacketIds(active[j].data)
        BY <3>3, <4>2
      <4>3. CASE \E n \in DOMAIN archive : x \in PacketIds(archive[n])
        BY <3>3, <4>3
      <4>4. QED
        BY <1>3, <3>4, <4>1, <4>2, <4>3
    <3>5. QED
      BY <3>3, <3>4
  <2>4. CASE Grows
    <3>1. PICK k \in 0..Len(buf) : FlushTo(k) /\ archive' = archive
      BY <2>4 DEF Grows
    <3>2. /\ \A j \in Journals : j # jcurr => active'[j] = active[j]
          /\ PacketIds(active'[jcurr].data)
               = PacketIds(active[jcurr].data) \cup {buf[i].id : i \in 1..k}
          /\ flushed' = flushed \cup {buf[i].id : i \in 1..k}
      BY <3>1, FlushEffect
    <3>3. QED
      BY <1>1, <1>3, <3>1, <3>2
  <2>5. QED
    BY <2>1, <2>2, <2>3, <2>4, StepKinds
<1>5. QED
  BY <1>4, StoredMeans, PTL

-----------------------------------------------------------------------------
(* Order and intervals *)

\* What is archived of a journal was written before what is at its path.
OrderInv ==
  \A n \in DOMAIN archive :
    \A x \in PacketIds(archive[n]), y \in PacketIds(active[n.journal].data) :
      x < y

LEMMA OrderStep ==
  ASSUME Apart, TypeInv, BufferInv, FileInv, NameInv, OrderInv, [Next]_vars
  PROVE  OrderInv'
<1>1. /\ jcurr \in Journals /\ clock \in Nat /\ buf \in Seq(Packet)
      /\ \A n \in DOMAIN archive : n.journal \in Journals
  BY DEF TypeInv, TypeOK, Name
<1>2. CASE Keeps
  BY <1>2 DEF Keeps, OrderInv
<1>3. CASE Create
  <2>1. PacketIds(active'[jcurr].data) = {}
    BY <1>3, CreateEffect, IdsEmpty
  <2>2. QED
    BY <1>1, <1>3, <2>1, CreateEffect DEF OrderInv
<1>4. CASE Archives
  <2>1. PICK last \in Nat : Moved(NewPath(jcurr, last))
    BY <1>4 DEF Archives
  <2> DEFINE p == NewPath(jcurr, last)
  <2>2. p.journal = jcurr
    BY <1>1, NewPathType
  <2> HIDE DEF p
  <2>3. PacketIds(active'[jcurr].data) = {}
    BY <2>1, NoFileType, IdsEmpty DEF Moved
  <2>4. QED
    BY <1>1, <2>1, <2>2, <2>3 DEF OrderInv, Moved, p
<1>5. CASE Grows
  <2>1. PICK k \in 0..Len(buf) : FlushTo(k) /\ archive' = archive
    BY <1>5 DEF Grows
  <2>2. /\ \A j \in Journals : j # jcurr => active'[j] = active[j]
        /\ PacketIds(active'[jcurr].data)
             = PacketIds(active[jcurr].data) \cup {buf[i].id : i \in 1..k}
    BY <2>1, FlushEffect
  <2>3. \A n \in DOMAIN archive : \A x \in PacketIds(archive[n]) :
          \A i \in 1..k : x < buf[i].id
    BY <1>1 DEF BufferInv, FileInv
  <2>4. QED
    BY <1>1, <2>1, <2>2, <2>3, SMTT(30) DEF OrderInv
<1>6. QED
  BY <1>2, <1>3, <1>4, <1>5, StepKinds

LEMMA NamesStep ==
  ASSUME Apart, TypeInv, FileInv, NameInv, OrderInv, NamesInOrder, [Next]_vars
  PROVE  NamesInOrder'
<1>1. /\ jcurr \in Journals /\ clock \in Nat
      /\ \A n \in DOMAIN archive : n.journal \in Journals /\ n.now \in Nat
  BY DEF TypeInv, TypeOK, Name
<1>2. CASE Keeps \/ Create \/ Grows
  <2>1. archive' = archive
    BY <1>2, CreateEffect DEF Keeps, Grows
  <2>2. QED
    BY <2>1 DEF NamesInOrder
<1>3. CASE Archives
  <2>1. PICK last \in Nat :
          /\ Moved(NewPath(jcurr, last))
          /\ jpc \in {"stat", "rename"} /\ active[jcurr].exists
    BY <1>3 DEF Archives
  <2> DEFINE p == NewPath(jcurr, last)
  <2>2. /\ p \notin DOMAIN archive
        /\ \A n \in DOMAIN archive : n.journal = jcurr => n.now < clock
        /\ p.journal = jcurr /\ p.now = clock /\ p.last \in Nat
    BY <1>1, <2>1, NameIsNew, NewPathType
  <2> HIDE DEF p
  <2>3. /\ DOMAIN archive' = DOMAIN archive \cup {p}
        /\ archive'[p] = active[jcurr].data
        /\ \A n \in DOMAIN archive : archive'[n] = archive[n]
    BY <2>1, <2>2 DEF Moved, p
  <2> SUFFICES ASSUME NEW n \in DOMAIN archive', NEW m \in DOMAIN archive',
                      n.journal = m.journal, Older(n, m),
                      NEW x \in PacketIds(archive'[n]),
                      NEW y \in PacketIds(archive'[m])
               PROVE  x < y
    BY DEF NamesInOrder
  <2>4. CASE n \in DOMAIN archive /\ m \in DOMAIN archive
    BY <2>3, <2>4 DEF NamesInOrder
  <2>5. CASE n \in DOMAIN archive /\ m = p
    <3>1. y \in PacketIds(active[n.journal].data) /\ x \in PacketIds(archive[n])
      BY <2>2, <2>3, <2>5
    <3>2. QED
      BY <2>5, <3>1 DEF OrderInv
  <2>6. CASE m \in DOMAIN archive /\ n = p
    BY <1>1, <2>2, <2>6 DEF Older
  <2>7. CASE n = p /\ m = p
    BY <1>1, <2>2, <2>7 DEF Older
  <2>8. QED
    BY <2>3, <2>4, <2>5, <2>6, <2>7
<1>4. QED
  BY <1>2, <1>3, StepKinds

\* Packets were written until now, and those of the open journal not before
\* it was opened.
TimeInv ==
  /\ ot <= clock
  /\ \A j \in Journals : \A i \in DOMAIN active[j].data :
       active[j].data[i].time <= clock
  /\ jpc \in {"run", "rename"} =>
       /\ \A i \in DOMAIN active[jcurr].data : ot <= active[jcurr].data[i].time
       /\ \A i \in DOMAIN buf : ot <= buf[i].time

LEMMA TimeStep ==
  ASSUME TypeInv, BufferInv, FileInv, TimeInv, [Next]_vars
  PROVE  TimeInv'
<1>1. /\ jcurr \in Journals /\ clock \in Nat /\ ot \in Nat
      /\ buf \in Seq(Packet) /\ active \in [Journals -> File]
      /\ \A j \in Journals : active[j].data \in Seq(Packet)
  BY DEF TypeInv, TypeOK, File
<1>2. \A j \in Journals : \A i \in DOMAIN active[j].data :
        active[j].data[i] \in Packet
  BY <1>1
<1>3. \A j \in Journals : \A i \in DOMAIN active[j].data :
        active[j].data[i].time \in Nat
  BY <1>2 DEF Packet
<1>4. ot' <= clock'
  BY <1>1 DEF TimeInv, Next, Start, RenameLeftOver, Create, Write, Flush, Close,
              RenameClosed, Crash, Tick, vars
<1>5. clock' = clock \/ clock' = clock + 1
  BY DEF Next, Start, RenameLeftOver, Create, Write, Flush, Close, RenameClosed,
         Crash, Tick, vars
<1>6. \A j \in Journals : \A i \in DOMAIN active[j].data :
        active[j].data[i].time <= clock'
  BY <1>1, <1>3, <1>5 DEF TimeInv
<1>7. CASE Grows
  <2>1. PICK k \in 0..Len(buf) :
          FlushTo(k) /\ UNCHANGED <<clock, ot, jcurr>> /\ jpc = "run"
    BY <1>7 DEF Grows
  <2>2. /\ \A j \in Journals : j # jcurr => active'[j] = active[j]
        /\ active'[jcurr].data = active[jcurr].data \o SubSeq(buf, 1, k)
    BY <2>1, FlushEffect
  <2>3. \A i \in DOMAIN active'[jcurr].data :
          \/ \E m \in DOMAIN active[jcurr].data :
               active'[jcurr].data[i] = active[jcurr].data[m]
          \/ \E m \in DOMAIN buf : active'[jcurr].data[i] = buf[m]
    <3>1. active[jcurr].data \in Seq(Packet)
      BY <1>1
    <3>2. \A i \in DOMAIN (active[jcurr].data \o SubSeq(buf, 1, k)) :
            LET t == active[jcurr].data \o SubSeq(buf, 1, k)
            IN  \/ i \in DOMAIN active[jcurr].data /\ t[i] = active[jcurr].data[i]
                \/ \E m \in 1..k : m \in DOMAIN buf /\ t[i] = buf[m]
      BY <1>1, <2>1, <3>1, SeqPartsEach
    <3>3. QED
      BY <2>2, <3>2
  <2>4. \A i \in DOMAIN buf : ot <= buf[i].time /\ buf[i].time <= clock
    BY <2>1 DEF TimeInv, BufferInv
  <2>5. \A i \in DOMAIN active[jcurr].data :
          ot <= active[jcurr].data[i].time /\ active[jcurr].data[i].time <= clock
    BY <1>1, <2>1 DEF TimeInv
  <2>6. \A i \in DOMAIN active'[jcurr].data :
          ot <= active'[jcurr].data[i].time /\ active'[jcurr].data[i].time <= clock
    BY <2>3, <2>4, <2>5
  <2>7. \A i \in DOMAIN buf' : ot <= buf'[i].time
    <3>1. CASE Flush
      <4>1. PICK b \in 1..Len(buf) : buf' = SubSeq(buf, b + 1, Len(buf))
        BY <3>1 DEF Flush
      <4>2. \A i \in DOMAIN buf' : b + i \in DOMAIN buf /\ buf'[i] = buf[b + i]
        BY <1>1, <4>1
      <4>3. QED
        BY <2>4, <4>2
    <3>2. CASE \E final \in BOOLEAN : Close(final)
      BY <3>2 DEF Close
    <3>3. CASE Tick \/ Write \/ Crash \/ UNCHANGED vars
      <4>1. buf' = buf \/ buf' = <<>> \/ Write
        BY <3>3 DEF Tick, Crash, vars
      <4>2. CASE Write
        <5>1. \A i \in DOMAIN buf' : \/ i \in DOMAIN buf /\ buf'[i] = buf[i]
                                     \/ buf'[i].time = clock
          BY <1>1, <4>2 DEF Write
        <5>2. QED
          BY <2>4, <5>1 DEF TimeInv
      <4>3. QED
        BY <2>4, <4>1, <4>2
    <3>4. QED
      BY <2>1, <3>1, <3>2, <3>3
         DEF Next, Start, RenameLeftOver, Create, RenameClosed
  <2>8. \A j \in Journals : \A i \in DOMAIN active'[j].data :
          active'[j].data[i].time <= clock
    BY <1>1, <2>2, <2>6 DEF TimeInv
  <2>9. QED
    BY <1>4, <2>1, <2>6, <2>7, <2>8 DEF TimeInv
<1>8. CASE Create
  <2>1. buf = <<>> /\ jcurr' = jcurr /\ buf' = buf /\ clock' = clock
          /\ active'[jcurr].data = <<>>
          /\ \A j \in Journals : j # jcurr => active'[j] = active[j]
    BY <1>8, CreateEffect DEF BufferInv
  <2>2. QED
    BY <1>4, <2>1 DEF TimeInv
<1>9. CASE Archives
  <2>1. PICK last \in Nat : Moved(NewPath(jcurr, last))
    BY <1>9 DEF Archives
  <2>2. /\ active'[jcurr].data = <<>> /\ clock' = clock
        /\ \A j \in Journals : j # jcurr => active'[j] = active[j]
        /\ jpc' \notin {"run", "rename"}
    BY <1>9, <2>1, NoFileType DEF Moved, Archives
  <2>3. QED
    BY <1>4, <2>2 DEF TimeInv
<1>10. CASE Keeps /\ ~Create /\ ~Grows
  <2>1. \A j \in Journals : \A i \in DOMAIN active'[j].data :
          active'[j].data[i].time <= clock'
    BY <1>6, <1>10 DEF Keeps
  <2>2. jpc' \in {"run", "rename"} =>
          jpc \in {"run", "rename"} /\ jcurr' = jcurr /\ ot' = ot
    BY <1>10 DEF Next, Start, RenameLeftOver, Write, Flush, Close, RenameClosed,
                 Crash, Tick, vars
  <2>3. jpc' \in {"run", "rename"} => \A i \in DOMAIN buf' : ot <= buf'[i].time
    <3> SUFFICES ASSUME jpc' \in {"run", "rename"}
                 PROVE  \A i \in DOMAIN buf' : ot <= buf'[i].time
      OBVIOUS
    <3>1. \A i \in DOMAIN buf : ot <= buf[i].time
      BY <2>2 DEF TimeInv
    <3>2. CASE Write
      <4>1. \A i \in DOMAIN buf' : \/ i \in DOMAIN buf /\ buf'[i] = buf[i]
                                   \/ buf'[i].time = clock
        BY <1>1, <3>2 DEF Write
      <4>2. QED
        BY <3>1, <4>1 DEF TimeInv
    <3>3. CASE Flush
      <4>1. PICK b \in 1..Len(buf) : buf' = SubSeq(buf, b + 1, Len(buf))
        BY <3>3 DEF Flush
      <4>2. \A i \in DOMAIN buf' : b + i \in DOMAIN buf /\ buf'[i] = buf[b + i]
        BY <1>1, <4>1
      <4>3. QED
        BY <3>1, <4>2
    <3>4. CASE ~Write /\ ~Flush
      <4>1. buf' = buf \/ buf' = <<>>
        BY <1>10, <3>4 DEF Next, Start, RenameLeftOver, Close, RenameClosed,
                           Crash, Tick, vars
      <4>2. QED
        BY <3>1, <4>1
    <3>5. QED
      BY <3>2, <3>3, <3>4
  <2>4. QED
    BY <1>4, <1>10, <2>1, <2>2, <2>3 DEF TimeInv, Keeps
<1>11. QED
  BY <1>7, <1>8, <1>9, <1>10, StepKinds

LEMMA IntervalStep ==
  ASSUME TypeInv, FileInv, TimeInv, IntervalCovers, [Next]_vars
  PROVE  IntervalCovers'
<1>1. /\ jcurr \in Journals /\ clock \in Nat
      /\ active[jcurr].data \in Seq(Packet)
  BY DEF TypeInv, TypeOK, File
<1>2. arg_journ_type' = arg_journ_type
  BY DEF Next, Start, RenameLeftOver, Create, Write, Flush, Close, RenameClosed,
         Crash, Tick, vars, bounds
<1>3. CASE Keeps \/ Create \/ Grows
  <2>1. archive' = archive
    BY <1>3, CreateEffect DEF Keeps, Grows
  <2>2. QED
    BY <1>2, <2>1 DEF IntervalCovers
<1>4. CASE Archives
  <2>1. PICK last \in Nat :
          /\ Moved(NewPath(jcurr, last))
          /\ jpc \in {"stat", "rename"}
          /\ last = IF jpc = "stat" THEN Epoch(jcurr) ELSE ot
    BY <1>4 DEF Archives
  <2> DEFINE p == NewPath(jcurr, last)
  <2>2. p.last = last /\ p.now = clock
    BY <1>1, NewPathType
  <2> HIDE DEF p
  <2>3. \A i \in DOMAIN active[jcurr].data :
          active[jcurr].data[i].time \in Nat
    <3>1. \A i \in DOMAIN active[jcurr].data : active[jcurr].data[i] \in Packet
      BY <1>1
    <3>2. QED
      BY <3>1 DEF Packet
  <2>4. arg_journ_type = "file" =>
          \A i \in DOMAIN active[jcurr].data :
            p.last <= active[jcurr].data[i].time /\ active[jcurr].data[i].time <= p.now
    <3>1. CASE jpc = "stat"
      BY <1>1, <2>1, <2>2, <2>3, <3>1 DEF Epoch, TimeInv
    <3>2. CASE jpc = "rename"
      BY <1>1, <2>1, <2>2, <2>3, <3>2 DEF TimeInv
    <3>3. QED
      BY <2>1, <3>1, <3>2
  <2>5. QED
    BY <1>2, <2>1, <2>4 DEF IntervalCovers, Moved, p
<1>5. QED
  BY <1>3, <1>4, StepKinds

-----------------------------------------------------------------------------
(* The theorems *)

LEMMA FilesInit ==
  Init => /\ TypeInv /\ BufferInv /\ FileInv /\ NameInv /\ RecoverInv
          /\ OrderInv /\ TimeInv
          /\ DurableIfTolerable /\ NoDuplicates /\ NamesInOrder /\ IntervalCovers
<1> SUFFICES ASSUME Init
             PROVE  /\ TypeInv /\ BufferInv /\ FileInv /\ NameInv /\ RecoverInv
                    /\ OrderInv /\ TimeInv
                    /\ DurableIfTolerable /\ NoDuplicates /\ NamesInOrder
                    /\ IntervalCovers
  OBVIOUS
<1>1. /\ buf = <<>> /\ archive = <<>> /\ flushed = {} /\ jpc = "down"
      /\ clock = 1 /\ ot = 0
  BY DEF Init
<1>2. DOMAIN archive = {} /\ DOMAIN buf = {} /\ buf \in Seq(Packet)
  BY <1>1
<1>3. active \in [Journals -> File] /\ \A j \in Journals : active[j] = NoFile
  BY NoFileType DEF Init
<1>4. \A j \in Journals :
        PacketIds(active[j].data) = {} /\ active[j].data = <<>> /\ ~active[j].exists
  BY <1>3, NoFileType, IdsEmpty
<1>5. TypeInv
  <2>1. 0 \in Journals
    OBVIOUS
  <2>2. \A j \in Journals : active[j] \in File
    BY <1>3
  <2>3. QED
    BY <1>1, <1>2, <1>3, <2>1, <2>2 DEF Init, TypeInv, TypeOK
<1>6. BufferInv /\ NameInv /\ OrderInv /\ NamesInOrder /\ IntervalCovers
  BY <1>1, <1>2 DEF BufferInv, NameInv, OrderInv, NamesInOrder, IntervalCovers
<1>7. FileInv /\ RecoverInv
  BY <1>1, <1>2, <1>4 DEF FileInv, RecoverInv
<1>8. TimeInv
  BY <1>1, <1>4 DEF TimeInv
<1>9. DurableIfTolerable
  BY <1>1 DEF DurableIfTolerable, Durable
<1>10. NoDuplicates
  BY <1>1, <1>2, <1>4 DEF NoDuplicates
<1>11. QED
  BY <1>5, <1>6, <1>7, <1>8, <1>9, <1>10

LEMMA FilesCorrect == Spec => [](TypeInv /\ BufferInv /\ FileInv)
<1>1. Init => TypeInv /\ BufferInv /\ FileInv
  BY FilesInit
<1>2. TypeInv /\ BufferInv /\ FileInv /\ [Next]_vars
        => (TypeInv /\ BufferInv /\ FileInv)'
  BY TypeStep, BufferStep, FileStep
<1>3. QED
  BY <1>1, <1>2, PTL DEF Spec

\* What has reached a file stays in one file: through any number of crashes
\* and recoveries, or with one failed rename, no file with packets is
\* truncated and no archived file is replaced; and without any assumption on
\* crashes and renames no packet comes to be in two files.
THEOREM DurableCorrect ==
  ASSUME Apart
  PROVE  Spec => []DurableOnce
<1> DEFINE Inv == /\ NameInv /\ RecoverInv
                  /\ DurableIfTolerable /\ NoDuplicates
<1>1. Init => Inv
  BY FilesInit
<1>2. TypeInv /\ BufferInv /\ FileInv /\ Inv /\ [Next]_vars => Inv'
  BY NameStep, RecoverStep, DurableStep, DuplicatesStep
<1>3. TypeInv /\ Inv => DurableOnce
  BY DEF TypeInv, DurableOnce
<1> HIDE DEF Inv
<1>4. QED
  BY <1>1, <1>2, <1>3, FilesCorrect, PTL DEF Spec

\* A consumer that sorts the names of a journal's files by closing time gets
\* its packets in the order in which they were written.
THEOREM NamesCorrect ==
  ASSUME Apart
  PROVE  Spec => []NamesInOrder
<1> DEFINE Inv == NameInv /\ OrderInv /\ NamesInOrder
<1>1. Init => Inv
  BY FilesInit
<1>2. TypeInv /\ BufferInv /\ FileInv /\ Inv /\ [Next]_vars => Inv'
  BY NameStep, OrderStep, NamesStep
<1>3. Inv => NamesInOrder
  OBVIOUS
<1> HIDE DEF Inv
<1>4. QED
  BY <1>1, <1>2, <1>3, FilesCorrect, PTL DEF Spec

\* The times of the packets of an archived plain file lie in the interval of
\* its name, also when it was left by a crash.
THEOREM IntervalCorrect == Spec => []IntervalCovers
<1>1. Init => TimeInv /\ IntervalCovers
  BY FilesInit
<1>2. TypeInv /\ BufferInv /\ FileInv /\ TimeInv /\ IntervalCovers /\ [Next]_vars
        => TimeInv' /\ IntervalCovers'
  BY TimeStep, IntervalStep
<1>3. QED
  BY <1>1, <1>2, FilesCorrect, PTL DEF Spec

=============================================================================
