------------------------------- MODULE Header --------------------------------
(***************************************************************************)
(* header.c and marshal.h: the header that the journaller puts before each *)
(* datagram, byte by byte, and the buffers it lives in.  A worker reuses   *)
(* one buffer for all packets and clears only its first bytes, so a short  *)
(* datagram lies before what is left of a longer one.                      *)
(*                                                                         *)
(* Bytes have Base values and the fields may be narrower than in the code  *)
(* (Widths); what matters is kept: a name shorter and a name longer than   *)
(* the cleared part of the body, sizes and times that fit their fields.    *)
(***************************************************************************)
EXTENDS Integers, Sequences, SequencesExt

CONSTANTS
  Base,          \* values of a byte
  Widths,        \* bytes of length, time, address, port, site and reserved
  ClearedBody,   \* the 20 in memset(buf, 0, HEADER_LENGTH+20)
  RotateName,    \* ROTATE_COMMAND, the length byte first
  DepthName,     \* SERIAL_DEPTH_COMMAND
  Site,          \* arg_site
  LittleEndian,  \* byte order of the host
  Datagrams,     \* bodies that may arrive
  Times, Addrs, Ports,
  MaxBody,       \* size of the buffers, without the header
  MaxPackets     \* bound: datagrams received

Byte == 0..(Base - 1)
NFields == 6

\* lwes-journaller-rotate: the name with two zero bytes behind it
RotateEvent == RotateName \o <<0, 0>>

\* values of n bytes
Power[n \in Nat] == IF n = 0 THEN 1 ELSE Base * Power[n - 1]

ASSUME HeaderAssumption ==
  /\ Base \in Nat \ {0, 1}
  /\ Widths \in [1..NFields -> Nat \ {0}]
  /\ \A name \in {RotateName, DepthName} :
       name \in Seq(Byte \ {0}) /\ name # <<>> /\ Len(name) = name[1] + 1
  /\ MaxBody \in Nat /\ Len(DepthName) <= MaxBody
  /\ ClearedBody \in Len(RotateName)..Len(DepthName)
  /\ LittleEndian \in BOOLEAN
  /\ \A d \in Datagrams \cup {RotateEvent} :
       d \in Seq(Byte) /\ Len(d) <= MaxBody /\ Len(d) < Power[Widths[1]]
  /\ Times \subseteq 0..(Power[Widths[2]] - 1)
  /\ Addrs \subseteq [1..Widths[3] -> Byte]
  /\ Ports \subseteq 0..(Power[Widths[4]] - 1)
  /\ Site \in 0..(Power[Widths[5]] - 1)
  /\ MaxPackets \in Nat

VARIABLES
  ebuf, eret,    \* the enqueuer's buffer, result of its last read
  dbuf, dret,    \* the dequeuer's
  queue,         \* messages under way
  journal,       \* bytes of the journal
  pos, parsed,   \* a reader of the journal: position, records read
  got            \* history: what was received

evars == <<ebuf, eret>>
dvars == <<dbuf, dret>>
rvars == <<pos, parsed>>
vars == <<evars, dvars, rvars, queue, journal, got>>

INTR == -1
Failed == -1

-----------------------------------------------------------------------------
(* The codec *)

Offset(f) ==
  LET start[i \in 1..f] == IF i = 1 THEN 0 ELSE start[i - 1] + Widths[i - 1]
  IN  start[f]
HEADER_LENGTH == Offset(NFields + 1)

\* marshal_short, marshal_long, marshal_ulong_long: the most significant byte
\* first, what does not fit is lost
Marshal(x, w) == [i \in 1..w |-> (x \div Power[w - i]) % Base]

\* ntohs, ntohl and header_uint16, header_uint32, header_uint64
Unmarshal(bytes) ==
  LET value[i \in 0..Len(bytes)] ==
        IF i = 0 THEN 0 ELSE value[i - 1] * Base + bytes[i]
  IN  value[Len(bytes)]

\* s_addr as a number: the bytes of the address in the order of the network,
\* read in the order of the host
HostLong(addr) == Unmarshal(IF LittleEndian THEN Reverse(addr) ELSE addr)

InetNtoa(x) ==
  LET bytes == Marshal(x, Widths[3])
  IN  IF LittleEndian THEN Reverse(bytes) ELSE bytes

\* memcpy, recvfrom: bytes replace part of a buffer
Put(buf, off, bytes) ==
  [i \in DOMAIN buf |-> IF i - off \in DOMAIN bytes THEN bytes[i - off] ELSE buf[i]]

MutHeaderAdd(buf, count, tm, addr, port) ==
  Put(buf, 0, Marshal(count, Widths[1]) \o Marshal(tm, Widths[2])
                \o Marshal(addr, Widths[3]) \o Marshal(port, Widths[4])
                \o Marshal(Site, Widths[5] + Widths[6]))

\* header_add: the reserved bytes are left as they are
HeaderAdd(buf, count, tm, addr, port) ==
  Put(buf, 0, Marshal(count, Widths[1]) \o Marshal(tm, Widths[2])
                \o Marshal(addr, Widths[3]) \o Marshal(port, Widths[4])
                \o Marshal(Site, Widths[5]))

Field(header, f) == Unmarshal(SubSeq(header, Offset(f) + 1, Offset(f + 1)))

HeaderPayloadLength(header) == Field(header, 1)
HeaderReceiptTime(header) == Field(header, 2)
HeaderSenderIpFormatted(header) == InetNtoa(Field(header, 3))
HeaderSenderPort(header) == Field(header, 4)
HeaderSiteId(header) == Field(header, 5)
Reserved(header) == Field(header, 6)

\* toknam_eq: the length byte of the name decides how much is compared
ToknamEq(buf, name) ==
  \A i \in 1..(name[1] + 1) : buf[HEADER_LENGTH + i] = name[i]

HeaderIsRotate(buf) == ToknamEq(buf, RotateName)

-----------------------------------------------------------------------------
(* Buffers, queue and journal *)

MutClear(buf) == [i \in DOMAIN buf |-> IF i <= HEADER_LENGTH THEN 0 ELSE buf[i]]

\* memset(buf, 0, HEADER_LENGTH+20)
Clear(buf) ==
  [i \in DOMAIN buf |-> IF i <= HEADER_LENGTH + ClearedBody THEN 0 ELSE buf[i]]

Buffer == [1..(HEADER_LENGTH + MaxBody) -> Byte]

Init ==
  /\ ebuf = [i \in 1..(HEADER_LENGTH + MaxBody) |-> 0] /\ eret = INTR
  /\ dbuf = ebuf /\ dret = INTR
  /\ queue = <<>> /\ journal = <<>>
  /\ pos = 0 /\ parsed = <<>>
  /\ got = <<>>

\* the enqueuer clears its buffer, receives, adds the header and sends
Receive(body, tm, addr, port) ==
  LET buf == HeaderAdd(Put(Clear(ebuf), HEADER_LENGTH, body),
                       Len(body), tm, HostLong(addr), port)
  IN  /\ Len(got) < MaxPackets
      /\ ebuf' = buf /\ eret' = Len(body)
      /\ queue' = Append(queue, SubSeq(buf, 1, Len(body) + HEADER_LENGTH))
      /\ got' = Append(got, [body |-> body, time |-> tm, addr |-> addr,
                             port |-> port, site |-> Site])
      /\ UNCHANGED <<dvars, rvars, journal>>

\* the socket of lwes-journaller-rotate may refuse the event, and then nothing
\* comes; to the enqueuer it is a datagram like the others
RotateCommand ==
  \E tm \in Times, addr \in Addrs, port \in Ports :
    Receive(RotateEvent, tm, addr, port)

ReceiveInterrupted ==
  /\ eret # INTR
  /\ ebuf' = Clear(ebuf) /\ eret' = INTR
  /\ UNCHANGED <<dvars, rvars, queue, journal, got>>

\* the dequeuer clears its buffer, takes a message and writes it
Dequeue ==
  /\ queue # <<>>
  /\ dbuf' = Put(Clear(dbuf), 0, Head(queue)) /\ dret' = Len(Head(queue))
  /\ queue' = Tail(queue)
  /\ journal' = journal \o SubSeq(dbuf', 1, dret')
  /\ UNCHANGED <<evars, rvars, got>>

DequeueInterrupted ==
  /\ dret # INTR
  /\ dbuf' = Clear(dbuf) /\ dret' = INTR
  /\ UNCHANGED <<evars, rvars, queue, journal, got>>

\* a reader takes a header, and then as many bytes as it says; a journal that
\* ends before them is a read error
ReadRecord ==
  LET header == SubSeq(journal, pos + 1, pos + HEADER_LENGTH)
      start == pos + HEADER_LENGTH
      end == start + HeaderPayloadLength(header)
      record == [body |-> SubSeq(journal, start + 1, end),
                 time |-> HeaderReceiptTime(header),
                 addr |-> HeaderSenderIpFormatted(header),
                 port |-> HeaderSenderPort(header),
                 site |-> HeaderSiteId(header)]
  IN  /\ pos # Failed /\ pos + HEADER_LENGTH <= Len(journal)
      /\ IF end <= Len(journal)
         THEN pos' = end /\ parsed' = Append(parsed, record)
         ELSE pos' = Failed /\ UNCHANGED parsed
      /\ UNCHANGED <<evars, dvars, queue, journal, got>>

Next ==
  \/ \E body \in Datagrams, tm \in Times, addr \in Addrs, port \in Ports :
       Receive(body, tm, addr, port)
  \/ RotateCommand
  \/ ReceiveInterrupted \/ Dequeue \/ DequeueInterrupted \/ ReadRecord

Spec == Init /\ [][Next]_vars

-----------------------------------------------------------------------------
(* Properties *)

TypeOK ==
  /\ ebuf \in Buffer /\ dbuf \in Buffer
  /\ eret \in {INTR} \cup 0..MaxBody
  /\ dret \in {INTR} \cup HEADER_LENGTH..(HEADER_LENGTH + MaxBody)
  /\ queue \in Seq(Seq(Byte)) /\ journal \in Seq(Byte)
  /\ pos \in {Failed} \cup 0..Len(journal)
  /\ got \in Seq([body: Datagrams \cup {RotateEvent}, time: Times,
                  addr: Addrs, port: Ports, site: {Site}])

(* A journal is read back as it was received: headers and bodies stay      *)
(* aligned from record to record whatever the bodies hold, and length,     *)
(* receipt time, address, port and site of each survive the codec, the     *)
(* address through the two byte orders it passes.                          *)
RecordsSurvive == pos # Failed /\ IsPrefix(parsed, got)

(* The reserved bytes of every message are zero ("Reserved, set to zero",  *)
(* header.h) although header_add does not write them.                      *)
ReservedZero == \A i \in DOMAIN queue : Reserved(queue[i]) = 0

\* what the last read put into a buffer
Own(buf, size) == SubSeq(buf, HEADER_LENGTH + 1, HEADER_LENGTH + size)

(* What an earlier packet left in a buffer never makes a command: a packet *)
(* is taken for Command::Rotate exactly if its own bytes say so, after an  *)
(* interrupted read nothing is, and of the depth test's name, which is     *)
(* longer than what is cleared, the cleared length must be the packet's    *)
(* own ("so if we get a rotate event the program will not continually      *)
(* rotate", xport_to_queue.c).                                             *)
NamesFromOwnBytes ==
  \A w \in {[buf |-> ebuf, size |-> eret],
            [buf |-> dbuf, size |-> dret - HEADER_LENGTH]} :
    /\ HeaderIsRotate(w.buf)
         <=> w.size >= 0 /\ IsPrefix(RotateName, Own(w.buf, w.size))
    /\ ToknamEq(w.buf, DepthName)
         => /\ w.size >= 0
            /\ IsPrefix(SubSeq(DepthName, 1, ClearedBody), Own(w.buf, w.size))

(* What the codec puts into a header is what a reader gets out of it, and  *)
(* no byte of a message is left to chance.                                 *)
CodecSound == TypeOK /\ RecordsSurvive /\ ReservedZero

=============================================================================
