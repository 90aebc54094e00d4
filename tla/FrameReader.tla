---------------------------- MODULE FrameReader ----------------------------
(***************************************************************************)
(* The readers of a TCP client's bytes.  CTcpServerChildOscar and          *)
(* CTcpServerChildEtfLog cut the stream into packets, a header that tells  *)
(* the size of the body and then the body; CTcpServerChildStream and       *)
(* CTcpServerChildTelnet pass on what each read brings.                    *)
(*                                                                         *)
(* A byte is its position in the stream, from 1; a cell of the buffer that *)
(* no read has filled is 0.                                                *)
(***************************************************************************)
EXTENDS Integers, SequencesExt

CONSTANTS Protocols, \* the classes to choose from: "oscar", "etf", "stream", "telnet"
          InBuffer,  \* the input buffer a client of each class is created with
          SizeT,     \* the modulus of size_t
          Packets,   \* bound: packets the peer sends
          Bodies     \* bound: sizes of bodies

ASSUME FrameReaderAssumption ==
  /\ Protocols \subseteq {"oscar", "etf", "stream", "telnet"}
  /\ Packets \in Nat \ {0} /\ Bodies \subseteq Nat /\ SizeT \in Nat
  /\ InBuffer \in [Protocols -> 1 .. SizeT - 1] /\ ("etf" \in Protocols => InBuffer["etf"] >= 12)

VARIABLES
  protocol,   \* the class of the client
  body,       \* the sizes of the bodies of the peer's packets
  marked,     \* which of them begin with the mark of the protocol, or with 0xff
  peerSent,   \* bytes the peer has sent
  closed,     \* the peer has closed the connection
  taken,      \* bytes read from the socket
  buffer,     \* m_inBuffer
  headerRead, \* m_headerReadBytes
  bodyRead,   \* m_bodyReadBytes
  bodySize,   \* m_bodySize
  asked,      \* the outstanding read, or NoRead
  passed      \* the messages made for m_sigInputMessage

peer == <<protocol, body, marked>>
readerVars == <<protocol, body, marked, peerSent, closed, taken, buffer, headerRead, bodyRead, bodySize, asked, passed>>

\* FLAP_HEADER_SIZE and ETF_LOG_HEADER_SIZE. After a packet both ask for the first.
OscarHeader == 6
Header == CASE protocol = "oscar" -> OscarHeader [] protocol = "etf" -> 12 [] OTHER -> 0
FirstBuffer == IF protocol = "oscar" THEN Header ELSE InBuffer[protocol]

Framed == protocol \in {"oscar", "etf"}

\* async_read_some ends with what there is, async_read when all has come.
Read(handler, op, at, want) == [handler |-> handler, op |-> op, at |-> at, want |-> want % SizeT]
NoRead == Read("gone", "all", 0, 0)

\* The stream: Starts[p] bytes come before packet p.
Starts[p \in 1 .. Packets + 1] == IF p = 1 THEN 0 ELSE Starts[p - 1] + Header + body[p - 1]
Total == Starts[Packets + 1]
Packet(p) == [i \in 1 .. Header + body[p] |-> Starts[p] + i]
Zeros(n) == [i \in 1 .. n |-> 0]
Resized(b, n) == [i \in 1 .. n |-> IF i <= Len(b) THEN b[i] ELSE 0]

\* The mark is the first byte of the buffer; a byte inside a packet may look like one.
MarkSeen(b) ==
  LET at == {p \in 1 .. Packets : Starts[p] + 1 = b[1]}
  IN IF at = {} THEN BOOLEAN ELSE {marked[p] : p \in at}

\* The size field of the header in b; bytes that are no header may say anything.
SizesRead(b) ==
  LET at == {p \in 1 .. Packets : SubSeq(b, 1, Header) = SubSeq(Packet(p), 1, Header)}
  IN IF at = {} THEN Bodies ELSE {body[p] : p \in at}

ReaderInit ==
  /\ protocol \in Protocols
  /\ body \in [1 .. Packets -> Bodies] /\ marked \in [1 .. Packets -> BOOLEAN]
  /\ Total < SizeT \* no connection carries as many bytes as a size_t counts
  /\ peerSent = 0 /\ closed = FALSE /\ taken = 0
  /\ buffer = Zeros(FirstBuffer)
  /\ headerRead = 0 /\ bodyRead = 0 /\ bodySize = 0
  /\ asked = Read("header", "some", 0, FirstBuffer)
  /\ passed = <<>>
-----------------------------------------------------------------------------
(* The peer and the socket *)

PeerSends ==
  /\ ~closed
  /\ \E n \in peerSent + 1 .. Total : peerSent' = n
  /\ UNCHANGED <<peer, closed, taken, buffer, headerRead, bodyRead, bodySize, asked, passed>>

PeerCloses ==
  /\ ~closed /\ closed' = TRUE
  /\ UNCHANGED <<peer, peerSent, taken, buffer, headerRead, bodyRead, bodySize, asked, passed>>

\* How many bytes the outstanding read may end with.
Arriving ==
  LET there == peerSent - taken
  IN IF asked.op = "some" THEN 1 .. Min({asked.want, there})
     ELSE IF there >= asked.want THEN {asked.want} ELSE {}

\* k bytes go to their place in the buffer; there is no cell for what lies past its end.
Filled(k) == [i \in 1 .. Len(buffer) |->
                IF i \in asked.at + 1 .. asked.at + k THEN taken + i - asked.at ELSE buffer[i]]
-----------------------------------------------------------------------------
(* The handlers *)

\* Faulty variant: the next read is not started.
DeliverLast(b) ==
  /\ passed' = Append(passed, b)
  /\ buffer' = Zeros(Header)
  /\ headerRead' = 0
  /\ asked' = NoRead

\* A whole packet is in b: it is released to the message, a new buffer is read into.
\* The read is started before the message is emitted; in which order two threads emit
\* is the subject of TcpServer, passed has the order in which they are taken.
Deliver(b) ==
  /\ passed' = Append(passed, b)
  /\ buffer' = Zeros(Header)
  /\ headerRead' = 0
  /\ asked' = Read("header", "all", 0, OscarHeader)

ReadsNoMore == asked' = NoRead

HeaderRest(have) == Read("header", "all", have, Header - have)

\* Faulty variant: the body is read over the header.
BodyOfAtStart(size) == Read("data", "all", 0, size)

BodyOf(size) == Read("data", "all", Header, size)

\* ReadHandler.
HeaderArrives ==
  /\ Framed /\ asked.handler = "header"
  /\ \E k \in Arriving :
       LET b == Filled(k) have == headerRead + k IN
       /\ taken' = taken + k
       /\ \E ok \in MarkSeen(b) :
            \/ /\ ~ok /\ ReadsNoMore
               /\ buffer' = b /\ UNCHANGED <<headerRead, bodyRead, bodySize, passed>>
            \/ /\ ok /\ have # Header
               /\ headerRead' = have /\ buffer' = b /\ asked' = HeaderRest(have)
               /\ UNCHANGED <<bodyRead, bodySize, passed>>
            \/ /\ ok /\ have = Header
               /\ bodyRead' = 0
               /\ \E size \in SizesRead(b) :
                    /\ bodySize' = size
                    /\ IF protocol = "etf" /\ size = 0 THEN Deliver(b)
                       ELSE /\ headerRead' = have
                            /\ buffer' = Resized(b, Header + size)
                            /\ asked' = BodyOf(size)
                            /\ UNCHANGED passed
  /\ UNCHANGED <<peer, peerSent, closed>>

\* ReadDataHandler.
DataArrives ==
  /\ Framed /\ asked.handler = "data"
  /\ \E k \in Arriving :
       LET b == Filled(k) have == bodyRead + k IN
       /\ taken' = taken + k
       /\ bodyRead' = have
       /\ IF have < bodySize
          THEN /\ asked' = Read("data", "all", have, bodySize - have)
               /\ buffer' = b /\ UNCHANGED <<headerRead, passed>>
          ELSE Deliver(b)
  /\ UNCHANGED <<peer, peerSent, closed, bodySize>>

\* The buffer is cut to what came and goes to the message; a new one is read into.
DeliverChunk(b, k) ==
  /\ passed' = Append(passed, Resized(b, k))
  /\ buffer' = Zeros(FirstBuffer)
  /\ asked' = Read("data", "some", 0, FirstBuffer)

\* ReadHandler of a telnet client leaves out a first chunk that begins with 0xff, and
\* uses its buffer again; the one of a stream client is its ReadDataHandler.
FirstChunkArrives ==
  /\ ~Framed /\ asked.handler = "header"
  /\ \E k \in Arriving :
       LET b == Filled(k) IN
       /\ taken' = taken + k
       /\ \E control \in MarkSeen(b) :
            IF protocol = "telnet" /\ control
            THEN /\ buffer' = b /\ asked' = Read("data", "some", 0, Len(b))
                 /\ UNCHANGED passed
            ELSE DeliverChunk(b, k)
  /\ UNCHANGED <<peer, peerSent, closed, headerRead, bodyRead, bodySize>>

\* ReadDataHandler of both.
ChunkArrives ==
  /\ ~Framed /\ asked.handler = "data"
  /\ \E k \in Arriving : taken' = taken + k /\ DeliverChunk(Filled(k), k)
  /\ UNCHANGED <<peer, peerSent, closed, headerRead, bodyRead, bodySize>>

\* Either handler with an error code: the end of the stream came first.
ReadFails ==
  /\ asked # NoRead /\ closed /\ Arriving = {}
  /\ ReadsNoMore
  /\ taken' = peerSent
  /\ UNCHANGED <<peer, peerSent, closed, buffer, headerRead, bodyRead, bodySize, passed>>

Arrives == HeaderArrives \/ DataArrives \/ FirstChunkArrives \/ ChunkArrives \/ ReadFails

ReaderNext ==
  \/ PeerSends \/ PeerCloses
  \/ HeaderArrives \/ DataArrives \/ FirstChunkArrives \/ ChunkArrives \/ ReadFails

ReaderSpec == ReaderInit /\ [][ReaderNext]_readerVars

\* Bytes that are there reach the handler.
FairReaderSpec == ReaderSpec /\ WF_readerVars(Arrives)
-----------------------------------------------------------------------------
ReaderTypeOK ==
  /\ protocol \in Protocols
  /\ peerSent \in 0 .. Total /\ taken \in 0 .. peerSent /\ closed \in BOOLEAN
  /\ buffer \in Seq(0 .. Total) /\ headerRead \in 0 .. Max({Header, FirstBuffer})
  /\ bodySize \in Bodies \cup {0} /\ bodyRead \in 0 .. bodySize
  /\ asked \in [handler : {"header", "data", "gone"}, op : {"some", "all"},
                  at : Nat, want : 0 .. SizeT - 1]
  /\ passed \in Seq(Seq(0 .. Total))

\* However the bytes are split on the way, the messages passed on are the packets of
\* the peer, whole, in order, none twice and none after one without the mark. Only a
\* first ETF packet without body is followed by the rest of the input buffer.
PacketsAsSent == Framed =>
  /\ Len(passed) <= Packets
  /\ \A i \in DOMAIN passed :
       /\ \A p \in 1 .. i : marked[p]
       /\ \/ passed[i] = Packet(i)
          \/ protocol = "etf" /\ i = 1 /\ body[1] = 0 /\ SubSeq(passed[1], 1, Header) = Packet(1)

\* What a stream or a telnet client passes on is its stream up to the last byte read, no
\* byte missing and none twice; only a telnet client leaves out a beginning, one read
\* long, and only one that begins with 0xff.
ChunksAsSent == ~Framed =>
  \E left \in 0 .. FirstBuffer :
    /\ left <= taken
    /\ FlattenSeq(passed) = [i \in 1 .. taken - left |-> left + i]
    /\ left # 0 => protocol = "telnet" /\ \E p \in 1 .. Packets : Starts[p] = 0 /\ marked[p]

\* The first read of an ETF client, into the whole input buffer, took more than a header.
Overread == protocol = "etf" /\ headerRead > Header

\* A read asks for what is missing, so it ends inside the buffer, unless the first
\* one took more than a header (the difference of sizes then wraps).
ReadsFitBuffer == Overread \/ asked.at + asked.want <= Len(buffer)

\* Everything the peer sent whole is passed on, unless a packet had no mark or the
\* first read took more than a header; a client without frames reads on for ever.
SentIsPassed ==
  \A p \in 1 .. Packets :
    (peerSent >= Starts[p + 1] /\ (Framed => \A q \in 1 .. p : marked[q])) ~>
      IF Framed THEN Len(passed) >= p \/ Overread ELSE taken >= Starts[p + 1]

\* Framing: however the stream is cut, what is passed on is the packets, or the bytes, of
\* the peer and no read is armed beyond the buffer, but for a first ETF read larger than
\* a header.
FramingInvariant == ReaderTypeOK /\ PacketsAsSent /\ ChunksAsSent /\ ReadsFitBuffer
=============================================================================
