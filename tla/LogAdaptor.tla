----------------------------- MODULE LogAdaptor -----------------------------
(***************************************************************************)
(* CStreamLoggerAdaptor cuts the chunks of a byte stream into lines with   *)
(* the time of their first byte; COscarLoggerAdaptor and                   *)
(* CEtfLoggerAdaptor make a record of every packet, the OSCAR ones built   *)
(* by a log client and parsed as FlapCodec says.  Each CLogChannel of an   *)
(* adaptor sends a filtered copy of a record to the logger.                *)
(*                                                                         *)
(* A byte is a character and, for the properties, the chunk it came with.  *)
(* The characters that matter are the end of a line, one that trim_right   *)
(* removes, one that the filter of a channel erases, and any other.        *)
(***************************************************************************)
EXTENDS LogBuilder, SequencesExt, FiniteSets

CONSTANTS Channels,   \* the log channels: sink ids
          FilterName, \* the name of each channel's filter in the configuration, "" for none
          Texts,      \* the texts of packages
          OwnTag,     \* the tag of a stream adaptor, the module of an ETF packet
          ClientTag,  \* the tag of a client's module, the suffix of its log file
          MaxChunk,   \* bound: bytes of a chunk
          MaxChunks   \* bound: chunks, or packets

\* The characters, and the names of ERegexFilter.
LF == "lf"
Esc == "esc"
Chars == {LF, Blank, Esc, "text"}
ERegexFilter == {"UNKNOWN_FILTER", "RAGEX_ERASE"}
Kinds == {"STREAM", "ETFLOG", "OSCAR"}

ASSUME LogAdaptorAssumption ==
  /\ MaxChunk \in Nat /\ MaxChunks \in Nat /\ IsFiniteSet(Channels)
  /\ FilterName \in [Channels -> STRING] /\ \A text \in Texts : text \in Seq(Chars)
  /\ OwnTag \in Seq(Chars) /\ ClientTag \in Seq(Chars)

VARIABLES
  kind,      \* of the adaptor: m_protocol
  filters,   \* which channels have a CRegexEraseFilter: m_filters
  line,      \* m_work.buffer: a line that is not complete
  timestamp, \* m_work.timestamp
  clock,     \* chunks so far: the time of the current one
  records,   \* what each channel has sent, in order
  input,     \* history: all bytes of the stream
  packets    \* history: what the packets that are to be logged say

config == <<kind, filters>>
vars == <<config, line, timestamp, clock, records, input, packets>>

Byte(c, t) == [char |-> c, came |-> t]
Bytes == [char : Chars, came : 1 .. MaxChunks]

\* MakeFilter: ConvertString2Id leaves its result unset for a name it does not know.
FilterMade(name) ==
  CASE name = "" -> {FALSE}
    [] name \in ERegexFilter -> {name = "RAGEX_ERASE"}
    [] OTHER -> BOOLEAN

Init ==
  /\ kind \in Kinds
  /\ filters \in {f \in [Channels -> BOOLEAN] : \A c \in Channels : f[c] \in FilterMade(FilterName[c])}
  /\ line = <<>> /\ timestamp = 0 /\ clock = 0
  /\ records = [c \in Channels |-> <<>>] /\ input = <<>> /\ packets = <<>>
-----------------------------------------------------------------------------
Breaks(s) == {i \in DOMAIN s : s[i].char = LF}

\* Where the line with the byte at i begins, or would: behind the break before it.
Begin(s, i) == Max({0} \cup {j \in Breaks(s) : j < i}) + 1

\* trim_right: the line without the blanks, and the line end, at its end.
Trimmed(s) ==
  LET kept == {i \in DOMAIN s : s[i].char \notin {LF, Blank}}
  IN IF kept = {} THEN <<>> ELSE SubSeq(s, 1, CHOOSE i \in kept : \A j \in kept : j <= i)

\* An SLogPackage; the severity is passed on as it is and compared with nothing.
Record(command, tag, text, time, sink) ==
  [command |-> command, tag |-> tag, text |-> text, time |-> time, sink |-> sink]

\* The line that the break at i ends, and whether there is more than blanks to it.
LineTo(s, i) == Trimmed(SubSeq(s, Begin(s, i), i))
EndsLine(s, i) == s[i].char = LF /\ LineTo(s, i) # <<>>

\* DoLog from where the lines are cut: a record of each that is not empty, with the time
\* of the first or that of the others.
Cut(text, first, others) ==
  FlattenSeq([i \in DOMAIN text |->
    IF EndsLine(text, i)
    THEN <<Record("eMessage", OwnTag, LineTo(text, i), IF Begin(text, i) = 1 THEN first ELSE others, "unknown")>>
    ELSE <<>>])

\* Faulty variant: the time is taken anew with every chunk.
StampNow == clock + 1

\* The time of a line that is begun stays; an empty line takes that of the chunk.
Stamp == IF line = <<>> THEN clock + 1 ELSE timestamp

Unescaped(s) == FlattenSeq([i \in DOMAIN s |-> IF s[i].char = Esc THEN <<>> ELSE <<s[i]>>])
Erased(r) == [r EXCEPT !.text = Unescaped(@)]

\* Faulty variant: the filters change the one record all channels are given.
TransferShared(c, r) == IF \E d \in Channels : filters[d] THEN [Erased(r) EXCEPT !.sink = c] ELSE [r EXCEPT !.sink = c]

\* TransferLogMessage: a copy, filtered, for this channel's sink unless it names one.
Transfer(c, r) ==
  LET copy == IF filters[c] THEN Erased(r) ELSE r
  IN [copy EXCEPT !.sink = IF r.sink = "unknown" THEN c ELSE r.sink]

Send(out) == records' = [c \in Channels |-> records[c] \o [i \in DOMAIN out |-> Transfer(c, out[i])]]
Stamped(chunk) == [i \in DOMAIN chunk |-> Byte(chunk[i], clock + 1)]

\* DoLog of the stream adaptor, for a chunk of the channel that leads to it.
DoLog(chunk) ==
  LET text == line \o Stamped(chunk)
  IN /\ kind = "STREAM"
     /\ line' = SubSeq(text, Begin(text, Len(text) + 1), Len(text))
     /\ timestamp' = IF Breaks(text) = {} THEN Stamp ELSE clock + 1
     /\ Send(Cut(text, Stamp, clock + 1))
     /\ clock' = clock + 1 /\ input' = input \o Stamped(chunk)
     /\ UNCHANGED <<config, packets>>

\* A packet that is to be logged, and what the adaptor makes of it.
DoLogPacket(said, out) ==
  /\ Send(out)
  /\ packets' = Append(packets, said)
  /\ clock' = clock + 1
  /\ UNCHANGED <<config, line, timestamp, input>>

\* DoLog of the ETF adaptor: the sink is that of the clients, the time its own.
DoLogEtf(text) ==
  /\ kind = "ETFLOG"
  /\ LET r == Record("eMessage", OwnTag, Stamped(text), clock + 1, "client") IN DoLogPacket(r, <<r>>)

\* What a log client is given by a LOG_ macro, OpenNewLogFile or CloseLogFile; the time
\* is that of its own clock.
Given(command, text, sink) ==
  [command |-> command, severity |-> "INFO", lchannel |-> sink, sec |-> clock + 1, usec |-> 0,
   tag |-> [eMessage |-> BuiltTag(ClientTag), eChangeFile |-> ClientTag, eStop |-> <<>>][command],
   message |-> [eMessage |-> BuiltMessage(Stamped(text)), eChangeFile |-> Stamped(text), eStop |-> <<>>][command]]

\* The record DoLog of the OSCAR adaptor makes of a packet; a stop has no texts.
Parsed(packet) ==
  Record(CommandOf(packet),
         IF CommandOf(packet) = "eStop" THEN <<>> ELSE ValueOf(packet, "tag"),
         IF CommandOf(packet) = "eStop" THEN <<>> ELSE ValueOf(packet, "message"),
         ValueOf(packet, "sec"), ValueOf(packet, "lchannel"))

\* A packet the builder accepts is sent; the parser throws on one it cannot walk.
DoLogOscar(command, text, sink) ==
  LET p == Given(command, text, sink)
      packet == Build(p)
  IN /\ kind = "OSCAR" /\ Accepted(p)
     /\ DoLogPacket(Record(command, p.tag, p.message, p.sec, sink),
                    IF Parses(packet) THEN <<Parsed(packet)>> ELSE <<>>)

\* An ETF packet without its mark, an OSCAR packet of another kind: no record.
DropPacket ==
  /\ kind # "STREAM"
  /\ clock' = clock + 1
  /\ UNCHANGED <<config, line, timestamp, records, input, packets>>

Next ==
  /\ clock < MaxChunks
  /\ \/ \E n \in 1 .. MaxChunk : \E chunk \in [1 .. n -> Chars] : DoLog(chunk)
     \/ \E text \in Texts : DoLogEtf(text)
     \/ \E command \in Commands, text \in Texts, sink \in {"client", "unknown"} : DoLogOscar(command, text, sink)
     \/ DropPacket

Spec == Init /\ [][Next]_vars
-----------------------------------------------------------------------------
TypeOK ==
  /\ kind \in Kinds /\ filters \in [Channels -> BOOLEAN] /\ line \in Seq(Bytes)
  /\ clock \in 0 .. MaxChunks /\ timestamp \in 0 .. clock
  /\ \A c \in Channels : \A i \in DOMAIN records[c] :
       records[c][i].text \in Seq(Bytes) /\ records[c][i].time \in 1 .. clock
  /\ Breaks(line) = {}

\* What the stream s says, however it was split: its complete lines, trimmed, without the
\* empty ones.
Lines(s) == FlattenSeq([i \in DOMAIN s |-> IF EndsLine(s, i) THEN <<LineTo(s, i)>> ELSE <<>>])

\* Every channel of a stream adaptor sends exactly the lines of the stream, in order,
\* filtered as it is configured and as no other channel is.
LinesAsWritten ==
  kind = "STREAM" => \A c \in Channels :
    [i \in DOMAIN records[c] |-> records[c][i].text] =
      [i \in DOMAIN Lines(input) |-> IF filters[c] THEN Unescaped(Lines(input)[i]) ELSE Lines(input)[i]]

\* A record carries the time of the chunk that brought the first byte of its line,
\* also when the line is completed many chunks later.
TimeOfFirstByte ==
  kind = "STREAM" => \A c \in Channels :
    ~filters[c] => \A i \in DOMAIN records[c] : records[c][i].time = records[c][i].text[1].came

\* Every channel of a packet adaptor sends a record for each packet to be logged, in
\* order, that says what the packet's sender said, but for what its own filter erases:
\* no size of a packet the builder accepted misleads the parser (snac.h:79, tlv.h:171).
PacketsAsSaid ==
  kind # "STREAM" => \A c \in Channels :
    /\ Len(records[c]) = Len(packets)
    /\ \A i \in DOMAIN packets :
         /\ records[c][i].text = IF filters[c] THEN Unescaped(packets[i].text) ELSE packets[i].text
         /\ \A f \in {"command", "tag", "time"} : records[c][i][f] = packets[i][f]

\* A record is for the sink of the channel that sends it, unless its packet says
\* another, which then every channel of the adaptor sends to.
OwnSinkUnlessSaid ==
  \A c \in Channels : \A i \in DOMAIN records[c] :
    records[c][i].sink = IF kind = "STREAM" \/ packets[i].sink = "unknown" THEN c ELSE packets[i].sink

\* The records of a stream adaptor's channels are its lines, and those of every channel
\* have its own filter and the right sink, whatever the others of the adaptor do.
RecordsAsConfigured == TypeOK /\ LinesAsWritten /\ OwnSinkUnlessSaid
=============================================================================
