----------------------------- MODULE FlapCodec -----------------------------
(***************************************************************************)
(* The packets of the OSCAR log protocol: how the log client lays a        *)
(* package out (flap_builder, snac, tlv) and how COscarLoggerAdaptor reads *)
(* it back (flap_parser).  A packet is the fields of its headers that are  *)
(* looked at and its TLVs; every size on the wire is a uint16_t.           *)
(***************************************************************************)
EXTENDS Integers, Sequences

CONSTANT Word  \* the modulus of uint16_t

ASSUME WordAssumption == Word \in Nat \ {0}

TlvHeader == 4    \* TLV_HEADER_SIZE
SnacHeader == 10  \* SNAC_HEADER_SIZE

Commands == {"eMessage", "eChangeFile", "eStop"}

\* The TLVs of Snac_Message, Snac_NewFile and Snac_Stop, by the members of SLogPackage
\* that WriteNextMessage puts into them.
Fields ==
  [eMessage    |-> <<"tag", "severity", "message", "lchannel", "sec", "usec">>,
   eChangeFile |-> <<"message", "tag", "lchannel", "sec", "usec">>,
   eStop       |-> <<"lchannel", "sec", "usec">>]

\* The size of a member's value: a string, a time_t or int64_t, a uint8_t or int8_t.
DataSize(field, p) ==
  IF field \in {"tag", "message"} THEN Len(p[field]) ELSE IF field \in {"sec", "usec"} THEN 8 ELSE 1

\* The sum of the first k of up to six sizes: no SNAC has more TLVs.
Sum(k, size) ==
  LET term(i) == IF i <= k THEN size[i] ELSE 0
  IN term(1) + term(2) + term(3) + term(4) + term(5) + term(6)
-----------------------------------------------------------------------------
(* Building *)

\* snac::calc_size, before anything is written.
SnacSize(p) ==
  LET fields == Fields[p.command]
  IN SnacHeader + Sum(Len(fields), [i \in 1 .. Len(fields) |-> TlvHeader + DataSize(fields[i], p)])

\* Faulty variant: only the TLVs are counted.
AcceptedWithoutHeader(p) == SnacSize(p) - SnacHeader < Word

\* A SNAC longer than a uint16_t can say is an exception.
Accepted(p) == SnacSize(p) < Word

\* tlv::create: the size field is cut to its width, the data is written in full.
Tlv(field, p) == [size |-> DataSize(field, p) % Word, bytes |-> DataSize(field, p), data |-> p[field]]

\* snac::store_all_data.
Stored(p) == [i \in 1 .. Len(Fields[p.command]) |-> Tlv(Fields[p.command][i], p)]

\* flap_builder::add_data.
Build(p) ==
  [channel |-> IF p.command = "eMessage" THEN "Message" ELSE "Control",
   service |-> [eMessage |-> "Message", eChangeFile |-> "Start", eStop |-> "Stop"][p.command],
   size    |-> SnacSize(p) % Word,
   tlvs    |-> Stored(p)]
-----------------------------------------------------------------------------
(* Parsing *)

\* tlv::get_size, a uint16_t: how far the iterator goes.
TlvSize(t) == (TlvHeader + t.size) % Word

\* Where the iterator is after k TLVs, from the first.
Place(packet, k) == Sum(k, [i \in 1 .. k |-> TlvSize(packet.tlvs[i])])

\* The reader has cut the packet where the size field says.  The iterator goes from TLV
\* to TLV and meets end_ptr; otherwise it takes data for a header and, at the latest
\* behind end_ptr, throws.
Parses(packet) ==
  /\ \A i \in 1 .. Len(packet.tlvs) : TlvSize(packet.tlvs[i]) = TlvHeader + packet.tlvs[i].bytes
  /\ Place(packet, Len(packet.tlvs)) = packet.size - SnacHeader

\* COscarLoggerAdaptor::DoLog: the command of the record, ...
CommandOf(packet) ==
  IF packet.channel = "Message" THEN "eMessage" ELSE IF packet.service = "Start" THEN "eChangeFile" ELSE "eStop"

\* ... the members in the order in which the TLVs are assigned to them, and their values.
Assigned(packet) ==
  IF packet.channel = "Message" THEN <<"tag", "severity", "message", "lchannel", "sec", "usec">>
  ELSE IF packet.service = "Start" THEN <<"message", "tag", "lchannel", "sec", "usec">>
  ELSE <<"lchannel", "sec", "usec">>
ValueOf(packet, field) ==
  LET i == CHOOSE i \in 1 .. Len(Assigned(packet)) : Assigned(packet)[i] = field
  IN packet.tlvs[i].data
-----------------------------------------------------------------------------
\* What the client was given is what the adaptor gets: the packet is walked to its end
\* and every member has the value it had (WriteNextMessage, COscarLoggerAdaptor::DoLog).
RoundTrip(p) ==
  LET packet == Build(p)
  IN /\ Parses(packet)
     /\ CommandOf(packet) = p.command
     /\ \A i \in 1 .. Len(Fields[p.command]) :
          ValueOf(packet, Fields[p.command][i]) = p[Fields[p.command][i]]
=============================================================================
