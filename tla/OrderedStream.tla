--------------------------- MODULE OrderedStream ---------------------------
(***************************************************************************)
(* What a writer of a byte stream promises: units are accepted in blocks   *)
(* and come out at the other end one block-part at a time, in the order    *)
(* they were accepted, none lost, repeated or interleaved.  The client of  *)
(* a TCP actor, TcpClient, is shown to implement it.                       *)
(***************************************************************************)
EXTENDS Naturals, Sequences

CONSTANT Block      \* the set of blocks (finite sequences) a writer may accept

VARIABLES accepted,     \* every unit accepted so far, in order
          delivered     \* every unit that has left the writer, in order

streamVars == <<accepted, delivered>>

StreamInit == accepted = <<>> /\ delivered = <<>>

Accept(b) ==
  /\ accepted' = accepted \o b
  /\ UNCHANGED delivered

Deliver(n) ==
  /\ Len(delivered) + n <= Len(accepted)
  /\ delivered' = SubSeq(accepted, 1, Len(delivered) + n)
  /\ UNCHANGED accepted

StreamNext ==
  \/ \E b \in Block : Accept(b)
  \/ \E n \in 1 .. (Len(accepted) - Len(delivered)) : Deliver(n)

StreamSpec == StreamInit /\ [][StreamNext]_streamVars
=============================================================================
