--------------------------- MODULE MCFrameReader ---------------------------
(***************************************************************************)
(* An instance of FrameReader: a client of each class, two packets with    *)
(* bodies of zero to two bytes, an ETF input buffer longer than a header,  *)
(* and one of a client without frames that is shorter than its stream.     *)
(***************************************************************************)
EXTENDS FrameReader

MCInBuffer == [oscar |-> 15, etf |-> 15, stream |-> 3, telnet |-> 3]
=============================================================================
