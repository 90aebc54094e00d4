---------------------------- MODULE MCTcpClient ----------------------------
(***************************************************************************)
(* A small instance of TcpClient: frames of one, two and three bytes, so   *)
(* that a write can be cut in every way and messages of different lengths  *)
(* follow each other.                                                      *)
(***************************************************************************)
EXTENDS TcpClient

CONSTANTS m1, m2, m3

MCMsg == {m1, m2, m3}
MCSize == (m1 :> 1) @@ (m2 :> 2) @@ (m3 :> 3)
=============================================================================
