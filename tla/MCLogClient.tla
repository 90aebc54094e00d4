---------------------------- MODULE MCLogClient ----------------------------
(***************************************************************************)
(* Instances of LogClient: two threads that log, a package that is too big *)
(* for the protocol, a network that may fail.                              *)
(***************************************************************************)
EXTENDS LogClient, TLC

MCBig == {<<"p2", 1>>}
=============================================================================
