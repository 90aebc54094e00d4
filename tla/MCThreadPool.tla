--------------------------- MODULE MCThreadPool ---------------------------
(***************************************************************************)
(* An instance of ThreadPool: an event loop, a log multiplexer that        *)
(* submits a sink write, and the set-up of a serial port.                  *)
(***************************************************************************)
EXTENDS ThreadPool, TLC

CONSTANTS io, mux, write, setup

MCLong == {io}
MCShort == {mux, write, setup}
MCChildren == (io :> <<>>) @@ (mux :> <<write>>) @@ (write :> <<>>) @@ (setup :> <<>>)
=============================================================================
