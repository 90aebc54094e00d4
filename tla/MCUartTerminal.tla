--------------------------- MODULE MCUartTerminal ---------------------------
(***************************************************************************)
(* An instance of UartTerminal: a port that comes late, goes away once and *)
(* may come back.                                                          *)
(***************************************************************************)
EXTENDS UartTerminal, TLC
=============================================================================
