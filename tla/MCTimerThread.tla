--------------------------- MODULE MCTimerThread ---------------------------
(***************************************************************************)
(* An instance of TimerThread: the log clock, which repeats, and a job     *)
(* that fires once; the clock may be one or several periods late.          *)
(***************************************************************************)
EXTENDS TimerThread, TLC

CONSTANTS clock, once

MCJob == {clock, once}
MCDelay == (clock :> 1) @@ (once :> 1)
MCPeriod == (clock :> 2) @@ (once :> 0)
MCRepeats == {clock}
=============================================================================
