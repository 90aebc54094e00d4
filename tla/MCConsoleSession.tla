-------------------------- MODULE MCConsoleSession --------------------------
(***************************************************************************)
(* An instance of ConsoleSession: the two units of AsioServiceWork, two    *)
(* typed lines, and a client whose message holds two lines or half a one.  *)
(***************************************************************************)
EXTENDS ConsoleSession, TLC

CONSTANTS w1, w2

MCChunks == {<<"text">>, <<"text", "lf", "quit", "lf">>}
=============================================================================
