---------------------------- MODULE MCTcpServer ----------------------------
(***************************************************************************)
(* An instance of TcpServer with the two threads CManager::init gives to   *)
(* the io service: one connection that sends, or two that do not.          *)
(***************************************************************************)
EXTENDS TcpServer, TLC

CONSTANTS c1, c2, t1, t2

MCLoads == {[peers |-> {c1}, chunks |-> 2], [peers |-> {c2}, chunks |-> 2],
            [peers |-> {c1, c2}, chunks |-> 0]}
MCSymmetry == Permutations({c1, c2}) \cup Permutations({t1, t2})
=============================================================================
