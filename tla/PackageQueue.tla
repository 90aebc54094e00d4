---------------------------- MODULE PackageQueue ----------------------------
(***************************************************************************)
(* What the log client promises of the packages it takes: the server gets  *)
(* them one by one in the order in which they were taken, each once; only  *)
(* one that cannot be sent may be left out.  LogClient is shown to         *)
(* implement it.                                                           *)
(***************************************************************************)
EXTENDS Sequences

CONSTANTS Package,    \* what may be logged
          Unsendable  \* the packages the protocol has no room for

VARIABLES waiting,    \* taken and not yet with the server, in order
          delivered   \* what the server has got

queueVars == <<waiting, delivered>>

QueueInit == waiting = <<>> /\ delivered = <<>>

Take(p) == waiting' = Append(waiting, p) /\ UNCHANGED delivered

Deliver ==
  /\ waiting # <<>>
  /\ delivered' = Append(delivered, Head(waiting))
  /\ waiting' = Tail(waiting)

LeaveOut ==
  /\ waiting # <<>> /\ Head(waiting) \in Unsendable
  /\ waiting' = Tail(waiting)
  /\ UNCHANGED delivered

QueueNext == (\E p \in Package : Take(p)) \/ Deliver \/ LeaveOut

QueueSpec == QueueInit /\ [][QueueNext]_queueVars
=============================================================================
