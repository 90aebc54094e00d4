------------------------------ MODULE Manager ------------------------------
(***************************************************************************)
(* CManager from init to the end of reset: the main thread, the pool       *)
(* threads that run AsioServiceWork, and the flag and condition variable   *)
(* by which reset means to wait for them before it erases the actors.      *)
(* ConsoleSession says what the handlers do and how quit is given.         *)
(***************************************************************************)
EXTENDS Naturals, FiniteSets

CONSTANTS Io,          \* the two units of work init submits
          MaxHandlers  \* bound: the handlers the io threads run

ASSUME ManagerAssumption == MaxHandlers \in Nat /\ IsFiniteSet(Io)

VARIABLES
  main,       \* where the main thread is, in init and then in reset
  ioThread,   \* where each unit of AsioServiceWork is
  ioFlag,     \* m_ioFlag
  ioStopped,  \* m_ioService.stopped()
  stopFlag,   \* m_stopFlag
  blocked,    \* "stop" or "io": the condition variable main sleeps on, or "no"
  actors,     \* "none", "up", "erased"
  ioService,  \* m_ioService is "alive" or "destroyed"
  logRecords, \* the logger's m_logRecords is not empty
  handlers,   \* history: handlers started
  crashed,    \* history: units whose run was left by an exception
  firstOut,   \* history: a unit had ended and another had not when reset began to erase
  unraised,   \* history: a unit had not raised m_ioFlag when reset looked at it
  misuse      \* history: "actor", "service": what was used after it was gone

vars == <<main, ioThread, ioFlag, ioStopped, stopFlag, blocked, actors, ioService, logRecords,
          handlers, crashed, firstOut, unraised, misuse>>
ghosts == <<handlers, crashed, firstOut, unraised, misuse>>

Init ==
  /\ main = "submit" /\ ioThread = [t \in Io |-> "absent"]
  /\ ioFlag = FALSE /\ ioStopped = FALSE /\ stopFlag = FALSE /\ blocked = "no"
  /\ actors = "none" /\ ioService = "alive" /\ logRecords = TRUE
  /\ handlers = 0 /\ crashed = {} /\ firstOut = FALSE /\ unraised = FALSE /\ misuse = {}

\* The program is over, or hangs in its last step.
Over == main \in {"done", "hung"}

MainGoes(from, to) == main = from /\ blocked = "no" /\ main' = to
-----------------------------------------------------------------------------
(* init *)

SubmitUnits ==
  /\ MainGoes("submit", "runActors")
  /\ ioThread' = [t \in Io |-> "queued"]
  /\ UNCHANGED <<ioFlag, ioStopped, stopFlag, blocked, actors, ioService, logRecords, ghosts>>

RunActors ==
  /\ MainGoes("runActors", "waitStop")
  /\ actors' = "up"
  /\ UNCHANGED <<ioThread, ioFlag, ioStopped, stopFlag, blocked, ioService, logRecords, ghosts>>

\* m_stopCond.wait with its predicate, under m_stopMtx.
WaitStop ==
  /\ main = "waitStop" /\ blocked = "no"
  /\ IF stopFlag THEN main' = "stopIo" /\ UNCHANGED blocked
     ELSE blocked' = "stop" /\ UNCHANGED main
  /\ UNCHANGED <<ioThread, ioFlag, ioStopped, stopFlag, actors, ioService, logRecords, ghosts>>
-----------------------------------------------------------------------------
(* AsioServiceWork *)

\* A notice of its own is pushed to the logger.
Logs == logRecords' = TRUE

Moves(t, from, to) == ioThread[t] = from /\ ioThread' = [ioThread EXCEPT ![t] = to]

\* m_ioFlag = true, without the mutex.
UnitStarts(t) ==
  /\ ~Over /\ Moves(t, "queued", "raised")
  /\ ioFlag' = TRUE /\ Logs
  /\ UNCHANGED <<main, ioStopped, stopFlag, blocked, actors, ioService, ghosts>>

\* run: a stopped service is left at once.
UnitRuns(t) ==
  /\ Moves(t, "raised", IF ioStopped THEN "leaving" ELSE "running")
  /\ misuse' = misuse \cup (IF ioService = "destroyed" THEN {"service"} ELSE {})
  /\ UNCHANGED <<main, ioFlag, ioStopped, stopFlag, blocked, actors, ioService, logRecords,
                 handlers, crashed, firstOut, unraised>>

HandlerStarts(t) ==
  /\ ~ioStopped /\ handlers < MaxHandlers /\ actors # "none"
  /\ Moves(t, "running", "busy")
  /\ handlers' = handlers + 1
  /\ UNCHANGED <<main, ioFlag, ioStopped, stopFlag, blocked, actors, ioService, logRecords,
                 crashed, firstOut, unraised, misuse>>

Touches == misuse' = misuse \cup (IF actors = "erased" THEN {"actor"} ELSE {})
                            \cup (IF ioService = "destroyed" THEN {"service"} ELSE {})

\* A handler works on actors and arms its next operation.
HandlerEnds(t) ==
  /\ Moves(t, "busy", "running")
  /\ Touches /\ Logs
  /\ UNCHANGED <<main, ioFlag, ioStopped, stopFlag, blocked, actors, ioService,
                 handlers, crashed, firstOut, unraised>>

\* An exception that leaves the handler leaves run.
HandlerThrows(t) ==
  /\ Moves(t, "busy", "leaving")
  /\ Touches /\ Logs
  /\ crashed' = crashed \cup {t}
  /\ UNCHANGED <<main, ioFlag, ioStopped, stopFlag, blocked, actors, ioService,
                 handlers, firstOut, unraised>>

\* Faulty variant: the flag is raised without waking the main thread.
StaysAsleep == blocked

Woken == IF blocked = "stop" THEN "no" ELSE blocked

\* CManager::Stop, called by the manager adaptor from a handler.
Quit(t) ==
  /\ ioThread[t] = "busy"
  /\ stopFlag' = TRUE
  /\ blocked' = Woken
  /\ UNCHANGED <<main, ioThread, ioFlag, ioStopped, actors, ioService, logRecords, ghosts>>

UnitLeaves(t) ==
  /\ ioStopped
  /\ Moves(t, "running", "leaving")
  /\ UNCHANGED <<main, ioFlag, ioStopped, stopFlag, blocked, actors, ioService, logRecords, ghosts>>

\* Under m_ioMtx: m_ioFlag = false and notify_one.
UnitEnds(t) ==
  /\ Moves(t, "leaving", "ended")
  /\ ioFlag' = FALSE /\ Logs
  /\ blocked' = IF blocked = "io" THEN "no" ELSE blocked
  /\ misuse' = misuse \cup (IF ioService = "destroyed" THEN {"service"} ELSE {})
  /\ UNCHANGED <<main, ioStopped, stopFlag, actors, ioService, handlers, crashed, firstOut, unraised>>
-----------------------------------------------------------------------------
(* reset *)

\* m_ioService.stopped() does not hold: nobody else stops it, and a read, an accept or a
\* thread in run keeps it from running out of work.
StopIo ==
  /\ MainGoes("stopIo", "waitIo")
  /\ ioStopped' = TRUE
  /\ UNCHANGED <<ioThread, ioFlag, stopFlag, blocked, actors, ioService, logRecords, ghosts>>

\* A unit is between raising the flag and lowering it.
Inside(t) == ioThread[t] \in {"raised", "running", "busy", "leaving"}

\* Faulty variant: the flag is not looked at.
WaitsNever == FALSE

Waits == ioFlag

\* while (m_ioFlag) m_ioCond.wait, under m_ioMtx.
WaitIo ==
  /\ main = "waitIo" /\ blocked = "no"
  /\ IF Waits THEN blocked' = "io" /\ UNCHANGED <<main, firstOut, unraised>>
     ELSE /\ main' = "erase"
          /\ firstOut' = (\E t, u \in Io : ioThread[t] = "ended" /\ Inside(u))
          /\ unraised' = (\E t \in Io : ioThread[t] = "queued")
          /\ UNCHANGED blocked
  /\ UNCHANGED <<ioThread, ioFlag, ioStopped, stopFlag, actors, ioService, logRecords, handlers, crashed, misuse>>

\* Every actor is stopped, the map is cleared and a notice logged.
EraseActors ==
  /\ MainGoes("erase", "stopLogger")
  /\ actors' = "erased" /\ Logs
  /\ UNCHANGED <<ioThread, ioFlag, ioStopped, stopFlag, blocked, ioService, ghosts>>

\* The Stop of an actor throws: CTcpServerChild::Stop, whose peer has reset. The exception
\* leaves reset, and main catches it.
ActorStopThrows ==
  /\ MainGoes("erase", "exit")
  /\ UNCHANGED <<ioThread, ioFlag, ioStopped, stopFlag, blocked, actors, ioService, logRecords, ghosts>>

\* The static s_Manager is destroyed at exit: its actors go first, and nobody has waited
\* for the logger.
ExitDestroysActors ==
  /\ MainGoes("exit", "destroyIo")
  /\ actors' = "erased"
  /\ UNCHANGED <<ioThread, ioFlag, ioStopped, stopFlag, blocked, ioService, logRecords, ghosts>>

\* CLogger::Stop polls until m_logRecords is empty.
StopLogger ==
  /\ ~logRecords
  /\ MainGoes("stopLogger", "destroyIo")
  /\ UNCHANGED <<ioThread, ioFlag, ioStopped, stopFlag, blocked, actors, ioService, logRecords, ghosts>>

\* The logger's timer empties m_logRecords (Logger); before Stop polls, it is of no
\* consequence here.
LoggerTakes ==
  /\ main = "stopLogger" /\ logRecords
  /\ logRecords' = FALSE
  /\ UNCHANGED <<main, ioThread, ioFlag, ioStopped, stopFlag, blocked, actors, ioService, ghosts>>

\* s_Manager.reset(): members go in reverse order, m_ioService before m_tp, which
\* joins the threads.
DestroyIoService ==
  /\ MainGoes("destroyIo", "destroyPool")
  /\ ioService' = "destroyed"
  /\ UNCHANGED <<ioThread, ioFlag, ioStopped, stopFlag, blocked, actors, logRecords, ghosts>>

\* Units still in the queue of the pool are never started (ThreadPool!Loop).
DestroyPool ==
  /\ MainGoes("destroyPool", "done")
  /\ \A t \in Io : ioThread[t] \in {"queued", "ended"}
  /\ UNCHANGED <<ioThread, ioFlag, ioStopped, stopFlag, blocked, actors, ioService, logRecords, ghosts>>

\* tp_stop is set without the mutex: a thread that is about to wait misses it, and the
\* destructor joins it for ever (ThreadPool!StopCompletesUnlessRaced).
PoolHangs ==
  /\ MainGoes("destroyPool", "hung")
  /\ UNCHANGED <<ioThread, ioFlag, ioStopped, stopFlag, blocked, actors, ioService, logRecords, ghosts>>

MainStep ==
  \/ SubmitUnits \/ RunActors \/ WaitStop \/ StopIo \/ WaitIo
  \/ EraseActors \/ ActorStopThrows \/ ExitDestroysActors \/ StopLogger
  \/ DestroyIoService \/ DestroyPool \/ PoolHangs
UnitStep(t) == UnitStarts(t) \/ UnitRuns(t) \/ UnitLeaves(t) \/ UnitEnds(t)
-----------------------------------------------------------------------------
TypeOK ==
  /\ main \in {"submit", "runActors", "waitStop", "stopIo", "waitIo", "erase", "exit",
               "stopLogger", "destroyIo", "destroyPool", "done", "hung"}
  /\ ioThread \in [Io -> {"absent", "queued", "raised", "running", "busy", "leaving", "ended"}]
  /\ {ioFlag, ioStopped, stopFlag, logRecords} \subseteq BOOLEAN
  /\ blocked \in {"no", "stop", "io"} /\ actors \in {"none", "up", "erased"}
  /\ ioService \in {"alive", "destroyed"} /\ handlers \in 0 .. MaxHandlers
  /\ misuse \subseteq {"actor", "service"}
  /\ blocked = "stop" => main = "waitStop"
  /\ blocked = "io" => main = "waitIo"

\* The main thread does not sleep on a condition that is already met: neither the
\* quit command nor the end of an io thread can be missed.
NoMissedWakeup ==
  /\ blocked = "stop" => ~stopFlag
  /\ blocked = "io" => (ioFlag \/ \E t \in Io : Inside(t))

\* A handler outlives the actors only when another unit cleared the shared flag
\* under it, or it had not raised the flag yet: with one unit that runs, reset is safe.
LateUseNeedsSharedFlag == misuse # {} => (firstOut \/ unraised)
=============================================================================
