--------------------------- MODULE ConsoleSession ---------------------------
(***************************************************************************)
(* The program as its operator sees it: the manager, whose io threads run  *)
(* the handlers of the console and of a TCP client, and the command line   *)
(* those handlers fill; QUIT goes from the terminal through an io thread   *)
(* to the main thread and back to the io threads it waits for.             *)
(***************************************************************************)
EXTENDS Manager, Sequences

CONSTANTS MaxLines, Chunks, MaxChunks, \* of Commands
          Spare                        \* bound: handlers that are about something else

VARIABLES typed, ended, taken, reading, open, thread, inBuffer, chunks, extra, raced, mixed, received, gone

lines == <<typed, ended, taken, reading, open, thread, inBuffer, chunks, extra, raced, mixed, received, gone>>
session == <<vars, lines>>

Cmd == INSTANCE Commands WITH Threads <- Io

ASSUME SessionAssumption ==
  /\ MaxLines \in Nat /\ MaxChunks \in Nat /\ \A c \in Chunks : c \in Seq(Cmd!Tokens)
  /\ Spare \in Nat /\ MaxLines + MaxChunks + Spare + 1 <= MaxHandlers

SessionInit == Init /\ Cmd!Init

\* The main thread, the units of work and the logger do not look at the lines.
ManagerStep == MainStep /\ UNCHANGED lines
ThreadOfManager(t) == UnitStep(t) /\ UNCHANGED lines
LoggerServed == LoggerTakes /\ UNCHANGED lines

\* The operator.
Operator == (Cmd!Type \/ Cmd!EndOfInput) /\ UNCHANGED vars

\* An io thread runs a handler of the console or of the client.
TakesLine(t) == HandlerStarts(t) /\ Cmd!ReadHandler(t)
ConsoleEnds(t) == HandlerStarts(t) /\ Cmd!ReadFails(t)
ChunkComes(t) == HandlerStarts(t) /\ Cmd!ChunkArrives(t)

\* Handlers that bring no message, among them the read of a line that is too long.
SpareLeft == handlers < taken + chunks + Spare
OtherHandler(t) == SpareLeft /\ HandlerStarts(t) /\ UNCHANGED lines
Deaf(t) == SpareLeft /\ HandlerStarts(t) /\ Cmd!LineTooLong(t)

\* In the handler: the read is armed again, the adaptor is called.
ReadsOn(t) == Cmd!Start(t) /\ UNCHANGED vars
InAdaptor(t) == Cmd!AdaptorStep(t) /\ UNCHANGED vars
Obeys(t) ==
  /\ Cmd!ObeyLine(t)
  /\ IF Cmd!IsQuit(thread[t].line) THEN Quit(t) ELSE UNCHANGED vars

\* A handler ends, or an exception of something else it calls ends its thread.
Done(t) == thread[t] = Cmd!Idle /\ HandlerEnds(t) /\ UNCHANGED lines
Fails(t) == thread[t] = Cmd!Idle /\ HandlerThrows(t) /\ UNCHANGED lines

Runs(t) ==
  \/ TakesLine(t) \/ ConsoleEnds(t) \/ ReadsOn(t) \/ InAdaptor(t) \/ Obeys(t) \/ Done(t) \/ ThreadOfManager(t)

SessionNext ==
  \/ ManagerStep \/ LoggerServed \/ Operator
  \/ \E t \in Io : \/ TakesLine(t) \/ ConsoleEnds(t) \/ ChunkComes(t) \/ OtherHandler(t) \/ Deaf(t)
                   \/ ReadsOn(t) \/ InAdaptor(t) \/ Obeys(t) \/ Done(t) \/ Fails(t) \/ ThreadOfManager(t)

SessionSpec == SessionInit /\ [][SessionNext]_session

\* The main thread runs, the timer of the pool serves the logger, and an io thread that has
\* a line to read or a handler to finish runs; nobody has to type or to throw.
FairSession ==
  SessionSpec /\ WF_session(ManagerStep) /\ WF_session(LoggerServed) /\ \A t \in Io : WF_session(Runs(t))
-----------------------------------------------------------------------------
SessionTypeOK == TypeOK /\ Cmd!TypeOK

\* A whole line waits in the adaptor only when some message brought more than one: the
\* lines of a console, one to a message, are all obeyed as they come.
WaitsOnlyBehindLines == Cardinality(Cmd!LineEnds(inBuffer)) <= extra

\* No text is lost between the sources and the obeyed lines, or comes twice or in another
\* order: what was taken out, with what is still there, is what was received.
TextKept == gone \o inBuffer = received

\* What is obeyed is one line, whole, and its end.
OneLineObeyed ==
  \A t \in Io : thread[t].at = "obey" => Cmd!LineEnds(thread[t].line) = {Len(thread[t].line)}

\* A quit that is typed before anything that is too long ends the program, whichever
\* io threads exceptions have ended, as long as one is left; a client may keep it waiting
\* with several lines at once, tear it by sending at the same time, or have left an
\* unfinished line that it becomes the end of.
QuitEndsProgram ==
  \A i \in 1 .. MaxLines :
    (i <= Len(typed) /\ typed[i] = "quit" /\ \A j \in 1 .. i : typed[j] # "long")
      ~> (Over \/ crashed = Io \/ extra > 0 \/ raced \/ mixed)

\* Once quit is given, init returns and the process comes to its end or to the destructor
\* of the pool that hangs, although an io thread may still be inside a handler, and also
\* when the Stop of an actor throws out of reset: main catches it and leaves the rest to
\* the static destructors.
StopEndsProgram == stopFlag ~> Over

\* The line buffer of the manager adaptor, as long as no two threads are in it at once:
\* every line is obeyed whole and by itself, no text is lost, and a whole line waits only
\* behind others of its message.
CommandLines ==
  SessionTypeOK /\ (~raced => WaitsOnlyBehindLines /\ TextKept /\ OneLineObeyed)

\* The operator can end the program: a quit that is typed is obeyed, and a quit that
\* is obeyed, whoever sent it, ends init and all of reset but the pool's destructor.
CommandsEndProgram == QuitEndsProgram /\ StopEndsProgram
=============================================================================
