----------------------------- MODULE LogClient -----------------------------
(***************************************************************************)
(* CLogClient, the library a logging program links: any thread pushes      *)
(* packages, one write at a time goes to the server, and its thread starts *)
(* the next one.  The constructor connects, Stop waits for the queue and   *)
(* closes.                                                                 *)
(***************************************************************************)
EXTENDS Naturals, Sequences, FiniteSets

CONSTANTS Pushers,  \* threads that log
          MaxPush,  \* bound: packages of each
          Retry,    \* the option "retry"
          Big,      \* packages whose SNAC is longer than a uint16_t
          MayFail   \* TRUE: the network may fail

ASSUME LogClientAssumption ==
  /\ MaxPush \in Nat /\ Retry \in Nat /\ MayFail \in BOOLEAN
  /\ "main" \notin Pushers /\ Big \subseteq Pushers \X (1 .. MaxPush)

VARIABLES
  main,     \* where the constructor, and later Stop, is; "threw": Stop threw
  tries,    \* retryNumber - 1
  mode,     \* m_loggingMode: "server" or "none"
  stopping, \* m_stopInProgress
  queue,    \* m_queue
  writing,  \* m_writeInProgress
  current,  \* the message of m_currentMessage
  wire,     \* the outstanding async_write: "none", "going", "sent", "failed"
  socket,   \* "closed", "open", or "broken": not, or no longer, connected
  io,       \* the client's thread: "run", "next" (in WriteHandler), "ended"
  pc,       \* where each caller of Push is
  pushed,   \* how many packages each caller has logged
  sent,     \* history: packages the server received
  printed,  \* packages written to the console instead
  lost,     \* history: packages whose FLAP could not be built
  overlap,  \* history: m_currentMessage was replaced during a write
  dead      \* std::terminate has ended the program

control == <<main, tries, mode, stopping>>
writer == <<writing, current, wire>>
vars == <<control, queue, writer, socket, io, pc, pushed, sent, printed, lost, overlap, dead>>

Callers == Pushers \cup {"main"}
NewFile == <<"main", 1>>
StopFile == <<"main", 2>>
Packages == Pushers \X (1 .. MaxPush) \cup {NewFile, StopFile}
Nothing == <<"none", 0>>

Init ==
  /\ main = "connect" /\ tries = 0 /\ mode = "none" /\ stopping = FALSE
  /\ queue = <<>> /\ writing = FALSE /\ current = Nothing /\ wire = "none"
  /\ socket = "closed" /\ io = "run"
  /\ pc = [x \in Callers |-> "idle"] /\ pushed = [x \in Callers |-> 0]
  /\ sent = <<>> /\ printed = {} /\ lost = {} /\ overlap = FALSE /\ dead = FALSE

Alive == ~dead
-----------------------------------------------------------------------------
(* Push and WriteNextMessage *)

\* The mode and the flag are read before the queue is entered.
PushBy(x, p) ==
  /\ pc[x] = "idle"
  /\ IF mode = "server" /\ ~stopping
     THEN pc' = [pc EXCEPT ![x] = "enqueue"] /\ UNCHANGED printed
     ELSE /\ printed' = IF mode = "none" THEN printed \cup {p} ELSE printed
          /\ UNCHANGED pc
  /\ pushed' = [pushed EXCEPT ![x] = @ + 1]

\* A program logs when the constructor is through.
Push(x) ==
  /\ Alive /\ pushed[x] < MaxPush
  /\ main \in {"up", "flag", "wait", "close", "join", "done", "threw"}
  /\ PushBy(x, <<x, pushed[x] + 1>>)
  /\ UNCHANGED <<control, queue, writer, socket, io, sent, lost, overlap, dead>>

\* Faulty variant: the queue is used as a stack.
QueuedFirst(p) == <<p>> \o queue

Queued(p) == Append(queue, p)

Enqueue(x) ==
  /\ Alive /\ pc[x] = "enqueue"
  /\ queue' = Queued(<<x, pushed[x]>>)
  /\ pc' = [pc EXCEPT ![x] = "write"]
  /\ UNCHANGED <<control, writer, socket, io, pushed, sent, printed, lost, overlap, dead>>

\* Faulty variant: a write is started whether or not one is going on.
MayWriteAlways == queue # <<>>

MayWrite == ~writing /\ queue # <<>>

\* Faulty variant: the flag is not raised.
FlagForgotten == UNCHANGED writing

FlagUp == writing' = TRUE

\* Under m_mutex: nothing while a write is going on, or the first of the queue. The
\* flag is up before the package is built, which throws when it is too big.
WriteNext ==
  IF MayWrite
  THEN /\ queue' = Tail(queue)
       /\ FlagUp
       /\ IF Head(queue) \in Big
          THEN lost' = lost \cup {Head(queue)} /\ UNCHANGED <<current, wire, overlap>>
          ELSE /\ current' = Head(queue)
               /\ wire' = IF socket = "open" THEN "going" ELSE "failed"
               /\ overlap' = (overlap \/ wire # "none")
               /\ UNCHANGED lost
  ELSE UNCHANGED <<queue, writer, lost, overlap>>

\* The exception, if any, ends in the destructor of the caller's message builder; main
\* has none in CloseLogFile, and leaves Stop.
PushWrites(x) ==
  /\ Alive /\ pc[x] = "write"
  /\ WriteNext
  /\ pc' = [pc EXCEPT ![x] = "idle"]
  /\ main' = IF x = "main" /\ lost' # lost THEN "threw" ELSE main
  /\ UNCHANGED <<tries, mode, stopping, socket, io, pushed, sent, printed, dead>>
-----------------------------------------------------------------------------
(* The network and the client's thread *)

SocketTakes ==
  /\ Alive /\ wire = "going" /\ socket = "open"
  /\ wire' = "sent" /\ sent' = Append(sent, current)
  /\ UNCHANGED <<control, queue, writing, current, socket, io, pc, pushed, printed, lost, overlap, dead>>

\* The peer resets the connection, between two writes or during one.
PeerResets ==
  /\ Alive /\ MayFail /\ socket = "open"
  /\ socket' = "broken"
  /\ wire' = IF wire = "going" THEN "failed" ELSE wire
  /\ UNCHANGED <<control, queue, writing, current, io, pc, pushed, sent, printed, lost, overlap, dead>>

\* Faulty variants: the flag stays up; the queue is left to the next Push.
FlagStays == UNCHANGED writing
HandlerRests == "run"

FlagDown == writing' = FALSE
HandlerGoesOn == "next"

\* WriteHandler without an error: the flag goes down, under m_mutex.
HandlerOk ==
  /\ Alive /\ io = "run" /\ wire = "sent"
  /\ wire' = "none" /\ FlagDown /\ io' = HandlerGoesOn
  /\ UNCHANGED <<control, queue, current, socket, pc, pushed, sent, printed, lost, overlap, dead>>

\* WriteNextMessage of the handler; an exception leaves the thread function.
HandlerWrites ==
  /\ Alive /\ io = "next"
  /\ WriteNext
  /\ dead' = (lost' # lost)
  /\ io' = "run"
  /\ UNCHANGED <<control, socket, pc, pushed, sent, printed>>

\* WriteHandler with an error: the flag stays up.
HandlerError ==
  /\ Alive /\ io = "run" /\ wire = "failed"
  /\ wire' = "none" /\ mode' = "none"
  /\ UNCHANGED <<main, tries, stopping, queue, writing, current, socket, io, pc, pushed, sent, printed, lost, overlap, dead>>
-----------------------------------------------------------------------------
(* The constructor *)

MainGoes(from, to) == Alive /\ main = from /\ main' = to

ConnectWorks ==
  /\ MainGoes("connect", "newFile")
  /\ tries' = tries + 1 /\ socket' = "open" /\ mode' = "server"
  /\ UNCHANGED <<stopping, queue, writer, io, pc, pushed, sent, printed, lost, overlap, dead>>

\* At least one attempt, at most Retry. The socket stays open unless it could not even
\* be opened.
ConnectFails ==
  /\ MayFail
  /\ MainGoes("connect", IF tries + 1 < Retry THEN "connect" ELSE "unconnected")
  /\ tries' = tries + 1
  /\ socket' \in {"broken", "closed"}
  /\ UNCHANGED <<mode, stopping, queue, writer, io, pc, pushed, sent, printed, lost, overlap, dead>>

\* resolve throws out of the constructor, and m_thread is destroyed while joinable.
ResolveThrows ==
  /\ Alive /\ MayFail /\ main = "connect"
  /\ dead' = TRUE
  /\ UNCHANGED <<control, queue, writer, socket, io, pc, pushed, sent, printed, lost, overlap>>

OpenNewLogFile ==
  /\ MainGoes("newFile", "pushing")
  /\ PushBy("main", NewFile)
  /\ UNCHANGED <<tries, mode, stopping, queue, writer, socket, io, sent, lost, overlap, dead>>

\* The end of the constructor; a program of the internal channel opens no file.
Constructed ==
  /\ pc["main"] = "idle"
  /\ MainGoes("pushing", "up") \/ MainGoes("newFile", "up")
  /\ pushed' = [pushed EXCEPT !["main"] = 1]
  /\ UNCHANGED <<tries, mode, stopping, queue, writer, socket, io, pc, sent, printed, lost, overlap, dead>>

\* A program may set the mode itself.
LoggingMode ==
  /\ Alive /\ main = "up" /\ mode' = "server"
  /\ UNCHANGED <<main, tries, stopping, queue, writer, socket, io, pc, pushed, sent, printed, lost, overlap, dead>>
-----------------------------------------------------------------------------
(* Stop, of the program or of a constructor that could not connect *)

CloseLogFile ==
  /\ MainGoes("up", "flag") \/ MainGoes("unconnected", "flagFailed")
  /\ PushBy("main", StopFile)
  /\ UNCHANGED <<tries, mode, stopping, queue, writer, socket, io, sent, lost, overlap, dead>>

RaiseStop ==
  /\ pc["main"] = "idle"
  /\ MainGoes("flag", "wait") \/ MainGoes("flagFailed", "waitFailed")
  /\ stopping' = TRUE
  /\ UNCHANGED <<tries, mode, queue, writer, socket, io, pc, pushed, sent, printed, lost, overlap, dead>>

WaitQueueEmpty ==
  /\ queue = <<>>
  /\ MainGoes("wait", "close") \/ MainGoes("waitFailed", "closeFailed")
  /\ UNCHANGED <<tries, mode, stopping, queue, writer, socket, io, pc, pushed, sent, printed, lost, overlap, dead>>

\* An open socket is shut down and closed, which cancels its write.
CloseSocket ==
  /\ socket # "broken"
  /\ MainGoes("close", "join") \/ MainGoes("closeFailed", "joinFailed")
  /\ socket' = "closed"
  /\ wire' = IF wire = "going" THEN "failed" ELSE wire
  /\ UNCHANGED <<tries, mode, stopping, queue, writing, current, io, pc, pushed, sent, printed, lost, overlap, dead>>

\* shutdown throws on a socket that is open and not connected: the thread is not
\* joined. A constructor destroys it joinable, which ends the program.
ShutdownThrows ==
  /\ socket = "broken"
  /\ \/ MainGoes("close", "threw") /\ UNCHANGED dead
     \/ Alive /\ main = "closeFailed" /\ dead' = TRUE /\ UNCHANGED main
  /\ UNCHANGED <<tries, mode, stopping, queue, writer, socket, io, pc, pushed, sent, printed, lost, overlap>>

\* m_ioService.stop() and join: a handler that runs comes to its end.
Join ==
  /\ io = "run"
  /\ MainGoes("join", "done") \/ MainGoes("joinFailed", "failed")
  /\ io' = "ended"
  /\ UNCHANGED <<tries, mode, stopping, queue, writer, socket, pc, pushed, sent, printed, lost, overlap, dead>>

\* main caught what Stop threw and returns: s_logClientPtr destroys a joinable thread.
ProgramEnds ==
  /\ Alive /\ main = "threw"
  /\ dead' = TRUE
  /\ UNCHANGED <<control, queue, writer, socket, io, pc, pushed, sent, printed, lost, overlap>>

MainStep ==
  \/ ConnectWorks \/ ConnectFails \/ ResolveThrows \/ OpenNewLogFile \/ Constructed
  \/ RaiseStop \/ WaitQueueEmpty \/ CloseSocket \/ ShutdownThrows \/ Join

Next ==
  \/ \E x \in Pushers : Push(x)
  \/ \E x \in Callers : Enqueue(x) \/ PushWrites(x)
  \/ SocketTakes \/ PeerResets \/ HandlerOk \/ HandlerWrites \/ HandlerError
  \/ ConnectWorks \/ ConnectFails \/ ResolveThrows \/ OpenNewLogFile \/ Constructed \/ LoggingMode
  \/ CloseLogFile \/ RaiseStop \/ WaitQueueEmpty \/ CloseSocket \/ ShutdownThrows \/ Join \/ ProgramEnds

Spec == Init /\ [][Next]_vars

\* Threads run on, a peer that is there takes what is sent to it; nobody has to log.
FairSpec ==
  /\ Spec
  /\ \A x \in Callers : WF_vars(Enqueue(x) \/ PushWrites(x))
  /\ WF_vars(HandlerOk \/ HandlerWrites \/ HandlerError) /\ WF_vars(SocketTakes) /\ WF_vars(MainStep)
-----------------------------------------------------------------------------
TypeOK ==
  /\ main \in {"connect", "newFile", "pushing", "up", "flag", "wait", "close", "join", "done", "threw",
               "unconnected", "flagFailed", "waitFailed", "closeFailed", "joinFailed", "failed"}
  /\ tries \in 0 .. Retry + 1 /\ mode \in {"server", "none"} /\ stopping \in BOOLEAN
  /\ queue \in Seq(Packages) /\ sent \in Seq(Packages)
  /\ printed \subseteq Packages /\ lost \subseteq Packages
  /\ writing \in BOOLEAN /\ current \in Packages \cup {Nothing}
  /\ wire \in {"none", "going", "sent", "failed"} /\ (wire # "none" => writing)
  /\ socket \in {"open", "closed", "broken"} /\ io \in {"run", "next", "ended"}
  /\ pc \in [Callers -> {"idle", "enqueue", "write"}] /\ pushed \in [Callers -> Nat]
  /\ overlap \in BOOLEAN /\ dead \in BOOLEAN

\* One write at a time: the message the socket reads from is never replaced.
OneWriteAtATime == ~overlap

\* A package in the queue has somebody who will write it: a write is going on, whose
\* handler comes back to the queue, or a caller is about to look.
NotForgotten ==
  (queue # <<>> /\ ~writing /\ Alive) =>
    (io = "next" \/ \E x \in Callers : pc[x] = "write")

\* The package of the write in progress, before the server has it; it stays there for
\* good when the write fails.
InFlight == IF writing /\ wire # "sent" /\ lost = {} THEN <<current>> ELSE <<>>

Promise == INSTANCE PackageQueue
  WITH Package <- Packages, Unsendable <- Big, waiting <- InFlight \o queue, delivered <- sent

\* The server receives the packages in the order they entered the queue, each once,
\* and misses none in between but those that are too big, whoever calls
\* WriteNextMessage and wherever the network fails.
ImplementsQueue == Promise!QueueSpec

Broken == socket = "broken" \/ lost # {}

\* The flag is up and no write is outstanding: what waits in the queue waits for good.
Blocked == writing /\ wire = "none" /\ queue # <<>>

\* Stop comes to an end however the threads and the network interleave with it: it
\* returns with the thread joined; or, only when the connection broke, at any moment, or
\* a package could not be built, it throws, or waits behind a flag nobody lowers.
StopReturns ==
  main \in {"flag", "flagFailed"} ~>
    (main \in {"done", "failed"} \/ (Broken /\ (main = "threw" \/ dead \/ Blocked)))
=============================================================================
