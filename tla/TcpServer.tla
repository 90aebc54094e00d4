----------------------------- MODULE TcpServer -----------------------------
(***************************************************************************)
(* CTcpServerActor and the life of its clients: a connection is accepted   *)
(* on one of the io threads, the client object is put together piece by    *)
(* piece while its first read is already armed, any handler that fails     *)
(* destroys the object through m_sigEraseMe, and Stop erases what is left. *)
(* Handlers run on every thread that is inside io_service::run.            *)
(***************************************************************************)
EXTENDS Naturals, Sequences, FiniteSets

CONSTANTS Client,     \* the connections peers make
          Io,         \* the threads inside io_service::run (AsioServiceWork)
          Loads       \* bounds: which peers come, and the chunks each may send

ASSUME ServerAssumption ==
  /\ IsFiniteSet(Client) /\ IsFiniteSet(Io)
  /\ "none" \notin Client /\ {"none", "free", "stop"} \cap Io = {}
  /\ \A l \in Loads : l.peers \subseteq Client /\ l.chunks \in Nat

VARIABLES
  load,       \* the load at hand
  peer,       \* per connection: "away", "up", "left" (closed in order), "reset"
  acceptor,   \* "open" or "closed"
  accepting,  \* an async_accept is outstanding
  stage,      \* how much of the client object there is
  slots,      \* the clients connected to m_sigOutputMessage
  socket,     \* "open" or "closed"
  reading,    \* a read of the client is outstanding
  writing,    \* a write of the client is outstanding
  ready,      \* the queue of completed operations whose handlers have not started
  thread,     \* what each io thread is doing, and for which client
  lock,       \* the holder of m_mtxTcpServer
  sender,     \* the client whose slot the output signal is about to call, or "none"
  ioStopped,  \* CManager::reset has called io_service::stop
  life,       \* of the actor: "up", "stopping", "erasing", "stopped", "failed"
  chunks,     \* history: chunks the kernel has delivered to a client's read
  early,      \* history: clients whose connection was dropped before it was kept
  wrote,      \* history: clients something was written to
  destroyer,  \* history: the io thread that erased a client, or "stop"
  misuse      \* history: calls on a destroyed client, [client, how, by]

server == <<acceptor, accepting, lock, life, ioStopped>>
object == <<stage, slots, socket>>
asio == <<reading, writing, ready>>
history == <<load, chunks, early, wrote, destroyer, misuse>>
vars == <<load, peer, server, object, asio, thread, sender, history>>

Idle == [pc |-> "idle", c |-> "none"]
At(t, where) == thread[t].pc = where
Goes(t, where) == thread' = [thread EXCEPT ![t].pc = where]
Rests(t) == thread' = [thread EXCEPT ![t] = Idle]
Known(c) == stage[c] \notin {"none", "erased"}

Init ==
  /\ load \in Loads
  /\ peer = [c \in Client |-> "away"] /\ acceptor = "open" /\ accepting = TRUE
  /\ stage = [c \in Client |-> "none"] /\ slots = {}
  /\ socket = [c \in Client |-> "open"]
  /\ reading = [c \in Client |-> FALSE] /\ writing = [c \in Client |-> FALSE]
  /\ ready = <<>> /\ thread = [t \in Io |-> Idle] /\ lock = "free" /\ sender = "none"
  /\ ioStopped = FALSE /\ life = "up"
  /\ chunks = [c \in Client |-> 0]
  /\ early = {} /\ wrote = {} /\ destroyer = [c \in Client |-> "none"] /\ misuse = {}
-----------------------------------------------------------------------------
(* Peers and the kernel. *)

PeerConnects(c) ==
  /\ peer[c] = "away" /\ c \in load.peers
  /\ peer' = [peer EXCEPT ![c] = "up"]
  /\ UNCHANGED <<server, object, asio, thread, sender, history>>

PeerEnds(c) ==
  /\ peer[c] = "up"
  /\ \E how \in {"left", "reset"} : peer' = [peer EXCEPT ![c] = how]
  /\ UNCHANGED <<server, object, asio, thread, sender, history>>

Event(k, c) == [kind |-> k, c |-> c]
Queued(kinds, c) == \E i \in DOMAIN ready : ready[i].kind \in kinds /\ ready[i].c = c

AcceptCompletes(c) ==
  /\ accepting /\ acceptor = "open" /\ peer[c] # "away" /\ stage[c] = "none"
  /\ ~Queued({"accept"}, c) /\ \A t \in Io : thread[t].c # c
  /\ accepting' = FALSE
  /\ ready' = Append(ready, Event("accept", c))
  /\ UNCHANGED <<peer, acceptor, lock, life, ioStopped, object, reading, writing, thread, sender, history>>

\* The accept is aborted, or fails for want of a resource.
AcceptFails ==
  /\ accepting
  /\ accepting' = FALSE
  /\ ready' = Append(ready, Event("acceptError", "none"))
  /\ UNCHANGED <<peer, acceptor, lock, life, ioStopped, object, reading, writing, thread, sender, history>>

ReadCompletes(c) ==
  /\ reading[c]
  /\ reading' = [reading EXCEPT ![c] = FALSE]
  /\ \/ /\ chunks[c] < load.chunks /\ peer[c] # "reset" /\ socket[c] = "open"
        /\ chunks' = [chunks EXCEPT ![c] = @ + 1]
        /\ ready' = Append(ready, Event("read", c))
     \/ /\ peer[c] \in {"left", "reset"} \/ socket[c] = "closed"
        /\ ready' = Append(ready, Event("readError", c))
        /\ UNCHANGED chunks
  /\ UNCHANGED <<peer, server, object, writing, thread, sender, load, early, wrote, destroyer, misuse>>

WriteCompletes(c) ==
  /\ writing[c]
  /\ writing' = [writing EXCEPT ![c] = FALSE]
  /\ ready' = Append(ready, Event(IF peer[c] = "reset" \/ socket[c] = "closed"
                                THEN "writeError" ELSE "write", c))
  /\ UNCHANGED <<peer, server, object, reading, thread, sender, history>>
-----------------------------------------------------------------------------
(* AcceptHandler. *)

\* An idle io thread takes the oldest handler, unless the service is stopped.
Starts(t, kinds) ==
  /\ At(t, "idle") /\ ~ioStopped
  /\ ready # <<>> /\ Head(ready).kind \in kinds
  /\ ready' = Tail(ready)

AcceptStarts(t) ==
  /\ Starts(t, {"accept", "acceptError"})
  /\ LET e == Head(ready)
     IN thread' = [thread EXCEPT ![t] =
                     [pc |-> IF e.kind = "accept" THEN "emplace" ELSE "rearm", c |-> e.c]]
  /\ UNCHANGED <<peer, server, object, reading, writing, sender, history>>

\* Under the mutex the object is created; its constructor arms the first read.
AcceptEmplace(t) ==
  /\ At(t, "emplace") /\ lock = "free"
  /\ lock' = t
  /\ stage' = [stage EXCEPT ![thread[t].c] = "created"]
  /\ reading' = [reading EXCEPT ![thread[t].c] = TRUE]
  /\ Goes(t, "connectErase")
  /\ UNCHANGED <<peer, acceptor, accepting, life, ioStopped, slots, socket, writing, ready, sender, history>>

\* client.m_sigEraseMe.connect(EraseClient)
AcceptConnectErase(t) ==
  /\ At(t, "connectErase")
  /\ stage' = [stage EXCEPT ![thread[t].c] = "erasable"]
  /\ Goes(t, "connectOutput")
  /\ UNCHANGED <<peer, server, slots, socket, asio, sender, history>>

\* m_sigOutputMessage.connect(SendMessage) ...
AcceptConnectOutput(t) ==
  /\ At(t, "connectOutput")
  /\ stage' = [stage EXCEPT ![thread[t].c] = "linked"]
  /\ slots' = slots \cup {thread[t].c}
  /\ Goes(t, "keep")
  /\ UNCHANGED <<peer, server, socket, asio, sender, history>>

\* Faulty variant: a client that cannot be kept any more ends the handler.
AfterKeepReturns(c) == IF peer[c] = "up" THEN "rearm" ELSE "idle"

AfterKeep(c) == "rearm"

\* ... and client.m_outMsgConn is assigned; the mutex is released.
AcceptKeep(t) ==
  /\ At(t, "keep")
  /\ stage' = [stage EXCEPT ![thread[t].c] = "kept"]
  /\ lock' = "free"
  /\ Goes(t, AfterKeep(thread[t].c))
  /\ UNCHANGED <<peer, acceptor, accepting, life, ioStopped, slots, socket, asio, sender, history>>

AcceptRearm(t) ==
  /\ At(t, "rearm")
  /\ accepting' = TRUE
  /\ Rests(t)
  /\ UNCHANGED <<peer, acceptor, lock, life, ioStopped, object, asio, sender, history>>
-----------------------------------------------------------------------------
(* Handlers of a client. *)

Misused(c, how, by) == misuse' = misuse \cup {[client |-> c, how |-> how, by |-> by]}

\* ReadDataHandler without error: the next read is armed first ...
ReadStarts(t) ==
  /\ Starts(t, {"read"})
  /\ LET e == Head(ready)
     IN IF stage[e.c] = "erased"
        THEN Misused(e.c, "handler", t) /\ UNCHANGED <<thread, reading>>
        ELSE /\ reading' = [reading EXCEPT ![e.c] = TRUE]
             /\ thread' = [thread EXCEPT ![t] = [pc |-> "emit", c |-> e.c]]
             /\ UNCHANGED misuse
  /\ UNCHANGED <<peer, server, object, writing, sender, load, chunks, early, wrote, destroyer>>

\* ... and the chunk is passed to m_sigInputMessage through the object.
ReadEmits(t) ==
  /\ At(t, "emit")
  /\ LET c == thread[t].c
     IN IF stage[c] = "erased" THEN Misused(c, "emit", t) ELSE UNCHANGED misuse
  /\ Rests(t)
  /\ UNCHANGED <<peer, server, object, asio, sender, load, chunks, early, wrote, destroyer>>

\* WriteHandler without error: there is, or there is not, more to write (TcpClient).
WriteStarts(t) ==
  /\ Starts(t, {"write"})
  /\ LET c == Head(ready).c
     IN IF stage[c] = "erased" THEN Misused(c, "handler", t) /\ UNCHANGED writing
        ELSE /\ \E more \in BOOLEAN : writing' = [writing EXCEPT ![c] = more]
             /\ UNCHANGED misuse
  /\ UNCHANGED <<peer, server, object, reading, thread, sender, load, chunks, early, wrote, destroyer>>

\* A read or write that failed: DestroyMe.
DestroyStarts(t) ==
  /\ Starts(t, {"readError", "writeError"})
  /\ LET c == Head(ready).c
     IN IF stage[c] = "erased" THEN Misused(c, "handler", t) /\ UNCHANGED thread
        ELSE thread' = [thread EXCEPT ![t] = [pc |-> "disconnect", c |-> c]] /\ UNCHANGED misuse
  /\ UNCHANGED <<peer, server, object, reading, writing, sender, load, chunks, early, wrote, destroyer>>

\* Faulty variant: the output connection is left alone.
StillConnected(c) == slots

Disconnected(c) == slots \ {c}

\* Stop of the client: m_outMsgConn.disconnect(), which has no effect before the
\* accepting thread has assigned it ...
DestroyDisconnect(t) ==
  /\ At(t, "disconnect")
  /\ LET c == thread[t].c
     IN IF stage[c] = "erased"
        THEN Misused(c, "destroy", t) /\ Rests(t) /\ UNCHANGED <<slots, early>>
        ELSE /\ IF stage[c] = "kept" THEN slots' = Disconnected(c) /\ UNCHANGED early
                ELSE early' = early \cup {c} /\ UNCHANGED slots
             /\ Goes(t, "shutdown")
             /\ UNCHANGED misuse
  /\ UNCHANGED <<peer, server, stage, socket, asio, sender, load, chunks, wrote, destroyer>>

\* shutdown throws on a socket that is closed or that the peer has reset.
Throws(c) == socket[c] = "closed" \/ peer[c] = "reset"

\* ... then shutdown, which ends the io thread when it throws, and close.
DestroyShutdown(t) ==
  /\ At(t, "shutdown")
  /\ LET c == thread[t].c
     IN CASE stage[c] = "erased" -> Misused(c, "destroy", t) /\ Rests(t) /\ UNCHANGED socket
          [] stage[c] # "erased" /\ Throws(c) ->
               Goes(t, "crashed") /\ UNCHANGED <<socket, misuse>>
          [] OTHER -> /\ socket' = [socket EXCEPT ![c] = "closed"]
                      /\ Goes(t, "signal")
                      /\ UNCHANGED misuse
  /\ UNCHANGED <<peer, server, stage, slots, asio, sender, load, chunks, early, wrote, destroyer>>

\* m_sigEraseMe(m_id): nobody listens before the accepting thread has connected it.
DestroySignal(t) ==
  /\ At(t, "signal")
  /\ LET c == thread[t].c
     IN CASE stage[c] = "erased" -> Misused(c, "destroy", t) /\ Rests(t)
          [] stage[c] = "created" -> Rests(t) /\ UNCHANGED misuse
          [] OTHER -> Goes(t, "erase") /\ UNCHANGED misuse
  /\ UNCHANGED <<peer, server, object, asio, sender, load, chunks, early, wrote, destroyer>>

\* Faulty variant: the list is changed without m_mtxTcpServer.
ListAnyhow == TRUE

ListFree == lock = "free"

\* EraseClient looks the id up under the mutex and destroys the object it finds.
EraseClient(t) ==
  /\ At(t, "erase") /\ ListFree
  /\ LET c == thread[t].c
     IN /\ stage' = [stage EXCEPT ![c] = "erased"]
        /\ destroyer' = [destroyer EXCEPT ![c] = IF stage[c] = "erased" THEN @ ELSE t]
  /\ Rests(t)
  /\ UNCHANGED <<peer, server, slots, socket, asio, sender, load, chunks, early, wrote, misuse>>
-----------------------------------------------------------------------------
(* The output signal on some other thread. *)

\* The signal finds a connected slot ...
EmitPicks(c) ==
  /\ sender = "none" /\ c \in slots
  /\ sender' = c
  /\ UNCHANGED <<peer, server, object, asio, thread, history>>

\* ... and calls SendMessage, whether or not the slot is still connected.
EmitCalls ==
  /\ sender # "none"
  /\ sender' = "none"
  /\ wrote' = wrote \cup {sender}
  /\ IF stage[sender] = "erased"
     THEN Misused(sender, IF sender \in slots THEN "slot" ELSE "call", "sender") /\ UNCHANGED writing
     ELSE /\ writing' = [writing EXCEPT ![sender] = @ \/ ~Queued({"write", "writeError"}, sender)]
          /\ UNCHANGED misuse
  /\ UNCHANGED <<peer, server, object, reading, ready, thread, load, chunks, early, destroyer>>
-----------------------------------------------------------------------------
(* Stopping. *)

IoStop ==
  /\ ~ioStopped
  /\ ioStopped' = TRUE
  /\ UNCHANGED <<peer, acceptor, accepting, lock, life, object, asio, thread, sender, history>>

IoThreadEnds(t) ==
  /\ ioStopped /\ At(t, "idle")
  /\ Goes(t, "ended")
  /\ UNCHANGED <<peer, server, object, asio, sender, history>>

\* reset goes on when the flag the io threads share is cleared: by the first one.
StopBegins ==
  /\ life = "up" /\ ioStopped /\ \E t \in Io : thread[t].pc \in {"ended", "crashed"}
  /\ life' = "stopping"
  /\ acceptor' = "closed"
  /\ UNCHANGED <<peer, accepting, lock, ioStopped, object, asio, thread, sender, history>>

StopLocks ==
  /\ life = "stopping" /\ ListFree
  /\ life' = "erasing" /\ lock' = "stop"
  /\ UNCHANGED <<peer, acceptor, accepting, ioStopped, object, asio, thread, sender, history>>

\* Each client is stopped and erased; one whose shutdown throws ends the loop.
StopClient(c) ==
  /\ life = "erasing" /\ Known(c)
  /\ slots' = IF stage[c] = "kept" THEN slots \ {c} ELSE slots
  /\ IF Throws(c)
     THEN /\ life' = "failed" /\ lock' = "free"
          /\ UNCHANGED <<stage, socket, destroyer>>
     ELSE /\ socket' = [socket EXCEPT ![c] = "closed"]
          /\ stage' = [stage EXCEPT ![c] = "erased"]
          /\ destroyer' = [destroyer EXCEPT ![c] = "stop"]
          /\ UNCHANGED <<life, lock>>
  /\ UNCHANGED <<peer, acceptor, accepting, ioStopped, asio, thread, sender,
                 load, chunks, early, wrote, misuse>>

StopEnds ==
  /\ life = "erasing" /\ \A c \in Client : ~Known(c)
  /\ life' = "stopped" /\ lock' = "free"
  /\ slots' = {}
  /\ UNCHANGED <<peer, acceptor, accepting, ioStopped, stage, socket, asio, thread, sender, history>>

Next ==
  \/ \E c \in Client : \/ PeerConnects(c) \/ PeerEnds(c) \/ AcceptCompletes(c)
                       \/ ReadCompletes(c) \/ WriteCompletes(c)
                       \/ EmitPicks(c) \/ StopClient(c)
  \/ \E t \in Io : \/ AcceptStarts(t) \/ ReadStarts(t) \/ WriteStarts(t) \/ DestroyStarts(t)
                   \/ AcceptEmplace(t) \/ AcceptConnectErase(t) \/ AcceptConnectOutput(t)
                   \/ AcceptKeep(t) \/ AcceptRearm(t) \/ ReadEmits(t)
                   \/ DestroyDisconnect(t) \/ DestroyShutdown(t) \/ DestroySignal(t)
                   \/ EraseClient(t) \/ IoThreadEnds(t)
  \/ AcceptFails \/ EmitCalls \/ IoStop \/ StopBegins \/ StopLocks \/ StopEnds

Spec == Init /\ [][Next]_vars
-----------------------------------------------------------------------------
Where == {"idle", "emplace", "connectErase", "connectOutput", "keep", "rearm", "emit",
          "disconnect", "shutdown", "signal", "erase", "crashed", "ended"}

PeerTypes ==
  /\ peer \in [Client -> {"away", "up", "left", "reset"}]
  /\ socket \in [Client -> {"open", "closed"}]

ObjectTypes ==
  /\ acceptor \in {"open", "closed"} /\ accepting \in BOOLEAN
  /\ stage \in [Client -> {"none", "created", "erasable", "linked", "kept", "erased"}]
  /\ slots \subseteq Client /\ sender \in Client \cup {"none"}

OperationTypes == reading \in [Client -> BOOLEAN] /\ writing \in [Client -> BOOLEAN]

ThreadTypes ==
  \A t \in Io : /\ thread[t].pc \in Where
                /\ thread[t].pc \in {"idle", "rearm", "ended"} \/ thread[t].c \in Client

LifeTypes ==
  /\ lock \in Io \cup {"free", "stop"}
  /\ life \in {"up", "stopping", "erasing", "stopped", "failed"} /\ ioStopped \in BOOLEAN

NoteTypes ==
  /\ load \in Loads /\ chunks \in [Client -> 0 .. load.chunks]
  /\ early \subseteq Client /\ wrote \subseteq Client
  /\ destroyer \in [Client -> Io \cup {"none", "stop"}]

TypeOK == PeerTypes /\ ObjectTypes /\ OperationTypes /\ ThreadTypes /\ LifeTypes /\ NoteTypes

\* AcceptHandler arms the next accept on every path.
AcceptArmed ==
  \/ accepting
  \/ \E i \in DOMAIN ready : ready[i].kind \in {"accept", "acceptError"}
  \/ \E t \in Io : thread[t].pc \in {"emplace", "connectErase", "connectOutput", "keep", "rearm"}

\* A failing client ends the io thread that destroys it at most once, and only if it
\* was reset, unless something was written to it.
ThreadLeft ==
  Cardinality({c \in Client : peer[c] = "reset"}) < Cardinality(Io) =>
    \E t \in Io : ~At(t, "crashed") \/ thread[t].c \in wrote

\* While the service runs and the acceptor is open, an accept is armed or about to be
\* (AcceptHandler), and an io thread is left to run its handler as long as there are
\* more of them than peers that were reset and none was lost to a client with a write:
\* each further one may end a thread through shutdown (tcpserver_child.cpp:109).
NeverDeaf == acceptor = "open" /\ ~ioStopped => AcceptArmed /\ ThreadLeft

\* A client is never destroyed under the thread that is still putting it together,
\* although its read is armed and may fail all the while (m_mtxTcpServer).
NotErasedWhileBuilt ==
  \A t \in Io : thread[t].pc \in {"connectErase", "connectOutput", "keep"}
                  => stage[thread[t].c] # "erased"

\* The output signal reaches a destroyed client through a slot that is still
\* connected only when the client's read failed before its connection was kept.
StaleSlotOnlyIfEarly ==
  \A m \in misuse : m.how = "slot" => m.client \in early

\* A peer that closes in order, and to which nothing is written, costs no io
\* thread: only a reset, or a second failing handler, makes shutdown throw.
CrashNeedsResetOrWrite ==
  \A t \in Io : At(t, "crashed") => peer[thread[t].c] = "reset" \/ thread[t].c \in wrote

\* A client in the list always has a read outstanding, the result of one in the
\* queue or a handler at work on it, so that its end is noticed and the client is
\* erased, unless its end raced with its creation or made a handler throw.
ClientAttended ==
  \A c \in Client \ early :
    Known(c) => \/ reading[c] \/ Queued({"read", "readError"}, c)
                \/ \E t \in Io : thread[t].c = c

\* A handler runs on a destroyed client only when a write was outstanding, or when
\* Stop erased the client under a handler that outlived io_service::stop: the read
\* side alone never leaves one behind (DestroyMe does not re-arm).
HandlersOutlivedByWritesOnly ==
  \A m \in misuse : m.how \in {"handler", "destroy"} =>
    m.client \in wrote \/ (m.how = "destroy" /\ ioStopped)

\* A client is used after its destruction only if its peer had ended, or if Stop was
\* what destroyed it (the emissions of both signals, and the handlers alike).
UsedAfterItsEndOnly ==
  \A m \in misuse : peer[m.client] \in {"left", "reset"} \/ destroyer[m.client] = "stop"

\* ... and an io thread that emits a chunk of the client, or destroys it, finds it gone
\* only because somebody else destroyed it meanwhile: never by its own doing.
OvertakenByAnother ==
  \A m \in misuse : m.how \in {"emit", "destroy"} => destroyer[m.client] # m.by

\* The list of clients: none is erased under the thread that builds it, and each that
\* is kept has somebody who will notice its end.
ServerInvariant == TypeOK /\ NotErasedWhileBuilt /\ ClientAttended

\* Every use of a destroyed client has its race. Its peer had ended, or Stop destroyed
\* it; an emission of its input, or another handler at its destruction, was overtaken by
\* somebody else; a slot still connected means that its end raced with its creation; a
\* handler means that a write was outstanding or that Stop came; and only a write or a
\* reset ends an io thread.
HarmOnlyIfRaced ==
  /\ UsedAfterItsEndOnly /\ OvertakenByAnother
  /\ StaleSlotOnlyIfEarly /\ HandlersOutlivedByWritesOnly /\ CrashNeedsResetOrWrite
=============================================================================
