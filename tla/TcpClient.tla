----------------------------- MODULE TcpClient -----------------------------
(***************************************************************************)
(* The write side of one connected TCP client (CTcpServerChild): channels  *)
(* hand it messages, a mutex (m_mtxTcpClient) keeps SendMessage and the    *)
(* completion handler apart, and at most one asynchronous write is meant   *)
(* to be outstanding on the only output buffer.  The kernel takes any      *)
(* non-empty part of that buffer; the handlers run on the io threads.      *)
(***************************************************************************)
EXTENDS Naturals, Sequences, SequencesExt

CONSTANTS Msg,        \* the messages channels may hand over
          Size,       \* the number of bytes of each message
          MaxSend     \* bound: how many messages are handed over

ASSUME SizeAssumption == Size \in [Msg -> Nat \ {0}]
ASSUME MaxSendAssumption == MaxSend \in Nat

Unit == Msg \X (Nat \ {0})

\* A message is the sequence of its bytes, each a unit naming message and place.
Units(m) == [i \in 1 .. Size[m] |-> <<m, i>>]

VARIABLES
  subscribed,   \* m_outMsgConn is connected to the server's output signal
  socket,       \* "open", "reset" (the peer is gone) or "closed"
  alive,        \* the server has not destroyed the object yet
  reading,      \* a read is outstanding
  idleWrite,    \* m_idleWrite
  msgQueue,     \* m_msgQueue
  outBuffer,    \* m_outBuffer
  pending,      \* async_write_some calls the kernel has not performed
  done,         \* performed ones whose handler has not run: [ok, n]
  wire,         \* history: the bytes the kernel has taken
  sent,         \* history: the messages handed over
  loaded,       \* history: the messages copied to m_outBuffer
  stream,       \* history: the bytes of loaded
  highWater     \* history: the largest number of messages that ever waited

writeVars == <<idleWrite, msgQueue, outBuffer>>
history == <<sent, loaded, stream, highWater>>
lifeVars == <<subscribed, socket, alive, reading>>
vars == <<lifeVars, writeVars, pending, done, wire, history>>

Init ==
  /\ subscribed = TRUE /\ socket = "open" /\ alive = TRUE /\ reading = TRUE
  /\ idleWrite = TRUE /\ msgQueue = <<>> /\ outBuffer = <<>>
  /\ pending = 0 /\ done = <<>> /\ wire = <<>>
  /\ sent = <<>> /\ loaded = <<>> /\ stream = <<>> /\ highWater = 0

\* Faulty variant: m_idleWrite is not reset.
StartWriteStayIdle(m) ==
  /\ outBuffer' = Units(m)
  /\ pending' = pending + 1
  /\ loaded' = Append(loaded, m)
  /\ stream' = stream \o Units(m)
  /\ UNCHANGED idleWrite

\* m_outBuffer = *msg; async_write_some(m_outBuffer); m_idleWrite = false
StartWrite(m) ==
  /\ outBuffer' = Units(m)
  /\ pending' = pending + 1
  /\ loaded' = Append(loaded, m)
  /\ stream' = stream \o Units(m)
  /\ idleWrite' = FALSE

\* CTcpServerChild::SendMessage, called by the output signal.
SendMessage(m) ==
  /\ alive /\ subscribed
  /\ Len(sent) < MaxSend
  /\ sent' = Append(sent, m)
  /\ \/ /\ ~idleWrite
        /\ msgQueue' = Append(msgQueue, m)
        /\ highWater' = IF Len(msgQueue) < highWater THEN highWater ELSE Len(msgQueue) + 1
        /\ UNCHANGED <<idleWrite, outBuffer, pending, loaded, stream>>
     \/ /\ idleWrite
        /\ StartWrite(m)
        /\ UNCHANGED <<msgQueue, highWater>>
  /\ UNCHANGED <<lifeVars, done, wire>>

\* The kernel takes the first n bytes of the buffer of an outstanding write.
Transfer(n) ==
  /\ pending > 0 /\ socket = "open"
  /\ n \in 1 .. Len(outBuffer)
  /\ wire' = wire \o SubSeq(outBuffer, 1, n)
  /\ pending' = pending - 1
  /\ done' = Append(done, [ok |-> TRUE, n |-> n])
  /\ UNCHANGED <<lifeVars, writeVars, history>>

\* A write on a socket that is reset or closed completes with an error.
TransferFails ==
  /\ pending > 0 /\ socket # "open"
  /\ pending' = pending - 1
  /\ done' = Append(done, [ok |-> FALSE, n |-> 0])
  /\ UNCHANGED <<lifeVars, writeVars, wire, history>>

PeerResets ==
  /\ socket = "open"
  /\ socket' = "reset"
  /\ UNCHANGED <<subscribed, alive, reading, writeVars, pending, done, wire, history>>

\* Faulty variant: the whole buffer is written again.
WriteRestAgain(n) ==
  /\ pending' = pending + 1
  /\ UNCHANGED <<idleWrite, msgQueue, outBuffer, loaded, stream>>

\* Faulty variant: the rest of the buffer is never written.
WriteRestNever(n) ==
  /\ outBuffer' = SubSeq(outBuffer, n + 1, Len(outBuffer))
  /\ UNCHANGED <<pending, idleWrite, msgQueue, loaded, stream>>

\* n bytes are gone: erase them and write the rest of the buffer.
WriteRest(n) ==
  /\ outBuffer' = SubSeq(outBuffer, n + 1, Len(outBuffer))
  /\ pending' = pending + 1
  /\ UNCHANGED <<idleWrite, msgQueue, loaded, stream>>

\* m_msgQueue.back() and m_msgQueue.pop(): the newest message is written, the
\* oldest one is removed.
TakeNext ==
  /\ StartWrite(Last(msgQueue))
  /\ msgQueue' = Tail(msgQueue)

\* Nothing waits.
GoIdle ==
  /\ idleWrite' = TRUE
  /\ UNCHANGED <<msgQueue, outBuffer, pending, loaded, stream>>

\* Faulty variant: the queue is not looked at when a write ends.
WriteHandlerForgetsQueue(i) ==
  /\ alive /\ done[i].ok
  /\ done' = RemoveAt(done, i)
  /\ \/ done[i].n < Len(outBuffer) /\ WriteRest(done[i].n)
     \/ done[i].n >= Len(outBuffer) /\ GoIdle
  /\ UNCHANGED <<lifeVars, wire, sent, highWater>>

\* Faulty variant: a buffer that is written to the end counts as a partial write
\* (<= for < in line 69).
WriteHandlerRestOfNothing(i) ==
  /\ alive /\ done[i].ok
  /\ done' = RemoveAt(done, i)
  /\ \/ done[i].n <= Len(outBuffer) /\ WriteRest(done[i].n)
     \/ done[i].n > Len(outBuffer) /\ msgQueue # <<>> /\ TakeNext
     \/ done[i].n > Len(outBuffer) /\ msgQueue = <<>> /\ GoIdle
  /\ UNCHANGED <<lifeVars, wire, sent, highWater>>

\* WriteHandler without error.
WriteHandler(i) ==
  /\ alive /\ done[i].ok
  /\ done' = RemoveAt(done, i)
  /\ \/ done[i].n < Len(outBuffer) /\ WriteRest(done[i].n)
     \/ done[i].n >= Len(outBuffer) /\ msgQueue # <<>> /\ TakeNext
     \/ done[i].n >= Len(outBuffer) /\ msgQueue = <<>> /\ GoIdle
  /\ UNCHANGED <<lifeVars, wire, sent, highWater>>

\* DestroyMe: Stop leaves the output signal; shutdown throws on a socket that
\* is not connected, and then neither close nor m_sigEraseMe is reached.
DestroyMe ==
  /\ subscribed' = FALSE
  /\ \/ /\ socket = "open"
        /\ socket' = "closed"
        /\ alive' = FALSE
     \/ /\ socket # "open"
        /\ UNCHANGED <<socket, alive>>

WriteHandlerError(i) ==
  /\ alive /\ ~done[i].ok
  /\ done' = RemoveAt(done, i)
  /\ DestroyMe
  /\ UNCHANGED <<reading, writeVars, pending, wire, history>>

\* The outstanding read ends: with eof on an open socket, with an error on a
\* reset one; either way the read handler destroys the client, and no read
\* is armed again.
ReadHandlerError ==
  /\ alive /\ reading
  /\ reading' = FALSE
  /\ DestroyMe
  /\ UNCHANGED <<writeVars, pending, done, wire, history>>

Next ==
  \/ \E m \in Msg : SendMessage(m)
  \/ \E n \in 1 .. Len(outBuffer) : Transfer(n)
  \/ TransferFails
  \/ PeerResets
  \/ \E i \in 1 .. Len(done) : WriteHandler(i) \/ WriteHandlerError(i)
  \/ ReadHandlerError

Spec == Init /\ [][Next]_vars

\* The peer keeps reading and the io threads keep running handlers.
Fairness ==
  /\ WF_vars(\E n \in 1 .. Len(outBuffer) : Transfer(n))
  /\ WF_vars(\E i \in 1 .. Len(done) : WriteHandler(i))

FairSpec == Spec /\ Fairness
-----------------------------------------------------------------------------
LifeOK ==
  /\ subscribed \in BOOLEAN /\ alive \in BOOLEAN /\ reading \in BOOLEAN
  /\ socket \in {"open", "reset", "closed"}

WriterOK ==
  /\ idleWrite \in BOOLEAN
  /\ msgQueue \in Seq(Msg) /\ outBuffer \in Seq(Unit)

KernelOK ==
  /\ pending \in Nat /\ done \in Seq([ok : BOOLEAN, n : Nat])
  /\ wire \in Seq(Unit)
  /\ pending > 0 => outBuffer # <<>>

HistoryOK ==
  /\ sent \in Seq(Msg) /\ loaded \in Seq(Msg)
  /\ stream \in Seq(Unit) /\ highWater \in Nat

\* The types, and no write of an empty buffer is asked for: such a write ends
\* with no byte written and its handler asks for it again.
TypeOK == LifeOK /\ WriterOK /\ KernelOK /\ HistoryOK

Outstanding == pending + Len(done)

\* There is one output buffer, so a second write while one is outstanding would
\* change the bytes under the kernel: m_idleWrite is true exactly when no write
\* is outstanding, and otherwise there is one (none only once a write failed).
SingleWrite ==
  /\ Outstanding <= 1
  /\ idleWrite => Outstanding = 0
  /\ (socket = "open" /\ ~idleWrite) => Outstanding = 1

\* The bytes of the output buffer the kernel has not taken.
Remaining ==
  IF idleWrite THEN <<>>
  ELSE IF done # <<>> /\ done[1].ok
       THEN SubSeq(outBuffer, done[1].n + 1, Len(outBuffer))
       ELSE outBuffer

\* However the kernel cuts the writes, what reached the wire and what the buffer
\* still holds are the whole frames chosen for sending: the restart of a partial
\* write (WriteHandler) neither repeats, skips nor interleaves bytes.
FramesIntact == stream = wire \o Remaining

\* As long as no two messages ever waited together, the client gets the messages
\* in the order they were handed over, each once: back() and pop() of WriteHandler
\* agree on a queue of one.
FifoWhileShallow == highWater <= 1 => loaded \o msgQueue = sent

\* Each message handed over is written once, in the order of the calls.
MessagesInOrder == loaded \o msgQueue = sent

Drained == idleWrite /\ msgQueue = <<>>

\* While the connection stays up, whatever was accepted leaves the client: no
\* message is left waiting in m_msgQueue with no write outstanding.
EventuallyDrained == []<>(Drained \/ socket # "open")

Frames == INSTANCE OrderedStream
            WITH Block <- {Units(m) : m \in Msg}, accepted <- stream, delivered <- wire

\* The wire is an ordered byte stream of the frames chosen for sending.
ImplementsStream == Frames!StreamSpec
=============================================================================
