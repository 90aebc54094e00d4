---------------------------- MODULE UartTerminal ----------------------------
(***************************************************************************)
(* CTerminal, the actor on a serial port.  Channels hand it bytes, which   *)
(* wait in m_WriteBuffer and are written one at a time; reads are passed   *)
(* on.  When the port goes away Setup is submitted to the thread pool      *)
(* again and again until it opens.  DoWrite and WriteComplete hold m_mtx,  *)
(* Setup and SetupAsync do not.  A byte is named by its place in the input *)
(* and m_WriteBuffer is popped + 1 .. total.                               *)
(***************************************************************************)
EXTENDS Naturals, Sequences, FiniteSets

CONSTANTS MsgSize,    \* the sizes of the messages channels hand over
          LossKinds,  \* how operations end when the device goes: "aborted", "failed"
          StartsWith, \* the device when the actor is created: "present" or "gone"
          MaxBytes,   \* bound: bytes handed over
          MaxLoss,    \* bound: how often the device goes away
          MaxReads    \* bound: how many reads deliver data

ASSUME TerminalAssumption ==
  /\ MsgSize \subseteq Nat \ {0} /\ LossKinds \subseteq {"aborted", "failed"}
  /\ StartsWith \in {"present", "gone"}
  /\ MaxBytes \in Nat /\ MaxLoss \in Nat /\ MaxReads \in Nat

VARIABLES
  device,      \* "present" or "gone"
  port,        \* m_port: "none", "open", "dead" (its device went), "closed"
  lossKind,    \* how operations on a dead port end
  epoch,       \* how many times m_port has been made
  isOpened,    \* bIsOpened
  inProgress,  \* bWriteInProgress
  connected,   \* DoWrite is connected to m_sigOutputMessage
  wired,       \* CManager::SetChannels has run
  stopped,     \* CManager::IsStopped
  setup,       \* where Setup is: "submitted", "opened", "write", "read", "idle"
  lock,        \* m_mtx is held by a DoWrite that is about to call WriteStart
  total,       \* bytes handed over
  popped,      \* bytes popped from m_WriteBuffer
  reading,     \* a read is outstanding
  readDone,    \* the result of a completed read whose handler has not run, or "none"
  pending,     \* outstanding writes: the byte and the port they were started on
  done,        \* completed writes whose handlers have not run
  wire,        \* history: the bytes the device has taken
  got,         \* history: the sizes of the reads that delivered data
  passed,      \* history: which reads were passed to m_sigInputMessage, in order
  losses,      \* history: how often the device went away
  flaws        \* history: "race", "stale", "readFailed", "underflow"

portVars == <<device, port, lossKind, epoch>>
flags == <<isOpened, inProgress, connected, wired, stopped>>
queueVars == <<lock, total, popped>>
reader == <<reading, readDone, got, passed>>
writes == <<pending, done, wire>>
history == <<losses, flaws>>
vars == <<portVars, flags, setup, queueVars, reader, writes, history>>

Init ==
  /\ device = StartsWith /\ port = "none" /\ lossKind = "aborted" /\ epoch = 0
  /\ isOpened = FALSE /\ inProgress = FALSE
  /\ connected = FALSE /\ wired = FALSE /\ stopped = FALSE
  /\ setup = "submitted" /\ lock = FALSE /\ total = 0 /\ popped = 0
  /\ reading = FALSE /\ readDone = "none" /\ got = <<>> /\ passed = <<>>
  /\ pending = {} /\ done = {} /\ wire = <<>> /\ losses = 0 /\ flaws = {}

Buffered == popped < total
Current(S) == {w \in S : w.epoch = epoch}
-----------------------------------------------------------------------------
(* The device and the kernel. *)

DeviceGoes(kind) ==
  /\ device = "present" /\ losses < MaxLoss
  /\ device' = "gone" /\ losses' = losses + 1
  /\ IF port = "open" THEN port' = "dead" /\ lossKind' = kind ELSE UNCHANGED <<port, lossKind>>
  /\ UNCHANGED <<epoch, flags, setup, queueVars, reader, writes, flaws>>

DeviceReturns ==
  /\ device = "gone"
  /\ device' = "present"
  /\ UNCHANGED <<port, lossKind, epoch, flags, setup, queueVars, reader, writes, history>>

ReadEnds ==
  /\ reading /\ readDone = "none"
  /\ reading' = FALSE
  /\ \/ /\ port = "open" /\ Len(got) < MaxReads
        /\ readDone' = "data"
        /\ \E n \in {1, 2} : got' = Append(got, n)
     \/ /\ port = "dead" /\ readDone' = lossKind /\ UNCHANGED got
     \/ /\ port = "closed" /\ readDone' = "aborted" /\ UNCHANGED got
  /\ UNCHANGED <<portVars, flags, setup, queueVars, passed, writes, history>>

\* A write takes its byte, or ends with the error of its port.
WriteEnds(w) ==
  /\ w \in pending
  /\ pending' = pending \ {w}
  /\ IF w.epoch = epoch /\ port = "open"
     THEN /\ wire' = Append(wire, w.byte)
          /\ done' = done \cup {[result |-> "ok", epoch |-> w.epoch, id |-> w.id]}
     ELSE /\ done' = done \cup {[result |-> IF w.epoch = epoch /\ port = "dead" THEN lossKind
                                            ELSE "aborted", epoch |-> w.epoch, id |-> w.id]}
          /\ UNCHANGED wire
  /\ UNCHANGED <<portVars, flags, setup, queueVars, reader, history>>
-----------------------------------------------------------------------------
(* Writing. *)

\* Two writes may be outstanding when they race; id tells them apart.
FreshId == CHOOSE i \in 1 .. (Cardinality(pending \cup done) + 1) :
             \A w \in pending \cup done : w.id # i

\* WriteStart: async_write_some of the front of the buffer, if bIsOpened; the front
\* of an empty queue is no byte of the input (0).
WriteStarts(front) ==
  IF isOpened THEN pending' = pending \cup {[byte |-> IF front <= total THEN front ELSE 0,
                                                      epoch |-> epoch, id |-> FreshId]}
  ELSE UNCHANGED pending

\* DoWrite: the bytes are queued; if no write is in progress one is started.
DoWrite(n) ==
  /\ connected /\ wired /\ ~stopped /\ ~lock /\ total + n <= MaxBytes
  /\ total' = total + n
  /\ inProgress' = TRUE
  /\ lock' = ~inProgress
  /\ flaws' = flaws \cup (IF setup \in {"opened", "write"} THEN {"race"} ELSE {})
  /\ UNCHANGED <<portVars, isOpened, connected, wired, stopped, setup, popped, reader, writes, losses>>

DoWriteStart ==
  /\ lock
  /\ lock' = FALSE
  /\ WriteStarts(popped + 1)
  /\ UNCHANGED <<portVars, flags, setup, total, popped, reader, done, wire, history>>

\* WriteComplete without error: the front is removed and the next byte written.
WriteCompleteOk(d) ==
  /\ d \in done /\ ~stopped /\ isOpened /\ d.result = "ok" /\ ~lock
  /\ done' = done \ {d}
  /\ flaws' = flaws \cup (IF d.epoch # epoch THEN {"stale"} ELSE {})
                    \cup (IF ~Buffered THEN {"underflow"} ELSE {})
  /\ popped' = IF Buffered THEN popped + 1 ELSE popped
  /\ inProgress' = (popped' < total)
  /\ IF popped' < total THEN WriteStarts(popped' + 1) ELSE UNCHANGED pending
  /\ UNCHANGED <<portVars, isOpened, connected, wired, stopped, setup, lock, total, reader, wire, losses>>

\* Faulty variant: a write that failed pops its byte as well.
WriteCompleteErrorPopping(d) ==
  /\ d \in done /\ ~stopped /\ (~isOpened \/ d.result # "ok")
  /\ done' = done \ {d}
  /\ popped' = popped + 1
  /\ port' = IF isOpened /\ d.result = "failed" THEN "closed" ELSE port
  /\ UNCHANGED <<device, lossKind, epoch, flags, setup, lock, total, reader, pending, wire, history>>

\* With bIsOpened down nothing is done; an aborted write is ignored; any other
\* error closes the port.
WriteCompleteError(d) ==
  /\ d \in done /\ ~stopped /\ (~isOpened \/ d.result # "ok")
  /\ done' = done \ {d}
  /\ port' = IF isOpened /\ d.result = "failed" THEN "closed" ELSE port
  /\ UNCHANGED <<device, lossKind, epoch, flags, setup, queueVars, reader, pending, wire, history>>
-----------------------------------------------------------------------------
(* Opening and reading. *)

\* SetupAsync: the flags fall, and half a second later Setup is submitted.
SetupAsync ==
  /\ isOpened' = FALSE
  /\ inProgress' = FALSE
  /\ setup' = IF stopped THEN "idle" ELSE "submitted"

\* Faulty variant: a Setup that could not open the port is not submitted again.
SetupFailsForGood ==
  /\ setup = "submitted" /\ ~stopped /\ device = "gone"
  /\ port' = "closed" /\ epoch' = IF Current(pending \cup done) = {} THEN epoch ELSE epoch + 1
  /\ isOpened' = FALSE /\ inProgress' = FALSE
  /\ setup' = "idle"
  /\ UNCHANGED <<device, lossKind, connected, wired, stopped, queueVars, reader, writes, history>>

\* Setup: a new port object; the operations of the old one are cancelled.
SetupFails ==
  /\ setup = "submitted" /\ ~stopped /\ device = "gone"
  /\ port' = "closed" /\ epoch' = IF Current(pending \cup done) = {} THEN epoch ELSE epoch + 1
  /\ SetupAsync
  /\ UNCHANGED <<device, lossKind, connected, wired, stopped, queueVars, reader, writes, history>>

SetupOpens ==
  /\ setup = "submitted" /\ ~stopped /\ device = "present"
  /\ port' = "open" /\ epoch' = epoch + 1
  /\ connected' = TRUE
  /\ isOpened' = TRUE
  /\ setup' = "opened"
  /\ flaws' = flaws \cup (IF lock THEN {"race"} ELSE {})
  /\ UNCHANGED <<device, lossKind, inProgress, wired, stopped, queueVars, reader, writes, losses>>

\* An option is refused: the exception ends Setup and nothing tries again.
SetupRefused ==
  /\ setup = "submitted" /\ ~stopped /\ device = "present"
  /\ port' = "open" /\ epoch' = epoch + 1
  /\ setup' = "idle"
  /\ flaws' = flaws \cup {"refused"}
  /\ UNCHANGED <<device, lossKind, flags, queueVars, reader, writes, losses>>

SetupDropped ==
  /\ setup = "submitted" /\ stopped
  /\ setup' = "idle"
  /\ UNCHANGED <<portVars, flags, queueVars, reader, writes, history>>

\* Bytes that waited while the port was down are written now.
SetupBuffer ==
  /\ setup = "opened"
  /\ setup' = IF Buffered THEN "write" ELSE "read"
  /\ inProgress' = (inProgress \/ Buffered)
  /\ UNCHANGED <<portVars, isOpened, connected, wired, stopped, queueVars, reader, writes, history>>


\* Faulty variant: the bytes that waited are left to the next DoWrite.
ResumedNot == UNCHANGED pending

Resumed == WriteStarts(popped + 1)

SetupWrite ==
  /\ setup = "write"
  /\ setup' = "read"
  /\ Resumed
  /\ UNCHANGED <<portVars, flags, queueVars, reader, done, wire, history>>

SetupRead ==
  /\ setup = "read"
  /\ setup' = "idle"
  /\ reading' = TRUE
  /\ UNCHANGED <<portVars, flags, queueVars, readDone, got, passed, writes, history>>

\* ReadComplete with data; a read of a single byte is not passed on.
ReadCompleteData ==
  /\ readDone = "data" /\ ~stopped
  /\ readDone' = "none"
  /\ passed' = IF got[Len(got)] > 1 THEN Append(passed, Len(got)) ELSE passed
  /\ reading' = TRUE
  /\ UNCHANGED <<portVars, flags, setup, queueVars, got, writes, history>>

\* ReadComplete, aborted: the port is set up again.
ReadCompleteAborted ==
  /\ readDone = "aborted" /\ ~stopped
  /\ readDone' = "none"
  /\ SetupAsync
  /\ UNCHANGED <<portVars, connected, wired, stopped, queueVars, reading, got, passed, writes, history>>

\* ReadComplete, any other error: DoClose.
ReadCompleteFailed ==
  /\ readDone = "failed" /\ ~stopped
  /\ readDone' = "none"
  /\ port' = "closed"
  /\ flaws' = flaws \cup {"readFailed"}
  /\ UNCHANGED <<device, lossKind, epoch, flags, setup, queueVars, reading, got, passed, writes, losses>>
-----------------------------------------------------------------------------
\* CManager::SetChannels runs after the constructor has returned from Setup.
SetChannels ==
  /\ ~wired /\ (epoch > 0 \/ port = "closed") /\ setup \in {"submitted", "idle"}
  /\ wired' = TRUE
  /\ UNCHANGED <<portVars, isOpened, inProgress, connected, stopped, setup, queueVars, reader, writes, history>>

\* The manager is told to stop, ends the io service, and stops the actor.
Stop ==
  /\ ~stopped /\ wired
  /\ stopped' = TRUE /\ connected' = FALSE
  /\ port' = "closed"
  /\ UNCHANGED <<device, lossKind, epoch, isOpened, inProgress, wired, setup, queueVars, reader, writes, history>>

SetupStep == SetupFails \/ SetupOpens \/ SetupDropped \/ SetupBuffer \/ SetupWrite \/ SetupRead
ReadStep == ReadCompleteData \/ ReadCompleteAborted \/ ReadCompleteFailed
WriteStep(d) == WriteCompleteOk(d) \/ WriteCompleteError(d)

Next ==
  \/ \E k \in LossKinds : DeviceGoes(k)
  \/ DeviceReturns \/ ReadEnds \/ (\E w \in pending : WriteEnds(w))
  \/ (\E n \in MsgSize : DoWrite(n)) \/ DoWriteStart
  \/ \E d \in done : WriteCompleteOk(d) \/ WriteCompleteError(d)
  \/ SetupFails \/ SetupOpens \/ SetupRefused \/ SetupDropped
  \/ SetupBuffer \/ SetupWrite \/ SetupRead
  \/ ReadCompleteData \/ ReadCompleteAborted \/ ReadCompleteFailed
  \/ SetChannels \/ Stop

Spec == Init /\ [][Next]_vars

\* The device takes what is written, operations end, and the io and pool threads
\* run their handlers; nothing is assumed of the device itself or of the channels.
FairSpec ==
  /\ Spec /\ WF_vars(ReadEnds) /\ WF_vars(\E w \in pending : WriteEnds(w))
  /\ WF_vars(SetupStep) /\ WF_vars(ReadStep) /\ WF_vars(DoWriteStart)
  /\ WF_vars(\E d \in done : WriteStep(d))
-----------------------------------------------------------------------------
TypeOK ==
  /\ device \in {"present", "gone"} /\ port \in {"none", "open", "dead", "closed"}
  /\ lossKind \in {"aborted", "failed"} /\ epoch \in Nat
  /\ isOpened \in BOOLEAN /\ inProgress \in BOOLEAN /\ connected \in BOOLEAN
  /\ wired \in BOOLEAN /\ stopped \in BOOLEAN /\ lock \in BOOLEAN /\ reading \in BOOLEAN
  /\ setup \in {"submitted", "opened", "write", "read", "idle"}
  /\ total \in 0 .. MaxBytes /\ popped \in 0 .. total
  /\ readDone \in {"none", "data", "aborted", "failed"}
  /\ \A w \in pending : w.byte \in 0 .. MaxBytes /\ w.epoch \in 1 .. epoch
  /\ wire \in Seq(0 .. MaxBytes)
  /\ flaws \subseteq {"race", "stale", "readFailed", "underflow", "refused"}

\* Two writes of the port are never outstanding together, unless a message came
\* in while Setup was between raising bIsOpened and looking at the buffer, or a
\* completion of the old port was taken for one of the new.
SingleWriteUnlessRaced ==
  flaws \cap {"race", "stale"} = {} => Cardinality(Current(pending \cup done)) <= 1

OnWire(b) == \E i \in DOMAIN wire : wire[i] = b

\* A byte that has left the buffer has reached the device, over any number of
\* losses and reopenings, with the same two exceptions.
NothingSkippedUnlessRaced ==
  flaws \cap {"race", "stale"} = {} => \A b \in 1 .. popped : OnWire(b)

\* Bytes reach the device in order; after a loss the byte in flight may be sent
\* again, and no earlier one.
InOrderUnlessRaced ==
  flaws \cap {"race", "stale"} = {} =>
    \A i \in DOMAIN wire : IF i = 1 THEN wire[i] = 1
                           ELSE wire[i] \in {wire[i - 1], wire[i - 1] + 1}

\* Once the device is there to stay the port is open for good, however often it was
\* lost, failed to open or was closed by a failed write before (the loop of Setup and
\* SetupAsync, and the aborted read that leads into it), unless a read ended with an
\* error other than "aborted" or a new port refused an option.
ReopensUnlessReadFailed ==
  <>[](device = "present") =>
    <>[](port = "open" \/ stopped \/ flaws \cap {"readFailed", "refused"} # {})

\* With the port open, what waits is written: bytes that came in while it was down
\* are not left behind.
EventuallyWritten ==
  []<>(~Buffered \/ port # "open" \/ stopped \/ flaws # {})

\* The reads that completed, up to the one whose handler has not run.
Handled == 1 .. (IF readDone = "data" THEN Len(got) - 1 ELSE Len(got))

\* Of the input nothing is lost, repeated or moved over losses and reopenings; only the
\* reads of a single byte are left out.
LongerReadsPassed ==
  /\ {passed[i] : i \in DOMAIN passed} = {n \in Handled : got[n] > 1}
  /\ \A i, j \in DOMAIN passed : i < j => passed[i] < passed[j]

\* Bytes survive the device: over losses and reopenings none is skipped, moved or, but
\* for the one in flight, repeated on the way out, and no read longer than a byte is
\* lost on the way in, and one write is outstanding at a time, with the exceptions named
\* in the parts.
BytesKeptUnlessRaced ==
  TypeOK /\ SingleWriteUnlessRaced /\ NothingSkippedUnlessRaced /\ InOrderUnlessRaced /\ LongerReadsPassed
=============================================================================
