# ProxyChannels: specifications and proofs

ProxyChannels is a proxy that moves byte streams between *actors* (TCP servers, serial
ports, the console, loggers, a manager shell) over unidirectional *channels*, on a pool of
threads two of which run the asio event loop.  This directory holds TLA+ modules that model
the program, the TLC configurations that check them on small instances, and proofs checked
by TLAPS.  Paths below are relative to `src/`.

## 1. The system

| part | source | state | operations | talks to |
|---|---|---|---|---|
| TCP client, write side | `proxy/tcpserver_child.cpp` | `m_idleWrite`, `m_msgQueue`, `m_outBuffer`, the socket | `SendMessage`, `WriteHandler`, `DestroyMe`, `Stop` | called by the server's output signal, by the io threads |
| TCP client, read side | `proxy/tcpserver_child.cpp` | input buffer, framing counters | `ReadHandler`, `ReadDataHandler` of the stream, telnet, OSCAR and ETF clients | emits `m_sigInputMessage` |
| TCP server | `proxy/tcpserver.h` | the client list, the acceptor, `m_nextId` | `Start`, `AcceptHandler`, `EraseClient`, `Stop` | creates and destroys clients |
| Thread pool | `proxy/thread_pool.cpp` | two work queues, worker threads, timers | `SetWorkUnit`, `SetTimer`, `work_thread`, `timer_thread`, destructor | runs everybody's work |
| Logger | `proxy/logger.cpp` | the record multimap, the sinks | `Push`, `LogMultiplexer`, `TimerClockHandler`, `Start`, `Stop` | thread pool, sinks |
| Log sinks | `proxy/sink.cpp` | job counter, output file | `Write`, `WaitJobFinishAllSinks`, `OpenStream`, `CloseStream` | thread pool |
| Serial port | `proxy/terminal.cpp` | `bIsOpened`, `bWriteInProgress`, the write buffer | `Setup`, `DoWrite`, `WriteComplete`, `ReadComplete`, `DoClose`, `Stop` | io threads, thread pool |
| Channels, actors | `proxy/channel.cpp`, `proxy/actor.cpp`, `proxy/manager.cpp` | the signal connections | `Connect`, `InputMessages`, `MakeActor`, `SetChannels` | every actor |
| Manager | `proxy/manager.cpp` | `m_stopFlag`, `m_ioFlag`, the actors | `init`, `reset`, `Stop`, `AsioServiceWork` | everything |
| Log channels and adapters | `proxy/log_channel.cpp`, `proxy/*_logger_adapter.cpp` | line under assembly, filters | `DoLog`, `TransferLogMessage` | channels, logger |
| Manager shell, console | `proxy/manager_adaptor.cpp`, `proxy/console.cpp` | input line buffers | `DoCommand`, `ReadHandler`, `Start`, `Stop` | channels |
| Log client library | `logclient/logclient.cpp` | the package queue, the write in progress | `Push`, `WriteHandler`, `WriteNextMessage`, `Stop` | a TCP server of the proxy |
| OSCAR codec | `oscar/` | none (a request id) | FLAP builder and parser, TLV, SNAC | adapters, log client |
| Log message builder | `utils/logbuilder.cpp` | the tag, the record under construction | `Init`, the destructor of a `LOG_` statement | logger, log client |
| Time stamps | `utils/timestamp.cpp` | none | `TimestampAdjust`, the order of records | logger |
| Configuration, signals, build | `proxy/configurator.cpp`, `proxy/signals.cpp` | property tree | `init`, handlers | start-up |


Everything that is not the codec, the time stamps or the configuration runs on the threads of
one `thread_pool`: two *long* units run `io_service::run` (all handlers of sockets, serial port
and console), *short* units run `LogMultiplexer`, a `Write` per sink and the `Setup` of a serial
port, one more thread runs the timers, and the main thread waits in `CManager::init` for `quit`.
Actors and channels are joined by boost signals: an actor emits what it read, every channel of
that source passes it, under its own mutex, to the slot of its destination, in the thread that
read.  A message is a `shared_ptr` all the destinations hold.

### What is hard in it

* **Two io threads, handlers without strands.**  A completion handler arms the next operation
  before it has used the result of this one; construction, use and destruction of a client overlap.
* **Flags that mean "an asynchronous operation is outstanding"** (`m_idleWrite`,
  `bWriteInProgress`, `m_writeInProgress`): each is read and written from callers, handlers, and
  in the serial port from a third thread that takes no lock.
* **Partial results**: a write takes any part of the buffer, a read gives any part of a packet.
* **Wake-ups**: `notify` after the unlock, `tp_stop` without the mutex, `m_ioFlag` shared by two units.
* **Shutdown**: io threads, pool threads, the logger and the log client are each told to stop by a
  different flag and waited for in a different way.
* **Devices and peers that go** in the middle of any of this, and come back.
* **Time**: timers served late, records stamped before they are queued, a delay in two units.

`PROJECT.json` lists each place as a hazard with the properties that watch it, or a note on why
none does.

### What makes each part correct

| part | correct when |
|---|---|
| TCP client, write | one write at a time; the wire carries whole frames, in the order given; what is accepted leaves |
| TCP client, read | what is passed on is exactly the packets of the peer, however split, and all of them |
| TCP server | the port never goes deaf; a client that is gone is erased once, and nobody calls it afterwards; input stays in order |
| Thread pool | units start in order, once, each; the budget holds; the destructor returns |
| Timers | a job is called at its points, neither early, twice nor in a burst |
| Logger, sinks | no record lost or doubled; sorted by time; one writer per sink; `Stop` hands everything over and returns |
| Serial port | no byte lost, repeated or moved; the port comes back; what waited is written |
| Manager | no missed wake-up; the actors die after the last handler; `quit` ends the program |
| Channels | the actors and channels of the configuration and no others; every message to each destination, as read |
| Log adapters | the lines of the stream, with the time of their first byte, each channel with its own filter, to its own sink |
| Shell, console | a command that was typed is obeyed; no text is lost |
| Log client | one write at a time; packages in order, none forgotten; `Stop` returns after the last one has arrived |
| OSCAR codec, builder | what the builder accepts is read back as it was; no size wraps; what a macro makes is always accepted |
| Time stamps | a shift moves a time by exactly its argument; the order of time stamps is the order of moments |

## 2. Modules

Each component is one module; its MC module instantiates it, its `.cfg` file chooses the instance.
Actions have the names of the functions they model, or of the piece between two places where
another thread may come in; an action runs from one such place (a lock taken, a handler entered,
a call of another component) to the next.  `PROJECT.json` maps every definition to its lines.
`* history:` variables are never read by an action.  Operators commented "Faulty variant" are
plausible mistakes in the definition that follows them; nothing uses them, they are there to be
put in its place and show that a property depends on it.

| module | models | state ↔ code | composition |
|---|---|---|---|
| `OrderedStream` | the promise of a byte stream: what is accepted is delivered in order, whole, once | – | abstract; implemented by `TcpClient` |
| `TcpClient` | `SendMessage`, `WriteHandler`, `DestroyMe`, the end of a read | `idleWrite`, `msgQueue`, `outBuffer` are the members; `pending`, `done` are the write in the kernel and the handler that waits | `INSTANCE OrderedStream` |
| `TcpClientProofs` | theorems, section 5 | | extends `TcpClient` |
| `ThreadPool` | `SetWorkUnit`, `work_thread`, the destructor | `queue` = `wt_queue`, `avail` = `available_threads`, `pc` a worker's place around the condition variable | |
| `TimerThread` | `SetTimer`, `timer_thread` | `incoming`, `agenda` = the two job containers; a clock | |
| `ThreadPoolProofs` | theorems, section 5 | | extends `ThreadPool` and `TimerThread` |
| `Timestamp` | `TimestampAdjust` with the division of C++, `CCompareTimestamps` | – | no state |
| `Logger` | `Push`, `TimerClockHandler`, `LogMultiplexer`, every command of `Write` in the file and console sinks, `Stop` | `queue` = `m_logRecords`, `jobs` = `m_jobCounter`, `mux` the multiplexers under way, `pool`/`writes` units submitted and running, `out` what a sink wrote and to which file | extends `Timestamp`; the pool appears as units that start in order |
| `LoggerProofs` | theorems, section 5 | | extends `Logger`, and with it `Timestamp` |
| `TcpServer` | accept, construction step by step, reads, `DestroyMe`, `EraseClient`, `Stop` | `stage` how far a client is built, `slots` its connection to the output signal, `thread` what each io thread is in | the write side is a write that may be outstanding |
| `TcpServerProofs` | theorems, section 5 | | extends `TcpServer` |
| `UartTerminal` | `DoWrite`, `WriteComplete`, `ReadComplete`, `Setup`, `SetupAsync`, `DoClose`, `Stop` | `isOpened`, `inProgress`; `popped + 1 .. total` is `m_WriteBuffer` | |
| `UartTerminalProofs` | theorem, section 5 | | extends `UartTerminal` |
| `Manager` | `init`, `AsioServiceWork`, `Stop`, `reset` with the actors' `Stop`, which may throw, `CLogger::Stop`, which waits, and the destructors; what `main` does after an exception | `ioFlag`, `ioStopped`, `stopFlag`; `logRecords`: `m_logRecords` is not empty | its actions are put together by `ConsoleSession` |
| `Commands` | the console's reads, the manager adaptor's `DoCommand` in steps | `inBuffer` = the adaptor's line buffer; `raced`: two threads were in it at once | likewise |
| `ConsoleSession` | a session: handlers run in the io threads of the manager, `quit` reaches `CManager::Stop`, `reset` ends the console | `thread` the message a handler has in hand and how far it is in the adaptor | extends `Manager`, instantiates `Commands` with the same io threads |
| `FrameReader` | both read handlers of the OSCAR, ETF, stream and telnet client | `headerRead`, `bodyRead`, `buffer`; `asked` is the read that is armed | one module; `protocol`, chosen initially, gives the sizes and the few lines that differ |
| `Routing` | `RunActors`, `SetChannels`, `Connect`, `InputMessages`, the actor factory | `kind` = `m_actors`, `wired` = the connections, `owner` the mutex of each channel | actors are reduced to what they do to a message |
| `ManagerProofs` | theorems, section 5 | | extends `ConsoleSession` and `Routing` |
| `FlapCodec` | the packets of the log protocol: sizes modulo `Word`, what the builder accepts, what the parser walks and reads | a packet is its size fields and its TLVs | no state |
| `LogBuilder` | the tag and the text a `LOG_` macro makes | – | extends `FlapCodec` |
| `LogAdaptor` | `DoLog` of three adaptors, `TransferLogMessage` of the log channels, filters | `kind` = `m_protocol`, `line`, `timestamp` = `m_work`, `records` what each channel sent, `packets` what the log clients meant | extends `LogBuilder`: an OSCAR packet is what a macro or the log client made, built and parsed |
| `StreamProofs` | theorems, section 5 | | extends `FrameReader` and `LogAdaptor`, and with it the codec |
| `PackageQueue` | the promise of the log client: packages arrive in order, once; only one the protocol has no room for is left out | – | abstract; implemented by `LogClient` |
| `LogClient` | the constructor, `Push`, `WriteNextMessage`, `WriteHandler`, `Stop` with every exception that leaves it, the end of a program it threw in | `queue`, `writing`, `current`, `wire` the write, `socket` `"broken"` when it is open without a connection | `INSTANCE PackageQueue` |
| `LogClientProofs` | theorems, section 5 | | extends `LogClient` |

Common abstractions: a message, a client, a unit is a model value or a number; logging calls are
left out except where they are the subject; a mutex held across a call is a variable, one released
in the same action is not.  The kernel, asio, the peer and the device are external: asio runs a
completion handler once per operation, on any thread inside `run`, and in no order between
different operations; condition variables may be notified before the wait and then are missed.

## 3. Runs

Bounds are CONSTANTS, named in the configurations.  Eleven runs finish without error; one,
`tcp_client_order`, checks a statement the repository makes and the code does not keep
(section 4).  Deadlock is not checked: every one of these programs may come
to rest, with no more input, or stopped; that it does not rest *too early* is what the `~>`
properties say.

| run | what it shows | instance, and why it is enough |
|---|---|---|
| `tcp_client` | single write, frames intact, order while at most one message waits, refinement of `OrderedStream`, everything drains | three messages of 1–3 bytes, four sends: every cut of a write, a queue of three |
| `tcp_client_order` | the order of messages is lost as soon as two of them wait | the same client with three sends |
| `thread_pool` | start order, thread budget, no forgotten unit, who may keep the destructor waiting, event loops start | a loop, a unit that submits another, a third; 2 spare threads, 4 workers: the budget runs out, units wait, a unit submits under `join_all` |
| `timer_thread` | no burst, no deadline in the past, nothing on the agenda missed, stop | a repeating and a single job, time to 4: wake-ups late by more than a period |
| `logger` | conservation, job counter, order, exclusive writers and the file of a client but for the named races; `Stop` returns, and what was pushed before is handled, or in a `Write` that still waited for a thread when `reset` destroyed the pool | four cases: a client that names its file and leaves, one multiplexer; a thread on the logger's own channel, two multiplexers that may overlap; a client that closes while another comes and logs to the same sink; records that are refused (a command on the internal channel, an unknown channel).  A console and a file sink, or one file sink; a second of 2 microseconds and a clock to 1, so that the delay taken off crosses a second and goes below zero; the clock ends, the timer and the pool go on |
| `tcp_server` | an accept is always armed and a thread left for it unless as many clients were reset, not erased under construction, the causes of every use of a destroyed client (slots, calls, emissions, handlers) and of crashes, every client that is kept is attended to | two io threads; one client with two chunks, or two (symmetric) clients: two resets end both threads |
| `uart` | no byte skipped, moved or written twice at a time but for two named races; which reads are passed; reopening; what waited is written | a device that is absent, comes, goes once, in either way, at any moment, and whose port may fail to open any number of times; two bytes, two reads |
| `session` | no missed wake-up, `quit` and `Stop` end the program, a late handler needs the shared flag, no text of a line is lost and none waits but behind others of its message as long as two threads are not in the buffer at once | the code's two io threads, five handlers that may throw; a console with two lines and a client whose message holds two lines or half a one |
| `frames` | packets out = packets in, every byte of an unframed client in order, reads end inside the buffer, all is passed | all four classes; the header sizes of the code (6, 12), bodies of 0–2 bytes, two packets, every splitting, missing marks; a buffer shorter than the stream |
| `routing` | built as configured, every message to each destination, no slot on a dead object, emissions end, who sees changed bytes | the wiring of `proxy.xml` in small with a duplicate, a broken, a dangling and a misnamed entry; two threads, two messages |
| `log_client` | one write, nothing forgotten, refinement of `PackageQueue`, how `Stop` ends | two threads with two packages, one of them too big, `retry` 2, a peer that resets the connection at any moment, also between the last write and `shutdown` |
| `log_adaptor` | lines and their times, packets as their sender meant them, filters, sinks | every stream of up to four chunks of one or two of the kinds of byte, or packets of each command; `Word` = 60, tags of 4 and texts of at most 3: sizes just under the limit, a text that is cut and a file name that is refused; a filtered, a plain and a misconfigured channel |

**Properties and their parts.**  A configuration names few properties; several are conjunctions of
parts that belong together, each defined and commented in its module, with the type invariant of
the module as the first part of one of them.

| property | its parts |
|---|---|
| `PoolInvariant` | `TypeOK`, `StartedInOrder`, `ThreadBudget` |
| `SleepOnlyWhenIdle`, `UnitsStart` | `NoForgottenUnit` and `StuckOnlyByRace`; `LongUnitsStart` and `UnitsStartWithSpare` |
| `AgendaInvariant`, `ThreadAnswers` | `TimerTypeOK`, `NoBurst`, `AgendaAhead`; `AgendaServed` and `StopAtNextPoint` |
| `LoggerInvariant`, `StopHandsOver` | `TypeOK`, `Accounted`, `CounterIsWrites`; `HandledUnlessLeft` and `StopReturns` |
| `ServerInvariant`, `NeverDeaf` | `TypeOK`, `NotErasedWhileBuilt`, `ClientAttended`; `AcceptArmed` and `ThreadLeft` |
| `HarmOnlyIfRaced` | `UsedAfterItsEndOnly`, `OvertakenByAnother`, `StaleSlotOnlyIfEarly`, `HandlersOutlivedByWritesOnly`, `CrashNeedsResetOrWrite` |
| `BytesKeptUnlessRaced` | `TypeOK`, `SingleWriteUnlessRaced`, `NothingSkippedUnlessRaced`, `InOrderUnlessRaced`, `LongerReadsPassed` |
| `CommandLines`, `CommandsEndProgram` | `SessionTypeOK`, and until two threads are in the buffer `WaitsOnlyBehindLines`, `TextKept`, `OneLineObeyed`; `QuitEndsProgram` and `StopEndsProgram` |
| `FramingInvariant` | `ReaderTypeOK`, `PacketsAsSent`, `ChunksAsSent`, `ReadsFitBuffer` |
| `WiringInvariant`, `PassedAsRead` | `RoutingTypeOK`, `BuiltAsConfigured`, `HandlerAlive`; `PassedEveryChannel` and `AsReadUnlessTerminal` |
| `RecordsAsConfigured` | `TypeOK`, `LinesAsWritten`, `OwnSinkUnlessSaid` |

**Properties with an exception.**  Several say "unless raced": the exception is a history variable
set at the step where the code leaves the gap (`raced`, `mixed`, `overlap`, `flaws`, `early`,
`firstOut`, `extra`), so that the property shows this gap to be the only one.  The gap itself is a hazard.

**Fairness.**  Weak fairness on the steps of threads (the operating system runs them), on
completions of operations the environment will finish (a socket whose peer reads, a port that is
there), on the clock.  The logger needs no more although `Push` and `Collect` compete for one
mutex: there are finitely many records, so the competition ends.  Strong fairness only in
`routing`, for an emission at a channel's mutex, which other threads take again and again.
`tcp_server` and `log_adaptor` check safety only and assume no fairness.  None is assumed
of what users, peers and devices may do or leave: sending, typing, connecting, losing or returning
a device, calling `Stop`.

## 4. What the code does otherwise

One statement of the repository is refuted by a run of its own.  `readme.txt` promises to redirect
a data stream; `tcp_client_order` shows three messages handed to a client and the last one written
twice, the second never: `WriteHandler` writes `m_msgQueue.back()` and pops the front.
It is the entry under `findings`.

The models have, as the code has, a number of other gaps that no document speaks about.  They
appear as the exceptions of the properties that pass, and a reader who changes the code there
should expect those properties to become stronger.

* Thread pool: a short unit pushed to an empty queue while all threads are in event loops starts
  only after the next submission (`UnitsStartWithSpare` needs a spare thread); `notify_all` before
  the wait leaves the destructor waiting (`StuckOnlyByRace`).
* Timers: a single job dequeued after its time point is dropped (`dropped`).
* Logger: 2500 "MS" are taken off as microseconds (`DelayMs` in `StartMux`), so that the delay meant
  to let late records in is a thousandth of it (`InOrderUnlessLate`); what follows a stop in its batch
  is lost, the next client's file name included (`Skipped`, in `Accounted`), and two clients of one
  sink close each other's file (`OwnFileUnlessClosed`); `Stop` waits for the queue of records and not
  for the `Write`s, and those still in the pool go with it (`LeftInPool`).
* TCP server: the next read is armed before the chunk is emitted, so that two io threads may emit
  two chunks in either order; a client whose first read fails at once is never erased (`early`);
  `shutdown` throws on a client that was reset and ends an io thread, so that as many resets as
  threads leave the port deaf (`ThreadLeft`).
* Serial port: `Setup` starts a write without the lock (`flaws`); `DoClose` leaves `bIsOpened` up;
  a read of exactly one byte is not passed (`LongerReadsPassed` is about the others).
* Manager: the first io thread to leave clears `m_ioFlag` for both, and `reset` destroys actors
  under the other (`LateUseNeedsSharedFlag`); a client that was reset makes `reset` throw before the
  logger is waited for (`ActorStopThrows`), and the destructor of the pool may hang (`PoolHangs`).
* Readers: a first ETF read larger than the header makes the next length negative (`Overread`).
* Routing: a terminal changes bytes that other destinations hold (`AsReadUnlessTerminal`); an
  unknown actor name becomes an arbitrary kind.
* Log client: `Stop` closes the socket while the last package is being written; once the connection
  broke, or a package was too big, it throws and leaves its thread joinable, or waits for ever behind a
  flag that stays up (`Broken` and `Blocked` in `StopReturns`); a host that cannot be resolved or reached
  ends the program (`dead`).
* Log adaptors: the name of the filter is spelt differently in the code and the configuration
  (`misspelt`); ETF records ignore the sink of their channel (`OwnSinkUnlessSaid`).
* Shell: of a message with several lines one is obeyed, the others wait for more messages
  (`extra`); the line buffer has no lock, although each source comes by a channel of its own: what it
  holds after two threads were in it is not said (`raced`, `TakeTornLine`), and half a line of a client
  is put before what the console types (`mixed`).

Places read and not modelled, for whoever continues: `StopBits` reads the option of the parity
(`proxy/terminal.cpp:316`); `exit` in a signal handler (`proxy/signals.cpp:147`); an unguarded first
look at the pointer in `Get` (`logclient/logclient.cpp:68`); two channels into one log adaptor, whose
line buffer then has two writers (`proxy/stream_logger_adapter.cpp:61`).

## 5. Proofs

Every safety property a run checks is also a theorem, checked by TLAPS for all values of the
constants under the assumptions named in the modules (messages have a positive size, a second is not
empty, units submit only short units, `"none"` is no client, and the like).  Seldom is a property
inductive by itself; what follows says what had to be added, and why.  A proof has one lemma per
kind of step, which says what the step does to one part of the state, and one per conjunct of the
invariant; a theorem is those put together.

**`TcpClientProofs`**, for any messages, sizes and number of sends.
*Types* (`TypeCorrect`) are proved part by part: the life of the client, the writer's members, the
kernel, the histories.
`OneWriteAtATime` is not inductive alone: a completion that reported more bytes than were in the
buffer would let the restart go wrong.  The invariant is `WriteInv`, which adds `ResultBounded`.
`FramesStayIntact` says that the wire followed by what the buffer still holds is the frames
chosen for sending; it needs `WriteInv`, because a second outstanding write would replace the
buffer, and a lemma on cutting a sequence in two.  `ClientImplementsStream` shows
`Spec => Stream!StreamSpec`: the initial states agree, a transfer is a delivery of the next bytes,
choosing a frame is an acceptance, everything else stutters; it rests on the two invariants.
`OrderKeptWhileShallow` proves `FifoWhileShallow`, as much of the order as the code keeps (section 4):
`QueueCounted` says that the queue is never longer than the high-water mark the property asks about, and
`OnlyOneWaits` that `back()` and `pop()` agree on a queue of one.

**`ThreadPoolProofs`**, for any units, nesting, budget and number of threads.  `PoolKeepsCount` proves
`PoolInvariant`; the count of threads rests on one lemma on the long units submitted so far
(`LongPushed`).  `PoolSleepsOnlyIdle` proves `SleepOnlyWhenIdle`.  Its first half counts
notifications and awake threads against units: a push adds one to both sides, a wake-up trades a
notification for an awake thread, taking a unit removes one of each.  The delicate step is going to
sleep, which takes a thread from the count without a unit: it needs `NothingWhileBlocking` (the thread
that is about to wait saw an empty queue and still holds `wt_mtx`).  The second half needs
`BlockedBeforeStop`: once `tp_stop` is set nobody new decides to wait.
Of the timers, for any jobs, delays and periods, `AgendaKeepsTime` proves `AgendaInvariant`.
`NoBurst` speaks of calls only; the invariant ties them to what is to come: an entry of the agenda lies
behind every call of its job by a period (`CalledBefore`), a job has one entry (`OneEntryEach`) and
arrives once (`IncomingFresh`).  `NextPointAhead` is the arithmetic of the `do ... while` of
`timer_thread`.

**`LoggerProofs`**, for any threads, scripts of records, sinks, multiplexers and length of the second.
All four theorems are of one invariant.  A record is in the queue, in a batch that a multiplexer, a unit
of the pool or a `Write` *holds* for a sink, behind a sink, or skipped by one; `Placed` says that for
every sink it concerns it is in exactly one of these places (`EveryRecordAccounted`).  For the order
(`SinksKeepOrder`), the queue and each batch are sorted (`QueueInLine`, `HeldInLine`), whatever was
taken from the queue is behind the delay and behind no record that is still in it unless that is late
(`TakenGood`), and what a sink has written precedes what is held for it (`OutThenHeld`,
`OutInLine`); the last two need that one batch is held per sink (`OneHolder`), and that needs one
multiplexer between its check and its submission with the sinks at rest (`Alone`): this is the place where
`overlap` is raised, and with `CounterIsWrites` it gives `OneWriter`.  `FilesOfClients`: the file of a
sink is the one named last (`FileKept`); a record in another file than its client's has a change or a stop
of somebody else behind the name (`OwnFile`), and one that is skipped a stop (`DroppedByStop`).
`AdjustMovesByDelta` and `EarlierIsEarlier` are about the time stamps: a shift moves a time by exactly its
argument in spite of the division towards zero, and the order of the multimap is the order of moments.

**`TcpServerProofs`**, for any clients and io threads, whatever fails.  `BuiltBeforeErased`: `BuildInv` says that whoever puts a client
together holds the lock of the list, and that a half-built client has such a builder, so that
`EraseClient` and `Stop` come before or after.  `StaleOnlyIfEarly`: who is past `DestroyMe`'s disconnect
has no connection, or was `early` (`DroppedFirst`); that nobody connects it again needs that a client is
made once (`ComesOnce`) and that operations belong to clients that exist (`OperationsSeen`).
`ClientListKept` proves `ServerInvariant`: the chain of a client, a read that is armed, its result, the
thread that destroys it, is never broken (`Attended`).  `UsedAfterEndOnlyIfRaced` proves
`HarmOnlyIfRaced`: of a client to which nothing was written there is one read, one result or one
thread that destroys it or was lost to it, and none of them once it is gone (`EndsOnce`); whoever fails,
destroys or has destroyed a client does so because its peer ended or `Stop` came, and a thread at work for a
client is not the one that destroyed it (`CauseInv`).  `PortNeverDeaf` has two halves: each way out of
`AcceptHandler` arms the next accept (`Hears`), and by `EndsOnce` two threads are never lost to
one client without a write, so that with fewer resets than threads one is left (`OneEach`, by the pigeonhole
principle).

**`UartTerminalProofs`**, for any number of bytes and any device.  `BytesKept` proves
`BytesKeptUnlessRaced`.  As long as no message slipped in while `Setup` looked at the buffer
and no old completion was taken for a new one (`Calm`), the two flags and the place of `Setup` tell whether
a write of this port is under way (`OneWrite`), its byte is the front of the buffer
(`FrontUnderWay`), and what the device took last is that byte or the one before (`LastTaken`).

**`ManagerProofs`**, over the specification of a session, for any number of io threads, handlers and
lines.  `NoWakeupMissed` is inductive by itself once the places of the threads are named.
`LateUseOnlyByFlag` needs `LoweredByAnother` (a lowered flag with a thread inside was lowered by one
that has ended) and `AllOutUnlessShared` (past its wait, `reset` finds all threads out, or the flag was
shared or not yet raised).  `CommandLinesKept` proves `CommandLines`: cutting the first line off a
text leaves its parts in order and whole (`FirstLineIs`), and takes one line end of all that came, so that
lines wait only as far as messages brought more than one; with a second thread in the buffer nothing
more is claimed (`LinesKept`).
Over the specification of the routing, for any configuration, threads and messages: `BuiltAndAlive` proves
`WiringInvariant`, `CarriedAsRead` proves `PassedAsRead`.  A thread in a slot holds the mutex of its channel
(`SlotLocked`), both ends of a channel are there until the actors are cleared (`EndsThere`), and a
message has passed exactly the channels its emission is past (`PassedSoFar`); for the entries done so
far there are actors and connections (`ActorsBuilt`, `ChannelsBuilt`).

**`LogClientProofs`**, for any threads, numbers of packages, too-big packages, retries and failures.
`OneWriteInFlight`: by itself `~overlap` is not inductive; `WireFlagged` (an outstanding write is
known to `m_writeInProgress`) makes it so, with one lemma on `WriteNextMessage`.
`NoPackageForgotten`: a package that waits while no write goes on has a caller of `Push` or the
last handler about to look.  It is inductive once the callers' places are typed; the point is that
`WriteNextMessage` always leaves the flag up or the queue empty, whoever calls it.
`ClientImplementsQueue` shows that what was taken and is not with the server, the message in flight
first, is the queue of `PackageQueue`: popping for a write stutters, its success delivers, a package the
builder refuses is left out, and a retry changes nothing.  `LogClientTypes` is the type invariant.

**`StreamProofs`**, about bytes that arrive in pieces.  Readers, for any packets, buffer and cut of
the stream: `FramesAreKept` proves `FramingInvariant`.  Its invariant has a phase per kind of read that may
be armed: in `HeaderPhase` the buffer holds the first `headerRead` bytes of the packet that begins where
those passed on end; in `BodyPhase` its header, with the rest asked for behind it;
`OverreadPhase` is the first ETF read that took too much; in `ChunkPhase` a client without frames has passed
on all it read.
The log protocol, for texts of every length and every width of the size fields: `SizesFit`, no size of
an accepted packet is cut; `AcceptedIsReadBack`, the parser walks an accepted packet to its end and
gives each member its value; `BuiltIsAccepted`, a package made by a macro is accepted as long as the
configured sizes leave room for the headers (52 bytes).
The adaptors, for any channels, filters, texts and chunks: the stream is lines that are ended and the one
under assembly (`LineOfStream`), which has the time of its first byte (`LineStamped`).  `LinesConcat`, the
lines of two parts of which the first ends a line are those of the first and those of the second, makes a
chunk a local matter: `RecordsKept`, `TimesKept`.  `PacketsKept` combines a step of the OSCAR adaptor with
`AcceptedIsReadBack`.

**Induction over data** is possible for what a recursive function or `FlattenSeq` computes, and used in
`LoggerProofs`, `ManagerProofs` and `StreamProofs`: a set of naturals that is not empty has a least element
(`LeastNatural`, from the library's facts on well-founded relations), from which follows that a set with
0, or 1, closed under successor up to n, contains n (`UpTo`, `FromZero`).  The recursive function of a
definition is then shown to exist and to be the only one (`JoinedExists`, `JoinedOnce`).

**What proving changed in the models.**  An attempt that failed for a reason was a statement that did not
say what was meant.  A logger's `skipped` is per sink; a
client's own earlier stop counts as `ByAnother`; `ChunksAsSent` says that nothing is passed on
that was not read; `Routing` is right for configurations without entries; a stream is
shorter than `SizeT`; the line cutting of `LogAdaptor` is written by the positions of the line ends.

**Model-checked only**: every liveness property (fairness and `ENABLED` are outside the prover), that is
`EventuallyDrained`, `UnitsStart`, `StopCompletesUnlessRaced`, `ThreadAnswers`, `StopHandsOver`,
`EventuallyWritten`, `ReopensUnlessReadFailed`, `CommandsEndProgram`, `SentIsPassed`, `EmissionsEnd` and the
`StopReturns` of the log client.  `ReopensUnlessReadFailed` is stated of a device that is there to stay: from
then on the port opens, for good, after any number of failures of `Setup`, unless a read failed otherwise
than by being aborted or an option was refused.

## 6. Not modelled

* `CConfigurator`, `CSTraceException`, the serial port's option parsing: no
  state that more than one step touches; reasons in `PROJECT.json`.  Of the programs' `main` what
  becomes of an exception of `reset` (`Manager`) or `Stop` (`LogClient`).  `monitor` is the build with
  `LOGGING_DIRECT`; in the other, its log client is a client like any.
* Signal handlers: `exit` from a handler is undefined behaviour of the library.
* Of the OSCAR codec: the functions for arrays and `tlv_parse`, which nothing calls, and the request id,
  which nothing reads.
* Of the logger: reading its configuration and the format of a record; severities are carried by
  the records and compared with nothing in the code.  Of the telnet client: the control sequences, a
  TODO of the code (it leaves out a first chunk that begins with 0xff, and so does the model).
* Of the log adaptors: regular expressions, which here erase one kind of character, and two channels
  that lead to one adaptor.

## 7. Plan

Done, in this order: writer of a TCP client with its abstract stream and proofs; thread pool and
timers, on which the rest runs; logger; server; serial port; manager; readers; routing; log
client with proofs; adapters; console; the codec, the message builder and time stamps with proofs; the
abstract queue of the log client; proofs of manager, server, thread pool and timers, then of every
other safety property the runs check.

Next:
1. Composition of `LogClient` with `FrameReader` and the codec: what a program logged is what a
   sink is given.  Composition of `Manager` with `ThreadPool`: `reset` over the real start of units.
2. An abstract logger (a bag of records, each to be written once) implemented by `Logger`; an
   abstract pool implemented by `ThreadPool`.
3. `LogAdaptor` with two channels into one adapter, whose buffer then has two writers.
