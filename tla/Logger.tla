------------------------------- MODULE Logger -------------------------------
(***************************************************************************)
(* CLogger and its sinks.  Threads stamp a record and push it; a timer     *)
(* submits LogMultiplexer to the thread pool, which moves the records that *)
(* are old enough into a batch and submits one Write per sink that the     *)
(* batch concerns; Write runs the records of its own channel against the   *)
(* file of the sink.  The clock counts microseconds.                       *)
(***************************************************************************)
EXTENDS Timestamp, SequencesExt, FiniteSets

CONSTANTS Thread,      \* the threads that log
          Cases,       \* what happens: [sinks, script, muxers, stops], see below
          Sink,        \* the sinks there may be
          Channel,     \* the channel of a sink
          Consoles,    \* the sinks that are consoles
          OnDemand,    \* the file sinks with open_by_demand
          File,        \* the files that clients name
          Muxer,       \* the pool threads that run LogMultiplexer
          DelayMs,     \* LOG_OUTPUT_DELAY_MS, which is taken as microseconds
          MaxTime      \* bound: the last instant at which a thread stamps a record or calls Stop

\* A case has m_sinks as the configuration orders them, gives each thread the records it
\* logs, as [chan, cmd, name], and says how many pool threads may be in LogMultiplexer at
\* once and whether Stop is called.
Internal == 0                                  \* LOG_INTERNAL_CHANNEL
Unknown == -1                                  \* LOG_UNKNOWN_CHANNEL
Default == "default"                           \* the file a sink starts with
NoFile == "none"                               \* m_fileName is empty
Commands == {"message", "change", "stop"}
Entry == [chan : Nat \cup {Unknown}, cmd : Commands, name : File \cup {NoFile}]

ASSUME LoggerAssumption ==
  /\ DelayMs \in Nat /\ MaxTime \in Nat
  /\ Channel \in [Sink -> Nat] /\ Consoles \subseteq Sink /\ OnDemand \subseteq Sink
  /\ \A s \in Consoles : Channel[s] = Internal
  /\ "logger" \notin Thread \cup Sink /\ Thread \cap Sink = {} /\ "free" \notin Muxer
  /\ \A c \in Cases : /\ c.sinks \in Seq(Sink) /\ IsInjective(c.sinks)
                      /\ c.script \in [Thread -> Seq(Entry)]

\* The records of an ETF client: its constructor names a file, its destructor stops.
Opens(chan, file) == [chan |-> chan, cmd |-> "change", name |-> file]
Closes(chan) == [chan |-> chan, cmd |-> "stop", name |-> NoFile]
Says(chan) == [chan |-> chan, cmd |-> "message", name |-> NoFile]

VARIABLES
  case,      \* the case at hand
  now,       \* the clock, in microseconds
  queue,     \* m_logRecords, a multiset in the order of CCompareLogPackages
  lock,      \* who holds m_queueMutex over a step: a Muxer or "free"
  logged,    \* how many entries of its script a thread has pushed
  stamped,   \* when the record a thread has built was stamped, -1 for none
  timer,     \* the timer job of the logger is on the agenda of the pool
  continue,  \* m_continueTimer
  life,      \* "running", "stopping" (inside WaitEmptyQueue), "stopped", "ended" (the pool is destroyed)
  pool,      \* units submitted and not yet started; those of an ended pool never start
  mux,       \* pool threads inside LogMultiplexer
  writes,    \* Write calls under way, as they were started: sink, batch, and the next index
  jobs,      \* CSink::m_jobCounter
  file,      \* m_fileName of each sink
  out,       \* history: per sink, the records handled and the file they went to
  skipped,   \* history: per sink, the records that a Write never looked at
  overlap    \* history: two multiplexers have been past the check at once

vars == <<case, now, queue, lock, logged, stamped, timer, continue, life, pool, mux,
          writes, jobs, file, out, skipped, overlap>>
producers == <<case, logged, stamped>>
control == <<timer, continue, life>>
sinkState == <<writes, jobs, file, out, skipped>>

Idle == [pc |-> "idle", cut |-> Stamped(0), batch |-> <<>>, next |-> 0]
StartName(s) == IF s \in Consoles \/ (s \in OnDemand /\ Channel[s] # Internal)
                THEN NoFile ELSE Default

\* What the logger and its sinks themselves log, on the internal channel.
Notice(src, n, at) == [src |-> src, n |-> n, ts |-> Stamped(at), at |-> at,
                       chan |-> Internal, cmd |-> "message", name |-> NoFile]

\* The logger after Start.
Init ==
  /\ case \in Cases /\ now = 0 /\ queue = <<Notice("logger", 0, 0)>> /\ lock = "free"
  /\ logged = [t \in Thread |-> 0] /\ stamped = [t \in Thread |-> -1]
  /\ timer = TRUE /\ continue = TRUE /\ life = "running"
  /\ pool = <<>> /\ mux = [m \in Muxer |-> Idle]
  /\ writes = <<>> /\ jobs = 0
  /\ file = [s \in Sink |-> StartName(s)]
  /\ out = [s \in Sink |-> <<>>] /\ skipped = [s \in Sink |-> {}] /\ overlap = FALSE

\* The clock goes on for as long as a record is too young for a multiplexer.
Tick ==
  /\ now < MaxTime \/ \E i \in DOMAIN queue : Micros(queue[i].ts) > now - DelayMs
  /\ now' = now + 1
  /\ UNCHANGED <<queue, lock, producers, control, pool, mux, sinkState, overlap>>
-----------------------------------------------------------------------------
\* Faulty variant: the record goes to the end whatever its time stamp.
InsertedLast(q, r) == Append(q, r)

\* Faulty variant: the records before lower_bound.
Before(q, ts) == {i \in DOMAIN q : Earlier(q[i].ts, ts)}

\* The records that are not later than ts: those before upper_bound.
UpTo(q, ts) == {i \in DOMAIN q : ~Earlier(ts, q[i].ts)}

\* multiset::insert: after the records whose time stamp is not greater.
Inserted(q, r) ==
  LET n == Cardinality(UpTo(q, r.ts))
  IN SubSeq(q, 1, n) \o <<r>> \o SubSeq(q, n + 1, Len(q))

\* A thread builds a package and stamps it ...
Stamp(t) ==
  /\ logged[t] < Len(case.script[t]) /\ stamped[t] = -1 /\ now <= MaxTime
  /\ stamped' = [stamped EXCEPT ![t] = now]
  /\ UNCHANGED <<case, now, queue, lock, logged, control, pool, mux, sinkState, overlap>>

\* ... and pushes it, at some later time, under m_queueMutex; a warning takes the
\* place of a record for the unknown channel.
Push(t) ==
  /\ stamped[t] # -1 /\ lock = "free"
  /\ LET e == case.script[t][logged[t] + 1]
         r == [src |-> t, n |-> logged[t] + 1, ts |-> Stamped(stamped[t]),
               at |-> now, chan |-> e.chan, cmd |-> e.cmd, name |-> e.name]
     IN queue' = Inserted(queue, IF e.chan = Unknown THEN Notice("logger", 2, now) ELSE r)
  /\ logged' = [logged EXCEPT ![t] = @ + 1]
  /\ stamped' = [stamped EXCEPT ![t] = -1]
  /\ UNCHANGED <<case, now, lock, control, pool, mux, sinkState, overlap>>
-----------------------------------------------------------------------------
Busy == {m \in Muxer : mux[m].pc # "idle"}

\* TimerClockHandler; the timer thread keeps the job while the callback says so.
TimerClock ==
  /\ timer /\ life # "ended"
  /\ Cardinality({i \in DOMAIN pool : pool[i].kind = "mux"}) + Cardinality(Busy) < case.muxers
  /\ pool' = Append(pool, [kind |-> "mux"])
  /\ timer' = continue
  /\ UNCHANGED <<now, queue, lock, producers, continue, life, mux, sinkState, overlap>>

\* The pool starts its units in order (ThreadPool!StartedInOrder).
StartMux(m) ==
  /\ pool # <<>> /\ Head(pool).kind = "mux" /\ life # "ended" /\ mux[m] = Idle
  /\ pool' = Tail(pool)
  /\ mux' = [mux EXCEPT ![m].pc = "wait"]
  /\ UNCHANGED <<now, queue, lock, producers, control, sinkState, overlap>>

\* Faulty variant: the multiplexer does not wait for the sinks.
SinksForgotten == TRUE

SinksIdle == jobs = 0

\* WaitJobFinishAllSinks returns true, and m_logRecords.size() is read unlocked.
Pass(m) ==
  /\ mux[m].pc = "wait" /\ SinksIdle
  /\ mux' = [mux EXCEPT ![m] = IF queue # <<>> THEN [@ EXCEPT !.pc = "stamp"] ELSE Idle]
  /\ overlap' = (overlap \/ (queue # <<>> /\ \E o \in Muxer \ {m} : mux[o].pc \in {"stamp", "collect", "submit"}))
  /\ UNCHANGED <<now, queue, lock, producers, control, pool, sinkState>>

\* The sinks are still busy when the wait ends.
GiveUp(m) ==
  /\ mux[m].pc = "wait" /\ ~SinksIdle
  /\ mux' = [mux EXCEPT ![m] = Idle]
  /\ UNCHANGED <<now, queue, lock, producers, control, pool, sinkState, overlap>>

\* The delay is subtracted from a field that holds microseconds.
Cut(m) ==
  /\ mux[m].pc = "stamp"
  /\ mux' = [mux EXCEPT ![m].pc = "collect", ![m].cut = TimestampAdjust(Stamped(now), -DelayMs)]
  /\ UNCHANGED <<now, queue, lock, producers, control, pool, sinkState, overlap>>

Concerns(s, batch) == \E i \in DOMAIN batch : batch[i].chan = Channel[s]

\* Faulty variant: one record too many is erased.
ErasedOneMore(q, n) == SubSeq(q, n + 2, Len(q))

Erased(q, n) == SubSeq(q, n + 1, Len(q))

\* The sinks from the index on that the batch concerns, in the order of m_sinks.
Ahead(from, batch) == {x \in from .. Len(case.sinks) : Concerns(case.sinks[x], batch)}

\* The records up to the cut leave the queue; those no sink is there for are gone.
Collect(m) ==
  /\ mux[m].pc = "collect" /\ lock = "free"
  /\ LET n == Cardinality(UpTo(queue, mux[m].cut))
         batch == SubSeq(queue, 1, n)
     IN /\ queue' = Erased(queue, n)
        /\ IF Ahead(1, batch) = {} THEN UNCHANGED lock /\ mux' = [mux EXCEPT ![m] = Idle]
           ELSE /\ lock' = m
                /\ mux' = [mux EXCEPT ![m] = [pc |-> "submit", cut |-> Stamped(0), batch |-> batch, next |-> 1]]
  /\ UNCHANGED <<now, producers, control, pool, sinkState, overlap>>

\* One Write is counted and submitted; after the last one the mutex is released.
Submit(m) ==
  /\ mux[m].pc = "submit"
  /\ \E x \in Ahead(mux[m].next, mux[m].batch) :
       /\ \A y \in Ahead(mux[m].next, mux[m].batch) : x <= y
       /\ pool' = Append(pool, [kind |-> "write", sink |-> case.sinks[x], batch |-> mux[m].batch])
       /\ IF Ahead(x + 1, mux[m].batch) = {} THEN lock' = "free" /\ mux' = [mux EXCEPT ![m] = Idle]
          ELSE UNCHANGED lock /\ mux' = [mux EXCEPT ![m].next = x + 1]
  /\ jobs' = jobs + 1
  /\ UNCHANGED <<now, queue, producers, control, writes, file, out, skipped, overlap>>
-----------------------------------------------------------------------------
StartWrite ==
  /\ pool # <<>> /\ Head(pool).kind = "write" /\ life # "ended"
  /\ pool' = Tail(pool)
  /\ writes' = Append(writes, [sink |-> Head(pool).sink, batch |-> Head(pool).batch, i |-> 1])
  /\ UNCHANGED <<now, queue, lock, producers, control, mux, jobs, file, out, skipped, overlap>>

\* The records of the sink's own channel that are left, and the first of them.
Mine(w) == {k \in w.i .. Len(w.batch) : w.batch[k].chan = Channel[w.sink]}
First(w, k) == k \in Mine(w) /\ \A l \in Mine(w) : k <= l

\* The Write x has handled the record k of its batch, which went to the file f.
Handled(x, k, f) ==
  LET s == writes[x].sink
  IN out' = [out EXCEPT ![s] = Append(@, [rec |-> writes[x].batch[k], file |-> f])]
GoesOn(x, k) == writes' = [writes EXCEPT ![x].i = k + 1]

\* CConsoleSink::Write prints messages of the internal channel; CFileSink::Write
\* appends a message to the file it has, if any.
WriteMessage(x) ==
  /\ \E k \in DOMAIN writes[x].batch :
       LET s == writes[x].sink IN
       /\ First(writes[x], k) /\ (writes[x].batch[k].cmd = "message" \/ s \in Consoles)
       /\ Handled(x, k, IF s \in Consoles THEN "console" ELSE file[s])
       /\ GoesOn(x, k)
  /\ UNCHANGED <<now, queue, lock, producers, control, pool, mux, jobs, file, skipped, overlap>>

\* eChangeFile: the next messages go to the new file, and a debug record is logged.
WriteChange(x) ==
  /\ lock = "free" /\ writes[x].sink \notin Consoles /\ Channel[writes[x].sink] > Internal
  /\ \E k \in DOMAIN writes[x].batch :
       LET s == writes[x].sink
           r == writes[x].batch[k] IN
       /\ First(writes[x], k) /\ r.cmd = "change"
       /\ file' = [file EXCEPT ![s] = r.name]
       /\ Handled(x, k, r.name)
       /\ queue' = Inserted(queue, Notice(s, Len(out[s]), now))
       /\ GoesOn(x, k)
  /\ UNCHANGED <<now, lock, producers, control, pool, mux, jobs, skipped, overlap>>

\* eStop clears the file name and leaves the loop: the rest of the batch is not
\* looked at.
WriteStop(x) ==
  /\ writes[x].sink \notin Consoles /\ Channel[writes[x].sink] > Internal
  /\ \E k \in DOMAIN writes[x].batch :
       LET s == writes[x].sink
           b == writes[x].batch IN
       /\ First(writes[x], k) /\ b[k].cmd = "stop"
       /\ file' = [file EXCEPT ![s] = NoFile]
       /\ Handled(x, k, NoFile)
       /\ skipped' = [skipped EXCEPT ![s] = @ \cup {b[l] : l \in Mine(writes[x]) \ {k}}]
       /\ GoesOn(x, Len(b))
  /\ UNCHANGED <<now, queue, lock, producers, control, pool, mux, jobs, overlap>>

\* Neither can be done to a file of the internal channel: a warning is logged, and the
\* Write goes on.
WriteRefused(x) ==
  /\ lock = "free" /\ writes[x].sink \notin Consoles /\ Channel[writes[x].sink] = Internal
  /\ \E k \in DOMAIN writes[x].batch :
       LET s == writes[x].sink IN
       /\ First(writes[x], k) /\ writes[x].batch[k].cmd \in {"stop", "change"}
       /\ Handled(x, k, file[s])
       /\ queue' = Inserted(queue, Notice(s, Len(out[s]), now))
       /\ GoesOn(x, k)
  /\ UNCHANGED <<now, lock, producers, control, pool, mux, jobs, file, skipped, overlap>>

\* CloseStream and DecrementJobCounter.
WriteDone(x) ==
  /\ Mine(writes[x]) = {}
  /\ writes' = RemoveAt(writes, x)
  /\ jobs' = jobs - 1
  /\ UNCHANGED <<now, queue, lock, producers, control, pool, mux, file, out, skipped, overlap>>
-----------------------------------------------------------------------------
\* Stop logs a last notice; WaitEmptyQueue ...
StopBegin ==
  /\ life = "running" /\ lock = "free" /\ case.stops /\ now <= MaxTime
  /\ life' = "stopping"
  /\ queue' = Inserted(queue, Notice("logger", 1, now))
  /\ UNCHANGED <<now, lock, producers, timer, continue, pool, mux, sinkState, overlap>>

\* Faulty variant: the queue is not looked at.
SeenAnything == TRUE

SeenEmpty == queue = <<>>

\* ... polls the size under the mutex, and then the timer is told to end.
StopEnd ==
  /\ life = "stopping" /\ lock = "free" /\ SeenEmpty
  /\ life' = "stopped"
  /\ continue' = FALSE
  /\ UNCHANGED <<now, queue, lock, producers, timer, pool, mux, sinkState, overlap>>

\* CManager::reset goes on and destroys the pool: a unit that has not started never does,
\* and the threads that are in one are joined when they come out of it.
PoolEnds ==
  /\ life = "stopped"
  /\ life' = "ended"
  /\ UNCHANGED <<now, queue, lock, producers, timer, continue, pool, mux, sinkState, overlap>>

MuxStep(m) == StartMux(m) \/ Pass(m) \/ GiveUp(m) \/ Cut(m) \/ Collect(m) \/ Submit(m)
WriteStep(x) == WriteMessage(x) \/ WriteChange(x) \/ WriteStop(x) \/ WriteRefused(x) \/ WriteDone(x)

Next ==
  \/ Tick \/ TimerClock \/ StartWrite \/ StopBegin \/ StopEnd \/ PoolEnds
  \/ \E t \in Thread : Stamp(t) \/ Push(t)
  \/ \E m \in Muxer : StartMux(m) \/ Pass(m) \/ GiveUp(m) \/ Cut(m) \/ Collect(m) \/ Submit(m)
  \/ \E x \in DOMAIN writes : WriteMessage(x) \/ WriteChange(x) \/ WriteStop(x) \/ WriteRefused(x) \/ WriteDone(x)

Spec == Init /\ [][Next]_vars

\* Time passes; the timer thread and the pool threads run; a thread that has
\* stamped a record goes on to push it; Stop polls again and again.  Weak fairness
\* is enough: a finite number of records holds the mutex over a finite number of
\* steps, and leaves it free after that.
FairSpec ==
  /\ Spec /\ WF_vars(Tick) /\ WF_vars(TimerClock) /\ WF_vars(StartWrite)
  /\ \A t \in Thread : WF_vars(Push(t))
  /\ \A m \in Muxer : WF_vars(MuxStep(m))
  /\ WF_vars(\E x \in DOMAIN writes : WriteStep(x))
  /\ WF_vars(StopEnd)
-----------------------------------------------------------------------------
Numbers == UNION {DOMAIN c.script[t] : c \in Cases, t \in Thread}
Pushed == {k \in Thread \X Numbers : k[2] <= logged[k[1]]}
Has(seq, t, n) == \E i \in DOMAIN seq : seq[i].src = t /\ seq[i].n = n
Concerned(t, n) ==
  {s \in Range(case.sinks) : n \in DOMAIN case.script[t] /\ Channel[s] = case.script[t][n].chan}

InQueue(t, n) == Has(queue, t, n)
InBatch(s, t, n) ==
  \/ \E m \in Muxer : /\ mux[m].pc = "submit" /\ Has(mux[m].batch, t, n)
                      /\ \E x \in mux[m].next .. Len(case.sinks) : case.sinks[x] = s
  \/ \E i \in DOMAIN pool : /\ pool[i].kind = "write"
                            /\ pool[i].sink = s /\ Has(pool[i].batch, t, n)
  \/ \E x \in DOMAIN writes : /\ writes[x].sink = s
                              /\ Has(SubSeq(writes[x].batch, writes[x].i, Len(writes[x].batch)), t, n)
TimesDone(s, t, n) ==
  Cardinality({i \in DOMAIN out[s] : out[s][i].rec.src = t /\ out[s][i].rec.n = n})
Skipped(s, t, n) == \E r \in skipped[s] : r.src = t /\ r.n = n

Record == [src : Thread \cup Sink \cup {"logger"}, n : Nat, ts : Timestamps, at : Nat,
           chan : Nat, cmd : Commands, name : File \cup {NoFile}]

TypeOK ==
  /\ now \in Nat /\ queue \in Seq(Record) /\ lock \in Muxer \cup {"free"}
  /\ \A t \in Thread : logged[t] \in 0 .. Len(case.script[t]) /\ stamped[t] \in -1 .. MaxTime
  /\ timer \in BOOLEAN /\ continue \in BOOLEAN /\ overlap \in BOOLEAN
  /\ life \in {"running", "stopping", "stopped", "ended"}
  /\ \A m \in Muxer : mux[m].pc \in {"idle", "wait", "stamp", "collect", "submit"}
  /\ \A x \in DOMAIN writes : writes[x].sink \in Sink /\ writes[x].batch \in Seq(Record)
  /\ jobs \in Nat /\ \A s \in Sink : skipped[s] \subseteq Record

\* A record that was pushed is, for each sink of its channel, in exactly one place
\* until a Write handles it, and no Write handles it twice: the multiplexer, the
\* pool and the sinks neither lose nor double one (CLogger::LogMultiplexer).
Accounted ==
  \A k \in Pushed : \A s \in Concerned(k[1], k[2]) :
    LET t == k[1]
        n == k[2]
    IN (IF InQueue(t, n) THEN 1 ELSE 0) + (IF InBatch(s, t, n) THEN 1 ELSE 0)
         + TimesDone(s, t, n) + (IF Skipped(s, t, n) THEN 1 ELSE 0) = 1

\* CSink::m_jobCounter is the number of Writes submitted or under way, so that a
\* finished round lets the next multiplexer in (WaitJobFinishAllSinks).
CounterIsWrites ==
  jobs = Cardinality({i \in DOMAIN pool : pool[i].kind = "write"}) + Len(writes)

\* The records of a sink come out in the order of their time stamps, except one
\* that was pushed later after its stamp than the output delay, and except when
\* two multiplexers passed WaitJobFinishAllSinks together.
InOrderUnlessLate ==
  \A s \in Sink : \A i, j \in DOMAIN out[s] :
    LET a == out[s][i].rec
        b == out[s][j].rec
    IN (i < j /\ Micros(a.ts) > Micros(b.ts)) => (overlap \/ b.at - Micros(b.ts) > DelayMs)

\* A sink is written by one thread (its stream and file name have no lock), unless
\* two multiplexers passed WaitJobFinishAllSinks together.
OneWriterUnlessOverlap ==
  \A x, y \in DOMAIN writes : (x # y /\ writes[x].sink = writes[y].sink) => overlap

\* The client t names a file for the sink with its record i, and record j is the first
\* thing but messages that it logs there after that.
InFile(s, t, i, j) ==
  LET e == case.script[t] IN
  /\ i < j /\ \A l \in i .. j : e[l].chan = Channel[s]
  /\ Channel[s] > Internal /\ e[i].cmd = "change" /\ \A l \in i + 1 .. j : e[l].cmd = "message"
Is(r, t, n) == r.src = t /\ r.n = n

\* The file is changed or closed by another client, or by the same thread for a client
\* it served before.
ByAnother(s, t, i, k) ==
  LET r == out[s][k].rec IN r.cmd # "message" /\ (r.src # t \/ r.n < i)

\* What a client logs is written to the file it named, even in the same instant and
\* however late, unless another client of the channel changed or closed the file since;
\* and its records are dropped only after the stop of another one.
OwnFileUnlessClosed ==
  \A s \in Sink \ Consoles : \A t \in Thread : \A i, j \in DOMAIN case.script[t] :
    (InFile(s, t, i, j) /\ ~overlap) =>
      /\ \A d \in DOMAIN out[s] :
           (Is(out[s][d].rec, t, j) /\ out[s][d].file # case.script[t][i].name) =>
             \E k \in 1 .. d - 1 :
               ByAnother(s, t, i, k) /\ \A l \in k .. d - 1 : ~Is(out[s][l].rec, t, i)
      /\ (Skipped(s, t, i) \/ Skipped(s, t, j)) =>
           \E k \in DOMAIN out[s] : ByAnother(s, t, i, k) /\ out[s][k].rec.cmd = "stop"

\* The Write that is to handle the record n of t waits for a thread of the pool.
LeftInPool(s, t, n) ==
  \E i \in DOMAIN pool : pool[i].kind = "write" /\ pool[i].sink = s /\ Has(pool[i].batch, t, n)

\* What was pushed before Stop returned is handled by its sinks, whatever the timer, the
\* multiplexers and other threads do, but for what is in a Write that waited for a thread
\* when CManager::reset destroyed the pool: Stop waits for an empty m_logRecords, not for
\* the Writes (m_jobCounter).
HandledUnlessLeft ==
  \A t \in Thread : \A n \in Numbers :
    (life \in {"running", "stopping"} /\ logged[t] >= n)
      ~> \A s \in Concerned(t, n) : \/ TimesDone(s, t, n) > 0 \/ Skipped(s, t, n)
                                    \/ life = "ended" /\ LeftInPool(s, t, n)

\* Stop returns: WaitEmptyQueue does not wait for ever.
StopReturns == (life = "stopping") ~> (life \in {"stopped", "ended"})

\* Records and Writes are accounted for: each record pushed is in one place for each
\* of its sinks, and the counter the multiplexer waits for counts the Writes.
LoggerInvariant == TypeOK /\ Accounted /\ CounterIsWrites

\* Stop returns, and hands over all that was pushed before: it is handled, or in a Write
\* the pool still held when it was destroyed.
StopHandsOver == HandledUnlessLeft /\ StopReturns
=============================================================================
