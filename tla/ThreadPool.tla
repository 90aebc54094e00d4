---------------------------- MODULE ThreadPool ----------------------------
(***************************************************************************)
(* The work-unit half of thread_pool: a queue, its mutex and condition     *)
(* variable, worker threads created on demand, and the destructor.  Long   *)
(* units (the asio event loops) always bring a thread along; short ones    *)
(* (log multiplexing, sink writes, the set-up of a serial port) bring one  *)
(* only while others wait and the hardware budget lasts.  A unit may       *)
(* submit further units while it runs.                                     *)
(***************************************************************************)
EXTENDS Naturals, Sequences, FiniteSets

CONSTANTS Long, Short,    \* the work units
          Children,       \* the units a unit submits while it runs, in order
          Available,      \* available_threads before the first submission
          MaxWorkers      \* bound: threads the model can create

Unit == Long \cup Short
Roots == Unit \ UNION {{Children[u][i] : i \in DOMAIN Children[u]} : u \in Unit}

ASSUME UnitAssumption ==
  /\ Long \cap Short = {}
  /\ IsFiniteSet(Long) /\ IsFiniteSet(Short)
  /\ Children \in [Unit -> Seq(Short)]
ASSUME ThreadAssumption ==
  /\ Available \in Nat
  /\ MaxWorkers \in Nat /\ MaxWorkers >= Cardinality(Long) + Available

Worker == 1 .. MaxWorkers

VARIABLES
  queue,       \* wt_queue
  avail,       \* available_threads
  stop,        \* tp_stop
  phase,       \* the destructor: "serving", "stopping", "joining", "gone";
               \* or "terminated": an exception left a thread
  created,     \* threads in wt_group
  pc,          \* where each thread is
  unit,        \* the unit a thread runs, as a set of at most one
  todo,        \* what that unit has still to submit
  notifies,    \* units pushed whose notify_one is still to come
  submitted,   \* history: units in the order of their push
  started,     \* history: units in the order they were taken
  raced        \* history: threads between the predicate and the wait when
               \* tp_stop was set

poolVars == <<queue, avail, created, notifies, submitted>>
vars == <<poolVars, stop, phase, pc, unit, todo, started, raced>>

Init ==
  /\ queue = <<>> /\ avail = Available /\ stop = FALSE /\ phase = "serving"
  /\ created = 0
  /\ pc = [w \in Worker |-> "absent"]
  /\ unit = [w \in Worker |-> {}] /\ todo = [w \in Worker |-> <<>>]
  /\ notifies = 0 /\ submitted = <<>> /\ started = <<>> /\ raced = {}

At(place) == {w \in Worker : pc[w] = place}
Submitted(u) == \E i \in DOMAIN submitted : submitted[i] = u
Started(u) == \E i \in DOMAIN started : started[i] = u

\* wt_mtx is held over a step by a thread about to wait and by one that is
\* creating a thread.
Unlocked == At("blocking") \cup At("creating") = {}

\* Faulty variant: long units are treated like short ones.
BringsThreadShortOnly(u) == avail > 0 /\ queue # <<>>

\* The condition under which SetWorkUnit creates a thread.
BringsThread(u) == u \in Long \/ (avail > 0 /\ queue # <<>>)

\* Faulty variant: nobody is notified.
NobodyNotified == notifies

OneMoreNotify == notifies + 1

\* The rest of SetWorkUnit: a thread if one is due, and the push; where is the
\* place of the threads that exist already.
Push(u, where) ==
  /\ queue' = Append(queue, u)
  /\ submitted' = Append(submitted, u)
  /\ notifies' = OneMoreNotify
  /\ IF BringsThread(u)
     THEN /\ created' = created + 1
          /\ pc' = [where EXCEPT ![created + 1] = "top"]
          /\ avail' = IF u \in Long THEN avail ELSE avail - 1
     ELSE pc' = where /\ UNCHANGED <<created, avail>>

\* SetWorkUnit called by the main thread or by the timer thread, which the
\* destructor joins before the workers.
SetWorkUnit(u) ==
  /\ phase \in {"serving", "stopping"}
  /\ u \in Roots /\ ~Submitted(u)
  /\ Unlocked
  /\ BringsThread(u) => created < MaxWorkers
  /\ Push(u, pc)
  /\ UNCHANGED <<stop, phase, unit, todo, started, raced>>

\* SetWorkUnit called by the unit a worker runs.  join_all keeps the lock of
\* the thread group, which create_thread needs, until every thread has ended.
SubmitChild(w) ==
  /\ pc[w] = "running" /\ todo[w] # <<>>
  /\ Unlocked
  /\ todo' = [todo EXCEPT ![w] = Tail(@)]
  /\ BringsThread(Head(todo[w])) => created < MaxWorkers
  /\ IF phase = "joining" /\ BringsThread(Head(todo[w]))
     THEN /\ pc' = [pc EXCEPT ![w] = "creating"]
          /\ UNCHANGED poolVars
     ELSE Push(Head(todo[w]), pc)
  /\ UNCHANGED <<stop, phase, unit, started, raced>>

\* notify_one, after wt_mtx was released; without a waiting thread it is lost.
Notify ==
  /\ notifies > 0
  /\ notifies' = notifies - 1
  /\ IF At("waiting") = {} THEN UNCHANGED pc
     ELSE \E w \in At("waiting") : pc' = [pc EXCEPT ![w] = "ready"]
  /\ UNCHANGED <<queue, avail, created, submitted, stop, phase, unit, todo, started, raced>>

SpuriousWake(w) ==
  /\ pc[w] = "waiting"
  /\ pc' = [pc EXCEPT ![w] = "ready"]
  /\ UNCHANGED <<poolVars, stop, phase, unit, todo, started, raced>>

\* The loop condition of work_thread.
Loop(w) ==
  /\ pc[w] = "top"
  /\ pc' = [pc EXCEPT ![w] = IF stop THEN "ended" ELSE "ready"]
  /\ UNCHANGED <<poolVars, stop, phase, unit, todo, started, raced>>

\* Faulty variant: the unit stays in the queue.
NotPopped == queue

Popped == Tail(queue)

\* work_unit = wt_queue.front(); wt_queue.pop()
Take(w) ==
  /\ pc' = [pc EXCEPT ![w] = "running"]
  /\ unit' = [unit EXCEPT ![w] = {Head(queue)}]
  /\ todo' = [todo EXCEPT ![w] = Children[Head(queue)]]
  /\ started' = Append(started, Head(queue))
  /\ queue' = Popped

\* With wt_mtx locked: the predicate of wt_cond.wait, and what follows it.
Acquire(w) ==
  /\ pc[w] = "ready" /\ Unlocked
  /\ \/ /\ stop
        /\ pc' = [pc EXCEPT ![w] = "top"]
        /\ UNCHANGED <<queue, unit, todo, started>>
     \/ /\ ~stop /\ queue = <<>>
        /\ pc' = [pc EXCEPT ![w] = "blocking"]
        /\ UNCHANGED <<queue, unit, todo, started>>
     \/ /\ ~stop /\ queue # <<>>
        /\ Take(w)
  /\ UNCHANGED <<avail, created, notifies, submitted, stop, phase, raced>>

\* The wait proper: the thread joins the waiting ones and releases wt_mtx.
Block(w) ==
  /\ pc[w] = "blocking"
  /\ pc' = [pc EXCEPT ![w] = "waiting"]
  /\ UNCHANGED <<poolVars, stop, phase, unit, todo, started, raced>>

\* The unit returns: an event loop when the program is stopping, and at any time
\* before that on an exception of a handler.
Finish(w) ==
  /\ pc[w] = "running" /\ todo[w] = <<>>
  /\ pc' = [pc EXCEPT ![w] = "top"]
  /\ unit' = [unit EXCEPT ![w] = {}]
  /\ UNCHANGED <<poolVars, stop, phase, todo, started, raced>>

\* The unit throws: both handlers of work_thread throw again, and an exception
\* that leaves a thread ends the process.
Crash(w) ==
  /\ pc[w] = "running"
  /\ phase' = "terminated"
  /\ pc' = [v \in Worker |-> "absent"]
  /\ unit' = [v \in Worker |-> {}] /\ todo' = [v \in Worker |-> <<>>]
  /\ notifies' = 0
  /\ UNCHANGED <<queue, avail, created, submitted, stop, started, raced>>

\* ~thread_pool: tp_stop = true, without wt_mtx.
DtorStop ==
  /\ phase = "serving"
  /\ phase' = "stopping" /\ stop' = TRUE
  /\ raced' = At("blocking")
  /\ UNCHANGED <<poolVars, pc, unit, todo, started>>

\* Faulty variant: only one thread is notified.
OneNotified == {w \in At("waiting") : \A v \in At("waiting") : w <= v}

AllNotified == At("waiting")

\* The timer thread has been joined: notify_all, then join_all.
DtorNotify ==
  /\ phase = "stopping"
  /\ phase' = "joining"
  /\ pc' = [w \in Worker |-> IF w \in AllNotified THEN "ready" ELSE pc[w]]
  /\ UNCHANGED <<poolVars, stop, unit, todo, started, raced>>

DtorJoined ==
  /\ phase = "joining"
  /\ \A w \in 1 .. created : pc[w] = "ended"
  /\ phase' = "gone"
  /\ UNCHANGED <<poolVars, stop, pc, unit, todo, started, raced>>

WorkerStep(w) ==
  Loop(w) \/ Acquire(w) \/ Block(w) \/ SubmitChild(w) \/ Finish(w)

\* What a thread is bound to do: an event loop need not return while the pool serves.
DueStep(w) ==
  \/ Loop(w) \/ Acquire(w) \/ Block(w) \/ SubmitChild(w)
  \/ (unit[w] \subseteq Short \/ phase # "serving") /\ Finish(w)

Dtor == DtorNotify \/ DtorJoined

Next ==
  \/ \E u \in Roots : SetWorkUnit(u)
  \/ Notify
  \/ \E w \in Worker : WorkerStep(w) \/ SpuriousWake(w) \/ Crash(w)
  \/ DtorStop
  \/ Dtor

Spec == Init /\ [][Next]_vars

\* Threads and the destructor make progress; nothing obliges anybody to submit a
\* unit, to stop the pool, to wake spuriously or to throw.
Fairness ==
  /\ WF_vars(Notify)
  /\ \A w \in Worker : WF_vars(DueStep(w))
  /\ WF_vars(Dtor)

FairSpec == Spec /\ Fairness
-----------------------------------------------------------------------------
Place == {"absent", "top", "ready", "blocking", "waiting", "running", "creating", "ended"}

TypeOK ==
  /\ queue \in Seq(Unit) /\ submitted \in Seq(Unit) /\ started \in Seq(Unit)
  /\ avail \in 0 .. Available /\ created \in 0 .. MaxWorkers
  /\ notifies \in Nat /\ stop \in BOOLEAN
  /\ phase \in {"serving", "stopping", "joining", "gone", "terminated"}
  /\ pc \in [Worker -> Place]
  /\ unit \in [Worker -> SUBSET Unit] /\ todo \in [Worker -> Seq(Short)]
  /\ raced \subseteq Worker

\* Units start in the order of their submission, each at most once, and a unit
\* that has not started is still in the queue: two workers never take the same
\* unit (front and pop under wt_mtx).
StartedInOrder == started \o queue = submitted

\* SetWorkUnit never creates more threads than one per long unit and the
\* hardware budget.
ThreadBudget ==
  created + avail = Available + Cardinality({u \in Long : Submitted(u)})

\* A unit is forgotten when it waits in the queue while every thread that could
\* take it sleeps.  The notify_one after the unlock is enough: as many
\* notifications or awake threads are under way as there are units, or no thread
\* sleeps.
NoForgottenUnit ==
  (~stop /\ At("waiting") # {}) =>
    Len(queue) <= notifies + Cardinality(At("top") \cup At("ready"))

\* The destructor can be left waiting only for a thread it woke too early (it was
\* between the predicate and the wait when tp_stop was set), or for one whose unit
\* creates a thread while join_all holds the thread group.
StuckOnlyByRace ==
  phase = "joining" =>
    \A w \in Worker : pc[w] = "waiting" => w \in raced

\* Every event loop submitted gets a thread, whatever the other units do: a long
\* unit brings its own.
LongUnitsStart ==
  \A u \in Long : Submitted(u) ~> (Started(u) \/ phase # "serving")

\* Once there are more threads than event loops, every unit submitted is started.
Spare == created > Cardinality(Long)
UnitsStartWithSpare ==
  \A u \in Unit : (Submitted(u) /\ Spare) ~> (Started(u) \/ phase # "serving")

\* The destructor ends, unless a thread was racing with tp_stop or is creating a
\* thread under join_all.
StopCompletesUnlessRaced ==
  (phase = "stopping") ~>
    (phase \in {"gone", "terminated"} \/ raced # {} \/ At("creating") # {})

\* Units and threads are accounted for: whatever is pushed, taken and created, the
\* units start in order and once, and no thread exceeds the budget.
PoolInvariant == TypeOK /\ StartedInOrder /\ ThreadBudget

\* A thread of the pool sleeps only when it may: not beside a unit nobody else was
\* woken for, and under join_all only when it raced with tp_stop.
SleepOnlyWhenIdle == NoForgottenUnit /\ StuckOnlyByRace

\* A unit that was submitted starts: an event loop always, a short unit once there
\* are more threads than loops.
UnitsStart == LongUnitsStart /\ UnitsStartWithSpare
=============================================================================
