---------------------------- MODULE TimerThread ----------------------------
(***************************************************************************)
(* The timer half of thread_pool: SetTimer hands jobs to timer_thread,     *)
(* which keeps them by due time, sleeps until the first one, and runs the  *)
(* callbacks while it holds tj_mtx.  Time is a counter that may advance    *)
(* between any two steps.                                                  *)
(***************************************************************************)
EXTENDS Integers, Sequences, FiniteSets

CONSTANTS Job,        \* the timer jobs
          Delay,      \* how far ahead of the call the first event of a job is
          Period,     \* its period, 0 for a job that fires once
          Repeats,    \* the jobs whose callback returns true
          MaxTime     \* bound: the last instant of the clock

ASSUME JobAssumption ==
  /\ Delay \in [Job -> Nat] /\ Period \in [Job -> Nat]
  /\ Repeats \subseteq Job /\ MaxTime \in Nat

Forever == MaxTime + 1      \* an hour ahead: later than the clock goes
Entry == [job : Job, at : Nat]

VARIABLES
  now,       \* the clock
  tp_stop,   \* tp_stop
  notified,  \* the destructor has called notify_one
  timerPc,   \* where timer_thread is
  incoming,  \* tj_queue
  agenda,    \* timer_jobs_queue; sorted in the code, so its front is earliest
  wakeAt,    \* the deadline of wait_until
  tick,      \* tm_point after the wait
  fired,     \* history: the callbacks called: the entry and the tm_point of the wake-up
  dropped    \* history: the jobs let go when they were dequeued

timerVars == <<now, tp_stop, notified, timerPc, incoming, agenda, wakeAt, tick, fired, dropped>>

TimerInit ==
  /\ now = 0 /\ tp_stop = FALSE /\ notified = FALSE /\ timerPc = "absent"
  /\ incoming = <<>> /\ agenda = {} /\ wakeAt = 0 /\ tick = 0
  /\ fired = {} /\ dropped = {}

\* tj_mtx is held from the predicate to the wait and while jobs are handled.
TimerUnlocked == timerPc \in {"absent", "loop", "waiting", "check", "ended"}

Known(j) == \/ \E i \in DOMAIN incoming : incoming[i].job = j
            \/ \E e \in agenda : e.job = j
            \/ \E f \in fired : f.job = j
            \/ j \in dropped

Tick ==
  /\ now < MaxTime
  /\ now' = now + 1
  /\ UNCHANGED <<tp_stop, notified, timerPc, incoming, agenda, wakeAt, tick, fired, dropped>>

\* SetTimer: the thread is created by the first call; notify_one is called with
\* tj_mtx held, so it is never lost.
SetTimer(j) ==
  /\ ~tp_stop /\ TimerUnlocked /\ ~Known(j)
  /\ incoming' = Append(incoming, [job |-> j, at |-> now + Delay[j]])
  /\ timerPc' = CASE timerPc = "absent" -> "loop"
                  [] timerPc = "waiting" -> "check"
                  [] OTHER -> timerPc
  /\ UNCHANGED <<now, tp_stop, notified, agenda, wakeAt, tick, fired, dropped>>

Earliest(S) == {e \in S : \A f \in S : e.at <= f.at}

\* The loop condition and the deadline.
TimerLoop ==
  /\ timerPc = "loop"
  /\ IF tp_stop THEN timerPc' = "ended" /\ UNCHANGED wakeAt
     ELSE /\ timerPc' = "check"
          /\ \/ agenda = {} /\ wakeAt' = Forever
             \/ \E e \in Earliest(agenda) : wakeAt' = e.at
  /\ UNCHANGED <<now, tp_stop, notified, incoming, agenda, tick, fired, dropped>>

\* wait_until: the predicate, and the deadline that makes it return anyway.
Check ==
  /\ timerPc = "check"
  /\ timerPc' = IF tp_stop THEN "loop"
                ELSE IF incoming # <<>> \/ now >= wakeAt THEN "dequeue" ELSE "blocking"
  /\ tick' = IF timerPc' = "dequeue" THEN now ELSE tick
  /\ UNCHANGED <<now, tp_stop, notified, incoming, agenda, wakeAt, fired, dropped>>

TimerBlock ==
  /\ timerPc = "blocking"
  /\ timerPc' = "waiting"
  /\ UNCHANGED <<now, tp_stop, notified, incoming, agenda, wakeAt, tick, fired, dropped>>

Timeout ==
  /\ timerPc = "waiting" /\ now >= wakeAt
  /\ timerPc' = "check"
  /\ UNCHANGED <<now, tp_stop, notified, incoming, agenda, wakeAt, tick, fired, dropped>>

\* A periodic job that is late on arrival: its first event is skipped.
Rescheduled(e) ==
  [e EXCEPT !.at = IF @ + Period[e.job] > tick THEN @ + Period[e.job]
                   ELSE tick + Period[e.job]]

\* Faulty variant: a new job replaces the ones that wait.
AgendaOnly(e) == {e}

AgendaWith(e) == agenda \cup {e}

\* One new job is taken: kept if its point is ahead, moved on if it is periodic,
\* let go otherwise.
Dequeue ==
  /\ timerPc = "dequeue"
  /\ timerPc' = "fire"
  /\ \/ incoming = <<>> /\ UNCHANGED <<incoming, agenda, dropped>>
     \/ /\ incoming # <<>>
        /\ incoming' = Tail(incoming)
        /\ LET e == Head(incoming)
           IN \/ /\ e.at > tick
                 /\ agenda' = AgendaWith(e)
                 /\ UNCHANGED dropped
              \/ /\ e.at <= tick /\ Period[e.job] > 0
                 /\ agenda' = AgendaWith(Rescheduled(e))
                 /\ UNCHANGED dropped
              \/ /\ e.at <= tick /\ Period[e.job] = 0
                 /\ dropped' = dropped \cup {e.job}
                 /\ UNCHANGED agenda
  /\ UNCHANGED <<now, tp_stop, notified, wakeAt, tick, fired>>

\* Faulty variant: the point is moved by one period only.
NextPointOnce(e) == e.at + Period[e.job]

\* do tmPoint += tmPeriod while tmPoint <= tm_point
NextPoint(e) ==
  e.at + Period[e.job] * (((tick - e.at) \div Period[e.job]) + 1)

\* The callback of a due job, and the next event of a periodic one.
Fire(e) ==
  /\ timerPc = "fire"
  /\ e \in Earliest(agenda) /\ e.at <= tick
  /\ fired' = fired \cup {[job |-> e.job, at |-> e.at, tick |-> tick]}
  /\ agenda' = IF e.job \in Repeats /\ Period[e.job] > 0
               THEN (agenda \ {e}) \cup {[e EXCEPT !.at = NextPoint(e)]}
               ELSE agenda \ {e}
  /\ UNCHANGED <<now, tp_stop, notified, timerPc, incoming, wakeAt, tick, dropped>>

FireDone ==
  /\ timerPc = "fire"
  /\ \A e \in agenda : e.at > tick
  /\ timerPc' = "loop"
  /\ UNCHANGED <<now, tp_stop, notified, incoming, agenda, wakeAt, tick, fired, dropped>>

\* ~thread_pool: tp_stop = true and then notify_one, both without tj_mtx.
DtorStopsTimer ==
  /\ ~tp_stop /\ timerPc # "absent"
  /\ tp_stop' = TRUE
  /\ UNCHANGED <<now, notified, timerPc, incoming, agenda, wakeAt, tick, fired, dropped>>

DtorNotifiesTimer ==
  /\ tp_stop /\ ~notified
  /\ notified' = TRUE
  /\ timerPc' = IF timerPc = "waiting" THEN "check" ELSE timerPc
  /\ UNCHANGED <<now, tp_stop, incoming, agenda, wakeAt, tick, fired, dropped>>

ThreadStep == TimerLoop \/ Check \/ TimerBlock \/ Timeout \/ Dequeue \/ (\E e \in agenda : Fire(e)) \/ FireDone

TimerNext ==
  \/ Tick
  \/ \E j \in Job : SetTimer(j)
  \/ TimerLoop \/ Check \/ TimerBlock \/ Timeout \/ Dequeue \/ FireDone
  \/ \E e \in agenda : Fire(e)
  \/ DtorStopsTimer \/ DtorNotifiesTimer

TimerSpec == TimerInit /\ [][TimerNext]_timerVars

\* Time passes, the timer thread runs, and the destructor goes on.
TimerFairSpec == TimerSpec /\ WF_timerVars(Tick) /\ WF_timerVars(ThreadStep) /\ WF_timerVars(DtorNotifiesTimer)
-----------------------------------------------------------------------------
TimerTypeOK ==
  /\ now \in 0 .. MaxTime /\ tp_stop \in BOOLEAN /\ notified \in BOOLEAN
  /\ timerPc \in {"absent", "loop", "check", "blocking", "waiting", "dequeue", "fire", "ended"}
  /\ incoming \in Seq(Entry) /\ agenda \subseteq Entry
  /\ wakeAt \in Nat /\ tick \in 0 .. MaxTime
  /\ fired \subseteq [job : Job, at : Nat, tick : Nat]
  /\ dropped \subseteq Job

\* No callback is called before its time point, one wake-up calls a job at most
\* once, and a late timer does not make up for the points it missed.
NoBurst ==
  \A f \in fired :
    /\ f.at <= f.tick
    /\ \A g \in fired : (g.job = f.job /\ g # f) =>
         g.tick # f.tick /\ (g.tick > f.tick => g.at >= f.at + Period[f.job])

\* After the jobs of one wake-up are served, no entry of the agenda is in the past
\* of that wake-up: the deadline of the next wait is never one already served.
AgendaAhead == (timerPc \in {"loop", "check", "blocking", "waiting"}) => \A e \in agenda : e.at > tick

\* A job on the agenda is called once its point is reached, unless the pool stops:
\* new jobs, late wake-ups and other callbacks never make the thread miss it.
AgendaServed ==
  \A j \in Job : \A t \in 0 .. MaxTime :
    ([job |-> j, at |-> t] \in agenda) ~>
      (tp_stop \/ \E f \in fired : f.job = j /\ f.at = t)

\* The wake-up of the destructor can be lost (notify_one without the mutex), and
\* then the thread ends at the next timer point, never later.
StopAtNextPoint == tp_stop ~> (timerPc = "ended" \/ wakeAt > MaxTime)

\* The agenda and the calls agree with the clock however late the thread wakes: no
\* call is early, doubled or made up for, no deadline lies behind.
AgendaInvariant == TimerTypeOK /\ NoBurst /\ AgendaAhead

\* The timer thread answers: what is on the agenda is called, and a stop is obeyed.
ThreadAnswers == AgendaServed /\ StopAtNextPoint
=============================================================================
