-------------------------- MODULE ThreadPoolProofs --------------------------
(***************************************************************************)
(* Proofs about the two halves of thread_pool.  The work units: for any    *)
(* units, any hardware budget and any interleaving of workers, submissions *)
(* and the destructor, units start in order and once, threads stay in the  *)
(* budget, and no thread sleeps beside work.  The timers follow them.      *)
(***************************************************************************)
EXTENDS ThreadPool, TimerThread, FiniteSetTheorems, TLAPS

QueueTypes ==
  /\ queue \in Seq(Unit) /\ submitted \in Seq(Unit) /\ started \in Seq(Unit)
  /\ todo \in [Worker -> Seq(Short)]

PlaceTypes ==
  /\ pc \in [Worker -> Place] /\ unit \in [Worker -> SUBSET Unit] /\ raced \subseteq Worker

CountTypes ==
  /\ avail \in 0 .. Available /\ created \in 0 .. MaxWorkers /\ notifies \in Nat
  /\ stop \in BOOLEAN
  /\ phase \in {"serving", "stopping", "joining", "gone", "terminated"}

LEMMA TypeParts == TypeOK <=> (QueueTypes /\ PlaceTypes /\ CountTypes)
  BY DEF TypeOK, QueueTypes, PlaceTypes, CountTypes

\* Threads are created in the order of their numbers.
ThreadsInOrder == \A w \in Worker : w > created => pc[w] = "absent"

\* The destructor raises tp_stop first.
StopSaid ==
  /\ phase \in {"stopping", "joining", "gone"} => stop
  /\ phase = "serving" => ~stop

\* A thread found the queue empty when it was about to wait, and holds wt_mtx.
NothingWhileBlocking == At("blocking") # {} => queue = <<>>

\* Nobody decides to sleep once tp_stop is set.
BlockedBeforeStop == stop => At("blocking") \subseteq raced

PoolInv ==
  /\ QueueTypes /\ PlaceTypes /\ CountTypes
  /\ StartedInOrder /\ ThreadBudget /\ NoForgottenUnit /\ StuckOnlyByRace
  /\ ThreadsInOrder /\ StopSaid /\ NothingWhileBlocking /\ BlockedBeforeStop

Awake == At("top") \cup At("ready")

-----------------------------------------------------------------------------
(* Sequences and finite sets. *)

LEMMA AppendType ==
  ASSUME NEW S, NEW s \in Seq(S), NEW u \in S
  PROVE  Append(s, u) \in Seq(S)
  OBVIOUS

LEMMA MovedUnit ==
  ASSUME NEW S, NEW s \in Seq(S), NEW q \in Seq(S), q # <<>>
  PROVE  Append(s, Head(q)) \o Tail(q) = s \o q
  OBVIOUS

LEMMA AppendedUnit ==
  ASSUME NEW S, NEW s \in Seq(S), NEW q \in Seq(S), NEW u \in S
  PROVE  s \o Append(q, u) = Append(s \o q, u)
  OBVIOUS

\* One awake thread more makes up for one notification less, one less for one unit.
LEMMA Counts ==
  ASSUME NEW l \in Nat, NEW n \in Nat, NEW c \in Nat, NEW m \in Nat, l <= n + c
  PROVE  /\ m + 1 >= n => l <= m + (c + 1)
         /\ l - 1 <= n + (c - 1)
  OBVIOUS

LEMMA WorkersFinite ==
  ASSUME NEW S \in SUBSET Worker
  PROVE  IsFiniteSet(S) /\ Cardinality(S) \in Nat
<1>1. MaxWorkers \in Int /\ 1 \in Int
  BY ThreadAssumption DEF ThreadAssumption
<1>2. IsFiniteSet(Worker)
  BY <1>1, FS_Interval DEF Worker
<1>3. IsFiniteSet(S)
  BY <1>2, FS_Subset
<1> QED
  BY <1>3, FS_CardinalityType

LEMMA OneMoreWorker ==
  ASSUME NEW S \in SUBSET Worker, NEW w \in Worker, w \notin S
  PROVE  Cardinality(S \cup {w}) = Cardinality(S) + 1
  BY WorkersFinite, FS_AddElement

LEMMA OneWorkerLess ==
  ASSUME NEW S \in SUBSET Worker, NEW w \in S
  PROVE  Cardinality(S \ {w}) = Cardinality(S) - 1
  BY WorkersFinite, FS_RemoveElement

-----------------------------------------------------------------------------
(* What the steps do. *)

\* A push with the thread it brings, if any.
PushedWith(u) ==
  /\ queue' = Append(queue, u) /\ submitted' = Append(submitted, u)
  /\ notifies' = notifies + 1
  /\ \/ u \notin Long /\ UNCHANGED <<pc, created, avail>>
     \/ /\ created + 1 \in Worker /\ pc[created + 1] = "absent"
        /\ pc' = [pc EXCEPT ![created + 1] = "top"]
        /\ created' = created + 1
        /\ \/ u \in Long /\ avail' = avail
           \/ u \notin Long /\ avail > 0 /\ avail' = avail - 1

LEMMA PushEffect ==
  ASSUME CountTypes, ThreadsInOrder, NEW u \in Unit, Push(u, pc),
         BringsThread(u) => created < MaxWorkers
  PROVE  PushedWith(u)
<1>1. CASE BringsThread(u)
  <2>1. created + 1 \in Worker /\ created + 1 > created
    BY <1>1, ThreadAssumption DEF CountTypes, Worker, ThreadAssumption
  <2>2. pc[created + 1] = "absent"
    BY <2>1 DEF ThreadsInOrder
  <2>3. u \notin Long => avail > 0
    BY <1>1 DEF BringsThread
  <2> QED
    BY <1>1, <2>1, <2>2, <2>3 DEF Push, PushedWith, OneMoreNotify
<1>2. CASE ~BringsThread(u)
  BY <1>2 DEF Push, PushedWith, OneMoreNotify, BringsThread
<1> QED
  BY <1>1, <1>2

\* Every step, with the changes the invariants look at.
LEMMA Steps ==
  ASSUME PoolInv, [Next]_vars
  PROVE  \/ \E u \in Unit : /\ PushedWith(u) /\ Unlocked
                            /\ u \in Long => ~Submitted(u)
                            /\ UNCHANGED <<stop, phase, unit, started, raced>>
                            /\ todo' = todo \/ \E w \in Worker : todo' = [todo EXCEPT ![w] = Tail(@)]
         \/ Notify
         \/ \E w \in Worker : \/ SpuriousWake(w) \/ Loop(w) \/ Acquire(w) \/ Block(w)
                              \/ Finish(w) \/ Crash(w)
         \/ \E w \in Worker : /\ pc[w] = "running" /\ phase = "joining" /\ Unlocked
                              /\ pc' = [pc EXCEPT ![w] = "creating"]
                              /\ todo' = [todo EXCEPT ![w] = Tail(@)]
                              /\ UNCHANGED <<poolVars, stop, phase, unit, started, raced>>
         \/ DtorStop \/ DtorNotify \/ DtorJoined
         \/ UNCHANGED vars
<1> USE DEF PoolInv
<1>1. ASSUME NEW u \in Roots, SetWorkUnit(u)
      PROVE  /\ u \in Unit /\ PushedWith(u) /\ Unlocked /\ ~Submitted(u)
             /\ UNCHANGED <<stop, phase, unit, started, raced>> /\ todo' = todo
  BY <1>1, PushEffect DEF SetWorkUnit, Roots
<1>2. ASSUME NEW w \in Worker, SubmitChild(w)
      PROVE  \/ \E u \in Unit : /\ PushedWith(u) /\ Unlocked
                                /\ u \notin Long
                                /\ UNCHANGED <<stop, phase, unit, started, raced>>
                                /\ todo' = [todo EXCEPT ![w] = Tail(@)]
             \/ /\ pc[w] = "running" /\ phase = "joining" /\ Unlocked
                /\ pc' = [pc EXCEPT ![w] = "creating"]
                /\ todo' = [todo EXCEPT ![w] = Tail(@)]
                /\ UNCHANGED <<poolVars, stop, phase, unit, started, raced>>
  <2> DEFINE u == Head(todo[w])
  <2>1. todo[w] \in Seq(Short) /\ todo[w] # <<>>
    BY <1>2 DEF SubmitChild, QueueTypes
  <2>2. u \in Short
    BY <2>1
  <2>3. u \in Unit /\ u \notin Long
    BY <2>2, UnitAssumption DEF Unit, UnitAssumption
  <2>4. CASE phase = "joining" /\ BringsThread(u)
    BY <1>2, <2>4 DEF SubmitChild
  <2>5. CASE ~(phase = "joining" /\ BringsThread(u))
    <3>1. /\ Push(u, pc) /\ (BringsThread(u) => created < MaxWorkers) /\ Unlocked
          /\ UNCHANGED <<stop, phase, unit, started, raced>>
          /\ todo' = [todo EXCEPT ![w] = Tail(@)]
      BY <1>2, <2>5 DEF SubmitChild
    <3>2. PushedWith(u)
      BY <2>3, <3>1, PushEffect
    <3> QED
      BY <2>3, <3>1, <3>2
  <2> QED
    BY <2>4, <2>5
<1>3. \/ \E u \in Roots : SetWorkUnit(u)
      \/ Notify
      \/ \E w \in Worker : \/ SpuriousWake(w) \/ Loop(w) \/ Acquire(w) \/ Block(w)
                           \/ Finish(w) \/ Crash(w)
      \/ \E w \in Worker : SubmitChild(w)
      \/ DtorStop \/ DtorNotify \/ DtorJoined
      \/ UNCHANGED vars
  BY DEF Next, WorkerStep, Dtor
<1>4. CASE \E u \in Roots : SetWorkUnit(u)
  BY <1>1, <1>4
<1>5. CASE \E w \in Worker : SubmitChild(w)
  BY <1>2, <1>5
<1> QED
  BY <1>3, <1>4, <1>5

LEMMA QueueTypesKept == ASSUME PoolInv, [Next]_vars PROVE QueueTypes'
<1> USE DEF PoolInv, QueueTypes
<1>1. \A w \in Worker : todo[w] # <<>> => [todo EXCEPT ![w] = Tail(@)] \in [Worker -> Seq(Short)]
  OBVIOUS
<1>2. CASE \E u \in Unit : SetWorkUnit(u)
  BY <1>2 DEF SetWorkUnit, Push
<1>3. CASE \E w \in Worker : SubmitChild(w)
  <2>1. PICK w \in Worker : SubmitChild(w)
    BY <1>3
  <2>2. todo[w] # <<>> /\ todo' = [todo EXCEPT ![w] = Tail(@)] /\ started' = started
    BY <2>1 DEF SubmitChild
  <2>3. Head(todo[w]) \in Unit
    BY <2>2 DEF Unit
  <2>4. \/ UNCHANGED <<queue, submitted>>
        \/ /\ queue' = Append(queue, Head(todo[w]))
           /\ submitted' = Append(submitted, Head(todo[w]))
    BY <2>1 DEF SubmitChild, Push, poolVars
  <2>5. queue' \in Seq(Unit) /\ submitted' \in Seq(Unit)
    BY <2>3, <2>4, AppendType
  <2> QED
    BY <1>1, <2>2, <2>5
<1>4. CASE \E w \in Worker : Acquire(w)
  <2>1. PICK w \in Worker : Acquire(w)
    BY <1>4
  <2>2. submitted' = submitted
    BY <2>1 DEF Acquire
  <2>3. CASE UNCHANGED <<queue, unit, todo, started>>
    BY <2>2, <2>3
  <2>4. CASE queue # <<>> /\ Take(w)
    <3>1. Head(queue) \in Unit /\ Tail(queue) \in Seq(Unit)
      BY <2>4
    <3>2. Children[Head(queue)] \in Seq(Short)
      BY <3>1, UnitAssumption DEF UnitAssumption
    <3> QED
      BY <2>2, <2>4, <3>1, <3>2 DEF Take, Popped
  <2> QED
    BY <2>1, <2>3, <2>4 DEF Acquire
<1>5. CASE \E w \in Worker : Crash(w)
  BY <1>5 DEF Crash
<1>6. CASE UNCHANGED <<queue, submitted, started, todo>>
  BY <1>6
<1>7. \/ \E u \in Unit : SetWorkUnit(u)
      \/ \E w \in Worker : SubmitChild(w) \/ Acquire(w) \/ Crash(w)
      \/ UNCHANGED <<queue, submitted, started, todo>>
  BY DEF Next, WorkerStep, Dtor, Roots, Notify, SpuriousWake, Loop, Block, Finish,
         DtorStop, DtorNotify, DtorJoined, vars, poolVars
<1> QED
  BY <1>2, <1>3, <1>4, <1>5, <1>6, <1>7

LEMMA PlaceTypesKept == ASSUME PoolInv, [Next]_vars PROVE PlaceTypes'
<1> USE DEF PoolInv, PlaceTypes
<1>1. ASSUME NEW u \in Unit, PushedWith(u), UNCHANGED <<unit, raced>> PROVE PlaceTypes'
  BY <1>1 DEF PushedWith, Place
<1>2. CASE Notify  BY <1>2 DEF Notify, At, Place
<1>3. ASSUME NEW w \in Worker, SpuriousWake(w) PROVE PlaceTypes'
  BY <1>3 DEF SpuriousWake, Place
<1>4. ASSUME NEW w \in Worker, Loop(w) PROVE PlaceTypes'
  BY <1>4 DEF Loop, Place
<1>5. ASSUME NEW w \in Worker, Acquire(w) PROVE PlaceTypes'
  <2>1. raced' = raced
    BY <1>5 DEF Acquire
  <2>2. pc' \in [Worker -> Place]
    BY <1>5 DEF Acquire, Take, Place
  <2>3. queue # <<>> => Head(queue) \in Unit
    BY DEF QueueTypes
  <2>4. unit' \in [Worker -> SUBSET Unit]
    BY <1>5, <2>3 DEF Acquire, Take
  <2> QED
    BY <2>1, <2>2, <2>4
<1>6. ASSUME NEW w \in Worker, Block(w) PROVE PlaceTypes'
  BY <1>6 DEF Block, Place
<1>7. ASSUME NEW w \in Worker, Finish(w) PROVE PlaceTypes'
  BY <1>7 DEF Finish, Place
<1>8. ASSUME NEW w \in Worker, Crash(w) PROVE PlaceTypes'
  BY <1>8 DEF Crash, Place
<1>9. ASSUME NEW w \in Worker, pc' = [pc EXCEPT ![w] = "creating"], UNCHANGED <<unit, raced>>
      PROVE PlaceTypes'
  BY <1>9 DEF Place
<1>10. CASE DtorStop  BY <1>10 DEF DtorStop, At
<1>11. CASE DtorNotify  BY <1>11 DEF DtorNotify, Place
<1>12. CASE DtorJoined  BY <1>12 DEF DtorJoined
<1>13. CASE UNCHANGED vars  BY <1>13 DEF vars
<1> QED
  BY <1>1, <1>2, <1>3, <1>4, <1>5, <1>6, <1>7, <1>8, <1>9, <1>10, <1>11, <1>12, <1>13, Steps

LEMMA CountTypesKept == ASSUME PoolInv, [Next]_vars PROVE CountTypes' /\ StopSaid'
<1> USE DEF PoolInv, CountTypes, StopSaid
<1>1. ASSUME NEW u \in Unit, PushedWith(u), UNCHANGED <<stop, phase>>
      PROVE  CountTypes' /\ StopSaid'
  <2>1. created' \in 0 .. MaxWorkers /\ avail' \in 0 .. Available
    BY <1>1, ThreadAssumption DEF PushedWith, Worker, ThreadAssumption
  <2>2. notifies' \in Nat
    BY <1>1 DEF PushedWith
  <2> QED
    BY <1>1, <2>1, <2>2
<1>2. CASE Notify  BY <1>2 DEF Notify
<1>3. ASSUME NEW w \in Worker, Crash(w) PROVE CountTypes' /\ StopSaid'
  BY <1>3 DEF Crash
<1>4. CASE DtorStop  BY <1>4 DEF DtorStop, poolVars
<1>5. CASE DtorNotify  BY <1>5 DEF DtorNotify, poolVars
<1>6. CASE DtorJoined  BY <1>6 DEF DtorJoined, poolVars
<1>7. CASE UNCHANGED <<avail, created, notifies, stop, phase>>
  BY <1>7
<1>8. \/ \E u \in Unit : PushedWith(u) /\ UNCHANGED <<stop, phase>>
      \/ Notify \/ (\E w \in Worker : Crash(w)) \/ DtorStop \/ DtorNotify \/ DtorJoined
      \/ UNCHANGED <<avail, created, notifies, stop, phase>>
  BY Steps DEF SpuriousWake, Loop, Acquire, Block, Finish, vars, poolVars
<1> QED
  BY <1>1, <1>2, <1>3, <1>4, <1>5, <1>6, <1>7, <1>8

LEMMA StartedInOrderKept == ASSUME PoolInv, [Next]_vars PROVE StartedInOrder'
<1> USE DEF PoolInv, StartedInOrder, QueueTypes
<1>1. ASSUME NEW u \in Unit, PushedWith(u), started' = started PROVE StartedInOrder'
  BY <1>1, AppendedUnit DEF PushedWith
<1>2. ASSUME NEW w \in Worker, Acquire(w) PROVE StartedInOrder'
  <2>1. submitted' = submitted
    BY <1>2 DEF Acquire
  <2>2. CASE UNCHANGED <<queue, started>>
    BY <2>1, <2>2
  <2>3. CASE queue # <<>> /\ Take(w)
    <3>1. started' = Append(started, Head(queue)) /\ queue' = Tail(queue)
      BY <2>3 DEF Take, Popped
    <3> QED
      BY <2>1, <2>3, <3>1, MovedUnit
  <2> QED
    BY <1>2, <2>2, <2>3 DEF Acquire
<1>3. CASE UNCHANGED <<queue, submitted, started>>
  BY <1>3
<1>4. \/ \E u \in Unit : PushedWith(u) /\ started' = started
      \/ \E w \in Worker : Acquire(w)
      \/ UNCHANGED <<queue, submitted, started>>
  BY Steps DEF Notify, SpuriousWake, Loop, Block, Finish, Crash, DtorStop, DtorNotify,
     DtorJoined, vars, poolVars
<1> QED
  BY <1>1, <1>2, <1>3, <1>4

LongSubmitted == {u \in Long : Submitted(u)}

\* A long unit pushed for the first time is one more of them; a short one changes
\* nothing.
LEMMA LongPushed ==
  ASSUME QueueTypes, NEW u \in Unit, submitted' = Append(submitted, u),
         u \in Long => ~Submitted(u)
  PROVE  /\ Cardinality(LongSubmitted) \in Nat
         /\ u \in Long => Cardinality(LongSubmitted') = Cardinality(LongSubmitted) + 1
         /\ u \notin Long => LongSubmitted' = LongSubmitted
<1>1. /\ DOMAIN submitted' = 1 .. Len(submitted) + 1
      /\ Len(submitted) \in Nat /\ DOMAIN submitted = 1 .. Len(submitted)
      /\ submitted'[Len(submitted) + 1] = u
      /\ \A i \in DOMAIN submitted : submitted'[i] = submitted[i]
  BY DEF QueueTypes
<1>2. \A i \in DOMAIN submitted' : i \in DOMAIN submitted \/ i = Len(submitted) + 1
  BY <1>1
<1>3. Len(submitted) + 1 \in DOMAIN submitted' /\ DOMAIN submitted \subseteq DOMAIN submitted'
  BY <1>1
<1>4. \A v : Submitted(v)' <=> (Submitted(v) \/ v = u)
  BY <1>1, <1>2, <1>3 DEF Submitted
<1>5. LongSubmitted \in SUBSET Long
  BY DEF LongSubmitted
<1>6. IsFiniteSet(LongSubmitted) /\ Cardinality(LongSubmitted) \in Nat
  BY <1>5, UnitAssumption, FS_Subset, FS_CardinalityType DEF UnitAssumption
<1>7. CASE u \in Long
  <2>1. LongSubmitted' = LongSubmitted \cup {u} /\ u \notin LongSubmitted
    BY <1>4, <1>7 DEF LongSubmitted
  <2> QED
    BY <1>6, <1>7, <2>1, FS_AddElement
<1>8. CASE u \notin Long
  BY <1>4, <1>6, <1>8 DEF LongSubmitted
<1> QED
  BY <1>7, <1>8

LEMMA ThreadBudgetKept == ASSUME PoolInv, [Next]_vars PROVE ThreadBudget'
<1> USE DEF PoolInv
<1>0. ThreadBudget <=> created + avail = Available + Cardinality(LongSubmitted)
  BY DEF ThreadBudget, LongSubmitted
<1>1. ThreadBudget' <=> created' + avail' = Available + Cardinality(LongSubmitted')
  BY DEF ThreadBudget, LongSubmitted
<1>2. ASSUME NEW u \in Unit, PushedWith(u), u \in Long => ~Submitted(u) PROVE ThreadBudget'
  <2>1. submitted' = Append(submitted, u)
    BY <1>2 DEF PushedWith
  <2>2. /\ Cardinality(LongSubmitted) \in Nat
        /\ u \in Long => Cardinality(LongSubmitted') = Cardinality(LongSubmitted) + 1
        /\ u \notin Long => LongSubmitted' = LongSubmitted
    BY <1>2, <2>1, LongPushed
  <2>3. created \in Nat /\ avail \in Nat /\ Available \in Nat
    BY ThreadAssumption DEF CountTypes, ThreadAssumption
  <2>4. CASE u \in Long
    <3>1. created' = created + 1 /\ avail' = avail
      BY <1>2, <2>4 DEF PushedWith
    <3>2. created + avail = Available + Cardinality(LongSubmitted)
      BY <1>0
    <3>3. created' + avail' = Available + (Cardinality(LongSubmitted) + 1)
      BY <2>2, <2>3, <3>1, <3>2
    <3> QED
      BY <1>1, <2>2, <2>4, <3>3
  <2>5. CASE u \notin Long
    <3>1. \/ created' = created /\ avail' = avail
          \/ created' = created + 1 /\ avail > 0 /\ avail' = avail - 1
      BY <1>2, <2>5 DEF PushedWith
    <3> QED
      BY <1>0, <1>1, <2>2, <2>3, <2>5, <3>1
  <2> QED
    BY <2>4, <2>5
<1>3. CASE UNCHANGED <<submitted, created, avail>>
  BY <1>3 DEF ThreadBudget, Submitted
<1>4. \/ \E u \in Unit : PushedWith(u) /\ (u \in Long => ~Submitted(u))
      \/ UNCHANGED <<submitted, created, avail>>
  BY Steps DEF Notify, SpuriousWake, Loop, Acquire, Block, Finish, Crash, DtorStop,
     DtorNotify, DtorJoined, vars, poolVars
<1> QED
  BY <1>2, <1>3, <1>4

LEMMA ThreadsInOrderKept == ASSUME PoolInv, [Next]_vars PROVE ThreadsInOrder'
<1> USE DEF PoolInv, ThreadsInOrder, PlaceTypes
<1>1. ASSUME NEW u \in Unit, PushedWith(u) PROVE ThreadsInOrder'
  <2>1. created \in Nat /\ \A w \in Worker : w \in Nat
    BY DEF CountTypes, Worker
  <2>2. CASE UNCHANGED <<pc, created>>
    BY <2>2
  <2>3. CASE created' = created + 1 /\ pc' = [pc EXCEPT ![created + 1] = "top"]
    <3>1. \A w \in Worker : w > created' => w > created /\ w # created + 1
      BY <2>1, <2>3
    <3> QED
      BY <2>3, <3>1
  <2> QED
    BY <1>1, <2>2, <2>3 DEF PushedWith
<1>2. CASE Notify  BY <1>2 DEF Notify, At
<1>3. ASSUME NEW w \in Worker, SpuriousWake(w) PROVE ThreadsInOrder'
  BY <1>3 DEF SpuriousWake, poolVars
<1>4. ASSUME NEW w \in Worker, Loop(w) PROVE ThreadsInOrder'
  BY <1>4 DEF Loop, poolVars
<1>5. ASSUME NEW w \in Worker, Acquire(w) PROVE ThreadsInOrder'
  BY <1>5 DEF Acquire, Take
<1>6. ASSUME NEW w \in Worker, Block(w) PROVE ThreadsInOrder'
  BY <1>6 DEF Block, poolVars
<1>7. ASSUME NEW w \in Worker, Finish(w) PROVE ThreadsInOrder'
  BY <1>7 DEF Finish, poolVars
<1>8. ASSUME NEW w \in Worker, Crash(w) PROVE ThreadsInOrder'
  BY <1>8 DEF Crash
<1>9. ASSUME NEW w \in Worker, pc[w] = "running", pc' = [pc EXCEPT ![w] = "creating"],
             UNCHANGED poolVars
      PROVE  ThreadsInOrder'
  BY <1>9 DEF poolVars
<1>10. CASE DtorStop  BY <1>10 DEF DtorStop, poolVars
<1>11. CASE DtorNotify  BY <1>11 DEF DtorNotify, poolVars, AllNotified, At
<1>12. CASE DtorJoined  BY <1>12 DEF DtorJoined, poolVars
<1>13. CASE UNCHANGED vars  BY <1>13 DEF vars, poolVars
<1> QED
  BY <1>1, <1>2, <1>3, <1>4, <1>5, <1>6, <1>7, <1>8, <1>9, <1>10, <1>11, <1>12, <1>13, Steps

\* Nobody is added to the threads about to wait but by Acquire, which found the
\* queue empty and tp_stop down.
LEMMA BlockingSteps ==
  ASSUME PoolInv, [Next]_vars
  PROVE  \/ At("blocking")' \subseteq At("blocking") /\ queue' = queue
         \/ At("blocking")' = {}
         \/ ~stop /\ stop' = stop /\ queue = <<>> /\ queue' = queue
<1> DEFINE Goal == \/ At("blocking")' \subseteq At("blocking") /\ queue' = queue
                   \/ At("blocking")' = {}
                   \/ ~stop /\ stop' = stop /\ queue = <<>> /\ queue' = queue
<1> USE DEF PoolInv, PlaceTypes, At
<1>1. ASSUME NEW u \in Unit, PushedWith(u), Unlocked PROVE Goal
  BY <1>1 DEF PushedWith, Unlocked
<1>2. CASE Notify  BY <1>2 DEF Notify
<1>3. ASSUME NEW w \in Worker, SpuriousWake(w) PROVE Goal
  BY <1>3 DEF SpuriousWake, poolVars
<1>4. ASSUME NEW w \in Worker, Loop(w) PROVE Goal
  BY <1>4 DEF Loop, poolVars
<1>5. ASSUME NEW w \in Worker, Acquire(w) PROVE Goal
  BY <1>5 DEF Acquire, Take, Unlocked
<1>6. ASSUME NEW w \in Worker, Block(w) PROVE Goal
  BY <1>6 DEF Block, poolVars
<1>7. ASSUME NEW w \in Worker, Finish(w) PROVE Goal
  BY <1>7 DEF Finish, poolVars
<1>8. ASSUME NEW w \in Worker, Crash(w) PROVE Goal
  BY <1>8 DEF Crash
<1>9. ASSUME NEW w \in Worker, pc' = [pc EXCEPT ![w] = "creating"], UNCHANGED poolVars
      PROVE  Goal
  BY <1>9 DEF poolVars
<1>10. CASE DtorStop  BY <1>10 DEF DtorStop, poolVars
<1>11. CASE DtorNotify  BY <1>11 DEF DtorNotify, poolVars
<1>12. CASE DtorJoined  BY <1>12 DEF DtorJoined, poolVars
<1>13. CASE UNCHANGED vars  BY <1>13 DEF vars, poolVars
<1> QED
  BY <1>1, <1>2, <1>3, <1>4, <1>5, <1>6, <1>7, <1>8, <1>9, <1>10, <1>11, <1>12, <1>13, Steps

LEMMA BlockingKept ==
  ASSUME PoolInv, [Next]_vars PROVE NothingWhileBlocking' /\ BlockedBeforeStop'
<1> USE DEF PoolInv
<1>1. NothingWhileBlocking'
  BY BlockingSteps DEF NothingWhileBlocking
<1>2. ASSUME DtorStop PROVE BlockedBeforeStop'
  BY <1>2 DEF DtorStop, BlockedBeforeStop, At
<1>3. ASSUME stop' = stop, raced' = raced PROVE BlockedBeforeStop'
  BY <1>3, BlockingSteps DEF BlockedBeforeStop
<1>4. DtorStop \/ (stop' = stop /\ raced' = raced)
  BY Steps DEF Notify, SpuriousWake, Loop, Acquire, Block, Finish, Crash,
     DtorNotify, DtorJoined, vars, poolVars
<1> QED
  BY <1>1, <1>2, <1>3, <1>4

LEMMA StuckKept == ASSUME PoolInv, [Next]_vars PROVE StuckOnlyByRace'
<1> USE DEF PoolInv, PlaceTypes, StuckOnlyByRace
<1>1. ASSUME NEW u \in Unit, PushedWith(u), UNCHANGED <<phase, raced>> PROVE StuckOnlyByRace'
  BY <1>1 DEF PushedWith
<1>2. CASE Notify  BY <1>2 DEF Notify, At
<1>3. ASSUME NEW w \in Worker, SpuriousWake(w) PROVE StuckOnlyByRace'
  BY <1>3 DEF SpuriousWake
<1>4. ASSUME NEW w \in Worker, Loop(w) PROVE StuckOnlyByRace'
  BY <1>4 DEF Loop
<1>5. ASSUME NEW w \in Worker, Acquire(w) PROVE StuckOnlyByRace'
  BY <1>5 DEF Acquire, Take
<1>6. ASSUME NEW w \in Worker, Block(w) PROVE StuckOnlyByRace'
  <2>1. w \in At("blocking")
    BY <1>6 DEF Block, At
  <2>2. phase = "joining" => w \in raced
    BY <2>1 DEF StopSaid, BlockedBeforeStop
  <2> QED
    BY <1>6, <2>2 DEF Block
<1>7. ASSUME NEW w \in Worker, Finish(w) PROVE StuckOnlyByRace'
  BY <1>7 DEF Finish
<1>8. ASSUME NEW w \in Worker, Crash(w) PROVE StuckOnlyByRace'
  BY <1>8 DEF Crash
<1>9. ASSUME NEW w \in Worker, pc' = [pc EXCEPT ![w] = "creating"], UNCHANGED <<phase, raced>>
      PROVE  StuckOnlyByRace'
  BY <1>9
<1>10. CASE DtorStop  BY <1>10 DEF DtorStop
<1>11. CASE DtorNotify
  <2>1. \A w \in Worker : pc'[w] # "waiting"
    BY <1>11 DEF DtorNotify, AllNotified, At
  <2> QED
    BY <2>1
<1>12. CASE DtorJoined  BY <1>12 DEF DtorJoined
<1>13. CASE UNCHANGED vars  BY <1>13 DEF vars
<1> QED
  BY <1>1, <1>2, <1>3, <1>4, <1>5, <1>6, <1>7, <1>8, <1>9, <1>10, <1>11, <1>12, <1>13, Steps

\* A unit is forgotten only by a step that leaves fewer notifications and awake
\* threads than units; none does.
LEMMA NoneForgotten == ASSUME PoolInv, [Next]_vars PROVE NoForgottenUnit'
<1> USE DEF PoolInv, PlaceTypes
<1> DEFINE c == Cardinality(Awake)
<1>0. /\ Awake \in SUBSET Worker /\ c \in Nat /\ notifies \in Nat /\ Len(queue) \in Nat
      /\ NoForgottenUnit <=> ((~stop /\ At("waiting") # {}) => Len(queue) <= notifies + c)
  BY WorkersFinite DEF Awake, At, CountTypes, QueueTypes, NoForgottenUnit
<1>00. NoForgottenUnit' <=>
         ((~stop' /\ At("waiting")' # {}) => Len(queue') <= notifies' + Cardinality(Awake'))
  BY DEF Awake, NoForgottenUnit
<1>1. ASSUME NEW u \in Unit, PushedWith(u), UNCHANGED stop PROVE NoForgottenUnit'
  <2>1. Len(queue') = Len(queue) + 1 /\ notifies' = notifies + 1
    BY <1>1 DEF PushedWith, QueueTypes
  <2>2. At("waiting")' = At("waiting")
    BY <1>1 DEF PushedWith, At
  <2>3. CASE pc' = pc
    <3>1. Awake' = Awake
      BY <2>3 DEF Awake, At
    <3> QED
      BY <1>0, <1>00, <1>1, <2>1, <2>2, <3>1
  <2>4. CASE pc[created + 1] = "absent" /\ created + 1 \in Worker
             /\ pc' = [pc EXCEPT ![created + 1] = "top"]
    <3>1. Awake' = Awake \cup {created + 1} /\ created + 1 \notin Awake
      BY <2>4 DEF Awake, At
    <3>2. Cardinality(Awake') = c + 1
      BY <1>0, <2>4, <3>1, OneMoreWorker
    <3> QED
      BY <1>0, <1>00, <1>1, <2>1, <2>2, <3>2
  <2> QED
    BY <1>1, <2>3, <2>4 DEF PushedWith
<1>2. ASSUME NEW w \in Worker, pc[w] \in {"waiting", "running"}, UNCHANGED <<queue, stop>>,
             pc' = [pc EXCEPT ![w] = IF pc[w] = "waiting" THEN "ready" ELSE "top"],
             notifies' \in Nat, notifies' + 1 >= notifies
      PROVE  NoForgottenUnit'
  <2>1. Awake' = Awake \cup {w} /\ w \notin Awake
    BY <1>2 DEF Awake, At
  <2>2. Cardinality(Awake') = c + 1
    BY <1>0, <2>1, OneMoreWorker
  <2>3. At("waiting")' \subseteq At("waiting") /\ Len(queue') = Len(queue)
    BY <1>2 DEF At
  <2>4. Len(queue) <= notifies + c => Len(queue') <= notifies' + (c + 1)
    <3> HIDE DEF c
    <3> QED
      BY <1>0, <1>2, <2>3, Counts
  <2> QED
    BY <1>0, <1>00, <1>2, <2>2, <2>3, <2>4
<1>3. CASE Notify
  <2>1. CASE At("waiting") = {}
    BY <1>00, <1>3, <2>1 DEF Notify, At
  <2>2. CASE At("waiting") # {}
    <3>1. PICK w \in Worker : pc[w] = "waiting" /\ pc' = [pc EXCEPT ![w] = "ready"]
      BY <1>3, <2>2 DEF Notify, At
    <3>2. notifies' \in Nat /\ notifies' + 1 >= notifies /\ UNCHANGED <<queue, stop>>
      BY <1>0, <1>3 DEF Notify
    <3> QED
      BY <1>2, <3>1, <3>2
  <2> QED
    BY <2>1, <2>2
<1>4. ASSUME NEW w \in Worker, SpuriousWake(w) \/ Finish(w) PROVE NoForgottenUnit'
  BY <1>0, <1>2, <1>4 DEF SpuriousWake, Finish, poolVars
<1>5. ASSUME UNCHANGED <<queue, notifies>>, stop' = stop \/ stop',
             Awake' = Awake, At("waiting")' \subseteq At("waiting")
      PROVE  NoForgottenUnit'
  BY <1>0, <1>00, <1>5
<1>6. ASSUME NEW w \in Worker, Loop(w) PROVE NoForgottenUnit'
  <2>1. CASE stop
    BY <1>00, <1>6, <2>1 DEF Loop
  <2>2. CASE ~stop
    <3>1. pc[w] = "top" /\ pc' = [pc EXCEPT ![w] = "ready"] /\ UNCHANGED <<queue, notifies, stop>>
      BY <1>6, <2>2 DEF Loop, poolVars
    <3>2. Awake' = Awake /\ At("waiting")' = At("waiting")
      BY <3>1 DEF Awake, At
    <3> QED
      BY <1>5, <3>1, <3>2
  <2> QED
    BY <2>1, <2>2
<1>7. ASSUME NEW w \in Worker, Acquire(w) PROVE NoForgottenUnit'
  <2>1. CASE stop
    BY <1>00, <1>7, <2>1 DEF Acquire
  <2>2. CASE ~stop /\ queue = <<>>
    <3>1. queue' = <<>> /\ notifies' = notifies
      BY <1>7, <2>2 DEF Acquire
    <3>2. Awake' \in SUBSET Worker
      BY DEF Awake, At
    <3>3. Cardinality(Awake') \in Nat /\ Len(queue') = 0
      BY <3>1, <3>2, WorkersFinite
    <3> QED
      BY <1>0, <1>00, <3>1, <3>3
  <2>3. CASE ~stop /\ queue # <<>>
    <3>1. /\ pc[w] = "ready" /\ pc' = [pc EXCEPT ![w] = "running"]
          /\ queue' = Tail(queue) /\ UNCHANGED <<notifies, stop>>
      BY <1>7, <2>3 DEF Acquire, Take, Popped
    <3>2. Awake' = Awake \ {w} /\ w \in Awake /\ At("waiting")' = At("waiting")
      BY <3>1 DEF Awake, At
    <3>3. Cardinality(Awake') = c - 1
      BY <1>0, <3>2, OneWorkerLess
    <3>4. Len(queue') = Len(queue) - 1
      BY <2>3, <3>1 DEF QueueTypes
    <3>5. Len(queue) <= notifies + c => Len(queue') <= notifies' + (c - 1)
      <4> HIDE DEF c
      <4> QED
        BY <1>0, <3>1, <3>4, Counts
    <3> QED
      BY <1>0, <1>00, <3>1, <3>2, <3>3, <3>5
  <2> QED
    BY <2>1, <2>2, <2>3
<1>8. ASSUME NEW w \in Worker, Block(w) PROVE NoForgottenUnit'
  <2>1. queue = <<>> /\ queue' = queue /\ notifies' = notifies
    BY <1>8 DEF Block, poolVars, At, NothingWhileBlocking
  <2>2. Awake' \in SUBSET Worker
    BY DEF Awake, At
  <2>3. Cardinality(Awake') \in Nat /\ Len(queue') = 0
    BY <2>1, <2>2, WorkersFinite
  <2> QED
    BY <1>0, <1>00, <2>1, <2>3
<1>9. ASSUME NEW w \in Worker, Crash(w) PROVE NoForgottenUnit'
  <2>1. At("waiting")' = {}
    BY <1>9 DEF Crash, At
  <2> QED
    BY <1>00, <2>1
<1>10. ASSUME NEW w \in Worker, phase = "joining", UNCHANGED stop PROVE NoForgottenUnit'
  BY <1>00, <1>10 DEF StopSaid
<1>11. CASE DtorStop \/ DtorNotify \/ DtorJoined
  <2>1. stop'
    BY <1>11 DEF DtorStop, DtorNotify, DtorJoined, StopSaid
  <2> QED
    BY <1>00, <2>1
<1>12. CASE UNCHANGED vars
  BY <1>12 DEF vars, poolVars, NoForgottenUnit, At
<1> QED
  BY <1>1, <1>3, <1>4, <1>6, <1>7, <1>8, <1>9, <1>10, <1>11, <1>12, Steps

LEMMA InvariantKept == PoolInv /\ [Next]_vars => PoolInv'
  BY QueueTypesKept, PlaceTypesKept, CountTypesKept, StartedInOrderKept, ThreadBudgetKept,
     NoneForgotten, StuckKept, ThreadsInOrderKept, BlockingKept DEF PoolInv

LEMMA InvariantStarts == Init => PoolInv
<1> SUFFICES ASSUME Init PROVE PoolInv
  OBVIOUS
<1>1. /\ queue = <<>> /\ submitted = <<>> /\ started = <<>>
      /\ avail = Available /\ created = 0 /\ notifies = 0
      /\ stop = FALSE /\ phase = "serving" /\ raced = {}
      /\ pc = [w \in Worker |-> "absent"]
      /\ unit = [w \in Worker |-> {}] /\ todo = [w \in Worker |-> <<>>]
  BY DEF Init
<1>2. QueueTypes
  BY <1>1 DEF QueueTypes
<1>3. PlaceTypes
  BY <1>1 DEF PlaceTypes, Place
<1>4. CountTypes /\ StopSaid
  <2>1. avail \in 0 .. Available /\ created \in 0 .. MaxWorkers
    BY <1>1, ThreadAssumption DEF ThreadAssumption
  <2> QED
    BY <1>1, <2>1 DEF CountTypes, StopSaid
<1>5. \A place \in Place \ {"absent"} : At(place) = {}
  BY <1>1 DEF At
<1>6. /\ StartedInOrder /\ StuckOnlyByRace /\ ThreadsInOrder /\ NothingWhileBlocking
      /\ BlockedBeforeStop
  BY <1>1, <1>5 DEF StartedInOrder, StuckOnlyByRace, ThreadsInOrder, NothingWhileBlocking,
     BlockedBeforeStop, Place
<1>7. ThreadBudget
  <2>1. {u \in Long : Submitted(u)} = {}
    BY <1>1 DEF Submitted
  <2> QED
    BY <1>1, <2>1, FS_EmptySet, ThreadAssumption DEF ThreadBudget, ThreadAssumption
<1>8. NoForgottenUnit
  BY <1>5 DEF NoForgottenUnit, Place
<1> QED
  BY <1>2, <1>3, <1>4, <1>6, <1>7, <1>8 DEF PoolInv

\* Whatever units are submitted and however the workers interleave, units start in
\* the order of their submission and each is taken by one worker, and SetWorkUnit
\* creates no thread beyond the budget.
THEOREM PoolKeepsCount == Spec => []PoolInvariant
<1>1. PoolInv => PoolInvariant
  BY TypeParts DEF PoolInv, PoolInvariant
<1> QED
  BY <1>1, InvariantStarts, InvariantKept, PTL DEF Spec

\* No thread sleeps beside a unit that nobody else was woken for, although notify_one
\* comes after the unlock; and ~thread_pool waits in vain only for a thread that was
\* between its predicate and its wait when tp_stop was set.
THEOREM PoolSleepsOnlyIdle == Spec => []SleepOnlyWhenIdle
<1>1. PoolInv => SleepOnlyWhenIdle
  BY DEF PoolInv, SleepOnlyWhenIdle
<1> QED
  BY <1>1, InvariantStarts, InvariantKept, PTL DEF Spec
-----------------------------------------------------------------------------
(***************************************************************************)
(* The timer thread: for any jobs, delays and periods, and however late    *)
(* the thread wakes, no callback is early, none is made up for, and the    *)
(* next deadline is never one that was served.                             *)
(***************************************************************************)
LEMMA DivMod ==
  ASSUME NEW n \in Nat, NEW p \in Nat \ {0}
  PROVE  /\ n \div p \in Nat
         /\ p * (n \div p) <= n /\ n < p * ((n \div p) + 1)
  OBVIOUS

\* The loop of timer_thread ends at the first multiple that lies ahead.
LEMMA NextPointAhead ==
  ASSUME NEW a \in Nat, NEW t \in Nat, NEW p \in Nat \ {0}, a <= t
  PROVE  /\ a + p * (((t - a) \div p) + 1) \in Nat
         /\ a + p * (((t - a) \div p) + 1) > t
         /\ a + p * (((t - a) \div p) + 1) >= a + p
<1> DEFINE q == (t - a) \div p
<1>1. q \in Nat /\ t - a < p * (q + 1)
  BY DivMod
<1>2. p * (q + 1) \in Nat /\ p * (q + 1) >= p
  BY <1>1
<1> HIDE DEF q
<1> QED
  BY <1>1, <1>2

LEMMA EntryParts ==
  ASSUME NEW e \in Entry
  PROVE  e.job \in Job /\ e.at \in Nat /\ Period[e.job] \in Nat
  BY JobAssumption DEF JobAssumption, Entry

LEMMA EntryMoved ==
  ASSUME NEW e \in Entry, NEW t \in Nat
  PROVE  [e EXCEPT !.at = t] \in Entry
         /\ [e EXCEPT !.at = t].job = e.job /\ [e EXCEPT !.at = t].at = t
  BY DEF Entry

\* A periodic job that is late on arrival is put ahead of the wake-up.
LEMMA RescheduledAhead ==
  ASSUME NEW e \in Entry, tick \in Nat
  PROVE  /\ Rescheduled(e) \in Entry /\ Rescheduled(e).job = e.job
         /\ Period[e.job] > 0 => Rescheduled(e).at > tick
<1> DEFINE t == IF e.at + Period[e.job] > tick THEN e.at + Period[e.job]
                ELSE tick + Period[e.job]
<1>1. t \in Nat /\ (Period[e.job] > 0 => t > tick)
  BY EntryParts
<1>2. Rescheduled(e) = [e EXCEPT !.at = t]
  BY DEF Rescheduled
<1> HIDE DEF t
<1> QED
  BY <1>1, <1>2, EntryMoved

LEMMA NextPointOf ==
  ASSUME NEW e \in Entry, tick \in Nat, e.at <= tick, Period[e.job] > 0
  PROVE  /\ NextPoint(e) \in Nat
         /\ NextPoint(e) > tick /\ NextPoint(e) >= e.at + Period[e.job]
<1>1. e.at \in Nat /\ Period[e.job] \in Nat \ {0}
  BY EntryParts
<1> QED
  BY <1>1, NextPointAhead DEF NextPoint

-----------------------------------------------------------------------------
OneEntryEach == \A d, e \in agenda : d.job = e.job => d = e

\* A job that waits to be taken is neither on the agenda nor was it ever called.
IncomingFresh ==
  \A i \in DOMAIN incoming :
    /\ \A e \in agenda : e.job # incoming[i].job
    /\ \A f \in fired : f.job # incoming[i].job
    /\ \A k \in DOMAIN incoming : incoming[k].job = incoming[i].job => k = i

\* What is on the agenda lies behind every call of the same job.
CalledBefore ==
  \A f \in fired : \A e \in agenda :
    e.job = f.job => e.at > f.tick /\ e.at >= f.at + Period[f.job]

NothingBeforeThread == timerPc = "absent" => agenda = {}

TimerInv ==
  /\ TimerTypeOK /\ OneEntryEach /\ IncomingFresh /\ CalledBefore
  /\ NothingBeforeThread /\ NoBurst /\ AgendaAhead

\* What taking one new job does: it goes on the agenda ahead of the wake-up, or it
\* is let go.
LEMMA DequeueEffect ==
  ASSUME TimerTypeOK, Dequeue
  PROVE  /\ UNCHANGED <<now, tp_stop, notified, wakeAt, tick, fired>>
         /\ timerPc = "dequeue" /\ timerPc' = "fire"
         /\ \/ UNCHANGED <<incoming, agenda, dropped>>
            \/ /\ incoming # <<>> /\ incoming' = Tail(incoming)
               /\ dropped' \subseteq Job
               /\ \/ agenda' = agenda
                  \/ \E g \in Entry : /\ g.job = Head(incoming).job /\ g.at > tick
                                      /\ agenda' = agenda \cup {g}
<1>1. /\ UNCHANGED <<now, tp_stop, notified, wakeAt, tick, fired>>
      /\ timerPc = "dequeue" /\ timerPc' = "fire"
  BY DEF Dequeue
<1>2. CASE incoming = <<>>
  BY <1>1, <1>2 DEF Dequeue
<1>3. CASE incoming # <<>>
  <2> DEFINE e == Head(incoming)
  <2>1. e \in Entry /\ tick \in Nat /\ dropped \subseteq Job
    BY <1>3 DEF TimerTypeOK
  <2>2. /\ incoming' = Tail(incoming)
        /\ \/ e.at > tick /\ agenda' = agenda \cup {e} /\ dropped' = dropped
           \/ /\ Period[e.job] > 0 /\ dropped' = dropped
              /\ agenda' = agenda \cup {Rescheduled(e)}
           \/ dropped' = dropped \cup {e.job} /\ agenda' = agenda
    BY <1>3 DEF Dequeue, AgendaWith
  <2>3. Rescheduled(e) \in Entry /\ Rescheduled(e).job = e.job
        /\ (Period[e.job] > 0 => Rescheduled(e).at > tick)
    BY <2>1, RescheduledAhead
  <2>4. e.job \in Job
    BY <2>1, EntryParts
  <2>5. dropped' \subseteq Job
    BY <2>1, <2>2, <2>4
  <2> HIDE DEF e
  <2>6. \/ agenda' = agenda
        \/ \E g \in Entry : g.job = e.job /\ g.at > tick /\ agenda' = agenda \cup {g}
    BY <2>1, <2>2, <2>3
  <2> QED
    BY <1>1, <1>3, <2>2, <2>5, <2>6 DEF e
<1> QED
  BY <1>2, <1>3

\* What a call does: it is remembered, and the next event, if any, lies ahead of
\* the wake-up by a whole number of periods.
LEMMA FireEffect ==
  ASSUME TimerTypeOK, NEW e \in agenda, Fire(e)
  PROVE  /\ UNCHANGED <<now, tp_stop, notified, timerPc, incoming, wakeAt, tick, dropped>>
         /\ timerPc = "fire" /\ e \in Entry /\ e.at <= tick
         /\ fired' = fired \cup {[job |-> e.job, at |-> e.at, tick |-> tick]}
         /\ \/ agenda' = agenda \ {e}
            \/ \E g \in Entry : /\ g.job = e.job /\ g.at > tick
                                /\ g.at >= e.at + Period[e.job]
                                /\ agenda' = (agenda \ {e}) \cup {g}
<1>1. /\ UNCHANGED <<now, tp_stop, notified, timerPc, incoming, wakeAt, tick, dropped>>
      /\ timerPc = "fire" /\ e.at <= tick
      /\ fired' = fired \cup {[job |-> e.job, at |-> e.at, tick |-> tick]}
  BY DEF Fire
<1>2. e \in Entry /\ tick \in Nat
  BY DEF TimerTypeOK
<1>3. \/ agenda' = agenda \ {e}
      \/ /\ Period[e.job] > 0
         /\ agenda' = (agenda \ {e}) \cup {[e EXCEPT !.at = NextPoint(e)]}
  BY DEF Fire
<1>4. CASE agenda' = agenda \ {e}
  BY <1>1, <1>2, <1>4
<1>5. CASE /\ Period[e.job] > 0
           /\ agenda' = (agenda \ {e}) \cup {[e EXCEPT !.at = NextPoint(e)]}
  <2>1. /\ NextPoint(e) \in Nat /\ NextPoint(e) > tick
        /\ NextPoint(e) >= e.at + Period[e.job]
    BY <1>1, <1>2, <1>5, NextPointOf
  <2> DEFINE g == [e EXCEPT !.at = NextPoint(e)]
  <2>2. g \in Entry /\ g.job = e.job /\ g.at = NextPoint(e)
    BY <1>2, <2>1, EntryMoved
  <2>3. agenda' = (agenda \ {e}) \cup {g}
    BY <1>5
  <2> HIDE DEF g
  <2> QED
    BY <1>1, <1>2, <2>1, <2>2, <2>3
<1> QED
  BY <1>3, <1>4, <1>5

LEMMA TypeHolds == ASSUME TimerInv, [TimerNext]_timerVars PROVE TimerTypeOK'
<1> USE JobAssumption DEF JobAssumption, TimerInv
<1>1. CASE Tick  BY <1>1 DEF Tick, TimerTypeOK
<1>2. ASSUME NEW j \in Job, SetTimer(j) PROVE TimerTypeOK'
  <2>1. [job |-> j, at |-> now + Delay[j]] \in Entry
    BY DEF TimerTypeOK, Entry
  <2>2. incoming' \in Seq(Entry)
    BY <1>2, <2>1 DEF SetTimer, TimerTypeOK
  <2> QED
    BY <1>2, <2>2 DEF SetTimer, TimerTypeOK
<1>3. CASE TimerLoop
  <2>1. wakeAt' \in Nat
    BY <1>3 DEF TimerLoop, TimerTypeOK, Entry, Earliest, Forever
  <2> QED
    BY <1>3, <2>1 DEF TimerLoop, TimerTypeOK
<1>4. CASE Check  BY <1>4 DEF Check, TimerTypeOK
<1>5. CASE TimerBlock  BY <1>5 DEF TimerBlock, TimerTypeOK
<1>6. CASE Timeout  BY <1>6 DEF Timeout, TimerTypeOK
<1>7. CASE Dequeue
  <2> USE DequeueEffect, <1>7
  <2>1. incoming' \in Seq(Entry)
    <3>1. incoming # <<>> => Tail(incoming) \in Seq(Entry)
      BY DEF TimerTypeOK
    <3> QED
      BY <3>1 DEF TimerTypeOK
  <2>2. agenda' \subseteq Entry
    BY DEF TimerTypeOK
  <2> QED
    BY <2>1, <2>2 DEF TimerTypeOK
<1>8. CASE FireDone  BY <1>8 DEF FireDone, TimerTypeOK
<1>9. ASSUME NEW e \in agenda, Fire(e) PROVE TimerTypeOK'
  <2> USE FireEffect, <1>9
  <2>1. agenda' \subseteq Entry
    BY DEF TimerTypeOK
  <2>2. tick \in Nat /\ e.job \in Job /\ e.at \in Nat
    BY EntryParts DEF TimerTypeOK
  <2>3. fired' \subseteq [job : Job, at : Nat, tick : Nat]
    BY <2>2 DEF TimerTypeOK
  <2> QED
    BY <2>1, <2>3 DEF TimerTypeOK
<1>10. CASE DtorStopsTimer  BY <1>10 DEF DtorStopsTimer, TimerTypeOK
<1>11. CASE DtorNotifiesTimer  BY <1>11 DEF DtorNotifiesTimer, TimerTypeOK
<1>12. CASE UNCHANGED timerVars  BY <1>12 DEF timerVars, TimerTypeOK
<1> QED
  BY <1>1, <1>2, <1>3, <1>4, <1>5, <1>6, <1>7, <1>8, <1>9, <1>10, <1>11, <1>12 DEF TimerNext

\* The jobs move in three kinds of steps only.
LEMMA JobSteps ==
  ASSUME [TimerNext]_timerVars
  PROVE  \/ UNCHANGED <<incoming, agenda, fired>>
         \/ \E j \in Job : SetTimer(j)
         \/ Dequeue
         \/ \E e \in agenda : Fire(e)
  BY DEF TimerNext, timerVars, Tick, TimerLoop, Check, TimerBlock, Timeout, FireDone, DtorStopsTimer, DtorNotifiesTimer

LEMMA SetTimerEffect ==
  ASSUME TimerTypeOK, NEW j \in Job, SetTimer(j)
  PROVE  /\ incoming' = Append(incoming, [job |-> j, at |-> now + Delay[j]])
         /\ UNCHANGED <<agenda, fired, tick>>
         /\ \A i \in DOMAIN incoming : incoming[i].job # j
         /\ \A e \in agenda : e.job # j
         /\ \A f \in fired : f.job # j
  BY DEF SetTimer, Known

LEMMA OneEntryKept == ASSUME TimerInv, [TimerNext]_timerVars PROVE OneEntryEach'
<1> USE DEF TimerInv
<1>1. CASE UNCHANGED <<incoming, agenda, fired>>
  BY <1>1 DEF OneEntryEach
<1>2. ASSUME NEW j \in Job, SetTimer(j) PROVE OneEntryEach'
  BY <1>2, SetTimerEffect DEF OneEntryEach
<1>3. CASE Dequeue
  <2>1. CASE agenda' = agenda
    BY <2>1 DEF OneEntryEach
  <2>2. CASE agenda' # agenda
    <3>1. incoming # <<>>
      BY <1>3, <2>2, DequeueEffect
    <3>2. PICK g \in Entry : g.job = Head(incoming).job /\ agenda' = agenda \cup {g}
      BY <1>3, <2>2, DequeueEffect
    <3>3. 1 \in DOMAIN incoming /\ Head(incoming) = incoming[1]
      BY <3>1 DEF TimerTypeOK
    <3>4. \A d \in agenda : d.job # g.job
      BY <3>2, <3>3 DEF IncomingFresh
    <3> QED
      BY <3>2, <3>4 DEF OneEntryEach
  <2> QED
    BY <2>1, <2>2
<1>4. ASSUME NEW e \in agenda, Fire(e) PROVE OneEntryEach'
  <2>1. CASE agenda' = agenda \ {e}
    BY <2>1 DEF OneEntryEach
  <2>2. CASE agenda' # agenda \ {e}
    <3>1. PICK g \in Entry : g.job = e.job /\ agenda' = (agenda \ {e}) \cup {g}
      BY <1>4, <2>2, FireEffect
    <3>2. \A d \in agenda \ {e} : d.job # g.job
      BY <3>1 DEF OneEntryEach
    <3> QED
      BY <3>1, <3>2 DEF OneEntryEach
  <2> QED
    BY <2>1, <2>2
<1> QED
  BY <1>1, <1>2, <1>3, <1>4, JobSteps

LEMMA IncomingKept == ASSUME TimerInv, [TimerNext]_timerVars PROVE IncomingFresh'
<1> USE DEF TimerInv
<1>1. CASE UNCHANGED <<incoming, agenda, fired>>
  BY <1>1 DEF IncomingFresh
<1>2. ASSUME NEW j \in Job, SetTimer(j) PROVE IncomingFresh'
  <2> DEFINE n == [job |-> j, at |-> now + Delay[j]]
  <2>1. n.job = j
    OBVIOUS
  <2> HIDE DEF n
  <2>2. incoming' = Append(incoming, n)
    BY <1>2, SetTimerEffect DEF n
  <2>3. /\ DOMAIN incoming' = 1 .. Len(incoming) + 1
        /\ Len(incoming) \in Nat /\ DOMAIN incoming = 1 .. Len(incoming)
        /\ incoming'[Len(incoming) + 1] = n
        /\ \A i \in DOMAIN incoming : incoming'[i] = incoming[i]
    BY <2>2 DEF TimerTypeOK
  <2>4. /\ UNCHANGED <<agenda, fired>>
        /\ \A i \in DOMAIN incoming : incoming[i].job # j
        /\ \A e \in agenda : e.job # j
        /\ \A f \in fired : f.job # j
    BY <1>2, SetTimerEffect
  <2>5. \A i \in DOMAIN incoming' : i \in DOMAIN incoming \/ i = Len(incoming) + 1
    BY <2>3
  <2> QED
    BY <2>1, <2>3, <2>4, <2>5 DEF IncomingFresh
<1>3. CASE Dequeue
  <2>1. CASE UNCHANGED <<incoming, agenda>>
    BY <1>3, <2>1, DequeueEffect DEF IncomingFresh
  <2>2. CASE ~UNCHANGED <<incoming, agenda>>
    <3>1. incoming # <<>> /\ incoming' = Tail(incoming) /\ fired' = fired
      BY <1>3, <2>2, DequeueEffect
    <3>2. /\ Len(incoming) \in Nat \ {0} /\ DOMAIN incoming = 1 .. Len(incoming)
          /\ Head(incoming) = incoming[1]
          /\ DOMAIN incoming' = 1 .. Len(incoming) - 1
          /\ \A i \in DOMAIN incoming' : incoming'[i] = incoming[i + 1]
      BY <3>1 DEF TimerTypeOK
    <3>3. \A e \in agenda' : e \in agenda \/ e.job = incoming[1].job
      BY <1>3, <2>2, <3>2, DequeueEffect
    <3>4. \A i \in DOMAIN incoming' : i + 1 \in DOMAIN incoming /\ i + 1 # 1
      BY <3>2
    <3>5. 1 \in DOMAIN incoming
      BY <3>2
    <3>6. \A i \in DOMAIN incoming' :
            /\ \A e \in agenda' : e.job # incoming'[i].job
            /\ \A f \in fired' : f.job # incoming'[i].job
      BY <3>1, <3>2, <3>3, <3>4, <3>5 DEF IncomingFresh
    <3>7. \A i, k \in DOMAIN incoming' : incoming'[k].job = incoming'[i].job => k + 1 = i + 1
      BY <3>2, <3>4 DEF IncomingFresh
    <3>8. \A i, k \in DOMAIN incoming' : k + 1 = i + 1 => k = i
      BY <3>2
    <3> QED
      BY <3>6, <3>7, <3>8 DEF IncomingFresh
  <2> QED
    BY <2>1, <2>2
<1>4. ASSUME NEW e \in agenda, Fire(e) PROVE IncomingFresh'
  <2>1. \A d \in agenda' : d \in agenda \/ d.job = e.job
    BY <1>4, FireEffect
  <2>2. \A f \in fired' : f \in fired \/ f.job = e.job
    BY <1>4, FireEffect
  <2> QED
    BY <1>4, <2>1, <2>2, FireEffect DEF IncomingFresh
<1> QED
  BY <1>1, <1>2, <1>3, <1>4, JobSteps

LEMMA CalledBeforeKept == ASSUME TimerInv, [TimerNext]_timerVars PROVE CalledBefore'
<1> USE DEF TimerInv
<1>1. CASE UNCHANGED <<incoming, agenda, fired>>
  BY <1>1 DEF CalledBefore
<1>2. ASSUME NEW j \in Job, SetTimer(j) PROVE CalledBefore'
  BY <1>2, SetTimerEffect DEF CalledBefore
<1>3. CASE Dequeue
  <2>1. fired' = fired
    BY <1>3, DequeueEffect
  <2>2. CASE agenda' = agenda
    BY <2>1, <2>2 DEF CalledBefore
  <2>3. CASE agenda' # agenda
    <3>1. incoming # <<>>
      BY <1>3, <2>3, DequeueEffect
    <3>2. PICK g \in Entry : g.job = Head(incoming).job /\ agenda' = agenda \cup {g}
      BY <1>3, <2>3, DequeueEffect
    <3>3. 1 \in DOMAIN incoming /\ Head(incoming) = incoming[1]
      BY <3>1 DEF TimerTypeOK
    <3>4. \A f \in fired : f.job # g.job
      BY <3>2, <3>3 DEF IncomingFresh
    <3> QED
      BY <2>1, <3>2, <3>4 DEF CalledBefore
  <2> QED
    BY <2>2, <2>3
<1>4. ASSUME NEW e \in agenda, Fire(e) PROVE CalledBefore'
  <2> DEFINE c == [job |-> e.job, at |-> e.at, tick |-> tick]
  <2>1. c.job = e.job /\ c.at = e.at /\ c.tick = tick
    OBVIOUS
  <2> HIDE DEF c
  <2>2. /\ fired' = fired \cup {c} /\ tick \in Nat /\ e.at <= tick
        /\ e \in Entry /\ e.at \in Nat /\ Period[e.job] \in Nat
    BY <1>4, FireEffect, EntryParts DEF c, TimerTypeOK
  <2>3. \A d \in agenda : d # e => d.job # e.job
    BY DEF OneEntryEach
  <2>4. \A f \in fired : f.at \in Nat /\ f.tick \in Nat
    BY DEF TimerTypeOK
  <2>5. CASE agenda' = agenda \ {e}
    BY <2>1, <2>2, <2>3, <2>5 DEF CalledBefore
  <2>6. CASE agenda' # agenda \ {e}
    <3>1. PICK g \in Entry : /\ g.job = e.job /\ g.at > tick
                             /\ g.at >= e.at + Period[e.job]
                             /\ agenda' = (agenda \ {e}) \cup {g}
      BY <1>4, <2>6, FireEffect
    <3>2. g.at \in Nat
      BY EntryParts
    <3>3. \A f \in fired : f.job = e.job => g.at > f.tick /\ g.at >= f.at + Period[f.job]
      BY <2>2, <2>4, <3>1, <3>2 DEF CalledBefore
    <3>4. \A d \in agenda' : d = g \/ (d \in agenda /\ d.job # e.job)
      BY <2>3, <3>1
    <3> QED
      BY <2>1, <2>2, <3>1, <3>3, <3>4 DEF CalledBefore
  <2> QED
    BY <2>5, <2>6
<1> QED
  BY <1>1, <1>2, <1>3, <1>4, JobSteps

LEMMA NoBurstKept == ASSUME TimerInv, [TimerNext]_timerVars PROVE NoBurst'
<1> USE DEF TimerInv
<1>1. CASE UNCHANGED fired
  BY <1>1 DEF NoBurst
<1>2. ASSUME NEW e \in agenda, Fire(e) PROVE NoBurst'
  <2> DEFINE c == [job |-> e.job, at |-> e.at, tick |-> tick]
  <2>1. c.job = e.job /\ c.at = e.at /\ c.tick = tick
    OBVIOUS
  <2> HIDE DEF c
  <2>2. /\ fired' = fired \cup {c} /\ tick \in Nat /\ e.at <= tick
        /\ e.at \in Nat /\ Period[e.job] \in Nat
    BY <1>2, FireEffect, EntryParts DEF c, TimerTypeOK
  <2>3. \A f \in fired : f.at \in Nat /\ f.tick \in Nat
    BY DEF TimerTypeOK
  <2>4. \A f \in fired : f.job = c.job => c.tick > f.tick /\ c.at >= f.at + Period[f.job]
    BY <2>1, <2>2, <2>3 DEF CalledBefore
  <2>5. \A f, g \in fired' : (g.job = f.job /\ g # f) =>
          g.tick # f.tick /\ (g.tick > f.tick => g.at >= f.at + Period[f.job])
    BY <2>1, <2>2, <2>3, <2>4 DEF NoBurst
  <2>6. \A f \in fired' : f.at <= f.tick
    BY <2>1, <2>2 DEF NoBurst
  <2> QED
    BY <2>5, <2>6 DEF NoBurst
<1>3. UNCHANGED fired \/ \E e \in agenda : Fire(e)
  BY JobSteps, SetTimerEffect, DequeueEffect
<1> QED
  BY <1>1, <1>2, <1>3

LEMMA AgendaAheadKept ==
  ASSUME TimerInv, [TimerNext]_timerVars PROVE AgendaAhead' /\ NothingBeforeThread'
<1> USE DEF TimerInv
<1>1. CASE Tick  BY <1>1 DEF Tick, AgendaAhead, NothingBeforeThread
<1>2. ASSUME NEW j \in Job, SetTimer(j) PROVE AgendaAhead' /\ NothingBeforeThread'
  BY <1>2 DEF SetTimer, AgendaAhead, NothingBeforeThread, TimerTypeOK
<1>3. CASE TimerLoop  BY <1>3 DEF TimerLoop, AgendaAhead, NothingBeforeThread
<1>4. CASE Check  BY <1>4 DEF Check, AgendaAhead, NothingBeforeThread
<1>5. CASE TimerBlock  BY <1>5 DEF TimerBlock, AgendaAhead, NothingBeforeThread
<1>6. CASE Timeout  BY <1>6 DEF Timeout, AgendaAhead, NothingBeforeThread
<1>7. CASE Dequeue  BY <1>7 DEF Dequeue, AgendaAhead, NothingBeforeThread
<1>8. CASE FireDone  BY <1>8 DEF FireDone, AgendaAhead, NothingBeforeThread
<1>9. ASSUME NEW e \in agenda, Fire(e) PROVE AgendaAhead' /\ NothingBeforeThread'
  BY <1>9 DEF Fire, AgendaAhead, NothingBeforeThread
<1>10. CASE DtorStopsTimer  BY <1>10 DEF DtorStopsTimer, AgendaAhead, NothingBeforeThread
<1>11. CASE DtorNotifiesTimer
  BY <1>11 DEF DtorNotifiesTimer, AgendaAhead, NothingBeforeThread
<1>12. CASE UNCHANGED timerVars
  BY <1>12 DEF timerVars, AgendaAhead, NothingBeforeThread
<1> QED
  BY <1>1, <1>2, <1>3, <1>4, <1>5, <1>6, <1>7, <1>8, <1>9, <1>10, <1>11, <1>12 DEF TimerNext

\* However late the thread wakes and whatever periods its jobs have: no callback is
\* early, one wake-up calls a job once, the points a late wake-up missed are not
\* made up for, and no entry of the agenda is left behind the wake-up that served it.
THEOREM AgendaKeepsTime == TimerSpec => []AgendaInvariant
<1>1. ASSUME TimerInit PROVE TimerInv
  <2>1. incoming = <<>> /\ agenda = {} /\ fired = {}
    BY <1>1 DEF TimerInit
  <2>2. TimerTypeOK
    <3>1. incoming \in Seq(Entry)
      BY <2>1
    <3>2. now \in 0 .. MaxTime /\ tick \in 0 .. MaxTime /\ wakeAt \in Nat
      BY <1>1, JobAssumption DEF TimerInit, JobAssumption
    <3> QED
      BY <1>1, <3>1, <3>2 DEF TimerInit, TimerTypeOK
  <2>3. DOMAIN incoming = {}
    BY <2>1
  <2> QED
    BY <2>1, <2>2, <2>3 DEF TimerInv, OneEntryEach, IncomingFresh, CalledBefore,
       NothingBeforeThread, NoBurst, AgendaAhead
<1>2. TimerInv /\ [TimerNext]_timerVars => TimerInv'
  BY TypeHolds, OneEntryKept, IncomingKept, CalledBeforeKept, NoBurstKept, AgendaAheadKept
     DEF TimerInv
<1>3. TimerInv => AgendaInvariant
  BY DEF TimerInv, AgendaInvariant
<1> QED
  BY <1>1, <1>2, <1>3, PTL DEF TimerSpec
=============================================================================
