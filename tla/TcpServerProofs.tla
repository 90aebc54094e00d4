-------------------------- MODULE TcpServerProofs --------------------------
(***************************************************************************)
(* Proofs about the TCP server: with any number of connections and io      *)
(* threads, whatever fails, an accept stays armed and an io thread is left *)
(* to serve it until that many peers have been reset; no client is erased  *)
(* while a thread is still putting it together; only a client that failed  *)
(* before it was built leaves its slot behind; and every other use of a    *)
(* destroyed client needs the end of its peer or Stop, and its race.       *)
(***************************************************************************)
EXTENDS TcpServer, FiniteSetTheorems, TLAPS

Kinds == {"accept", "acceptError", "read", "readError", "write", "writeError"}
EventSet == {e \in [kind : Kinds, c : Client \cup {"none"}] : e.kind = "acceptError" \/ e.c \in Client}
NoClient == {"idle", "rearm", "ended"}
Doing == {d \in [pc : Where, c : Client \cup {"none"}] : d.pc \in NoClient \/ d.c \in Client}

ReadyOK == ready \in Seq(EventSet)
ThreadOK == thread \in [Io -> Doing]
AcceptorOK == acceptor \in {"open", "closed"} /\ accepting \in BOOLEAN

Shape == ReadyOK /\ ThreadOK /\ AcceptorOK

AcceptKinds == {"accept", "acceptError"}
Accepting == {"emplace", "connectErase", "connectOutput", "keep", "rearm"}
-----------------------------------------------------------------------------
\* Whatever is at the head of a queue, the rest of it stays.
LEMMA TailKeeps ==
  ASSUME NEW S, NEW q \in Seq(S), q # <<>>, NEW i \in DOMAIN q, i # 1
  PROVE  /\ i - 1 \in DOMAIN Tail(q)
         /\ Tail(q)[i - 1] = q[i]
  OBVIOUS

LEMMA AppendKeeps ==
  ASSUME NEW S, NEW q \in Seq(S), NEW e \in S
  PROVE  /\ Append(q, e) \in Seq(S)
         /\ Len(q) + 1 \in DOMAIN Append(q, e) /\ Append(q, e)[Len(q) + 1] = e
         /\ \A i \in DOMAIN q : i \in DOMAIN Append(q, e) /\ Append(q, e)[i] = q[i]
  OBVIOUS

LEMMA HeadTail ==
  ASSUME NEW S, NEW q \in Seq(S), q # <<>>
  PROVE  /\ Tail(q) \in Seq(S) /\ Head(q) \in S
         /\ 1 \in DOMAIN q /\ q[1] = Head(q)
  OBVIOUS

\* Replacing the place of a thread is replacing what it does.
LEMMA OtherPlace ==
  ASSUME NEW r \in Doing, NEW p
  PROVE  [r EXCEPT !.pc = p] = [pc |-> p, c |-> r.c]
  BY DEF Doing

LEMMA PlaceOnly ==
  ASSUME ThreadOK, NEW t \in Io, NEW p \in Where, Goes(t, p),
         p \in NoClient \/ thread[t].pc \notin NoClient
  PROVE  /\ [pc |-> p, c |-> thread[t].c] \in Doing
         /\ thread' = [thread EXCEPT ![t] = [pc |-> p, c |-> thread[t].c]]
<1>1. thread[t] \in Doing
  BY DEF ThreadOK
<1>2. thread' = [thread EXCEPT ![t] = [thread[t] EXCEPT !.pc = p]]
  BY DEF Goes
<1>3. [thread[t] EXCEPT !.pc = p] = [pc |-> p, c |-> thread[t].c]
  BY <1>1, OtherPlace
<1> QED
  BY <1>1, <1>2, <1>3 DEF Doing
-----------------------------------------------------------------------------
(* A step, as the acceptor sees it. *)

\* A completed operation enters the queue; it may be that of the accept.
Enters ==
  /\ UNCHANGED <<thread, acceptor>>
  /\ \E e \in EventSet : /\ ready' = Append(ready, e)
                         /\ UNCHANGED accepting \/ (e.kind \in AcceptKinds /\ accepting' = FALSE)

\* A thread takes a handler out of the queue.
Leaves(t) ==
  /\ ready # <<>> /\ ready' = Tail(ready) /\ thread[t].pc = "idle"
  /\ UNCHANGED <<acceptor, accepting>>
  /\ \/ UNCHANGED thread /\ Head(ready).kind \notin AcceptKinds
     \/ \E d \in Doing : /\ thread' = [thread EXCEPT ![t] = d]
                         /\ Head(ready).kind \in AcceptKinds => d.pc \in Accepting

\* A thread goes on, and leaves AcceptHandler only by arming the next accept.
GoesOn(t) ==
  /\ UNCHANGED <<ready, acceptor>>
  /\ UNCHANGED accepting \/ accepting' = TRUE
  /\ \E d \in Doing : /\ thread' = [thread EXCEPT ![t] = d]
                      /\ thread[t].pc \in Accepting => accepting' \/ d.pc \in Accepting

\* Nothing of this changes, but the acceptor may be closed.
Apart == UNCHANGED <<ready, thread, accepting>> /\ acceptor' \in {acceptor, "closed"}

Effect == Enters \/ Apart \/ \E t \in Io : Leaves(t) \/ GoesOn(t)

LEMMA ClientStep ==
  ASSUME Shape, NEW c \in Client,
         \/ PeerConnects(c) \/ PeerEnds(c) \/ AcceptCompletes(c) \/ ReadCompletes(c)
         \/ WriteCompletes(c) \/ EmitPicks(c) \/ StopClient(c)
  PROVE  Effect
<1>1. CASE AcceptCompletes(c)
  <2>1. Event("accept", c) \in EventSet /\ Event("accept", c).kind = "accept"
    BY DEF EventSet, Event, Kinds
  <2> QED
    BY <1>1, <2>1 DEF AcceptCompletes, Effect, Enters, AcceptKinds
<1>2. CASE ReadCompletes(c)
  <2>1. Event("read", c) \in EventSet /\ Event("readError", c) \in EventSet
    BY DEF EventSet, Event, Kinds
  <2> QED
    BY <1>2, <2>1 DEF ReadCompletes, Effect, Enters, server
<1>3. CASE WriteCompletes(c)
  <2>1. Event("write", c) \in EventSet /\ Event("writeError", c) \in EventSet
    BY DEF EventSet, Event, Kinds
  <2> QED
    BY <1>3, <2>1 DEF WriteCompletes, Effect, Enters, server
<1>4. CASE PeerConnects(c) \/ PeerEnds(c) \/ EmitPicks(c) \/ StopClient(c)
  BY <1>4 DEF PeerConnects, PeerEnds, EmitPicks, StopClient, Effect, Apart, server, asio
<1> QED
  BY <1>1, <1>2, <1>3, <1>4

LEMMA StartStep ==
  ASSUME Shape, NEW t \in Io,
         AcceptStarts(t) \/ ReadStarts(t) \/ WriteStarts(t) \/ DestroyStarts(t)
  PROVE  Leaves(t)
<1> USE DEF AcceptKinds, At, Starts, server
<1>1. Starts(t, Kinds) => ready # <<>> /\ Head(ready) \in EventSet
  BY HeadTail DEF Shape, ReadyOK
<1>2. CASE AcceptStarts(t)
  <2>1. PICK e \in EventSet : e = Head(ready) /\ e.kind \in AcceptKinds
    BY <1>1, <1>2 DEF AcceptStarts, Kinds
  <2>2. PICK p \in {"emplace", "rearm"} : /\ p = "emplace" => e.kind = "accept"
                                          /\ thread' = [thread EXCEPT ![t] = [pc |-> p, c |-> e.c]]
    BY <1>2, <2>1 DEF AcceptStarts
  <2>3. [pc |-> p, c |-> e.c] \in Doing /\ p \in Accepting
    BY <2>1, <2>2 DEF Doing, EventSet, Where, NoClient, Accepting
  <2> QED
    BY <1>2, <2>2, <2>3 DEF AcceptStarts, Leaves
<1>3. CASE ReadStarts(t)
  <2>1. PICK e \in EventSet : e = Head(ready) /\ e.kind = "read"
    BY <1>1, <1>3 DEF ReadStarts, Kinds
  <2>2. [pc |-> "emit", c |-> e.c] \in Doing
    BY <2>1 DEF Doing, EventSet, Where
  <2> QED
    BY <1>3, <2>1, <2>2 DEF ReadStarts, Leaves
<1>4. CASE WriteStarts(t)
  BY <1>4 DEF WriteStarts, Leaves
<1>5. CASE DestroyStarts(t)
  <2>1. PICK e \in EventSet : e = Head(ready) /\ e.kind \in {"readError", "writeError"}
    BY <1>1, <1>5 DEF DestroyStarts, Kinds
  <2>2. [pc |-> "disconnect", c |-> e.c] \in Doing
    BY <2>1 DEF Doing, EventSet, Where
  <2> QED
    BY <1>5, <2>1, <2>2 DEF DestroyStarts, Leaves
<1> QED
  BY <1>2, <1>3, <1>4, <1>5

LEMMA IdleDoing == Idle \in Doing
  BY DEF Idle, Doing, Where, NoClient

LEMMA ThreadStep ==
  ASSUME Shape, NEW t \in Io,
         \/ AcceptEmplace(t) \/ AcceptConnectErase(t) \/ AcceptConnectOutput(t) \/ AcceptKeep(t)
         \/ AcceptRearm(t) \/ ReadEmits(t) \/ DestroyDisconnect(t) \/ DestroyShutdown(t)
         \/ DestroySignal(t) \/ EraseClient(t) \/ IoThreadEnds(t)
  PROVE  GoesOn(t)
<1> USE PlaceOnly, IdleDoing DEF Shape, GoesOn, Accepting, NoClient, At, Rests, server, asio
<1>1. CASE AcceptEmplace(t)
  BY <1>1 DEF AcceptEmplace, Where
<1>2. CASE AcceptConnectErase(t)
  BY <1>2 DEF AcceptConnectErase, Where
<1>3. CASE AcceptConnectOutput(t)
  BY <1>3 DEF AcceptConnectOutput, Where
<1>4. CASE AcceptKeep(t)
  BY <1>4 DEF AcceptKeep, AfterKeep, Where
<1>5. CASE AcceptRearm(t)
  BY <1>5 DEF AcceptRearm
<1>6. CASE ReadEmits(t)
  BY <1>6 DEF ReadEmits
<1>7. CASE DestroyDisconnect(t)
  BY <1>7 DEF DestroyDisconnect, Where
<1>8. CASE DestroyShutdown(t)
  BY <1>8 DEF DestroyShutdown, Where
<1>9. CASE DestroySignal(t)
  BY <1>9 DEF DestroySignal, Where
<1>10. CASE EraseClient(t)
  BY <1>10 DEF EraseClient
<1>11. CASE IoThreadEnds(t)
  <2>1. Goes(t, "ended") /\ thread[t].pc = "idle" /\ UNCHANGED <<ready, acceptor, accepting>>
    BY <1>11 DEF IoThreadEnds
  <2> QED
    BY <2>1, ZenonT(60) DEF Where
<1> QED
  BY <1>1, <1>2, <1>3, <1>4, <1>5, <1>6, <1>7, <1>8, <1>9, <1>10, <1>11

LEMMA NextEffect ==
  ASSUME Shape, [Next]_vars
  PROVE  Effect
<1>1. ASSUME NEW c \in Client,
             \/ PeerConnects(c) \/ PeerEnds(c) \/ AcceptCompletes(c) \/ ReadCompletes(c)
             \/ WriteCompletes(c) \/ EmitPicks(c) \/ StopClient(c)
      PROVE  Effect
  BY <1>1, ClientStep
<1>2. ASSUME NEW t \in Io,
             \/ AcceptStarts(t) \/ ReadStarts(t) \/ WriteStarts(t) \/ DestroyStarts(t)
             \/ AcceptEmplace(t) \/ AcceptConnectErase(t) \/ AcceptConnectOutput(t)
             \/ AcceptKeep(t) \/ AcceptRearm(t) \/ ReadEmits(t)
             \/ DestroyDisconnect(t) \/ DestroyShutdown(t) \/ DestroySignal(t)
             \/ EraseClient(t) \/ IoThreadEnds(t)
      PROVE  Effect
  BY <1>2, StartStep, ThreadStep DEF Effect
<1>3. CASE AcceptFails
  <2>1. Event("acceptError", "none") \in EventSet /\ Event("acceptError", "none").kind = "acceptError"
    BY DEF EventSet, Event, Kinds
  <2> QED
    BY <1>3, <2>1 DEF AcceptFails, Effect, Enters, AcceptKinds
<1>4. CASE EmitCalls \/ IoStop \/ StopBegins \/ StopLocks \/ StopEnds
  BY <1>4 DEF EmitCalls, IoStop, StopBegins, StopLocks, StopEnds, Effect, Apart, server, asio
<1>5. CASE UNCHANGED vars
  BY <1>5 DEF vars, server, asio, Effect, Apart
<1> QED
  BY <1>1, <1>2, <1>3, <1>4, <1>5 DEF Next

LEMMA ShapeStep ==
  ASSUME Shape, Effect
  PROVE  Shape'
<1> USE DEF Shape, ReadyOK, ThreadOK, AcceptorOK
<1>1. CASE Enters
  <2>1. PICK e \in EventSet : ready' = Append(ready, e) /\ (UNCHANGED accepting \/ accepting' = FALSE)
    BY <1>1 DEF Enters
  <2> QED
    BY <1>1, <2>1, AppendKeeps DEF Enters
<1>2. ASSUME NEW t \in Io, Leaves(t)
      PROVE  Shape'
  BY <1>2, HeadTail DEF Leaves
<1>3. ASSUME NEW t \in Io, GoesOn(t)
      PROVE  Shape'
  BY <1>3 DEF GoesOn
<1>4. CASE Apart
  BY <1>4 DEF Apart
<1> QED
  BY <1>1, <1>2, <1>3, <1>4 DEF Effect

\* An accept is armed, its result in the queue, or a thread in its handler.
Queuing == \E i \in DOMAIN ready : ready[i].kind \in AcceptKinds
Handling == \E t \in Io : thread[t].pc \in Accepting

Hears == acceptor = "open" => AcceptArmed

LEMMA HearsStep ==
  ASSUME Shape, Effect, Hears
  PROVE  Hears'
<1> USE DEF Shape, ReadyOK, ThreadOK, AcceptorOK
<1>a. Hears <=> (acceptor = "open" => accepting \/ Queuing \/ Handling)
  BY DEF Hears, AcceptArmed, Queuing, Handling, AcceptKinds, Accepting
<1>b. Hears' <=> (acceptor' = "open" => accepting' \/ Queuing' \/ Handling')
  BY DEF Hears, AcceptArmed, Queuing, Handling, AcceptKinds, Accepting
<1>1. CASE Enters
  <2>1. PICK e \in EventSet : /\ ready' = Append(ready, e)
                              /\ UNCHANGED accepting \/ (e.kind \in AcceptKinds /\ accepting' = FALSE)
    BY <1>1 DEF Enters
  <2>2. Queuing => Queuing'
    BY <2>1, AppendKeeps DEF Queuing
  <2>3. e.kind \in AcceptKinds => Queuing'
    BY <2>1, AppendKeeps DEF Queuing
  <2>4. Handling <=> Handling'
    BY <1>1 DEF Enters, Handling
  <2> QED
    BY <1>1, <1>a, <1>b, <2>1, <2>2, <2>3, <2>4 DEF Enters
<1>2. ASSUME NEW t \in Io, Leaves(t)
      PROVE  Hears'
  <2>1. CASE Head(ready).kind \in AcceptKinds
    <3>1. Handling'
      BY <1>2, <2>1 DEF Leaves, Handling
    <3> QED
      BY <3>1, <1>b
  <2>2. CASE Head(ready).kind \notin AcceptKinds
    <3>1. Queuing => Queuing'
      <4>1. ASSUME NEW i \in DOMAIN ready, ready[i].kind \in AcceptKinds
            PROVE  Queuing'
        <5>1. i # 1
          BY <1>2, <2>2, <4>1, HeadTail DEF Leaves
        <5> QED
          BY <1>2, <4>1, <5>1, TailKeeps DEF Leaves, Queuing
      <4> QED
        BY <4>1 DEF Queuing
    <3>2. Handling => Handling'
      BY <1>2 DEF Leaves, Handling, Accepting
    <3> QED
      BY <1>2, <1>a, <1>b, <3>1, <3>2 DEF Leaves
  <2> QED
    BY <2>1, <2>2
<1>3. ASSUME NEW t \in Io, GoesOn(t)
      PROVE  Hears'
  <2>1. Handling => Handling' \/ accepting'
    BY <1>3 DEF GoesOn, Handling
  <2>2. Queuing <=> Queuing'
    BY <1>3 DEF GoesOn, Queuing
  <2>3. acceptor' = acceptor /\ (accepting => accepting')
    BY <1>3 DEF GoesOn
  <2> QED
    BY <1>a, <1>b, <2>1, <2>2, <2>3
<1>4. CASE Apart
  BY <1>4, <1>a, <1>b DEF Apart, Queuing, Handling
<1> QED
  BY <1>1, <1>2, <1>3, <1>4 DEF Effect

-----------------------------------------------------------------------------
(* How a client comes and goes. *)

Stages == {"none", "created", "erasable", "linked", "kept", "erased"}
StagesOK == stage \in [Client -> Stages]

\* A thread is putting its client together, under m_mtxTcpServer.
Builds(t) == thread[t].pc \in {"connectErase", "connectOutput", "keep"}
BuildLocked ==
  /\ \A t \in Io : Builds(t) => lock = t
  /\ life = "erasing" => lock = "stop"

\* How far the client of a builder is, and that a half-built client has one.
Unfinished(c) == stage[c] \in {"created", "erasable", "linked"}
BuiltAsFar ==
  /\ \A t \in Io : /\ thread[t].pc = "connectErase" => stage[thread[t].c] = "created"
                   /\ thread[t].pc = "connectOutput" => stage[thread[t].c] = "erasable"
                   /\ thread[t].pc = "keep" => stage[thread[t].c] = "linked"
  /\ \A c \in Client : Unfinished(c) => \E t \in Io : Builds(t) /\ thread[t].c = c

BuildInv == StagesOK /\ BuildLocked /\ BuiltAsFar

\* A step that neither builds nor erases.
Aside ==
  /\ UNCHANGED <<stage, lock, life>>
  /\ \/ UNCHANGED thread
     \/ \E t \in Io, d \in Doing :
          /\ thread' = [thread EXCEPT ![t] = d]
          /\ ~Builds(t) /\ d.pc \notin {"connectErase", "connectOutput", "keep"}

LEMMA AsideBuilds ==
  ASSUME Shape, BuildInv, Aside
  PROVE  BuildInv'
<1>1. CASE UNCHANGED thread
  BY <1>1 DEF Aside, BuildInv, StagesOK, BuildLocked, BuiltAsFar, Builds, Unfinished
<1>2. ASSUME NEW t \in Io, NEW d \in Doing, thread' = [thread EXCEPT ![t] = d],
             ~Builds(t), d.pc \notin {"connectErase", "connectOutput", "keep"},
             UNCHANGED <<stage, lock, life>>
      PROVE  BuildInv'
  <2>1. \A u \in Io : (Builds(u)' <=> Builds(u)) /\ (Builds(u) => thread'[u] = thread[u])
    BY <1>2 DEF Shape, ThreadOK, Builds
  <2> QED
    BY <1>2, <2>1 DEF BuildInv, StagesOK, BuildLocked, BuiltAsFar, Builds, Unfinished
<1> QED
  BY <1>1, <1>2 DEF Aside

LEMMA AsideSteps ==
  ASSUME Shape,
         \/ \E c \in Client : \/ PeerConnects(c) \/ PeerEnds(c) \/ AcceptCompletes(c)
                              \/ ReadCompletes(c) \/ WriteCompletes(c) \/ EmitPicks(c)
         \/ \E t \in Io : \/ ReadStarts(t) \/ WriteStarts(t) \/ DestroyStarts(t) \/ AcceptStarts(t)
                          \/ ReadEmits(t) \/ AcceptRearm(t) \/ IoThreadEnds(t)
                          \/ DestroyDisconnect(t) \/ DestroyShutdown(t) \/ DestroySignal(t)
         \/ AcceptFails \/ EmitCalls \/ IoStop \/ UNCHANGED vars
  PROVE  Aside
<1> USE DEF Aside, object, server, asio, history
<1>1. ASSUME NEW c \in Client,
             \/ PeerConnects(c) \/ PeerEnds(c) \/ AcceptCompletes(c)
             \/ ReadCompletes(c) \/ WriteCompletes(c) \/ EmitPicks(c)
      PROVE  Aside
  BY <1>1 DEF PeerConnects, PeerEnds, AcceptCompletes, ReadCompletes, WriteCompletes, EmitPicks
<1>2. CASE AcceptFails \/ EmitCalls \/ IoStop \/ UNCHANGED vars
  BY <1>2 DEF AcceptFails, EmitCalls, IoStop, vars
<1>3. ASSUME NEW t \in Io, AcceptStarts(t)
      PROVE  Aside
  <2>1. PICK d \in Doing : thread' = [thread EXCEPT ![t] = d] /\ d.pc \in {"emplace", "rearm"}
    <3>1. Leaves(t) /\ Head(ready).kind \in AcceptKinds
      BY <1>3, StartStep DEF AcceptStarts, Starts, AcceptKinds
    <3>2. PICK d \in Doing : thread' = [thread EXCEPT ![t] = d]
      BY <3>1 DEF Leaves
    <3>3. thread'[t].pc \in {"emplace", "rearm"}
      BY <1>3 DEF AcceptStarts, Shape, ThreadOK
    <3> QED
      BY <3>2, <3>3 DEF Shape, ThreadOK
  <2> QED
    BY <1>3, <2>1 DEF AcceptStarts, Starts, At, Builds
<1>4. ASSUME NEW t \in Io, ReadStarts(t) \/ WriteStarts(t) \/ DestroyStarts(t)
      PROVE  Aside
  <2>1. Leaves(t) /\ UNCHANGED <<stage, lock, life>> /\ ~Builds(t)
    BY <1>4, StartStep DEF ReadStarts, WriteStarts, DestroyStarts, Starts, At, Builds
  <2>2. UNCHANGED thread \/ thread'[t].pc \in {"emit", "disconnect"}
    BY <1>4 DEF ReadStarts, WriteStarts, DestroyStarts, Shape, ThreadOK
  <2> QED
    BY <2>1, <2>2 DEF Leaves, Shape, ThreadOK
<1>5. ASSUME NEW t \in Io,
             \/ ReadEmits(t) \/ AcceptRearm(t) \/ IoThreadEnds(t)
             \/ DestroyDisconnect(t) \/ DestroyShutdown(t) \/ DestroySignal(t)
      PROVE  Aside
  <2>1. GoesOn(t)
    BY <1>5, ThreadStep
  <2>2. UNCHANGED <<stage, lock, life>> /\ ~Builds(t)
    BY <1>5 DEF ReadEmits, AcceptRearm, IoThreadEnds, DestroyDisconnect, DestroyShutdown,
                DestroySignal, At, Builds
  <2>3. \E p \in {"idle", "ended", "shutdown", "crashed", "signal", "erase"} :
          Goes(t, p) \/ (p = "idle" /\ Rests(t))
    <3>1. CASE ReadEmits(t) \/ AcceptRearm(t) \/ IoThreadEnds(t) \/ DestroyDisconnect(t)
      BY <3>1 DEF ReadEmits, AcceptRearm, IoThreadEnds, DestroyDisconnect
    <3>2. CASE DestroyShutdown(t)
      BY <3>2 DEF DestroyShutdown
    <3>3. CASE DestroySignal(t)
      BY <3>3 DEF DestroySignal
    <3> QED
      BY <1>5, <3>1, <3>2, <3>3
  <2>4. thread'[t].pc \in {"idle", "ended", "shutdown", "crashed", "signal", "erase"}
    BY <2>3 DEF Goes, Rests, Idle, Shape, ThreadOK, Doing
  <2> QED
    BY <2>1, <2>2, <2>4 DEF GoesOn, Shape, ThreadOK
<1> QED
  BY <1>1, <1>2, <1>3, <1>4, <1>5

\* The steps that build: each finds its client as the one before has left it.
LEMMA BuildSteps ==
  ASSUME Shape, BuildInv, NEW t \in Io,
         AcceptEmplace(t) \/ AcceptConnectErase(t) \/ AcceptConnectOutput(t) \/ AcceptKeep(t)
  PROVE  BuildInv'
<1> DEFINE c == thread[t].c
<1>1. \A u \in Io \ {t} : ~Builds(u)
  BY ServerAssumption DEF BuildInv, BuildLocked, Builds, AcceptEmplace, AcceptConnectErase, AcceptConnectOutput,
         AcceptKeep, At, ServerAssumption
<1>2. c \in Client
  BY DEF Shape, ThreadOK, Doing, NoClient, AcceptEmplace, AcceptConnectErase, AcceptConnectOutput,
         AcceptKeep, At
<1>3. thread'[t].c = c /\ \A u \in Io \ {t} : thread'[u] = thread[u]
  BY DEF AcceptEmplace, AcceptConnectErase, AcceptConnectOutput, AcceptKeep, Goes, Shape, ThreadOK, Doing
<1>4. \E p, q \in {"connectErase", "connectOutput", "keep", "rearm"}, n \in Stages :
         /\ thread'[t].pc = p /\ stage' = [stage EXCEPT ![c] = n]
         /\ \/ p = "connectErase" /\ n = "created" /\ lock' = t
            \/ p = "connectOutput" /\ n = "erasable" /\ UNCHANGED lock /\ Builds(t)
            \/ p = "keep" /\ n = "linked" /\ UNCHANGED lock /\ Builds(t)
            \/ p = "rearm" /\ n = "kept" /\ lock' = "free"
  <2>1. CASE AcceptEmplace(t)
    BY <2>1 DEF AcceptEmplace, Goes, Shape, ThreadOK, Doing, Stages
  <2>2. CASE AcceptConnectErase(t)
    BY <2>2 DEF AcceptConnectErase, At, Builds, server, Goes, Shape, ThreadOK, Doing, Stages
  <2>3. CASE AcceptConnectOutput(t)
    BY <2>3 DEF AcceptConnectOutput, At, Builds, server, Goes, Shape, ThreadOK, Doing, Stages
  <2>4. CASE AcceptKeep(t)
    BY <2>4 DEF AcceptKeep, AfterKeep, Goes, Shape, ThreadOK, Doing, Stages
  <2> QED
    BY <2>1, <2>2, <2>3, <2>4
<1>5. UNCHANGED life /\ (life = "erasing" => lock \notin Io /\ lock # "free")
  BY ServerAssumption DEF BuildInv, BuildLocked, AcceptEmplace, AcceptConnectErase, AcceptConnectOutput, AcceptKeep,
         server, ServerAssumption
<1>6. life # "erasing"
  BY <1>5 DEF BuildInv, BuildLocked, Builds, AcceptEmplace, AcceptConnectErase, AcceptConnectOutput,
         AcceptKeep, At
<1> QED
  <2>1. StagesOK'
    BY <1>4 DEF BuildInv, StagesOK
  <2>2. BuildLocked'
    BY <1>1, <1>3, <1>4, <1>5, <1>6 DEF BuildInv, BuildLocked, Builds
  <2>3. BuiltAsFar'
    BY <1>1, <1>2, <1>3, <1>4 DEF BuildInv, StagesOK, BuiltAsFar, Builds, Unfinished
  <2> QED
    BY <2>1, <2>2, <2>3 DEF BuildInv

\* The steps that erase: nobody builds then.
LEMMA EraseSteps ==
  ASSUME Shape, BuildInv,
         \/ \E t \in Io : EraseClient(t)
         \/ StopBegins \/ StopLocks \/ StopEnds \/ \E c \in Client : StopClient(c)
  PROVE  BuildInv'
<1>1. ASSUME NEW t \in Io, EraseClient(t)
      PROVE  BuildInv'
  <2>1. \A u \in Io : ~Builds(u)
    BY <1>1, ServerAssumption DEF EraseClient, ListFree, BuildInv, BuildLocked, ServerAssumption
  <2>2. \A u \in Io : ~Builds(u)'
    BY <1>1, <2>1 DEF EraseClient, Rests, Idle, Builds, Shape, ThreadOK
  <2>3. thread[t].c \in Client /\ stage' = [stage EXCEPT ![thread[t].c] = "erased"]
    BY <1>1 DEF EraseClient, At, Shape, ThreadOK, Doing, NoClient
  <2> QED
    BY <1>1, <2>1, <2>2, <2>3 DEF EraseClient, server, BuildInv, StagesOK, Stages, BuildLocked,
                                  BuiltAsFar, Unfinished, Builds
<1>2. CASE StopBegins
  BY <1>2 DEF StopBegins, object, BuildInv, StagesOK, BuildLocked, BuiltAsFar, Unfinished, Builds
<1>3. CASE StopLocks
  <2>1. \A u \in Io : ~Builds(u)
    BY <1>3, ServerAssumption DEF StopLocks, ListFree, BuildInv, BuildLocked, ServerAssumption
  <2> QED
    BY <1>3, <2>1 DEF StopLocks, object, BuildInv, StagesOK, BuildLocked, BuiltAsFar, Unfinished, Builds
<1>4. ASSUME NEW c \in Client, StopClient(c)
      PROVE  BuildInv'
  <2>1. \A u \in Io : ~Builds(u)
    BY <1>4, ServerAssumption DEF StopClient, BuildInv, BuildLocked, ServerAssumption
  <2>2. UNCHANGED thread
    BY <1>4 DEF StopClient
  <2>3. UNCHANGED stage \/ stage' = [stage EXCEPT ![c] = "erased"]
    BY <1>4 DEF StopClient
  <2>4. life' = "erasing" => lock' = "stop"
    BY <1>4 DEF StopClient, BuildInv, BuildLocked
  <2> QED
    BY <2>1, <2>2, <2>3, <2>4 DEF BuildInv, StagesOK, Stages, BuildLocked, BuiltAsFar, Unfinished, Builds
<1>5. CASE StopEnds
  <2>1. \A u \in Io : ~Builds(u)
    BY <1>5, ServerAssumption DEF StopEnds, BuildInv, BuildLocked, ServerAssumption
  <2> QED
    BY <1>5, <2>1 DEF StopEnds, BuildInv, StagesOK, BuildLocked, BuiltAsFar, Unfinished, Builds
<1> QED
  BY <1>1, <1>2, <1>3, <1>4, <1>5

LEMMA BuildStep ==
  ASSUME Shape, BuildInv, [Next]_vars
  PROVE  BuildInv'
<1>1. ASSUME NEW c \in Client,
             \/ PeerConnects(c) \/ PeerEnds(c) \/ AcceptCompletes(c) \/ ReadCompletes(c)
             \/ WriteCompletes(c) \/ EmitPicks(c) \/ StopClient(c)
      PROVE  BuildInv'
  BY <1>1, AsideSteps, AsideBuilds, EraseSteps
<1>2. ASSUME NEW t \in Io,
             \/ AcceptStarts(t) \/ ReadStarts(t) \/ WriteStarts(t) \/ DestroyStarts(t)
             \/ AcceptEmplace(t) \/ AcceptConnectErase(t) \/ AcceptConnectOutput(t)
             \/ AcceptKeep(t) \/ AcceptRearm(t) \/ ReadEmits(t)
             \/ DestroyDisconnect(t) \/ DestroyShutdown(t) \/ DestroySignal(t)
             \/ EraseClient(t) \/ IoThreadEnds(t)
      PROVE  BuildInv'
  BY <1>2, AsideSteps, AsideBuilds, EraseSteps, BuildSteps
<1>3. CASE AcceptFails \/ EmitCalls \/ IoStop \/ StopBegins \/ StopLocks \/ StopEnds \/ UNCHANGED vars
  BY <1>3, AsideSteps, AsideBuilds, EraseSteps
<1> QED
  BY <1>1, <1>2, <1>3 DEF Next

LEMMA InitBuilds == Init => Shape /\ BuildInv
<1> SUFFICES ASSUME Init
             PROVE  Shape /\ BuildInv
  OBVIOUS
<1>1. Shape
  BY IdleDoing DEF Init, Shape, ReadyOK, ThreadOK, AcceptorOK
<1>2. BuildInv
  BY DEF Init, Idle, BuildInv, StagesOK, Stages, BuildLocked, BuiltAsFar, Unfinished, Builds
<1> QED
  BY <1>1, <1>2

LEMMA BuildAlways == Spec => [](Shape /\ BuildInv)
<1>1. Shape /\ BuildInv /\ [Next]_vars => Shape' /\ BuildInv'
  BY NextEffect, ShapeStep, BuildStep
<1> QED
  BY <1>1, InitBuilds, PTL DEF Spec

\* No client is destroyed under the thread that puts it together, although its read is
\* armed and may fail from its first line on (m_mtxTcpServer in AcceptHandler, EraseClient
\* and Stop).
THEOREM BuiltBeforeErased == Spec => []NotErasedWhileBuilt
<1>1. BuildInv => NotErasedWhileBuilt
  BY DEF BuildInv, BuiltAsFar, Builds, NotErasedWhileBuilt
<1> QED
  BY <1>1, BuildAlways, PTL
-----------------------------------------------------------------------------
(* Who may leave a slot behind. *)

\* A client something is done for has been there, and a client whose accept has just
\* completed has not, nor is it about to be made twice.
Seen(c) == stage[c] # "none"
OperationsSeen ==
  /\ \A c \in Client : reading[c] \/ writing[c] \/ c \in slots => Seen(c)
  /\ sender \in Client \cup {"none"} /\ (sender # "none" => Seen(sender))
  /\ \A i \in DOMAIN ready : ready[i].kind \in Kinds \ AcceptKinds => Seen(ready[i].c)
  /\ \A t \in Io : thread[t].pc \in {"emit", "disconnect", "shutdown", "signal", "erase", "crashed"}
                     => Seen(thread[t].c)

Comes(i) == i \in DOMAIN ready /\ ready[i].kind = "accept"
Makes(t) == thread[t].pc = "emplace"
ComesOnce ==
  /\ \A i \in DOMAIN ready : Comes(i) => ~Seen(ready[i].c)
  /\ \A t \in Io : Makes(t) => ~Seen(thread[t].c)
  /\ \A i, j \in DOMAIN ready : Comes(i) /\ Comes(j) /\ i # j => ready[i].c # ready[j].c
  /\ \A t, u \in Io : Makes(t) /\ Makes(u) /\ t # u => thread[t].c # thread[u].c
  /\ \A t \in Io : \A i \in DOMAIN ready : Makes(t) /\ Comes(i) => ready[i].c # thread[t].c

\* Past DestroyDisconnect the connection is gone, or it was not there to be dropped.
Dropped(c) == c \in early \/ (c \notin slots /\ stage[c] \in {"kept", "erased"})
DroppedFirst ==
  /\ \A t \in Io : thread[t].pc \in {"shutdown", "signal", "erase"} => Dropped(thread[t].c)
  /\ \A c \in Client : stage[c] = "erased" => Dropped(c)

SlotsOK == slots \subseteq Client /\ early \subseteq Client
           /\ DOMAIN reading = Client /\ DOMAIN writing = Client

LEMMA TailIndex ==
  ASSUME NEW S, NEW q \in Seq(S), q # <<>>, NEW i \in DOMAIN Tail(q)
  PROVE  i + 1 \in DOMAIN q /\ i + 1 # 1 /\ Tail(q)[i] = q[i + 1]
  OBVIOUS

LEMMA ElementIs ==
  ASSUME NEW S, NEW q \in Seq(S), NEW i \in DOMAIN q
  PROVE  q[i] \in S
  OBVIOUS

LEMMA AppendIndex ==
  ASSUME NEW S, NEW q \in Seq(S), NEW e \in S, NEW i \in DOMAIN Append(q, e)
  PROVE  \/ i \in DOMAIN q /\ Append(q, e)[i] = q[i]
         \/ i = Len(q) + 1 /\ i \notin DOMAIN q /\ Append(q, e)[i] = e
  OBVIOUS

\* A client is seen first when it is made, and stays seen.
LEMMA SeenSteps ==
  ASSUME Shape, BuildInv, OperationsSeen, [Next]_vars
  PROVE  \/ \A c \in Client : Seen(c)' = Seen(c)
         \/ \E t \in Io : /\ AcceptEmplace(t)
                          /\ \A c \in Client : Seen(c)' = (Seen(c) \/ c = thread[t].c)
<1> DEFINE Same == \A c \in Client : Seen(c)' = Seen(c)
<1>1. UNCHANGED stage => Same
  BY DEF Seen
<1>2. \A c \in Client : StopClient(c) => Same
  BY DEF StopClient, Known, Seen, BuildInv, StagesOK, Stages
<1>3. ASSUME NEW t \in Io, AcceptConnectErase(t) \/ AcceptConnectOutput(t) \/ AcceptKeep(t)
      PROVE  Same
  BY <1>3 DEF AcceptConnectErase, AcceptConnectOutput, AcceptKeep, At, Seen, BuildInv, BuiltAsFar,
              StagesOK, Stages
<1>4. ASSUME NEW t \in Io, EraseClient(t)
      PROVE  Same
  BY <1>4 DEF EraseClient, At, Seen, OperationsSeen, BuildInv, StagesOK, Stages
<1>5. ASSUME NEW t \in Io, AcceptEmplace(t)
      PROVE  \A c \in Client : Seen(c)' = (Seen(c) \/ c = thread[t].c)
  BY <1>5 DEF AcceptEmplace, Seen, BuildInv, StagesOK, Stages
<1>6. Aside => UNCHANGED stage
  BY DEF Aside
<1>7. StopBegins \/ StopLocks \/ StopEnds => UNCHANGED stage
  BY DEF StopBegins, StopLocks, StopEnds, object
<1> QED
  BY <1>1, <1>2, <1>3, <1>4, <1>5, <1>6, <1>7, AsideSteps DEF Next

LEMMA SeenStays ==
  ASSUME Shape, BuildInv, OperationsSeen, [Next]_vars, NEW c \in Client, Seen(c)
  PROVE  Seen(c)'
  BY SeenSteps

\* The head of the queue, when a thread takes it.
LEMMA Started ==
  ASSUME Shape, OperationsSeen, NEW t \in Io, NEW K \in SUBSET Kinds, Starts(t, K)
  PROVE  /\ Head(ready) \in EventSet /\ Head(ready).kind \in K
         /\ ready # <<>> /\ ready' = Tail(ready) /\ thread[t].pc = "idle"
         /\ Head(ready).kind \notin AcceptKinds =>
              Head(ready).c \in Client /\ Seen(Head(ready).c)
<1>1. /\ ready # <<>> /\ ready' = Tail(ready) /\ Head(ready).kind \in K /\ thread[t].pc = "idle"
  BY DEF Starts, At
<1>2. Head(ready) \in EventSet /\ 1 \in DOMAIN ready /\ ready[1] = Head(ready)
  BY <1>1, HeadTail DEF Shape, ReadyOK
<1>3. Head(ready).kind \notin AcceptKinds => Head(ready).c \in Client
  BY <1>2 DEF EventSet, AcceptKinds
<1>4. Head(ready).kind \notin AcceptKinds => Seen(Head(ready).c)
  BY <1>1, <1>2 DEF OperationsSeen
<1> QED
  BY <1>1, <1>2, <1>3, <1>4

\* What is done for clients: each step leaves it, or does it for one that is there.
LEMMA WorkSteps ==
  ASSUME Shape, BuildInv, OperationsSeen, SlotsOK, [Next]_vars
  PROVE  /\ SlotsOK'
         /\ \A c \in Client : (reading'[c] \/ writing'[c] \/ c \in slots') => Seen(c)'
         /\ sender' \in Client \cup {"none"} /\ (sender' # "none" => Seen(sender)')
<1> DEFINE Work(c) == reading[c] \/ writing[c] \/ c \in slots
           Same == UNCHANGED <<reading, writing, slots, sender, early>>
           Good == /\ SlotsOK'
                   /\ \A c \in Client : (reading'[c] \/ writing'[c] \/ c \in slots') => Seen(c)'
                   /\ sender' \in Client \cup {"none"} /\ (sender' # "none" => Seen(sender)')
<1>a. \A c \in Client : Seen(c) => Seen(c)'
  BY SeenStays
<1>b. /\ \A c \in Client : Work(c) => Seen(c)
      /\ sender \in Client \cup {"none"} /\ (sender # "none" => Seen(sender))
  BY DEF OperationsSeen
<1>0. ASSUME /\ slots' \subseteq Client /\ early' \subseteq Client
             /\ DOMAIN reading' = Client /\ DOMAIN writing' = Client
             /\ \A c \in Client : (reading'[c] \/ writing'[c] \/ c \in slots') => Seen(c) \/ Seen(c)'
             /\ UNCHANGED sender
      PROVE  Good
  BY <1>0, <1>a, <1>b DEF SlotsOK, Seen
<1>1. CASE Same
  BY <1>1, <1>0, <1>b DEF SlotsOK
<1>2. ASSUME NEW c \in Client, PeerConnects(c) \/ PeerEnds(c) \/ AcceptCompletes(c)
      PROVE  Same
  BY <1>2 DEF PeerConnects, PeerEnds, AcceptCompletes, object, asio, history
<1>3. ASSUME NEW c \in Client, ReadCompletes(c) \/ WriteCompletes(c)
      PROVE  Good
  <2>1. /\ \A d \in Client : (reading'[d] => reading[d]) /\ (writing'[d] => writing[d])
        /\ DOMAIN reading' = Client /\ DOMAIN writing' = Client /\ UNCHANGED <<slots, early, sender>>
    BY <1>3 DEF ReadCompletes, WriteCompletes, object, history, SlotsOK
  <2> QED
    BY <1>0, <1>b, <2>1 DEF SlotsOK
<1>4. ASSUME NEW c \in Client, EmitPicks(c)
      PROVE  Good
  <2>1. /\ UNCHANGED <<reading, writing, slots, early>> /\ c \in slots /\ sender' = c
    BY <1>4 DEF EmitPicks, object, asio, history
  <2> QED
    BY <1>a, <1>b, <2>1 DEF SlotsOK, Seen
<1>5. CASE EmitCalls
  <2>1. /\ UNCHANGED <<reading, slots, early>> /\ sender' = "none" /\ sender \in Client
        /\ DOMAIN writing' = Client /\ \A d \in Client : d # sender => writing'[d] = writing[d]
    BY <1>5, <1>b DEF EmitCalls, object, SlotsOK
  <2>2. Seen(sender)
    BY <1>b, <2>1, ServerAssumption DEF ServerAssumption
  <2> QED
    BY <1>a, <1>b, <2>1, <2>2 DEF SlotsOK
<1>6. ASSUME (\E c \in Client : StopClient(c)) \/ StopEnds
      PROVE  Good
  <2>1. UNCHANGED <<reading, writing, sender, early>> /\ slots' \subseteq slots
    BY <1>6 DEF StopClient, StopEnds, asio, history
  <2> QED
    BY <1>0, <1>b, <2>1 DEF SlotsOK
<1>7. ASSUME NEW t \in Io, AcceptEmplace(t)
      PROVE  Good
  <2>0. PICK e \in Client : e = thread[t].c
    BY <1>7 DEF AcceptEmplace, At, Shape, ThreadOK, Doing, NoClient
  <2>1. /\ DOMAIN reading' = Client /\ \A d \in Client : d # e => reading'[d] = reading[d]
        /\ UNCHANGED <<writing, slots, early, sender>>
    BY <1>7, <2>0 DEF AcceptEmplace, SlotsOK, history
  <2>2. Seen(e)'
    BY <1>7, <2>0 DEF AcceptEmplace, Seen, BuildInv, StagesOK
  <2> QED
    BY <1>0, <1>b, <2>1, <2>2 DEF SlotsOK
<1>8. ASSUME NEW t \in Io, AcceptConnectOutput(t)
      PROVE  Good
  <2>1. /\ UNCHANGED <<reading, writing, early, sender>> /\ slots' = slots \cup {thread[t].c}
        /\ thread[t].c \in Client /\ Seen(thread[t].c)
    BY <1>8 DEF AcceptConnectOutput, asio, history, At, Shape, ThreadOK, Doing, NoClient, Seen,
                BuildInv, BuiltAsFar
  <2> QED
    BY <1>0, <1>b, <2>1 DEF SlotsOK
<1>9. ASSUME NEW t \in Io, ReadStarts(t) \/ WriteStarts(t)
      PROVE  Good
  <2>1. Head(ready).c \in Client /\ Seen(Head(ready).c)
    BY <1>9, Started DEF ReadStarts, WriteStarts, Kinds, AcceptKinds
  <2>2. /\ UNCHANGED <<slots, early, sender>>
        /\ DOMAIN reading' = Client /\ DOMAIN writing' = Client
        /\ \A d \in Client : d # Head(ready).c => reading'[d] = reading[d] /\ writing'[d] = writing[d]
    BY <1>9 DEF ReadStarts, WriteStarts, SlotsOK, object
  <2> QED
    BY <1>0, <1>b, <2>1, <2>2 DEF SlotsOK
<1>10. ASSUME NEW t \in Io, DestroyDisconnect(t)
       PROVE  Good
  <2>1. /\ UNCHANGED <<reading, writing, sender>> /\ slots' \subseteq slots
        /\ early' \subseteq early \cup {thread[t].c} /\ thread[t].c \in Client
    BY <1>10 DEF DestroyDisconnect, Disconnected, asio, At, Shape, ThreadOK, Doing, NoClient
  <2> QED
    BY <1>0, <1>b, <2>1 DEF SlotsOK
<1>11. ASSUME NEW t \in Io,
              \/ AcceptStarts(t) \/ DestroyStarts(t) \/ AcceptConnectErase(t) \/ AcceptKeep(t)
              \/ AcceptRearm(t) \/ ReadEmits(t) \/ DestroyShutdown(t) \/ DestroySignal(t)
              \/ EraseClient(t) \/ IoThreadEnds(t)
       PROVE  Same
  BY <1>11 DEF AcceptStarts, DestroyStarts, AcceptConnectErase, AcceptKeep, AcceptRearm, ReadEmits,
               DestroyShutdown, DestroySignal, EraseClient, IoThreadEnds, object, asio, history
<1>12. AcceptFails \/ IoStop \/ StopBegins \/ StopLocks \/ UNCHANGED vars => Same
  BY DEF AcceptFails, IoStop, StopBegins, StopLocks, vars, object, asio, history
<1> HIDE DEF Same
<1> QED
  BY <1>1, <1>2, <1>3, <1>4, <1>5, <1>6, <1>7, <1>8, <1>9, <1>10, <1>11, <1>12 DEF Next

\* The kinds of step, for the queue, the threads and what has been seen.
SeenSame == \A c \in Client : Seen(c)' = Seen(c)
AtWork == {"emit", "disconnect", "shutdown", "signal", "erase", "crashed"}
Parting == {"shutdown", "signal", "erase"}

Arrives(e) ==
  /\ ready' = Append(ready, e) /\ UNCHANGED thread /\ SeenSame
  /\ e.kind \notin AcceptKinds => e.c \in Client /\ Seen(e.c)
  /\ e.kind = "accept" => /\ ~Seen(e.c)
                          /\ \A i \in DOMAIN ready : Comes(i) => ready[i].c # e.c
                          /\ \A t \in Io : thread[t].c # e.c

Takes(t, d) ==
  /\ ready # <<>> /\ ready' = Tail(ready) /\ SeenSame
  /\ thread[t].pc = "idle" /\ thread' = [thread EXCEPT ![t] = d]
  /\ d.pc = "emplace" => Head(ready).kind = "accept" /\ d.c = Head(ready).c
  /\ d.pc \in AtWork => d.c \in Client /\ Seen(d.c)
  /\ d.pc \notin Parting

Proceeds(t, d) ==
  /\ UNCHANGED ready /\ thread' = [thread EXCEPT ![t] = d] /\ d.pc # "emplace"
  /\ d.pc \in AtWork => d.c = thread[t].c /\ thread[t].pc \in AtWork
  /\ d.pc \in Parting => thread[t].pc \in Parting \/ DestroyDisconnect(t)
  /\ SeenSame \/ (/\ thread[t].pc = "emplace"
                  /\ \A c \in Client : Seen(c)' = (Seen(c) \/ c = thread[t].c))

StepKind ==
  \/ UNCHANGED <<ready, thread>> /\ SeenSame
  \/ \E e \in EventSet : Arrives(e)
  \/ \E t \in Io, d \in Doing : Takes(t, d) \/ Proceeds(t, d)

LEMMA ArriveSteps ==
  ASSUME Shape, BuildInv, OperationsSeen, [Next]_vars, SeenSame,
         AcceptFails \/ \E c \in Client : AcceptCompletes(c) \/ ReadCompletes(c) \/ WriteCompletes(c)
  PROVE  \E e \in EventSet : Arrives(e)
<1> USE DEF Arrives, Event, EventSet, Kinds, AcceptKinds
<1>1. CASE AcceptFails
  BY <1>1 DEF AcceptFails
<1>2. ASSUME NEW c \in Client, AcceptCompletes(c)
      PROVE  \E e \in EventSet : Arrives(e)
  BY <1>2 DEF AcceptCompletes, Queued, Comes, Seen
<1>3. ASSUME NEW c \in Client, ReadCompletes(c) \/ WriteCompletes(c)
      PROVE  \E e \in EventSet : Arrives(e)
  <2>1. Seen(c)
    BY <1>3 DEF ReadCompletes, WriteCompletes, OperationsSeen
  <2>2. \E k \in {"read", "readError", "write", "writeError"} :
          ready' = Append(ready, Event(k, c)) /\ UNCHANGED thread
    BY <1>3 DEF ReadCompletes, WriteCompletes
  <2> QED
    BY <2>1, <2>2
<1> QED
  BY <1>1, <1>2, <1>3

LEMMA TakeSteps ==
  ASSUME Shape, BuildInv, OperationsSeen, [Next]_vars, SeenSame, NEW t \in Io,
         AcceptStarts(t) \/ ReadStarts(t) \/ WriteStarts(t) \/ DestroyStarts(t)
  PROVE  \E d \in Doing : Takes(t, d)
<1> USE DEF Takes
<1>a. /\ Leaves(t)
      /\ \A d \in Doing : thread' = [thread EXCEPT ![t] = d] => thread'[t] = d
  BY StartStep DEF Shape, ThreadOK
<1>b. thread = [thread EXCEPT ![t] = thread[t]] /\ thread[t] \in Doing
  BY DEF Shape, ThreadOK
<1>1. CASE AcceptStarts(t)
  <2>1. PICK d \in Doing : thread' = [thread EXCEPT ![t] = d]
    BY <1>1, <1>a, Started DEF Leaves, AcceptStarts, AcceptKinds, Kinds
  <2>2. d = [pc |-> IF Head(ready).kind = "accept" THEN "emplace" ELSE "rearm", c |-> Head(ready).c]
    BY <1>1, <1>a, <2>1 DEF AcceptStarts, Shape, ThreadOK
  <2> QED
    BY <1>a, <2>1, <2>2 DEF Leaves, AtWork, Parting
<1>2. CASE ReadStarts(t) \/ DestroyStarts(t)
  <2>1. Head(ready).c \in Client /\ Seen(Head(ready).c)
    BY <1>2, Started DEF ReadStarts, DestroyStarts, Kinds, AcceptKinds
  <2>2. CASE UNCHANGED thread
    BY <1>a, <1>b, <2>2 DEF Leaves, AtWork, Parting
  <2>3. ASSUME NEW p \in {"emit", "disconnect"},
               thread' = [thread EXCEPT ![t] = [pc |-> p, c |-> Head(ready).c]]
        PROVE  \E d \in Doing : Takes(t, d)
    <3>1. [pc |-> p, c |-> Head(ready).c] \in Doing
      BY <2>1 DEF Doing, Where
    <3> QED
      BY <1>a, <2>1, <2>3, <3>1 DEF Leaves, Parting
  <2> QED
    BY <1>2, <2>2, <2>3 DEF ReadStarts, DestroyStarts
<1>3. CASE WriteStarts(t)
  BY <1>3, <1>a, <1>b DEF WriteStarts, Leaves, AtWork, Parting
<1> QED
  BY <1>1, <1>2, <1>3

LEMMA ProceedSteps ==
  ASSUME Shape, BuildInv, OperationsSeen, [Next]_vars, NEW t \in Io,
         \/ AcceptEmplace(t)
         \/ SeenSame /\ \/ AcceptConnectErase(t) \/ AcceptConnectOutput(t) \/ AcceptKeep(t)
                        \/ AcceptRearm(t) \/ ReadEmits(t) \/ DestroyDisconnect(t)
                        \/ DestroyShutdown(t) \/ DestroySignal(t) \/ EraseClient(t) \/ IoThreadEnds(t)
  PROVE  \E d \in Doing : Proceeds(t, d)
<1>1. GoesOn(t)
  BY ThreadStep
<1>2. \/ Rests(t)
      \/ \E p \in Where : /\ Goes(t, p) /\ p # "emplace"
                          /\ p \in AtWork => thread[t].pc \in AtWork
                          /\ p \in Parting => thread[t].pc \in Parting \/ DestroyDisconnect(t)
  <2>1. CASE AcceptEmplace(t) \/ AcceptConnectErase(t) \/ AcceptConnectOutput(t)
    BY <2>1 DEF AcceptEmplace, AcceptConnectErase, AcceptConnectOutput, Where, AtWork, Parting
  <2>2. CASE AcceptKeep(t) \/ AcceptRearm(t) \/ ReadEmits(t) \/ EraseClient(t) \/ IoThreadEnds(t)
    BY <2>2 DEF AcceptKeep, AfterKeep, AcceptRearm, ReadEmits, EraseClient, IoThreadEnds, Where, AtWork, Parting
  <2>3. CASE DestroyDisconnect(t)
    BY <2>3 DEF DestroyDisconnect, At, Where, AtWork, Parting
  <2>4. CASE DestroyShutdown(t)
    BY <2>4 DEF DestroyShutdown, At, Where, AtWork, Parting
  <2>5. CASE DestroySignal(t)
    BY <2>5 DEF DestroySignal, At, Where, AtWork, Parting
  <2> QED
    BY <2>1, <2>2, <2>3, <2>4, <2>5
<1>3. \/ SeenSame
      \/ /\ thread[t].pc = "emplace"
         /\ \A c \in Client : Seen(c)' = (Seen(c) \/ c = thread[t].c)
  BY DEF AcceptEmplace, At, Seen, SeenSame, BuildInv, StagesOK
<1>4. PICK d \in Doing : thread' = [thread EXCEPT ![t] = d] /\ UNCHANGED ready
  BY <1>1 DEF GoesOn
<1>5. thread'[t] = d
  BY <1>4 DEF Shape, ThreadOK
<1>6. /\ d.pc # "emplace"
      /\ d.pc \in AtWork => d.c = thread[t].c /\ thread[t].pc \in AtWork
      /\ d.pc \in Parting => thread[t].pc \in Parting \/ DestroyDisconnect(t)
  <2>1. CASE Rests(t)
    BY <1>5, <2>1 DEF Rests, Idle, AtWork, Parting, Shape, ThreadOK
  <2>2. ASSUME NEW p \in Where, Goes(t, p), p # "emplace", p \in AtWork => thread[t].pc \in AtWork,
               p \in Parting => thread[t].pc \in Parting \/ DestroyDisconnect(t)
        PROVE  /\ d.pc # "emplace"
               /\ d.pc \in AtWork => d.c = thread[t].c /\ thread[t].pc \in AtWork
               /\ d.pc \in Parting => thread[t].pc \in Parting \/ DestroyDisconnect(t)
    BY <1>5, <2>2 DEF Goes, Shape, ThreadOK, Doing
  <2> QED
    BY <1>2, <2>1, <2>2
<1> QED
  BY <1>3, <1>4, <1>6 DEF Proceeds

LEMMA StepKinds ==
  ASSUME Shape, BuildInv, OperationsSeen, [Next]_vars
  PROVE  StepKind
<1>1. ASSUME NEW t \in Io, AcceptEmplace(t)
      PROVE  StepKind
  BY <1>1, ProceedSteps DEF StepKind
<1>2. CASE SeenSame
  <2>1. ASSUME NEW c \in Client, AcceptCompletes(c) \/ ReadCompletes(c) \/ WriteCompletes(c)
        PROVE  StepKind
    BY <1>2, <2>1, ArriveSteps DEF StepKind
  <2>2. CASE AcceptFails
    BY <1>2, <2>2, ArriveSteps DEF StepKind
  <2>3. ASSUME NEW t \in Io,
               AcceptStarts(t) \/ ReadStarts(t) \/ WriteStarts(t) \/ DestroyStarts(t)
        PROVE  StepKind
    BY <1>2, <2>3, TakeSteps DEF StepKind
  <2>4. ASSUME NEW t \in Io,
               \/ AcceptEmplace(t) \/ AcceptConnectErase(t) \/ AcceptConnectOutput(t) \/ AcceptKeep(t)
               \/ AcceptRearm(t) \/ ReadEmits(t) \/ DestroyDisconnect(t)
               \/ DestroyShutdown(t) \/ DestroySignal(t) \/ EraseClient(t) \/ IoThreadEnds(t)
        PROVE  StepKind
    BY <1>2, <2>4, ProceedSteps DEF StepKind
  <2>5. ASSUME \/ \E c \in Client : PeerConnects(c) \/ PeerEnds(c) \/ EmitPicks(c) \/ StopClient(c)
               \/ EmitCalls \/ IoStop \/ StopBegins \/ StopLocks \/ StopEnds \/ UNCHANGED vars
        PROVE  UNCHANGED <<ready, thread>>
    BY <2>5 DEF PeerConnects, PeerEnds, EmitPicks, StopClient, EmitCalls, IoStop, StopBegins,
                StopLocks, StopEnds, vars, asio
  <2> QED
    BY <1>2, <2>1, <2>2, <2>3, <2>4, <2>5 DEF Next, StepKind
<1> QED
  BY <1>1, <1>2, SeenSteps DEF SeenSame

\* What is queued or in hand is about clients that are there.
LEMMA SeenStep ==
  ASSUME Shape, BuildInv, OperationsSeen, SlotsOK, [Next]_vars
  PROVE  OperationsSeen' /\ SlotsOK'
<1> DEFINE Q == \A i \in DOMAIN ready' : ready'[i].kind \in Kinds \ AcceptKinds => stage'[ready'[i].c] # "none"
           T == \A t \in Io : thread'[t].pc \in AtWork => stage'[thread'[t].c] # "none"
<1>a. \A c \in Client : Seen(c) => Seen(c)'
  BY SeenStays
<1>b. /\ \A i \in DOMAIN ready : ready[i].kind \in Kinds \ AcceptKinds => ready[i].c \in Client
      /\ \A t \in Io : thread[t].pc \in AtWork => thread[t].c \in Client
  <2>1. \A i \in DOMAIN ready : ready[i] \in EventSet
    BY ElementIs DEF Shape, ReadyOK
  <2>2. \A t \in Io : thread[t] \in Doing
    BY DEF Shape, ThreadOK
  <2> QED
    BY <2>1, <2>2 DEF EventSet, AcceptKinds, Doing, NoClient, AtWork
<1>1. Q
  <2>1. CASE UNCHANGED ready
    BY <1>a, <1>b, <2>1 DEF OperationsSeen, Seen
  <2>2. ASSUME NEW e \in EventSet, Arrives(e)
        PROVE  Q
    <3>1. ASSUME NEW i \in DOMAIN ready', ready'[i].kind \in Kinds \ AcceptKinds
          PROVE  \/ i \in DOMAIN ready /\ ready'[i] = ready[i]
                 \/ ready'[i] = e
      BY <2>2, <3>1, AppendIndex DEF Arrives, Shape, ReadyOK
    <3> QED
      BY <1>a, <1>b, <2>2, <3>1 DEF Arrives, OperationsSeen, Seen
  <2>3. ASSUME NEW t \in Io, NEW d \in Doing, Takes(t, d)
        PROVE  Q
    <3>1. ASSUME NEW i \in DOMAIN ready'
          PROVE  i + 1 \in DOMAIN ready /\ ready'[i] = ready[i + 1]
      BY <2>3, <3>1, TailIndex DEF Takes, Shape, ReadyOK
    <3> QED
      BY <1>a, <1>b, <3>1 DEF OperationsSeen, Seen
  <2> QED
    BY <2>1, <2>2, <2>3, StepKinds DEF StepKind, Proceeds
<1>2. T
  <2>1. CASE UNCHANGED thread
    BY <1>a, <1>b, <2>1 DEF OperationsSeen, Seen, AtWork
  <2>2. ASSUME NEW t \in Io, NEW d \in Doing, Takes(t, d) \/ Proceeds(t, d)
        PROVE  T
    <3>1. thread' = [thread EXCEPT ![t] = d] /\ (d.pc \in AtWork => d.c \in Client /\ Seen(d.c))
      BY <1>b, <2>2 DEF Takes, Proceeds, OperationsSeen, AtWork
    <3> QED
      BY <1>a, <1>b, <3>1 DEF OperationsSeen, Seen, AtWork, Shape, ThreadOK
  <2> QED
    BY <2>1, <2>2, StepKinds DEF StepKind, Arrives
<1> QED
  BY <1>1, <1>2, WorkSteps DEF OperationsSeen, AtWork, Seen

\* A client that has just been accepted is on its way to being made, once.
LEMMA ComesStep ==
  ASSUME Shape, BuildInv, OperationsSeen, ComesOnce, [Next]_vars
  PROVE  ComesOnce'
<1>a. \A i \in DOMAIN ready : Comes(i) => ready[i].c \in Client
  <2>1. \A i \in DOMAIN ready : ready[i] \in EventSet
    BY ElementIs DEF Shape, ReadyOK
  <2> QED
    BY <2>1 DEF EventSet, Comes
<1>b. \A t \in Io : thread[t] \in Doing /\ (Makes(t) => thread[t].c \in Client)
  BY DEF Shape, ThreadOK, Doing, NoClient, Makes
<1>1. CASE UNCHANGED <<ready, thread>> /\ SeenSame
  BY <1>1, <1>a, <1>b DEF ComesOnce, SeenSame, Seen, Comes, Makes
<1>2. ASSUME NEW e \in EventSet, Arrives(e)
      PROVE  ComesOnce'
  <2>1. ASSUME NEW i \in DOMAIN ready', ready'[i].kind = "accept"
        PROVE  \/ i \in DOMAIN ready /\ Comes(i) /\ ready'[i] = ready[i]
               \/ i = Len(ready) + 1 /\ ready'[i] = e /\ e.kind = "accept"
    BY <1>2, <2>1, AppendIndex DEF Arrives, Shape, ReadyOK, Comes
  <2>2. e.kind = "accept" => e.c \in Client
    BY DEF EventSet
  <2>3. \A t \in Io : Makes(t)' = Makes(t)
    BY <1>2 DEF Arrives, Makes
  <2> QED
    BY <1>2, <1>a, <1>b, <2>1, <2>2, <2>3 DEF Arrives, ComesOnce, SeenSame, Seen, Comes
<1>3. ASSUME NEW t \in Io, NEW d \in Doing, Takes(t, d)
      PROVE  ComesOnce'
  <2>1. ASSUME NEW i \in DOMAIN ready'
        PROVE  /\ i + 1 \in DOMAIN ready /\ i + 1 # 1 /\ ready'[i] = ready[i + 1]
               /\ ready'[i].kind = "accept" => Comes(i + 1)
    BY <1>3, <2>1, TailIndex DEF Takes, Shape, ReadyOK, Comes
  <2>2. 1 \in DOMAIN ready /\ ready[1] = Head(ready)
    BY <1>3, HeadTail DEF Takes, Shape, ReadyOK
  <2>3. \A u \in Io : u # t => thread'[u] = thread[u]
    BY <1>3 DEF Takes, Shape, ThreadOK
  <2>4. thread'[t] = d /\ (d.pc = "emplace" => Comes(1) /\ d.c = ready[1].c)
    BY <1>3, <2>2 DEF Takes, Shape, ThreadOK, Comes
  <2>6. /\ \A i \in DOMAIN ready' : Comes(i)' => ~Seen(ready[i + 1].c) /\ ready[i + 1].c \in Client
        /\ \A i, j \in DOMAIN ready' : Comes(i)' /\ Comes(j)' /\ i # j => ready'[i].c # ready'[j].c
        /\ \A i \in DOMAIN ready' : Comes(i)' /\ d.pc = "emplace" => ready'[i].c # d.c
        /\ \A i \in DOMAIN ready' : \A u \in Io : Comes(i)' /\ Makes(u) => ready'[i].c # thread[u].c
    <3>1. \A i, j \in DOMAIN ready' : i # j => i + 1 # j + 1
      BY <1>3, TailIndex DEF Takes, Shape, ReadyOK
    <3> QED
      BY <1>a, <2>1, <2>2, <2>4, <3>1 DEF ComesOnce, Comes
  <2>7. SeenSame
    BY <1>3 DEF Takes
  <2>8. \A i \in DOMAIN ready' : Comes(i)' => ~Seen(ready[i].c)'
    BY <2>1, <2>6, <2>7 DEF SeenSame, Seen
  <2>9. \A u \in Io : Makes(u)' => ~Seen(thread[u].c)'
    BY <1>a, <1>b, <2>2, <2>3, <2>4, <2>7 DEF ComesOnce, SeenSame, Seen, Makes
  <2>10. \A u, v \in Io : Makes(u)' /\ Makes(v)' /\ u # v => thread'[u].c # thread'[v].c
    BY <2>2, <2>3, <2>4 DEF ComesOnce, Makes
  <2>11. \A u \in Io : \A i \in DOMAIN ready' : Makes(u)' /\ Comes(i)' => ready'[i].c # thread'[u].c
    BY <2>3, <2>4, <2>6 DEF Makes
  <2> QED
    BY <2>6, <2>8, <2>9, <2>10, <2>11 DEF ComesOnce
<1>4. ASSUME NEW t \in Io, NEW d \in Doing, Proceeds(t, d)
      PROVE  ComesOnce'
  <2>1. /\ \A u \in Io : u # t => thread'[u] = thread[u]
        /\ thread'[t] = d /\ ~Makes(t)' /\ UNCHANGED ready
    BY <1>4 DEF Proceeds, Shape, ThreadOK, Makes
  <2>2. \/ SeenSame
        \/ Makes(t) /\ \A c \in Client : Seen(c)' = (Seen(c) \/ c = thread[t].c)
    BY <1>4 DEF Proceeds, Makes
  <2>3. \A u \in Io : Makes(u)' => Makes(u) /\ u # t /\ thread'[u] = thread[u]
    BY <2>1 DEF Makes
  <2>4. \A i \in DOMAIN ready : Comes(i)' = Comes(i)
    BY <2>1 DEF Comes
  <2>5. \A i \in DOMAIN ready : Comes(i) => ~Seen(ready[i].c)'
    BY <1>a, <2>1, <2>2 DEF ComesOnce, SeenSame, Seen
  <2>6. \A u \in Io : Makes(u)' => ~Seen(thread[u].c)'
    BY <1>b, <2>2, <2>3 DEF ComesOnce, SeenSame, Seen
  <2> QED
    BY <2>1, <2>3, <2>4, <2>5, <2>6 DEF ComesOnce
<1> QED
  BY <1>1, <1>2, <1>3, <1>4, StepKinds DEF StepKind

ServerInv == Shape /\ BuildInv /\ OperationsSeen /\ SlotsOK /\ ComesOnce

\* What is dropped stays so: only a client that is being built gets a connection.
LEMMA DroppedStays ==
  ASSUME ServerInv, [Next]_vars, NEW c \in Client, Dropped(c)
  PROVE  Dropped(c)'
<1> USE DEF ServerInv
<1>0. c \in early \/ (c \notin slots /\ stage[c] \in {"kept", "erased"})
  BY DEF Dropped
<1>a. stage \in [Client -> Stages]
  BY DEF BuildInv, StagesOK
<1>b. \A t \in Io : Builds(t) => thread[t].c \in Client /\ Unfinished(thread[t].c)
  BY DEF BuildInv, BuiltAsFar, Builds, Unfinished, Shape, ThreadOK, Doing, NoClient
<1>1. CASE UNCHANGED <<stage, early>> /\ slots' \subseteq slots
  BY <1>0, <1>1 DEF Dropped
<1>2. ASSUME NEW d \in Client, StopClient(d)
      PROVE  Dropped(c)'
  <2>1. /\ UNCHANGED early /\ slots' \subseteq slots
        /\ UNCHANGED stage \/ stage' = [stage EXCEPT ![d] = "erased"]
    BY <1>2 DEF StopClient, history
  <2> QED
    BY <1>0, <1>a, <2>1 DEF Dropped
<1>3. ASSUME NEW t \in Io, AcceptEmplace(t)
      PROVE  Dropped(c)'
  <2>1. PICK e \in Client : e = thread[t].c /\ stage[e] = "none"
    BY <1>3 DEF AcceptEmplace, At, ComesOnce, Makes, Seen, Shape, ThreadOK, Doing, NoClient
  <2>2. UNCHANGED <<early, slots>> /\ stage' = [stage EXCEPT ![e] = "created"]
    BY <1>3, <2>1 DEF AcceptEmplace, history
  <2> QED
    BY <1>0, <1>a, <2>1, <2>2 DEF Dropped
<1>4. ASSUME NEW t \in Io, AcceptConnectErase(t) \/ AcceptConnectOutput(t) \/ AcceptKeep(t)
      PROVE  Dropped(c)'
  <2>1. PICK e \in Client : e = thread[t].c /\ Unfinished(e)
    BY <1>4, <1>b DEF AcceptConnectErase, AcceptConnectOutput, AcceptKeep, At, Builds
  <2>2. UNCHANGED early /\ slots' \subseteq slots \cup {e}
        /\ \A d \in Client : d # e => stage'[d] = stage[d]
    BY <1>4, <1>a, <2>1 DEF AcceptConnectErase, AcceptConnectOutput, AcceptKeep, history
  <2> QED
    BY <1>0, <1>a, <2>1, <2>2 DEF Dropped, Unfinished
<1>5. ASSUME NEW t \in Io, EraseClient(t)
      PROVE  Dropped(c)'
  <2>1. UNCHANGED <<early, slots>> /\ stage' = [stage EXCEPT ![thread[t].c] = "erased"]
    BY <1>5 DEF EraseClient, history
  <2> QED
    BY <1>0, <1>a, <2>1 DEF Dropped
<1>6. ASSUME NEW t \in Io, DestroyDisconnect(t)
      PROVE  Dropped(c)'
  <2>1. UNCHANGED stage /\ early \subseteq early' /\ slots' \subseteq slots
    BY <1>6 DEF DestroyDisconnect, Disconnected
  <2> QED
    BY <1>0, <2>1 DEF Dropped
<1>7. ASSUME NEW t \in Io,
             \/ AcceptStarts(t) \/ ReadStarts(t) \/ WriteStarts(t) \/ DestroyStarts(t)
             \/ AcceptRearm(t) \/ ReadEmits(t) \/ DestroyShutdown(t) \/ DestroySignal(t) \/ IoThreadEnds(t)
      PROVE  UNCHANGED <<stage, early, slots>>
  BY <1>7 DEF AcceptStarts, ReadStarts, WriteStarts, DestroyStarts, AcceptRearm, ReadEmits,
              DestroyShutdown, DestroySignal, IoThreadEnds, object, history
<1>8. ASSUME \/ \E d \in Client : \/ PeerConnects(d) \/ PeerEnds(d) \/ AcceptCompletes(d)
                                  \/ ReadCompletes(d) \/ WriteCompletes(d) \/ EmitPicks(d)
             \/ AcceptFails \/ EmitCalls \/ IoStop \/ StopBegins \/ StopLocks \/ StopEnds
             \/ UNCHANGED vars
      PROVE  UNCHANGED <<stage, early>> /\ slots' \subseteq slots
  BY <1>8 DEF PeerConnects, PeerEnds, AcceptCompletes, ReadCompletes, WriteCompletes, EmitPicks,
              AcceptFails, EmitCalls, IoStop, StopBegins, StopLocks, StopEnds, vars, object, history
<1> QED
  BY <1>1, <1>2, <1>3, <1>4, <1>5, <1>6, <1>7, <1>8 DEF Next

\* A thread on its way to destroy a client has dropped its connection first, and
\* whoever erases one does so after that.
LEMMA DroppedStep ==
  ASSUME ServerInv, DroppedFirst, [Next]_vars
  PROVE  DroppedFirst'
<1> USE DEF ServerInv
<1>a. ASSUME NEW t \in Io, DestroyDisconnect(t), thread'[t].pc \in Parting, NEW c \in Client, c = thread[t].c
      PROVE  Dropped(c)'
  <2>1. \/ stage[c] = "kept" /\ slots' = slots \ {c}
        \/ c \in early'
    BY <1>a DEF DestroyDisconnect, Disconnected, Rests, Idle, Parting, Shape, ThreadOK
  <2> QED
    BY <1>a, <2>1 DEF DestroyDisconnect, Dropped
<1>b. ASSUME NEW t \in Io, thread[t].pc \in Parting
      PROVE  thread[t].c \in Client /\ Dropped(thread[t].c)
  BY <1>b DEF DroppedFirst, Parting, Shape, ThreadOK, Doing, NoClient
<1>1. ASSUME NEW t \in Io, thread'[t].pc \in Parting, NEW c, c = thread'[t].c
      PROVE  Dropped(c)'
  <2>1. CASE thread'[t] = thread[t]
    BY <1>1, <1>b, <2>1, DroppedStays
  <2>2. ASSUME NEW u \in Io, NEW d \in Doing, Takes(u, d)
        PROVE  thread'[t] = thread[t]
    BY <1>1, <2>2 DEF Takes, Shape, ThreadOK
  <2>3. ASSUME NEW u \in Io, NEW d \in Doing, Proceeds(u, d), thread'[t] # thread[t]
        PROVE  /\ c = thread[t].c /\ c \in Client
               /\ thread[t].pc \in Parting \/ DestroyDisconnect(t)
    <3>1. u = t /\ d = thread'[t]
      BY <2>3 DEF Proceeds, Shape, ThreadOK
    <3>2. thread[t].pc \in AtWork /\ c = thread[t].c
      BY <1>1, <2>3, <3>1 DEF Proceeds, AtWork, Parting
    <3> QED
      BY <1>1, <2>3, <3>1, <3>2 DEF Proceeds, AtWork, Shape, ThreadOK, Doing, NoClient
  <2> QED
    BY <1>1, <1>a, <1>b, <2>1, <2>2, <2>3, DroppedStays, StepKinds DEF StepKind, Arrives
<1>2. ASSUME NEW c \in Client, stage'[c] = "erased"
      PROVE  Dropped(c)'
  <2>a. stage \in [Client -> Stages]
    BY DEF BuildInv, StagesOK
  <2>1. CASE stage[c] = "erased"
    BY <2>1, DroppedStays DEF DroppedFirst
  <2>2. ASSUME NEW t \in Io, EraseClient(t), stage[c] # "erased"
        PROVE  Dropped(c)
    BY <1>2, <1>b, <2>a, <2>2 DEF EraseClient, At, Parting
  <2>3. ASSUME NEW d \in Client, StopClient(d), stage[c] # "erased"
        PROVE  Dropped(c)'
    <3>1. d = c /\ Known(c)
      BY <1>2, <2>a, <2>3 DEF StopClient
    <3>2. ~Unfinished(c)
      BY <2>3, ServerAssumption DEF StopClient, BuildInv, BuildLocked, BuiltAsFar, ServerAssumption
    <3>3. stage[c] = "kept"
      BY <2>a, <3>1, <3>2 DEF Known, Unfinished, Stages
    <3> QED
      BY <1>2, <2>3, <3>1, <3>3 DEF StopClient, Dropped
  <2>4. ASSUME NEW t \in Io,
               \/ AcceptEmplace(t) \/ AcceptConnectErase(t) \/ AcceptConnectOutput(t) \/ AcceptKeep(t)
        PROVE  stage[c] = "erased"
    BY <1>2, <2>a, <2>4 DEF AcceptEmplace, AcceptConnectErase, AcceptConnectOutput, AcceptKeep
  <2>5. Aside \/ StopBegins \/ StopLocks \/ StopEnds => UNCHANGED stage
    BY DEF Aside, StopBegins, StopLocks, StopEnds, object
  <2> QED
    BY <1>2, <2>1, <2>2, <2>3, <2>4, <2>5, AsideSteps, DroppedStays DEF Next
<1> QED
  BY <1>1, <1>2 DEF DroppedFirst, Parting

\* A call through a slot that is still connected is one of EmitCalls.
LEMMA SlotCalls ==
  ASSUME [Next]_vars, NEW m \in misuse', m \notin misuse, m.how = "slot"
  PROVE  EmitCalls /\ m.client = sender /\ stage[sender] = "erased" /\ sender \in slots
<1>1. CASE EmitCalls
  BY <1>1 DEF EmitCalls, Misused
<1>2. ASSUME NEW t \in Io,
             \/ ReadStarts(t) \/ WriteStarts(t) \/ DestroyStarts(t) \/ ReadEmits(t)
             \/ DestroyDisconnect(t) \/ DestroyShutdown(t) \/ DestroySignal(t)
      PROVE  FALSE
  <2>1. UNCHANGED misuse \/ \E c : \/ Misused(c, "handler", t) \/ Misused(c, "emit", t)
                                   \/ Misused(c, "destroy", t)
    <3>1. CASE ReadStarts(t) \/ WriteStarts(t) \/ DestroyStarts(t)
      BY <3>1 DEF ReadStarts, WriteStarts, DestroyStarts
    <3>2. CASE ReadEmits(t) \/ DestroyDisconnect(t)
      BY <3>2 DEF ReadEmits, DestroyDisconnect
    <3>3. CASE DestroyShutdown(t)
      BY <3>3 DEF DestroyShutdown
    <3>4. CASE DestroySignal(t)
      BY <3>4 DEF DestroySignal
    <3> QED
      BY <1>2, <3>1, <3>2, <3>3, <3>4
  <2> QED
    BY <2>1 DEF Misused
<1>3. ASSUME \/ \E t \in Io : \/ AcceptStarts(t) \/ AcceptEmplace(t) \/ AcceptConnectErase(t)
                              \/ AcceptConnectOutput(t) \/ AcceptKeep(t) \/ AcceptRearm(t)
                              \/ EraseClient(t) \/ IoThreadEnds(t)
             \/ \E c \in Client : \/ PeerConnects(c) \/ PeerEnds(c) \/ AcceptCompletes(c)
                                  \/ ReadCompletes(c) \/ WriteCompletes(c) \/ EmitPicks(c) \/ StopClient(c)
             \/ AcceptFails \/ IoStop \/ StopBegins \/ StopLocks \/ StopEnds \/ UNCHANGED vars
      PROVE  UNCHANGED misuse
  BY <1>3 DEF AcceptStarts, AcceptEmplace, AcceptConnectErase, AcceptConnectOutput, AcceptKeep,
              AcceptRearm, EraseClient, IoThreadEnds, PeerConnects, PeerEnds, AcceptCompletes,
              ReadCompletes, WriteCompletes, EmitPicks, StopClient, AcceptFails, IoStop, StopBegins,
              StopLocks, StopEnds, vars, history
<1> QED
  BY <1>1, <1>2, <1>3 DEF Next

LEMMA EarlyStays ==
  ASSUME ServerInv, [Next]_vars
  PROVE  early \subseteq early'
<1>1. ASSUME NEW c \in early
      PROVE  c \in early'
  <2>1. CASE \E t \in Io : DestroyDisconnect(t)
    BY <1>1, <2>1 DEF DestroyDisconnect
  <2>2. CASE UNCHANGED early
    BY <1>1, <2>2
  <2> QED
    BY <2>1, <2>2 DEF Next, AcceptStarts, AcceptEmplace, AcceptConnectErase, AcceptConnectOutput,
         AcceptKeep, AcceptRearm, EraseClient, IoThreadEnds, PeerConnects, PeerEnds, AcceptCompletes,
         ReadCompletes, WriteCompletes, EmitPicks, StopClient, AcceptFails, IoStop, StopBegins,
         StopLocks, StopEnds, vars, history, ReadStarts, WriteStarts, DestroyStarts, ReadEmits,
         DestroyShutdown, DestroySignal, EmitCalls
<1> QED
  BY <1>1

\* The output signal reaches a destroyed client only through the slot of one whose read
\* failed before m_outMsgConn was assigned (AcceptHandler against DestroyMe).
THEOREM StaleOnlyIfEarly == Spec => []StaleSlotOnlyIfEarly
<1> DEFINE Inv == ServerInv /\ DroppedFirst /\ StaleSlotOnlyIfEarly
<1>1. Init => Inv
  <2>1. ASSUME Init
        PROVE  OperationsSeen /\ SlotsOK /\ ComesOnce /\ DroppedFirst /\ StaleSlotOnlyIfEarly
    BY <2>1 DEF Init, Idle, OperationsSeen, SlotsOK, ComesOnce, DroppedFirst, StaleSlotOnlyIfEarly,
                Comes, Makes
  <2> QED
    BY <2>1, InitBuilds DEF ServerInv
<1>2. Inv /\ [Next]_vars => Inv'
  <2> SUFFICES ASSUME Inv, [Next]_vars
               PROVE  Inv'
    OBVIOUS
  <2>1. ServerInv'
    BY NextEffect, ShapeStep, BuildStep, SeenStep, ComesStep DEF ServerInv
  <2>2. DroppedFirst'
    BY DroppedStep
  <2>3. ASSUME NEW m \in misuse', m.how = "slot"
        PROVE  m.client \in early'
    <3>1. CASE m \in misuse
      BY <2>3, <3>1, EarlyStays DEF StaleSlotOnlyIfEarly
    <3>2. CASE m \notin misuse
      <4>1. /\ m.client = sender /\ stage[sender] = "erased" /\ sender \in slots
        BY <2>3, <3>2, SlotCalls
      <4>2. sender \in early
        BY <4>1 DEF ServerInv, SlotsOK, DroppedFirst, Dropped
      <4> QED
        BY <4>1, <4>2, EarlyStays
    <3> QED
      BY <3>1, <3>2
  <2> QED
    BY <2>1, <2>2, <2>3 DEF StaleSlotOnlyIfEarly
<1>3. Inv => StaleSlotOnlyIfEarly
  OBVIOUS
<1> QED
  BY <1>1, <1>2, <1>3, PTL DEF Spec
-----------------------------------------------------------------------------
(* The types *)

RestTypes == PeerTypes /\ OperationTypes /\ LifeTypes /\ NoteTypes

\* The actions by what they leave alone.
KernelActs(c) == AcceptCompletes(c) \/ ReadCompletes(c) \/ WriteCompletes(c)
BuildActs(t) == AcceptConnectErase(t) \/ AcceptConnectOutput(t) \/ AcceptKeep(t) \/ AcceptRearm(t) \/ AcceptStarts(t)
EndActs(t) == DestroyStarts(t) \/ DestroyDisconnect(t) \/ DestroySignal(t) \/ EraseClient(t) \/ ReadEmits(t) \/ IoThreadEnds(t)

LEMMA PeerTypesStep ==
  ASSUME Shape, PeerTypes, [Next]_vars
  PROVE  PeerTypes'
<1> USE DEF PeerTypes
<1>1. ASSUME NEW c \in Client, PeerConnects(c) \/ PeerEnds(c)
      PROVE  PeerTypes'
  BY <1>1 DEF PeerConnects, PeerEnds, object
<1>2. ASSUME NEW c \in Client, StopClient(c)
      PROVE  PeerTypes'
  BY <1>2 DEF StopClient
<1>3. ASSUME NEW t \in Io, DestroyShutdown(t)
      PROVE  PeerTypes'
  BY <1>3 DEF DestroyShutdown
<1>4. ASSUME NEW c \in Client, KernelActs(c) \/ EmitPicks(c)
      PROVE  PeerTypes'
  BY <1>4 DEF KernelActs, AcceptCompletes, ReadCompletes, WriteCompletes, EmitPicks, object
<1>5. ASSUME NEW t \in Io, BuildActs(t) \/ EndActs(t)
      PROVE  PeerTypes'
  BY <1>5 DEF BuildActs, EndActs, AcceptConnectErase, AcceptConnectOutput, AcceptKeep, AcceptRearm,
              AcceptStarts, DestroyStarts, DestroyDisconnect, DestroySignal, EraseClient, ReadEmits,
              IoThreadEnds, object
<1>6. ASSUME NEW t \in Io, AcceptEmplace(t) \/ ReadStarts(t) \/ WriteStarts(t)
      PROVE  PeerTypes'
  BY <1>6 DEF AcceptEmplace, ReadStarts, WriteStarts, object
<1>7. CASE AcceptFails \/ EmitCalls \/ IoStop \/ StopBegins \/ StopLocks \/ StopEnds \/ UNCHANGED vars
  BY <1>7 DEF AcceptFails, EmitCalls, IoStop, StopBegins, StopLocks, StopEnds, vars, object
<1> QED
  BY <1>1, <1>2, <1>3, <1>4, <1>5, <1>6, <1>7 DEF Next, KernelActs, BuildActs, EndActs

LEMMA OperationTypesStep ==
  ASSUME Shape, OperationTypes, [Next]_vars
  PROVE  OperationTypes'
<1> USE DEF OperationTypes
<1>1. ASSUME NEW c \in Client, ReadCompletes(c) \/ WriteCompletes(c)
      PROVE  OperationTypes'
  BY <1>1 DEF ReadCompletes, WriteCompletes
<1>2. ASSUME NEW t \in Io, AcceptEmplace(t) \/ ReadStarts(t)
      PROVE  OperationTypes'
  BY <1>2 DEF AcceptEmplace, ReadStarts
<1>3. ASSUME NEW t \in Io, WriteStarts(t)
      PROVE  OperationTypes'
  <2>1. \/ UNCHANGED writing
        \/ \E more \in BOOLEAN : writing' = [writing EXCEPT ![Head(ready).c] = more]
    BY <1>3 DEF WriteStarts
  <2> QED
    BY <1>3, <2>1 DEF WriteStarts
<1>4. CASE EmitCalls
  <2>1. \/ UNCHANGED writing
        \/ writing' = [writing EXCEPT ![sender] = TRUE]
        \/ writing' = [writing EXCEPT ![sender] = FALSE]
    <3>1. \A c \in Client : writing[c] \in BOOLEAN
      OBVIOUS
    <3>2. CASE writing[sender] \/ ~Queued({"write", "writeError"}, sender)
      BY <1>4, <3>2 DEF EmitCalls
    <3>3. CASE ~(writing[sender] \/ ~Queued({"write", "writeError"}, sender))
      BY <1>4, <3>3 DEF EmitCalls
    <3> QED
      BY <3>2, <3>3
  <2> QED
    BY <1>4, <2>1 DEF EmitCalls
<1>5. ASSUME NEW c \in Client,
             \/ PeerConnects(c) \/ PeerEnds(c) \/ AcceptCompletes(c) \/ EmitPicks(c) \/ StopClient(c)
      PROVE  OperationTypes'
  BY <1>5 DEF PeerConnects, PeerEnds, AcceptCompletes, EmitPicks, StopClient, asio
<1>6. ASSUME NEW t \in Io, BuildActs(t) \/ EndActs(t) \/ DestroyShutdown(t)
      PROVE  OperationTypes'
  BY <1>6 DEF BuildActs, EndActs, AcceptConnectErase, AcceptConnectOutput, AcceptKeep, AcceptRearm,
              AcceptStarts, DestroyStarts, DestroyDisconnect, DestroySignal, EraseClient, ReadEmits,
              IoThreadEnds, DestroyShutdown, asio
<1>7. CASE AcceptFails \/ IoStop \/ StopBegins \/ StopLocks \/ StopEnds \/ UNCHANGED vars
  BY <1>7 DEF AcceptFails, IoStop, StopBegins, StopLocks, StopEnds, vars, asio
<1> QED
  BY <1>1, <1>2, <1>3, <1>4, <1>5, <1>6, <1>7 DEF Next, BuildActs, EndActs

LEMMA LifeTypesStep ==
  ASSUME LifeTypes, [Next]_vars
  PROVE  LifeTypes'
<1> USE DEF LifeTypes
<1>1. ASSUME NEW c \in Client,
             PeerConnects(c) \/ PeerEnds(c) \/ KernelActs(c) \/ EmitPicks(c) \/ StopClient(c)
      PROVE  LifeTypes'
  BY <1>1 DEF KernelActs, PeerConnects, PeerEnds, AcceptCompletes, ReadCompletes, WriteCompletes,
              EmitPicks, StopClient, server
<1>2. ASSUME NEW t \in Io, BuildActs(t) \/ AcceptEmplace(t)
      PROVE  LifeTypes'
  BY <1>2 DEF BuildActs, AcceptEmplace, AcceptConnectErase, AcceptConnectOutput, AcceptKeep, AcceptRearm,
              AcceptStarts, server
<1>3. ASSUME NEW t \in Io, EndActs(t) \/ DestroyShutdown(t) \/ ReadStarts(t) \/ WriteStarts(t)
      PROVE  LifeTypes'
  BY <1>3 DEF EndActs, DestroyStarts, DestroyDisconnect, DestroySignal, EraseClient, ReadEmits,
              IoThreadEnds, DestroyShutdown, ReadStarts, WriteStarts, server
<1>4. CASE AcceptFails \/ EmitCalls \/ IoStop \/ StopBegins \/ StopLocks \/ StopEnds \/ UNCHANGED vars
  BY <1>4 DEF AcceptFails, EmitCalls, IoStop, StopBegins, StopLocks, StopEnds, vars, server
<1> QED
  BY <1>1, <1>2, <1>3, <1>4 DEF Next, KernelActs, BuildActs, EndActs

LEMMA NoteTypesStep ==
  ASSUME ServerInv, NoteTypes, [Next]_vars
  PROVE  NoteTypes'
<1> USE DEF NoteTypes
<1>a. early' \subseteq Client /\ sender \in Client \cup {"none"}
  BY WorkSteps DEF ServerInv, SlotsOK, OperationsSeen
<1>0. load.chunks \in Nat
  BY ServerAssumption DEF ServerAssumption
<1>1. ASSUME NEW c \in Client, ReadCompletes(c)
      PROVE  NoteTypes'
  <2>1. UNCHANGED <<load, wrote, destroyer>>
    BY <1>1 DEF ReadCompletes
  <2>2. UNCHANGED chunks \/ (chunks[c] < load.chunks /\ chunks' = [chunks EXCEPT ![c] = chunks[c] + 1])
    BY <1>1 DEF ReadCompletes
  <2>3. chunks[c] < load.chunks => chunks[c] + 1 \in 0 .. load.chunks
    BY <1>0
  <2> QED
    BY <1>a, <2>1, <2>2, <2>3
<1>2. CASE EmitCalls
  BY <1>a, <1>2 DEF EmitCalls
<1>3. ASSUME NEW c \in Client,
             \/ PeerConnects(c) \/ PeerEnds(c) \/ AcceptCompletes(c) \/ WriteCompletes(c)
             \/ EmitPicks(c) \/ StopClient(c)
      PROVE  NoteTypes'
  BY <1>a, <1>3 DEF PeerConnects, PeerEnds, AcceptCompletes, WriteCompletes, EmitPicks, StopClient, history
<1>4. ASSUME NEW t \in Io, BuildActs(t) \/ AcceptEmplace(t)
      PROVE  NoteTypes'
  BY <1>a, <1>4 DEF BuildActs, AcceptEmplace, AcceptConnectErase, AcceptConnectOutput, AcceptKeep, AcceptRearm,
              AcceptStarts, history
<1>5. ASSUME NEW t \in Io, EndActs(t) \/ DestroyShutdown(t) \/ ReadStarts(t) \/ WriteStarts(t)
      PROVE  NoteTypes'
  BY <1>a, <1>5 DEF EndActs, DestroyStarts, DestroyDisconnect, DestroySignal, EraseClient, ReadEmits,
              IoThreadEnds, DestroyShutdown, ReadStarts, WriteStarts, history
<1>6. CASE AcceptFails \/ IoStop \/ StopBegins \/ StopLocks \/ StopEnds \/ UNCHANGED vars
  BY <1>a, <1>6 DEF AcceptFails, IoStop, StopBegins, StopLocks, StopEnds, vars, history
<1> QED
  BY <1>1, <1>2, <1>3, <1>4, <1>5, <1>6 DEF Next, BuildActs, EndActs

FullInv == ServerInv /\ DroppedFirst /\ RestTypes

LEMMA FullInit == Init => FullInv
<1> SUFFICES ASSUME Init
             PROVE  FullInv
  OBVIOUS
<1>1. OperationsSeen /\ SlotsOK /\ ComesOnce /\ DroppedFirst
  BY DEF Init, Idle, OperationsSeen, SlotsOK, ComesOnce, DroppedFirst, Comes, Makes
<1>2. PeerTypes /\ OperationTypes /\ LifeTypes
  BY DEF Init, PeerTypes, OperationTypes, LifeTypes
<1>3. NoteTypes
  BY ServerAssumption DEF Init, NoteTypes, ServerAssumption
<1> QED
  BY <1>1, <1>2, <1>3, InitBuilds DEF ServerInv, FullInv, RestTypes

LEMMA FullStep == FullInv /\ [Next]_vars => FullInv'
<1> SUFFICES ASSUME FullInv, [Next]_vars
             PROVE  FullInv'
  OBVIOUS
<1>0. ServerInv /\ DroppedFirst /\ PeerTypes /\ OperationTypes /\ LifeTypes /\ NoteTypes
  BY DEF FullInv, RestTypes
<1>1. ServerInv'
  BY <1>0, NextEffect, ShapeStep, BuildStep, SeenStep, ComesStep DEF ServerInv
<1>2. DroppedFirst'
  BY <1>0, DroppedStep
<1>3. PeerTypes' /\ OperationTypes' /\ LifeTypes' /\ NoteTypes'
  BY <1>0, PeerTypesStep, OperationTypesStep, LifeTypesStep, NoteTypesStep DEF ServerInv
<1> QED
  BY <1>1, <1>2, <1>3 DEF FullInv, RestTypes

LEMMA FullIsTyped == FullInv => TypeOK
<1> SUFFICES ASSUME FullInv
             PROVE  TypeOK
  OBVIOUS
<1>0. ServerInv /\ PeerTypes /\ OperationTypes /\ LifeTypes /\ NoteTypes
  BY DEF FullInv, RestTypes
<1>1. ThreadTypes
  BY <1>0 DEF ServerInv, Shape, ThreadOK, Doing, NoClient, ThreadTypes
<1>2. ObjectTypes
  BY <1>0 DEF ServerInv, Shape, AcceptorOK, BuildInv, StagesOK, Stages, SlotsOK, OperationsSeen, ObjectTypes
<1> QED
  BY <1>0, <1>1, <1>2 DEF TypeOK
-----------------------------------------------------------------------------
(* Who notices the end of a client. *)

ReadKinds == {"read", "readError"}
WriteKinds == {"write", "writeError"}
NoneIn(q, c, K) == \A i \in DOMAIN q : ~(q[i].kind \in K /\ q[i].c = c)
OneIn(q, c, K) ==
  \A i, j \in DOMAIN q : (q[i].kind \in K /\ q[i].c = c /\ q[j].kind \in K /\ q[j].c = c) => i = j

\* A thread destroys c; it has closed the socket; it has thrown while it did so.
Destroys(t, c) == thread[t].pc \in {"disconnect", "shutdown", "signal", "erase"} /\ thread[t].c = c
Late(t) == thread[t].pc \in {"signal", "erase"}
Crashed(t, c) == thread[t].pc = "crashed" /\ thread[t].c = c
Ends(t, c) == Destroys(t, c) \/ Crashed(t, c)

LEMMA AppendNone ==
  ASSUME NEW q \in Seq(EventSet), NEW e \in EventSet, NEW c, NEW K, ~(e.kind \in K /\ e.c = c)
  PROVE  /\ NoneIn(Append(q, e), c, K) <=> NoneIn(q, c, K)
         /\ OneIn(q, c, K) => OneIn(Append(q, e), c, K)
<1>1. NoneIn(Append(q, e), c, K) => NoneIn(q, c, K)
  BY AppendKeeps DEF NoneIn
<1>2. NoneIn(q, c, K) => NoneIn(Append(q, e), c, K)
  BY AppendIndex DEF NoneIn
<1>3. OneIn(q, c, K) => OneIn(Append(q, e), c, K)
  BY AppendIndex DEF OneIn
<1> QED
  BY <1>1, <1>2, <1>3

LEMMA AppendFirst ==
  ASSUME NEW q \in Seq(EventSet), NEW e \in EventSet, NEW c, NEW K, NoneIn(q, c, K)
  PROVE  OneIn(Append(q, e), c, K)
  BY AppendIndex DEF NoneIn, OneIn

LEMMA AppendSome ==
  ASSUME NEW q \in Seq(EventSet), NEW e \in EventSet, NEW c, NEW K, e.kind \in K, e.c = c
  PROVE  ~NoneIn(Append(q, e), c, K)
  BY AppendKeeps DEF NoneIn

LEMMA TailOne ==
  ASSUME NEW q \in Seq(EventSet), q # <<>>, NEW c, NEW K
  PROVE  /\ NoneIn(q, c, K) => NoneIn(Tail(q), c, K)
         /\ OneIn(q, c, K) => OneIn(Tail(q), c, K)
         /\ OneIn(q, c, K) /\ Head(q).kind \in K /\ Head(q).c = c => NoneIn(Tail(q), c, K)
         /\ ~(Head(q).kind \in K /\ Head(q).c = c) => (NoneIn(Tail(q), c, K) => NoneIn(q, c, K))
<1>1. NoneIn(q, c, K) => NoneIn(Tail(q), c, K)
  BY TailIndex DEF NoneIn
<1>2. OneIn(q, c, K) => OneIn(Tail(q), c, K)
  <2>1. \A i, j \in DOMAIN Tail(q) : i + 1 = j + 1 => i = j
    BY HeadTail
  <2> QED
    BY <2>1, TailIndex DEF OneIn
<1>3. OneIn(q, c, K) /\ Head(q).kind \in K /\ Head(q).c = c => NoneIn(Tail(q), c, K)
  BY TailIndex, HeadTail DEF OneIn, NoneIn
<1>4. ~(Head(q).kind \in K /\ Head(q).c = c) => (NoneIn(Tail(q), c, K) => NoneIn(q, c, K))
  <2>1. 1 \in DOMAIN q /\ q[1] = Head(q)
    BY HeadTail
  <2>2. \A i \in DOMAIN q : i = 1 \/ (i - 1 \in DOMAIN Tail(q) /\ Tail(q)[i - 1] = q[i])
    BY TailKeeps
  <2> QED
    BY <2>1, <2>2 DEF NoneIn
<1> QED
  BY <1>1, <1>2, <1>3, <1>4

-----------------------------------------------------------------------------
(* A step, as it looks to a client it is not about. *)

QueueAlike(c) ==
  /\ NoneIn(ready', c, ReadKinds) <=> NoneIn(ready, c, ReadKinds)
  /\ OneIn(ready, c, ReadKinds) => OneIn(ready', c, ReadKinds)

\* No thread begins to destroy c, and one stops only when c is erased, or when nobody
\* listens to its signal.
ThreadsAlike(c) ==
  \A t \in Io :
    /\ Destroys(t, c)' => Destroys(t, c) /\ (Late(t) => Late(t)')
    /\ Crashed(t, c) <=> Crashed(t, c)'
    /\ Destroys(t, c) => \/ Destroys(t, c)' \/ stage[c] = "erased"
                         \/ (Late(t) /\ stage[c] = "created")

Elsewhere(c) ==
  /\ UNCHANGED <<reading[c], socket[c]>>
  /\ stage'[c] = "erased" <=> stage[c] = "erased"
  /\ Known(c)' <=> Known(c)
  /\ ioStopped => ioStopped'
  /\ QueueAlike(c) /\ ThreadsAlike(c)

\* The steps that are about c.
About(c) ==
  \/ ReadCompletes(c) \/ StopClient(c)
  \/ \E t \in Io : /\ AcceptEmplace(t) \/ DestroyShutdown(t) \/ EraseClient(t)
                   /\ thread[t].c = c
  \/ \E t \in Io : (ReadStarts(t) \/ DestroyStarts(t)) /\ Head(ready).c = c

LEMMA QueueSame == ASSUME NEW c, UNCHANGED ready PROVE QueueAlike(c)
  BY DEF QueueAlike

LEMMA ThreadsSame == ASSUME NEW c, UNCHANGED thread PROVE ThreadsAlike(c)
  BY DEF ThreadsAlike, Destroys, Late, Crashed

\* One thread does something else, which has nothing to do with destroying c.
LEMMA OneThreadAlike ==
  ASSUME ThreadOK, NEW c \in Client, NEW t \in Io, NEW d, thread' = [thread EXCEPT ![t] = d],
         ~Destroys(t, c), ~Crashed(t, c), d.c # c \/ d.pc \notin {"disconnect", "shutdown", "signal", "erase", "crashed"}
  PROVE  ThreadsAlike(c)
  BY DEF ThreadOK, ThreadsAlike, Destroys, Late, Crashed

LEMMA KernelElsewhere ==
  ASSUME FullInv, NEW c \in Client, NEW d \in Client, ~About(c),
         \/ PeerConnects(d) \/ PeerEnds(d) \/ AcceptCompletes(d) \/ ReadCompletes(d)
         \/ WriteCompletes(d) \/ EmitPicks(d) \/ StopClient(d)
  PROVE  Elsewhere(c)
<1>0. /\ ready \in Seq(EventSet) /\ reading \in [Client -> BOOLEAN]
      /\ socket \in [Client -> {"open", "closed"}] /\ stage \in [Client -> Stages]
  BY DEF FullInv, ServerInv, Shape, ReadyOK, RestTypes, OperationTypes, PeerTypes, BuildInv, StagesOK
<1>1. CASE PeerConnects(d) \/ PeerEnds(d) \/ EmitPicks(d)
  <2>1. UNCHANGED <<ready, thread, reading, socket, stage, ioStopped>>
    BY <1>1 DEF PeerConnects, PeerEnds, EmitPicks, object, asio, server
  <2> QED
    BY <2>1, QueueSame, ThreadsSame DEF Elsewhere, Known
<1>2. CASE AcceptCompletes(d)
  <2>1. UNCHANGED <<thread, reading, socket, stage, ioStopped>> /\ ready' = Append(ready, Event("accept", d))
    BY <1>2 DEF AcceptCompletes, object
  <2>2. Event("accept", d) \in EventSet /\ Event("accept", d).kind \notin ReadKinds
    BY DEF Event, EventSet, Kinds, ReadKinds
  <2>3. QueueAlike(c)
    BY <1>0, <2>1, <2>2, AppendNone DEF QueueAlike
  <2> QED
    BY <2>1, <2>3, ThreadsSame DEF Elsewhere, Known
<1>3. CASE WriteCompletes(d)
  <2>1. PICK k \in WriteKinds : ready' = Append(ready, Event(k, d))
    BY <1>3 DEF WriteCompletes, WriteKinds
  <2>2. UNCHANGED <<thread, reading, socket, stage, ioStopped>>
    BY <1>3 DEF WriteCompletes, object, server
  <2>3. Event(k, d) \in EventSet /\ Event(k, d).kind \notin ReadKinds
    BY DEF Event, EventSet, Kinds, ReadKinds, WriteKinds
  <2>4. QueueAlike(c)
    BY <1>0, <2>1, <2>3, AppendNone DEF QueueAlike
  <2> QED
    BY <2>2, <2>4, ThreadsSame DEF Elsewhere, Known
<1>4. CASE ReadCompletes(d)
  <2>0. d # c
    BY <1>4 DEF About
  <2>1. PICK k \in ReadKinds : ready' = Append(ready, Event(k, d))
    BY <1>4 DEF ReadCompletes, ReadKinds
  <2>2. UNCHANGED <<thread, socket, stage, ioStopped>> /\ reading' = [reading EXCEPT ![d] = FALSE]
    BY <1>4 DEF ReadCompletes, object, server
  <2>3. Event(k, d) \in EventSet /\ Event(k, d).c # c
    BY <2>0 DEF Event, EventSet, Kinds, ReadKinds
  <2>4. QueueAlike(c)
    BY <1>0, <2>1, <2>3, AppendNone DEF QueueAlike
  <2> QED
    BY <1>0, <2>0, <2>2, <2>4, ThreadsSame DEF Elsewhere, Known
<1>5. CASE StopClient(d)
  <2>0. d # c
    BY <1>5 DEF About
  <2>1. /\ UNCHANGED <<ready, thread, reading, ioStopped>>
        /\ UNCHANGED socket \/ socket' = [socket EXCEPT ![d] = "closed"]
        /\ UNCHANGED stage \/ stage' = [stage EXCEPT ![d] = "erased"]
    BY <1>5 DEF StopClient, asio
  <2> QED
    BY <1>0, <2>0, <2>1, QueueSame, ThreadsSame DEF Elsewhere, Known
<1> QED
  BY <1>1, <1>2, <1>3, <1>4, <1>5

LEMMA StartsElsewhere ==
  ASSUME FullInv, NEW c \in Client, NEW t \in Io, ~About(c),
         AcceptStarts(t) \/ ReadStarts(t) \/ WriteStarts(t) \/ DestroyStarts(t)
  PROVE  Elsewhere(c)
<1>0. /\ ready \in Seq(EventSet) /\ reading \in [Client -> BOOLEAN] /\ ThreadOK
      /\ ready # <<>> /\ ready' = Tail(ready) /\ thread[t].pc = "idle"
      /\ ~Destroys(t, c) /\ ~Crashed(t, c)
  BY DEF FullInv, ServerInv, Shape, ReadyOK, RestTypes, OperationTypes, AcceptStarts, ReadStarts, WriteStarts,
         DestroyStarts, Starts, At, Destroys, Crashed
<1>1. ~(Head(ready).kind \in ReadKinds /\ Head(ready).c = c)
  BY DEF AcceptStarts, ReadStarts, WriteStarts, DestroyStarts, Starts, About, ReadKinds
<1>2. QueueAlike(c)
  BY <1>0, <1>1, TailOne DEF QueueAlike
<1>3. UNCHANGED <<socket, stage, ioStopped>>
  BY DEF AcceptStarts, ReadStarts, WriteStarts, DestroyStarts, object, server
<1>4. CASE AcceptStarts(t)
  <2>1. UNCHANGED reading /\ \E p \in {"emplace", "rearm"} :
          thread' = [thread EXCEPT ![t] = [pc |-> p, c |-> Head(ready).c]]
    BY <1>4 DEF AcceptStarts
  <2>2. ThreadsAlike(c)
    BY <1>0, <2>1, OneThreadAlike
  <2> QED
    BY <1>2, <1>3, <2>1, <2>2 DEF Elsewhere, Known
<1>5. CASE ReadStarts(t)
  <2>1. Head(ready).c # c
    BY <1>5 DEF About
  <2>2. UNCHANGED thread \/ thread' = [thread EXCEPT ![t] = [pc |-> "emit", c |-> Head(ready).c]]
    BY <1>5 DEF ReadStarts
  <2>3. ThreadsAlike(c)
    BY <1>0, <2>2, OneThreadAlike, ThreadsSame
  <2>4. UNCHANGED reading[c]
    BY <1>0, <1>5, <2>1 DEF ReadStarts
  <2> QED
    BY <1>2, <1>3, <2>3, <2>4 DEF Elsewhere, Known
<1>6. CASE WriteStarts(t)
  <2>1. UNCHANGED <<reading, thread>>
    BY <1>6 DEF WriteStarts
  <2> QED
    BY <1>2, <1>3, <2>1, ThreadsSame DEF Elsewhere, Known
<1>7. CASE DestroyStarts(t)
  <2>1. Head(ready).c # c
    BY <1>7 DEF About
  <2>2. UNCHANGED thread \/ thread' = [thread EXCEPT ![t] = [pc |-> "disconnect", c |-> Head(ready).c]]
    BY <1>7 DEF DestroyStarts
  <2>3. ThreadsAlike(c)
    BY <1>0, <2>1, <2>2, OneThreadAlike, ThreadsSame
  <2>4. UNCHANGED reading
    BY <1>7 DEF DestroyStarts
  <2> QED
    BY <1>2, <1>3, <2>3, <2>4 DEF Elsewhere, Known
<1> QED
  BY <1>4, <1>5, <1>6, <1>7

\* Where a thread is after Goes and Rests.
LEMMA AfterStep ==
  ASSUME ThreadOK, NEW t \in Io
  PROVE  /\ \A p : Goes(t, p) => /\ thread'[t].pc = p /\ thread'[t].c = thread[t].c
                                 /\ \A u \in Io \ {t} : thread'[u] = thread[u]
         /\ Rests(t) => /\ thread'[t] = Idle
                        /\ \A u \in Io \ {t} : thread'[u] = thread[u]
<1>1. thread[t] \in Doing /\ DOMAIN thread = Io
  BY DEF ThreadOK
<1>2. ASSUME NEW p, Goes(t, p)
      PROVE  /\ thread'[t].pc = p /\ thread'[t].c = thread[t].c
             /\ \A u \in Io \ {t} : thread'[u] = thread[u]
  <2>1. thread' = [thread EXCEPT ![t] = [pc |-> p, c |-> thread[t].c]]
    BY <1>1, <1>2, OtherPlace DEF Goes
  <2> QED
    BY <1>1, <2>1
<1>3. ASSUME Rests(t)
      PROVE  thread'[t] = Idle /\ \A u \in Io \ {t} : thread'[u] = thread[u]
  BY <1>1, <1>3 DEF Rests
<1> QED
  BY <1>2, <1>3

LEMMA ThreadElsewhere ==
  ASSUME FullInv, NEW c \in Client, NEW t \in Io, ~About(c),
         \/ AcceptEmplace(t) \/ AcceptConnectErase(t) \/ AcceptConnectOutput(t) \/ AcceptKeep(t)
         \/ AcceptRearm(t) \/ ReadEmits(t) \/ DestroyDisconnect(t) \/ DestroyShutdown(t)
         \/ DestroySignal(t) \/ EraseClient(t) \/ IoThreadEnds(t)
  PROVE  Elsewhere(c)
<1>0. /\ reading \in [Client -> BOOLEAN] /\ ThreadOK
      /\ socket \in [Client -> {"open", "closed"}] /\ stage \in [Client -> Stages]
      /\ BuiltAsFar
  BY DEF FullInv, ServerInv, Shape, RestTypes, OperationTypes, PeerTypes, BuildInv, StagesOK
<1>a. /\ \A p : Goes(t, p) => /\ thread'[t].pc = p /\ thread'[t].c = thread[t].c
                              /\ \A u \in Io \ {t} : thread'[u] = thread[u]
      /\ Rests(t) => /\ thread'[t] = Idle
                     /\ \A u \in Io \ {t} : thread'[u] = thread[u]
  BY <1>0, AfterStep
<1>b. UNCHANGED ready /\ ioStopped' = ioStopped
  BY DEF AcceptEmplace, AcceptConnectErase, AcceptConnectOutput, AcceptKeep, AcceptRearm, ReadEmits,
         DestroyDisconnect, DestroyShutdown, DestroySignal, EraseClient, IoThreadEnds, asio, server
<1>c. QueueAlike(c)
  BY <1>b, QueueSame
<1>d. Idle.pc = "idle"
  BY DEF Idle
<1>1. CASE AcceptEmplace(t)
  <2>1. thread[t].c # c /\ At(t, "emplace") /\ Goes(t, "connectErase")
    BY <1>1 DEF AcceptEmplace, About
  <2>2. ThreadsAlike(c)
    BY <1>a, <2>1 DEF ThreadsAlike, Destroys, Late, Crashed, At
  <2>3. UNCHANGED <<reading[c], socket, stage[c]>>
    BY <1>0, <1>1, <2>1 DEF AcceptEmplace
  <2> QED
    BY <1>b, <1>c, <2>2, <2>3 DEF Elsewhere, Known
<1>2. CASE AcceptConnectErase(t) \/ AcceptConnectOutput(t) \/ AcceptKeep(t)
  <2>1. /\ thread[t].pc \in {"connectErase", "connectOutput", "keep"}
        /\ \E p \in {"connectOutput", "keep", "rearm"} : Goes(t, p)
        /\ UNCHANGED <<reading, socket>>
    BY <1>2 DEF AcceptConnectErase, AcceptConnectOutput, AcceptKeep, AfterKeep, At, asio
  <2>2. ThreadsAlike(c)
    BY <1>a, <2>1 DEF ThreadsAlike, Destroys, Late, Crashed
  <2>3. stage[thread[t].c] \in {"created", "erasable", "linked"} /\ thread[t].c \in Client
    BY <1>0, <2>1 DEF BuiltAsFar, ThreadOK, Doing, NoClient
  <2>4. \E p \in {"erasable", "linked", "kept"} : stage' = [stage EXCEPT ![thread[t].c] = p]
    BY <1>2 DEF AcceptConnectErase, AcceptConnectOutput, AcceptKeep
  <2>5. /\ stage'[c] = "erased" <=> stage[c] = "erased"
        /\ Known(c)' <=> Known(c)
    BY <1>0, <2>3, <2>4 DEF Known
  <2> QED
    BY <1>b, <1>c, <2>1, <2>2, <2>5 DEF Elsewhere
<1>3. CASE AcceptRearm(t) \/ ReadEmits(t) \/ IoThreadEnds(t)
  <2>1. /\ thread[t].pc \in {"rearm", "emit", "idle"}
        /\ Rests(t) \/ Goes(t, "ended")
        /\ UNCHANGED <<reading, socket, stage>>
    BY <1>3 DEF AcceptRearm, ReadEmits, IoThreadEnds, At, asio, object
  <2>2. ThreadsAlike(c)
    BY <1>a, <1>d, <2>1 DEF ThreadsAlike, Destroys, Late, Crashed
  <2> QED
    BY <1>b, <1>c, <2>1, <2>2 DEF Elsewhere, Known
<1>4. CASE DestroyDisconnect(t)
  <2>1. /\ thread[t].pc = "disconnect"
        /\ (Rests(t) /\ stage[thread[t].c] = "erased") \/ Goes(t, "shutdown")
        /\ UNCHANGED <<reading, socket, stage>>
    BY <1>4 DEF DestroyDisconnect, At, asio
  <2>2. ThreadsAlike(c)
    BY <1>a, <1>d, <2>1 DEF ThreadsAlike, Destroys, Late, Crashed
  <2> QED
    BY <1>b, <1>c, <2>1, <2>2 DEF Elsewhere, Known
<1>5. CASE DestroySignal(t)
  <2>1. /\ thread[t].pc = "signal"
        /\ (Rests(t) /\ stage[thread[t].c] \in {"erased", "created"}) \/ Goes(t, "erase")
        /\ UNCHANGED <<reading, socket, stage>>
    BY <1>5 DEF DestroySignal, At, asio, object
  <2>2. ThreadsAlike(c)
    BY <1>a, <1>d, <2>1 DEF ThreadsAlike, Destroys, Late, Crashed
  <2> QED
    BY <1>b, <1>c, <2>1, <2>2 DEF Elsewhere, Known
<1>6. CASE DestroyShutdown(t)
  <2>1. /\ thread[t].c # c /\ thread[t].pc = "shutdown"
        /\ Rests(t) \/ \E p \in {"crashed", "signal"} : Goes(t, p)
    BY <1>6 DEF DestroyShutdown, At, About
  <2>2. ThreadsAlike(c)
    BY <1>a, <1>d, <2>1 DEF ThreadsAlike, Destroys, Late, Crashed
  <2>3. UNCHANGED <<reading, socket[c], stage>>
    BY <1>0, <1>6, <2>1 DEF DestroyShutdown, asio
  <2> QED
    BY <1>b, <1>c, <2>2, <2>3 DEF Elsewhere, Known
<1>7. CASE EraseClient(t)
  <2>1. thread[t].c # c /\ thread[t].pc = "erase" /\ Rests(t)
    BY <1>7 DEF EraseClient, At, About
  <2>2. ThreadsAlike(c)
    BY <1>a, <1>d, <2>1 DEF ThreadsAlike, Destroys, Late, Crashed
  <2>3. UNCHANGED <<reading, socket, stage[c]>>
    BY <1>0, <1>7, <2>1 DEF EraseClient, asio
  <2> QED
    BY <1>b, <1>c, <2>2, <2>3 DEF Elsewhere, Known
<1> QED
  BY <1>1, <1>2, <1>3, <1>4, <1>5, <1>6, <1>7

LEMMA ElsewhereSteps ==
  ASSUME FullInv, [Next]_vars, NEW c \in Client, ~About(c)
  PROVE  Elsewhere(c)
<1>0. /\ ready \in Seq(EventSet)
  BY DEF FullInv, ServerInv, Shape, ReadyOK
<1>1. CASE AcceptFails
  <2>1. UNCHANGED <<thread, reading, socket, stage, ioStopped>> /\ ready' = Append(ready, Event("acceptError", "none"))
    BY <1>1 DEF AcceptFails, object
  <2>2. Event("acceptError", "none") \in EventSet /\ Event("acceptError", "none").kind \notin ReadKinds
    BY DEF Event, EventSet, Kinds, ReadKinds
  <2>3. QueueAlike(c)
    BY <1>0, <2>1, <2>2, AppendNone DEF QueueAlike
  <2> QED
    BY <2>1, <2>3, ThreadsSame DEF Elsewhere, Known
<1>2. CASE EmitCalls \/ IoStop \/ StopBegins \/ StopLocks \/ StopEnds \/ UNCHANGED vars
  <2>1. UNCHANGED <<ready, thread, reading, socket, stage>> /\ (ioStopped => ioStopped')
    BY <1>2 DEF EmitCalls, IoStop, StopBegins, StopLocks, StopEnds, vars, object, asio, server
  <2> QED
    BY <2>1, QueueSame, ThreadsSame DEF Elsewhere, Known
<1>3. ASSUME NEW d \in Client,
             \/ PeerConnects(d) \/ PeerEnds(d) \/ AcceptCompletes(d) \/ ReadCompletes(d)
             \/ WriteCompletes(d) \/ EmitPicks(d) \/ StopClient(d)
      PROVE  Elsewhere(c)
  BY <1>3, KernelElsewhere
<1>4. ASSUME NEW t \in Io, AcceptStarts(t) \/ ReadStarts(t) \/ WriteStarts(t) \/ DestroyStarts(t)
      PROVE  Elsewhere(c)
  BY <1>4, StartsElsewhere
<1>5. ASSUME NEW t \in Io,
             \/ AcceptEmplace(t) \/ AcceptConnectErase(t) \/ AcceptConnectOutput(t) \/ AcceptKeep(t)
             \/ AcceptRearm(t) \/ ReadEmits(t) \/ DestroyDisconnect(t) \/ DestroyShutdown(t)
             \/ DestroySignal(t) \/ EraseClient(t) \/ IoThreadEnds(t)
      PROVE  Elsewhere(c)
  BY <1>5, ThreadElsewhere
<1> QED
  BY <1>1, <1>2, <1>3, <1>4, <1>5 DEF Next

-----------------------------------------------------------------------------
\* The first read of a client is armed by its constructor, each later one by the
\* handler of the one before, and the last result makes a thread destroy it.
Attended(c) ==
  Known(c) => \/ reading[c] \/ ~NoneIn(ready, c, ReadKinds)
              \/ \E t \in Io : Destroys(t, c) \/ Crashed(t, c)
AttendInv == \A c \in Client \ early : Attended(c)

\* What a step that is about c does.
LEMMA AboutStep ==
  ASSUME FullInv, NEW c \in Client, About(c)
  PROVE  Attended(c) => Attended(c)'
<1> SUFFICES ASSUME Known(c)', Attended(c)
             PROVE  \/ reading'[c] \/ ~NoneIn(ready', c, ReadKinds)
                    \/ \E t \in Io : Destroys(t, c)' \/ Crashed(t, c)'
  BY DEF Attended
<1>0. /\ reading \in [Client -> BOOLEAN] /\ ThreadOK /\ ready \in Seq(EventSet)
      /\ stage \in [Client -> Stages]
  BY DEF FullInv, ServerInv, Shape, ReadyOK, RestTypes, OperationTypes, BuildInv, StagesOK
<1>1. CASE ReadCompletes(c)
  <2>1. PICK k \in ReadKinds : ready' = Append(ready, Event(k, c))
    BY <1>1 DEF ReadCompletes, ReadKinds
  <2>2. Event(k, c) \in EventSet /\ Event(k, c).c = c /\ Event(k, c).kind \in ReadKinds
    BY DEF Event, EventSet, Kinds, ReadKinds
  <2> QED
    BY <1>0, <2>1, <2>2, AppendSome
<1>2. CASE StopClient(c)
  <2>1. UNCHANGED <<reading, ready, thread>>
    BY <1>2 DEF StopClient, asio
  <2>2. UNCHANGED stage
    BY <1>0, <1>2 DEF StopClient, Known
  <2> QED
    BY <2>1, <2>2 DEF Attended, Known, Destroys, Crashed
<1>3. ASSUME NEW t \in Io, AcceptEmplace(t), thread[t].c = c
      PROVE  reading'[c]
  BY <1>0, <1>3 DEF AcceptEmplace
<1>4. ASSUME NEW t \in Io, DestroyShutdown(t), thread[t].c = c
      PROVE  Destroys(t, c)' \/ Crashed(t, c)'
  <2>1. stage[c] # "erased" /\ UNCHANGED stage
    BY <1>4 DEF DestroyShutdown, Known
  <2>2. Goes(t, "crashed") \/ Goes(t, "signal")
    BY <1>4, <2>1 DEF DestroyShutdown
  <2> QED
    BY <1>0, <1>4, <2>2, AfterStep DEF Destroys, Crashed
<1>5. ASSUME NEW t \in Io, EraseClient(t), thread[t].c = c
      PROVE  FALSE
  BY <1>0, <1>5 DEF EraseClient, Known
<1>6. ASSUME NEW t \in Io, ReadStarts(t), Head(ready).c = c
      PROVE  reading'[c]
  BY <1>0, <1>6 DEF ReadStarts, object, Known
<1>7. ASSUME NEW t \in Io, DestroyStarts(t), Head(ready).c = c
      PROVE  Destroys(t, c)'
  <2>1. thread' = [thread EXCEPT ![t] = [pc |-> "disconnect", c |-> c]]
    BY <1>7 DEF DestroyStarts, object, Known
  <2> QED
    BY <1>0, <2>1 DEF ThreadOK, Destroys
<1> QED
  BY <1>1, <1>2, <1>3, <1>4, <1>5, <1>6, <1>7 DEF About

LEMMA AttendStep ==
  ASSUME FullInv, AttendInv, [Next]_vars
  PROVE  AttendInv'
<1> SUFFICES ASSUME NEW c \in Client, c \notin early'
             PROVE  Attended(c)'
  BY DEF AttendInv
<1>1. c \notin early /\ Attended(c)
  BY EarlyStays DEF FullInv, AttendInv
<1>2. CASE About(c)
  BY <1>1, <1>2, AboutStep
<1>3. CASE ~About(c)
  <2>1. Elsewhere(c)
    BY <1>3, ElsewhereSteps
  <2>2. ASSUME NEW t \in Io, Late(t), Destroys(t, c)
        PROVE  stage[c] # "created"
    BY <1>1, <2>2 DEF FullInv, DroppedFirst, Dropped, Late, Destroys
  <2> QED
    BY <1>1, <2>1, <2>2 DEF Attended, Elsewhere, QueueAlike, ThreadsAlike, Known
<1> QED
  BY <1>2, <1>3

\* The list of clients: types; no client is erased under the thread that builds it; and
\* each client that is kept has a read, its result, or a thread that destroys it, so that
\* its end is noticed (the constructor, ReadDataHandler and DestroyMe).
THEOREM ClientListKept == Spec => []ServerInvariant
<1> DEFINE Inv == FullInv /\ AttendInv
<1>1. Init => Inv
  <2>1. Init => AttendInv
    BY DEF Init, AttendInv, Attended, Known
  <2> QED
    BY <2>1, FullInit
<1>2. Inv /\ [Next]_vars => Inv'
  BY FullStep, AttendStep
<1>3. Inv => ServerInvariant
  <2> SUFFICES ASSUME FullInv, AttendInv
               PROVE  ServerInvariant
    OBVIOUS
  <2>1. NotErasedWhileBuilt
    BY DEF FullInv, ServerInv, BuildInv, BuiltAsFar, Builds, NotErasedWhileBuilt
  <2>2. ClientAttended
    BY DEF AttendInv, Attended, ClientAttended, Queued, NoneIn, ReadKinds, Destroys, Crashed
  <2> QED
    BY <2>1, <2>2, FullIsTyped DEF ServerInvariant
<1> QED
  BY <1>1, <1>2, <1>3, PTL DEF Spec
-----------------------------------------------------------------------------
(* A client to which nothing is written ends once. *)

Unwritten(c) == ~writing[c] /\ NoneIn(ready, c, WriteKinds)
Over(c) == ~reading[c] /\ NoneIn(ready, c, ReadKinds)

\* A read, its result or a thread that destroys the client or was lost to it: never two of them; once the
\* socket is closed or the client is gone, none that could close or use it again.
EndsOnce(c) ==
  /\ OneIn(ready, c, ReadKinds)
  /\ \A t, u \in Io : Ends(t, c) /\ Ends(u, c) => t = u
  /\ \A t \in Io : Ends(t, c) => Over(c)
  /\ reading[c] => NoneIn(ready, c, ReadKinds)
  /\ socket[c] = "closed" =>
       Seen(c) /\ (stage[c] = "erased" \/ (Over(c) /\ \A t \in Io : Destroys(t, c) => Late(t)))
  /\ stage[c] = "erased" =>
       ioStopped \/ (Over(c) /\ \A t \in Io : ~Destroys(t, c))

EndInv ==
  /\ \A c \in Client \ wrote : Unwritten(c) /\ EndsOnce(c)
  /\ life # "up" => ioStopped

LEMMA WroteStays ==
  ASSUME [Next]_vars
  PROVE  wrote \subseteq wrote' /\ (EmitCalls => sender \in wrote')
<1>1. CASE EmitCalls
  BY <1>1 DEF EmitCalls
<1>2. CASE ~EmitCalls
  <2>1. UNCHANGED wrote
    BY <1>2 DEF Next, AcceptStarts, AcceptEmplace, AcceptConnectErase, AcceptConnectOutput,
         AcceptKeep, AcceptRearm, EraseClient, IoThreadEnds, PeerConnects, PeerEnds, AcceptCompletes,
         ReadCompletes, WriteCompletes, EmitPicks, StopClient, AcceptFails, IoStop, StopBegins,
         StopLocks, StopEnds, vars, history, ReadStarts, WriteStarts, DestroyStarts, ReadEmits,
         DestroyShutdown, DestroySignal, DestroyDisconnect
  <2> QED
    BY <1>2, <2>1
<1> QED
  BY <1>1, <1>2

LEMMA UnwrittenStep ==
  ASSUME FullInv, [Next]_vars, NEW c \in Client, c \notin wrote', Unwritten(c)
  PROVE  Unwritten(c)'
<1>0. ready \in Seq(EventSet) /\ writing \in [Client -> BOOLEAN] /\ ~writing[c] /\ NoneIn(ready, c, WriteKinds)
  BY DEF FullInv, ServerInv, Shape, ReadyOK, RestTypes, OperationTypes, Unwritten
<1>a. ASSUME NEW e \in EventSet, ready' = Append(ready, e), ~(e.kind \in WriteKinds /\ e.c = c)
      PROVE  NoneIn(ready', c, WriteKinds)
  BY <1>0, <1>a, AppendNone
<1>b. ASSUME ready # <<>>, ready' = Tail(ready)
      PROVE  NoneIn(ready', c, WriteKinds)
  BY <1>0, <1>b, TailOne
<1>1. ASSUME NEW d \in Client, AcceptCompletes(d) \/ ReadCompletes(d)
      PROVE  Unwritten(c)'
  <2>1. PICK k \in {"accept", "read", "readError"} : ready' = Append(ready, Event(k, d)) /\ UNCHANGED writing
    BY <1>1 DEF AcceptCompletes, ReadCompletes
  <2>2. Event(k, d) \in EventSet /\ Event(k, d).kind \notin WriteKinds
    BY DEF Event, EventSet, Kinds, WriteKinds
  <2> QED
    BY <1>0, <1>a, <2>1, <2>2 DEF Unwritten
<1>2. CASE AcceptFails
  <2>1. ready' = Append(ready, Event("acceptError", "none")) /\ UNCHANGED writing
    BY <1>2 DEF AcceptFails
  <2>2. Event("acceptError", "none") \in EventSet /\ Event("acceptError", "none").kind \notin WriteKinds
    BY DEF Event, EventSet, Kinds, WriteKinds
  <2> QED
    BY <1>0, <1>a, <2>1, <2>2 DEF Unwritten
<1>3. ASSUME NEW d \in Client, WriteCompletes(d)
      PROVE  Unwritten(c)'
  <2>1. d # c /\ writing' = [writing EXCEPT ![d] = FALSE]
    BY <1>0, <1>3 DEF WriteCompletes
  <2>2. \E k \in Kinds : ready' = Append(ready, Event(k, d))
    BY <1>3 DEF WriteCompletes, Kinds
  <2>3. \A k \in Kinds : Event(k, d) \in EventSet /\ Event(k, d).c # c
    BY <2>1 DEF Event, EventSet
  <2> QED
    BY <1>0, <1>a, <2>1, <2>2, <2>3 DEF Unwritten
<1>4. ASSUME NEW t \in Io, AcceptStarts(t) \/ ReadStarts(t) \/ DestroyStarts(t)
      PROVE  Unwritten(c)'
  <2>1. ready # <<>> /\ ready' = Tail(ready) /\ UNCHANGED writing
    BY <1>4 DEF AcceptStarts, ReadStarts, DestroyStarts, Starts
  <2> QED
    BY <1>0, <1>b, <2>1 DEF Unwritten
<1>5. ASSUME NEW t \in Io, WriteStarts(t)
      PROVE  Unwritten(c)'
  <2>1. ready # <<>> /\ ready' = Tail(ready) /\ Head(ready).kind \in WriteKinds
    BY <1>5 DEF WriteStarts, Starts, WriteKinds
  <2>2. Head(ready).c # c
    BY <1>0, <2>1, HeadTail DEF NoneIn
  <2>3. writing'[c] = writing[c]
    BY <1>0, <1>5, <2>2 DEF WriteStarts
  <2> QED
    BY <1>0, <1>b, <2>1, <2>3 DEF Unwritten
<1>6. CASE EmitCalls
  <2>1. sender # c /\ UNCHANGED ready
    BY <1>6, WroteStays DEF EmitCalls
  <2>2. writing'[c] = writing[c]
    BY <1>0, <1>6, <2>1 DEF EmitCalls
  <2> QED
    BY <1>0, <2>1, <2>2 DEF Unwritten
<1>7. ASSUME \/ \E d \in Client : PeerConnects(d) \/ PeerEnds(d) \/ EmitPicks(d) \/ StopClient(d)
             \/ \E t \in Io : \/ AcceptEmplace(t) \/ AcceptConnectErase(t) \/ AcceptConnectOutput(t)
                              \/ AcceptKeep(t) \/ AcceptRearm(t) \/ ReadEmits(t) \/ DestroyDisconnect(t)
                              \/ DestroyShutdown(t) \/ DestroySignal(t) \/ EraseClient(t) \/ IoThreadEnds(t)
             \/ IoStop \/ StopBegins \/ StopLocks \/ StopEnds \/ UNCHANGED vars
      PROVE  Unwritten(c)'
  <2>1. UNCHANGED <<ready, writing>>
    BY <1>7 DEF PeerConnects, PeerEnds, EmitPicks, StopClient, AcceptEmplace, AcceptConnectErase,
         AcceptConnectOutput, AcceptKeep, AcceptRearm, ReadEmits, DestroyDisconnect, DestroyShutdown,
         DestroySignal, EraseClient, IoThreadEnds, IoStop, StopBegins, StopLocks, StopEnds, vars, asio
  <2> QED
    BY <1>0, <2>1 DEF Unwritten
<1> QED
  BY <1>1, <1>2, <1>3, <1>4, <1>5, <1>6, <1>7 DEF Next

\* What nobody does for c leaves its end alone.
LEMMA ElsewhereEnds ==
  ASSUME FullInv, [Next]_vars, NEW c \in Client, Elsewhere(c), EndsOnce(c)
  PROVE  EndsOnce(c)'
<1>1. Seen(c) => Seen(c)'
  BY SeenStays DEF FullInv, ServerInv
<1>2. Over(c)' <=> Over(c)
  BY DEF Elsewhere, QueueAlike, Over
<1>3. \A t \in Io : Ends(t, c)' => Ends(t, c)
  BY DEF Elsewhere, ThreadsAlike, Ends
<1> QED
  BY <1>1, <1>2, <1>3 DEF EndsOnce, Elsewhere, QueueAlike, ThreadsAlike

\* The steps that are about c, one by one.
LEMMA ReadEnds ==
  ASSUME FullInv, [Next]_vars, NEW c \in Client, EndsOnce(c), ReadCompletes(c)
  PROVE  EndsOnce(c)'
<1>0. reading \in [Client -> BOOLEAN] /\ ready \in Seq(EventSet)
  BY DEF FullInv, ServerInv, Shape, ReadyOK, RestTypes, OperationTypes
<1>1. PICK k \in ReadKinds : ready' = Append(ready, Event(k, c))
  BY DEF ReadCompletes, ReadKinds
<1>2. Event(k, c) \in EventSet
  BY DEF Event, EventSet, Kinds, ReadKinds
<1>3. /\ reading[c] /\ ~reading'[c]
      /\ UNCHANGED <<thread, socket, stage, ioStopped>>
  BY <1>0 DEF ReadCompletes, object, server
<1>4. NoneIn(ready, c, ReadKinds) /\ \A t \in Io : ~Ends(t, c)
  BY <1>3 DEF EndsOnce, Over
<1>5. OneIn(ready', c, ReadKinds)
  BY <1>0, <1>1, <1>2, <1>4, AppendFirst
<1>6. \A t \in Io : ~Ends(t, c)' /\ ~Destroys(t, c)'
  BY <1>3, <1>4 DEF Ends, Destroys, Crashed
<1> QED
  BY <1>3, <1>5, <1>6 DEF EndsOnce, Over, Seen

\* A handler that reads or destroys takes the only result there is.
LEMMA TakeEnds ==
  ASSUME FullInv, [Next]_vars, NEW c \in Client, Unwritten(c), EndsOnce(c), NEW t \in Io,
         ReadStarts(t) \/ DestroyStarts(t), Head(ready).c = c
  PROVE  EndsOnce(c)'
<1>0. reading \in [Client -> BOOLEAN] /\ ready \in Seq(EventSet) /\ ThreadOK
  BY DEF FullInv, ServerInv, Shape, ReadyOK, RestTypes, OperationTypes
<1>1. /\ ready # <<>> /\ ready' = Tail(ready) /\ Head(ready).kind \in {"read", "readError", "writeError"}
      /\ UNCHANGED <<socket, stage, ioStopped>> /\ ~ioStopped
  BY DEF ReadStarts, DestroyStarts, Starts, object, server
<1>2. 1 \in DOMAIN ready /\ ready[1] = Head(ready)
  BY <1>0, <1>1, HeadTail
<1>3. Head(ready).kind \in ReadKinds /\ ~NoneIn(ready, c, ReadKinds)
  BY <1>1, <1>2 DEF Unwritten, NoneIn, ReadKinds, WriteKinds
<1>4. NoneIn(ready', c, ReadKinds) /\ OneIn(ready', c, ReadKinds)
  BY <1>0, <1>1, <1>3, TailOne DEF EndsOnce
<1>5. ~Over(c) /\ ~reading[c] /\ \A u \in Io : ~Ends(u, c)
  BY <1>3 DEF EndsOnce, Over
<1>6. stage[c] # "erased" /\ socket[c] # "closed"
  BY <1>1, <1>5 DEF EndsOnce
<1>7. CASE ReadStarts(t)
  <2>1. thread' = [thread EXCEPT ![t] = [pc |-> "emit", c |-> c]]
    BY <1>6, <1>7 DEF ReadStarts
  <2>2. \A u \in Io : ~Ends(u, c)'
    BY <1>0, <1>5, <2>1 DEF Ends, Destroys, Crashed, ThreadOK
  <2> QED
    BY <1>1, <1>4, <1>6, <2>2 DEF EndsOnce
<1>8. CASE DestroyStarts(t)
  <2>1. thread' = [thread EXCEPT ![t] = [pc |-> "disconnect", c |-> c]] /\ UNCHANGED reading
    BY <1>6, <1>8 DEF DestroyStarts
  <2>2. \A u \in Io : Ends(u, c)' => u = t
    BY <1>0, <1>5, <2>1 DEF Ends, Destroys, Crashed, ThreadOK
  <2>3. Over(c)'
    BY <1>4, <1>5, <2>1 DEF Over
  <2> QED
    BY <1>1, <1>4, <1>6, <2>2, <2>3 DEF EndsOnce, Over
<1> QED
  BY <1>7, <1>8

LEMMA MadeEnds ==
  ASSUME FullInv, [Next]_vars, NEW c \in Client, EndsOnce(c), NEW t \in Io,
         AcceptEmplace(t), thread[t].c = c
  PROVE  EndsOnce(c)'
<1>0. reading \in [Client -> BOOLEAN] /\ ThreadOK /\ stage \in [Client -> Stages]
      /\ OperationsSeen /\ ComesOnce
  BY DEF FullInv, ServerInv, Shape, RestTypes, OperationTypes, BuildInv, StagesOK
<1>1. ~Seen(c) /\ thread[t].pc = "emplace"
  BY <1>0 DEF AcceptEmplace, At, ComesOnce, Makes
<1>2. NoneIn(ready, c, ReadKinds) /\ \A u \in Io : ~Ends(u, c)
  BY <1>0, <1>1 DEF OperationsSeen, NoneIn, ReadKinds, Kinds, AcceptKinds, Ends, Destroys, Crashed
<1>3. socket[c] # "closed" /\ UNCHANGED <<ready, socket>> /\ stage'[c] = "created"
  BY <1>0, <1>1 DEF EndsOnce, AcceptEmplace
<1>4. \A u \in Io : ~Ends(u, c)'
  BY <1>0, <1>1, <1>2, AfterStep DEF AcceptEmplace, Ends, Destroys, Crashed
<1>5. NoneIn(ready', c, ReadKinds) /\ OneIn(ready', c, ReadKinds)
  BY <1>2, <1>3 DEF EndsOnce
<1> QED
  BY <1>3, <1>4, <1>5 DEF EndsOnce

\* The one thread that destroys c closes its socket, or erases it.
LEMMA CloseEnds ==
  ASSUME FullInv, [Next]_vars, NEW c \in Client, EndsOnce(c), NEW t \in Io,
         DestroyShutdown(t) \/ EraseClient(t), thread[t].c = c
  PROVE  EndsOnce(c)'
<1>0. ThreadOK /\ stage \in [Client -> Stages] /\ socket \in [Client -> {"open", "closed"}]
      /\ OperationsSeen
  BY DEF FullInv, ServerInv, Shape, RestTypes, PeerTypes, BuildInv, StagesOK
<1>1. Destroys(t, c) /\ Over(c) /\ (\A u \in Io : Ends(u, c) => u = t) /\ Seen(c)
  BY <1>0 DEF DestroyShutdown, EraseClient, At, Ends, Destroys, EndsOnce, OperationsSeen
<1>2. UNCHANGED <<reading, ready, ioStopped>>
  BY DEF DestroyShutdown, EraseClient, asio, server
<1>3. Over(c)' /\ NoneIn(ready', c, ReadKinds) /\ OneIn(ready', c, ReadKinds)
  BY <1>1, <1>2 DEF EndsOnce, Over
<1>4. Idle.pc = "idle"
  BY DEF Idle
<1>5. CASE EraseClient(t)
  <2>1. \A u \in Io : ~Ends(u, c)' /\ ~Destroys(u, c)'
    BY <1>0, <1>1, <1>4, <1>5, AfterStep DEF EraseClient, Ends, Destroys, Crashed
  <2>2. stage'[c] = "erased"
    BY <1>0, <1>5 DEF EraseClient
  <2>3. Seen(c)'
    BY <2>2 DEF Seen
  <2> QED
    BY <1>3, <2>1, <2>2, <2>3 DEF EndsOnce, Over
<1>6. CASE DestroyShutdown(t)
  <2>1. Rests(t) \/ \E p \in {"crashed", "signal"} : Goes(t, p)
    BY <1>6 DEF DestroyShutdown
  <2>2. \A u \in Io : (Ends(u, c)' => u = t) /\ (Destroys(u, c)' => u = t /\ Late(t)')
    BY <1>0, <1>1, <1>4, <2>1, AfterStep DEF Ends, Destroys, Crashed, Late
  <2>3. UNCHANGED stage /\ Seen(c)'
    BY <1>1, <1>6 DEF DestroyShutdown, Seen
  <2>4. stage[c] = "erased" => Rests(t)
    BY <1>6 DEF DestroyShutdown
  <2>5. stage[c] = "erased" => \A u \in Io : ~Destroys(u, c)'
    BY <1>0, <1>4, <2>2, <2>4, AfterStep DEF Destroys
  <2> QED
    BY <1>3, <2>2, <2>3, <2>5 DEF EndsOnce, Over
<1> QED
  BY <1>5, <1>6

LEMMA StopEndsOnce ==
  ASSUME FullInv, [Next]_vars, NEW c \in Client, EndsOnce(c), StopClient(c), ioStopped
  PROVE  EndsOnce(c)'
<1>0. stage \in [Client -> Stages] /\ socket \in [Client -> {"open", "closed"}]
  BY DEF FullInv, ServerInv, RestTypes, PeerTypes, BuildInv, StagesOK
<1>1. UNCHANGED <<reading, ready, thread, ioStopped>>
  BY DEF StopClient, asio
<1>2. \/ UNCHANGED <<stage, socket>>
      \/ stage'[c] = "erased"
  BY <1>0 DEF StopClient
<1>3. /\ \A t \in Io : /\ (Destroys(t, c)' <=> Destroys(t, c)) /\ (Late(t)' <=> Late(t))
                       /\ Ends(t, c)' <=> Ends(t, c)
      /\ Over(c)' <=> Over(c)
  BY <1>1 DEF Ends, Destroys, Crashed, Late, Over
<1> QED
  BY <1>1, <1>2, <1>3 DEF EndsOnce, Seen

LEMMA EndStep ==
  ASSUME FullInv, EndInv, [Next]_vars
  PROVE  EndInv'
<1>1. life' # "up" => ioStopped'
  <2>1. CASE StopBegins
    BY <2>1 DEF StopBegins
  <2>2. CASE IoStop
    BY <2>2 DEF IoStop
  <2>3. CASE \/ StopLocks \/ StopEnds \/ \E c \in Client : StopClient(c)
    BY <2>3 DEF StopLocks, StopEnds, StopClient, EndInv
  <2>4. CASE \/ \E t \in Io : AcceptEmplace(t) \/ AcceptKeep(t) \/ AcceptRearm(t)
             \/ \E c \in Client : AcceptCompletes(c)
             \/ AcceptFails
    BY <2>4 DEF AcceptEmplace, AcceptKeep, AcceptRearm, AcceptCompletes, AcceptFails, EndInv
  <2>5. ASSUME ~(\/ StopBegins \/ IoStop \/ StopLocks \/ StopEnds \/ \E c \in Client : StopClient(c)
                 \/ \E t \in Io : AcceptEmplace(t) \/ AcceptKeep(t) \/ AcceptRearm(t)
                 \/ \E c \in Client : AcceptCompletes(c)
                 \/ AcceptFails)
        PROVE  UNCHANGED server
    BY <2>5 DEF Next, AcceptStarts, AcceptConnectErase, AcceptConnectOutput, EraseClient, IoThreadEnds,
         PeerConnects, PeerEnds, ReadCompletes, WriteCompletes, EmitPicks, vars, ReadStarts, WriteStarts,
         DestroyStarts, ReadEmits, DestroyShutdown, DestroySignal, DestroyDisconnect, EmitCalls
  <2> QED
    BY <2>1, <2>2, <2>3, <2>4, <2>5 DEF server, EndInv
<1>2. ASSUME NEW c \in Client, c \notin wrote'
      PROVE  Unwritten(c)' /\ EndsOnce(c)'
  <2>1. c \notin wrote /\ Unwritten(c) /\ EndsOnce(c)
    BY <1>2, WroteStays DEF EndInv
  <2>2. Unwritten(c)'
    BY <1>2, <2>1, UnwrittenStep
  <2>3. CASE ~About(c)
    BY <2>1, <2>2, <2>3, ElsewhereSteps, ElsewhereEnds
  <2>4. CASE ReadCompletes(c)
    BY <2>1, <2>2, <2>4, ReadEnds
  <2>5. CASE StopClient(c)
    <3>1. ioStopped
      BY <2>5 DEF StopClient, EndInv
    <3> QED
      BY <2>1, <2>2, <2>5, <3>1, StopEndsOnce
  <2>6. ASSUME NEW t \in Io, AcceptEmplace(t) \/ DestroyShutdown(t) \/ EraseClient(t), thread[t].c = c
        PROVE  EndsOnce(c)'
    BY <2>1, <2>6, MadeEnds, CloseEnds
  <2>7. ASSUME NEW t \in Io, ReadStarts(t) \/ DestroyStarts(t), Head(ready).c = c
        PROVE  EndsOnce(c)'
    BY <2>1, <2>7, TakeEnds
  <2> QED
    BY <2>2, <2>3, <2>4, <2>5, <2>6, <2>7 DEF About
<1> QED
  BY <1>1, <1>2 DEF EndInv
-----------------------------------------------------------------------------
(* Where a destroyed client is used, and what ends an io thread. *)

\* A new use by a handler is one of these steps.
LEMMA NewUse ==
  ASSUME [Next]_vars, NEW m \in misuse', m \notin misuse, m.how \in {"handler", "destroy"}
  PROVE  \E t \in Io :
           \/ /\ ReadStarts(t) \/ WriteStarts(t) \/ DestroyStarts(t)
              /\ m.client = Head(ready).c /\ stage[m.client] = "erased"
           \/ /\ DestroyDisconnect(t) \/ DestroyShutdown(t) \/ DestroySignal(t)
              /\ m.client = thread[t].c /\ stage[m.client] = "erased" /\ m.how = "destroy"
<1>1. CASE EmitCalls
  BY <1>1 DEF EmitCalls, Misused
<1>2. ASSUME NEW t \in Io, ReadStarts(t) \/ WriteStarts(t) \/ DestroyStarts(t)
      PROVE  m.client = Head(ready).c /\ stage[m.client] = "erased"
  <2>1. CASE ReadStarts(t)
    BY <2>1 DEF ReadStarts, Misused
  <2>2. CASE WriteStarts(t)
    BY <2>2 DEF WriteStarts, Misused
  <2>3. CASE DestroyStarts(t)
    BY <2>3 DEF DestroyStarts, Misused
  <2> QED
    BY <1>2, <2>1, <2>2, <2>3
<1>3. ASSUME NEW t \in Io, ReadEmits(t)
      PROVE  FALSE
  BY <1>3 DEF ReadEmits, Misused
<1>4. ASSUME NEW t \in Io, DestroyDisconnect(t)
      PROVE  m.client = thread[t].c /\ stage[m.client] = "erased" /\ m.how = "destroy"
  BY <1>4 DEF DestroyDisconnect, Misused
<1>5. ASSUME NEW t \in Io, DestroyShutdown(t)
      PROVE  m.client = thread[t].c /\ stage[m.client] = "erased" /\ m.how = "destroy"
  BY <1>5 DEF DestroyShutdown, Misused
<1>6. ASSUME NEW t \in Io, DestroySignal(t)
      PROVE  m.client = thread[t].c /\ stage[m.client] = "erased" /\ m.how = "destroy"
  BY <1>6 DEF DestroySignal, Misused
<1>7. ASSUME \/ \E t \in Io : \/ AcceptStarts(t) \/ AcceptEmplace(t) \/ AcceptConnectErase(t)
                              \/ AcceptConnectOutput(t) \/ AcceptKeep(t) \/ AcceptRearm(t)
                              \/ EraseClient(t) \/ IoThreadEnds(t)
             \/ \E c \in Client : \/ PeerConnects(c) \/ PeerEnds(c) \/ AcceptCompletes(c)
                                  \/ ReadCompletes(c) \/ WriteCompletes(c) \/ EmitPicks(c) \/ StopClient(c)
             \/ AcceptFails \/ IoStop \/ StopBegins \/ StopLocks \/ StopEnds \/ UNCHANGED vars
      PROVE  UNCHANGED misuse
  BY <1>7 DEF AcceptStarts, AcceptEmplace, AcceptConnectErase, AcceptConnectOutput, AcceptKeep,
              AcceptRearm, EraseClient, IoThreadEnds, PeerConnects, PeerEnds, AcceptCompletes,
              ReadCompletes, WriteCompletes, EmitPicks, StopClient, AcceptFails, IoStop, StopBegins,
              StopLocks, StopEnds, vars, history
<1> QED
  BY <1>1, <1>2, <1>3, <1>4, <1>5, <1>6, <1>7 DEF Next

LEMMA UsesStep ==
  ASSUME FullInv, EndInv, HandlersOutlivedByWritesOnly, [Next]_vars
  PROVE  HandlersOutlivedByWritesOnly'
<1> SUFFICES ASSUME NEW m \in misuse', m.how \in {"handler", "destroy"}, m.client \notin wrote'
             PROVE  m.how = "destroy" /\ ioStopped'
  BY DEF HandlersOutlivedByWritesOnly
<1>0. m.client \notin wrote
  BY WroteStays
<1>i. ioStopped => ioStopped'
  BY DEF Next, IoStop, AcceptStarts, AcceptEmplace, AcceptConnectErase, AcceptConnectOutput,
         AcceptKeep, AcceptRearm, EraseClient, IoThreadEnds, PeerConnects, PeerEnds, AcceptCompletes,
         ReadCompletes, WriteCompletes, EmitPicks, StopClient, AcceptFails, StopBegins,
         StopLocks, StopEnds, vars, server, ReadStarts, WriteStarts, DestroyStarts, ReadEmits,
         DestroyShutdown, DestroySignal, DestroyDisconnect, EmitCalls
<1>1. CASE m \in misuse
  BY <1>0, <1>1, <1>i DEF HandlersOutlivedByWritesOnly
<1>2. ASSUME NEW t \in Io, ReadStarts(t) \/ WriteStarts(t) \/ DestroyStarts(t),
             m.client = Head(ready).c, stage[m.client] = "erased"
      PROVE  FALSE
  <2>1. /\ Starts(t, {"read", "readError", "write", "writeError"})
        /\ Head(ready).kind \in ReadKinds \cup WriteKinds /\ ~ioStopped
    BY <1>2 DEF ReadStarts, WriteStarts, DestroyStarts, Starts, ReadKinds, WriteKinds
  <2>2. m.client \in Client /\ 1 \in DOMAIN ready /\ ready[1] = Head(ready)
    <3>1. ready # <<>> /\ ready \in Seq(EventSet) /\ OperationsSeen /\ Shape
      BY <2>1 DEF Starts, FullInv, ServerInv, Shape, ReadyOK
    <3>2. 1 \in DOMAIN ready /\ ready[1] = Head(ready)
      BY <3>1, HeadTail
    <3>3. Head(ready).c \in Client
      BY <2>1, <3>1, HeadTail DEF EventSet, ReadKinds, WriteKinds
    <3> QED
      BY <1>2, <3>2, <3>3
  <2>3. Unwritten(m.client) /\ Over(m.client)
    BY <1>0, <1>2, <2>1, <2>2 DEF EndInv, EndsOnce
  <2> QED
    BY <1>2, <2>1, <2>2, <2>3 DEF Unwritten, Over, NoneIn
<1>3. ASSUME NEW t \in Io, DestroyDisconnect(t) \/ DestroyShutdown(t) \/ DestroySignal(t),
             m.client = thread[t].c, stage[m.client] = "erased"
      PROVE  ioStopped
  <2>1. Destroys(t, m.client) /\ m.client \in Client
    BY <1>3 DEF DestroyDisconnect, DestroyShutdown, DestroySignal, At, Destroys, FullInv, ServerInv, Shape,
                ThreadOK, Doing, NoClient
  <2> QED
    BY <1>0, <1>3, <2>1 DEF EndInv, EndsOnce
<1> QED
  BY <1>1, <1>2, <1>3, <1>i, NewUse

LEMMA CrashStep ==
  ASSUME FullInv, EndInv, CrashNeedsResetOrWrite, [Next]_vars
  PROVE  CrashNeedsResetOrWrite'
<1> SUFFICES ASSUME NEW t \in Io, thread'[t].pc = "crashed", thread'[t].c \notin wrote'
             PROVE  peer'[thread'[t].c] = "reset"
  BY DEF CrashNeedsResetOrWrite, At
<1>r. \A c \in Client : peer[c] = "reset" => peer'[c] = "reset"
  <2>1. peer \in [Client -> {"away", "up", "left", "reset"}]
    BY DEF FullInv, RestTypes, PeerTypes
  <2>2. ASSUME NEW d \in Client, PeerConnects(d) \/ PeerEnds(d)
        PROVE  \A c \in Client : peer[c] = "reset" => peer'[c] = "reset"
    BY <2>1, <2>2 DEF PeerConnects, PeerEnds
  <2>3. ASSUME \A d \in Client : ~PeerConnects(d) /\ ~PeerEnds(d)
        PROVE  UNCHANGED peer
    BY <2>3 DEF Next, IoStop, AcceptStarts, AcceptEmplace, AcceptConnectErase, AcceptConnectOutput,
         AcceptKeep, AcceptRearm, EraseClient, IoThreadEnds, AcceptCompletes,
         ReadCompletes, WriteCompletes, EmitPicks, StopClient, AcceptFails, StopBegins,
         StopLocks, StopEnds, vars, ReadStarts, WriteStarts, DestroyStarts, ReadEmits,
         DestroyShutdown, DestroySignal, DestroyDisconnect, EmitCalls
  <2> QED
    BY <2>2, <2>3
<1>0. ThreadOK /\ ready \in Seq(EventSet)
  BY DEF FullInv, ServerInv, Shape, ReadyOK
<1>1. PICK c \in Client : c = thread'[t].c
  <2>1. thread'[t] \in Doing
    BY FullStep DEF FullInv, ServerInv, Shape, ThreadOK
  <2> QED
    BY <2>1 DEF Doing, NoClient
<1>2. c \notin wrote /\ EndsOnce(c) /\ Crashed(t, c)'
  BY <1>1, WroteStays DEF EndInv, Crashed
<1>3. ASSUME Crashed(t, c)
      PROVE  peer[c] = "reset"
  BY <1>2, <1>3 DEF CrashNeedsResetOrWrite, At, Crashed
<1>4. ASSUME NEW u \in Io, DestroyShutdown(u), thread[u].c = c, ~Crashed(t, c)
      PROVE  peer[c] = "reset"
  <2>1. u = t /\ stage[c] # "erased" /\ Throws(c)
    <3>1. /\ stage[c] = "erased" => Rests(u)
          /\ stage[c] # "erased" /\ ~Throws(c) => Goes(u, "signal")
      BY <1>4 DEF DestroyShutdown
    <3>2. Idle.pc = "idle"
      BY DEF Idle
    <3>3. u = t
      BY <1>0, <1>1, <1>2, <1>4, AfterStep DEF DestroyShutdown, Crashed, Rests, Goes, ThreadOK
    <3> QED
      BY <1>0, <1>2, <1>4, <3>1, <3>2, <3>3, AfterStep DEF Crashed
  <2>2. Destroys(t, c) /\ ~Late(t)
    BY <1>4, <2>1 DEF DestroyShutdown, At, Destroys, Late
  <2>3. socket[c] # "closed"
    BY <1>2, <2>1, <2>2 DEF EndsOnce
  <2> QED
    BY <2>1, <2>3 DEF Throws
<1>5. ASSUME About(c), ~Crashed(t, c)
      PROVE  \E u \in Io : DestroyShutdown(u) /\ thread[u].c = c
  <2>1. CASE ReadCompletes(c) \/ StopClient(c)
    BY <1>2, <1>5, <2>1 DEF ReadCompletes, StopClient, Crashed
  <2>2. ASSUME NEW u \in Io, AcceptEmplace(u) \/ EraseClient(u)
        PROVE  FALSE
    <3>1. Goes(u, "connectErase") \/ Rests(u)
      BY <2>2 DEF AcceptEmplace, EraseClient
    <3> QED
      BY <1>0, <1>2, <1>5, <3>1, AfterStep DEF Crashed, Idle
  <2>3. ASSUME NEW u \in Io, ReadStarts(u) \/ DestroyStarts(u)
        PROVE  FALSE
    <3>1. UNCHANGED thread \/ \E p \in {"emit", "disconnect"} :
             thread' = [thread EXCEPT ![u] = [pc |-> p, c |-> Head(ready).c]]
      BY <2>3 DEF ReadStarts, DestroyStarts
    <3> QED
      BY <1>0, <1>2, <1>5, <3>1 DEF Crashed, ThreadOK
  <2> QED
    BY <1>5, <2>1, <2>2, <2>3 DEF About
<1>6. ASSUME ~About(c)
      PROVE  Crashed(t, c)
  BY <1>2, <1>6, ElsewhereSteps DEF Elsewhere, ThreadsAlike
<1> QED
  BY <1>1, <1>3, <1>4, <1>5, <1>6, <1>r

-----------------------------------------------------------------------------
(* Why a client is destroyed, and by whom. *)

ErrorKinds == {"readError", "writeError"}
Destroying == {"disconnect", "shutdown", "signal", "erase", "crashed"}

\* The peer has ended, or Stop was first.
Gone(c) == peer[c] \in {"left", "reset"} \/ destroyer[c] = "stop"

\* Whoever fails, destroys or has destroyed a client has that cause; a client has a
\* destroyer once it is erased, who is no thread that is still at work for it.
CauseInv ==
  /\ \A i \in DOMAIN ready : ready[i].kind \in ErrorKinds => Gone(ready[i].c)
  /\ \A t \in Io : thread[t].pc \in Destroying => Gone(thread[t].c)
  /\ \A c \in Client : socket[c] = "closed" \/ stage[c] = "erased" => Gone(c)
  /\ \A c \in Client : destroyer[c] # "none" => stage[c] = "erased"
  /\ \A t \in Io : thread[t].pc \in AtWork => destroyer[thread[t].c] # t

\* A destroyed client stays destroyed, and its cause stays.
LEMMA CauseStays ==
  ASSUME FullInv, CauseInv, [Next]_vars, NEW c \in Client
  PROVE  /\ stage[c] = "erased" => stage'[c] = "erased" /\ destroyer'[c] = destroyer[c]
         /\ Gone(c) => Gone(c)'
<1>0. /\ stage \in [Client -> Stages] /\ destroyer \in [Client -> Io \cup {"none", "stop"}]
      /\ peer \in [Client -> {"away", "up", "left", "reset"}]
      /\ \A t \in Io : Makes(t) => ~Seen(thread[t].c)
      /\ \A t \in Io : Builds(t) => thread[t].c \in Client /\ stage[thread[t].c] # "erased"
  BY DEF FullInv, ServerInv, BuildInv, StagesOK, BuiltAsFar, RestTypes, NoteTypes, PeerTypes, ComesOnce,
         Builds, Shape, ThreadOK, Doing, NoClient
<1>1. ASSUME NEW d \in Client, PeerConnects(d) \/ PeerEnds(d)
      PROVE  UNCHANGED <<stage, destroyer>> /\ (Gone(c) => Gone(c)')
  BY <1>0, <1>1 DEF PeerConnects, PeerEnds, object, history, Gone
<1>2. ASSUME NEW d \in Client, StopClient(d)
      PROVE  /\ stage[c] = "erased" => stage'[c] = "erased" /\ destroyer'[c] = destroyer[c]
             /\ Gone(c) => Gone(c)'
  <2>1. /\ stage[d] # "erased" /\ UNCHANGED peer
        /\ \/ UNCHANGED <<stage, destroyer>>
           \/ /\ stage' = [stage EXCEPT ![d] = "erased"]
              /\ destroyer' = [destroyer EXCEPT ![d] = "stop"]
    BY <1>2 DEF StopClient, Known
  <2> QED
    BY <1>0, <2>1 DEF Gone
<1>3. ASSUME NEW t \in Io, EraseClient(t)
      PROVE  /\ stage[c] = "erased" => stage'[c] = "erased" /\ destroyer'[c] = destroyer[c]
             /\ Gone(c) => Gone(c)'
  <2>1. /\ stage' = [stage EXCEPT ![thread[t].c] = "erased"] /\ UNCHANGED peer
        /\ destroyer' = [destroyer EXCEPT ![thread[t].c] =
                           IF stage[thread[t].c] = "erased" THEN @ ELSE t]
    BY <1>3 DEF EraseClient
  <2>2. stage[c] = "erased" => stage'[c] = "erased" /\ destroyer'[c] = destroyer[c]
    BY <1>0, <2>1
  <2>3. destroyer[c] = "stop" => stage[c] = "erased"
    BY DEF CauseInv
  <2> QED
    BY <2>1, <2>2, <2>3 DEF Gone
<1>4. ASSUME NEW t \in Io,
             \/ AcceptEmplace(t) \/ AcceptConnectErase(t) \/ AcceptConnectOutput(t) \/ AcceptKeep(t)
      PROVE  UNCHANGED <<peer, destroyer>> /\ (stage[c] = "erased" => stage'[c] = "erased")
  <2>1. UNCHANGED <<peer, destroyer>>
    BY <1>4 DEF AcceptEmplace, AcceptConnectErase, AcceptConnectOutput, AcceptKeep, history
  <2>2. stage[thread[t].c] # "erased"
    BY <1>0, <1>4 DEF AcceptEmplace, AcceptConnectErase, AcceptConnectOutput, AcceptKeep, At, Builds,
                      Makes, Seen
  <2>3. \E p : stage' = [stage EXCEPT ![thread[t].c] = p]
    BY <1>4 DEF AcceptEmplace, AcceptConnectErase, AcceptConnectOutput, AcceptKeep
  <2> QED
    BY <1>0, <2>1, <2>2, <2>3
<1>5. ASSUME \/ \E t \in Io : \/ AcceptStarts(t) \/ ReadStarts(t) \/ WriteStarts(t) \/ DestroyStarts(t)
                              \/ AcceptRearm(t) \/ ReadEmits(t) \/ DestroyDisconnect(t)
                              \/ DestroyShutdown(t) \/ DestroySignal(t) \/ IoThreadEnds(t)
             \/ \E d \in Client : AcceptCompletes(d) \/ ReadCompletes(d) \/ WriteCompletes(d) \/ EmitPicks(d)
             \/ AcceptFails \/ EmitCalls \/ IoStop \/ StopBegins \/ StopLocks \/ StopEnds \/ UNCHANGED vars
      PROVE  UNCHANGED <<stage, destroyer, peer>>
  BY <1>5 DEF AcceptStarts, ReadStarts, WriteStarts, DestroyStarts, AcceptRearm, ReadEmits,
              DestroyDisconnect, DestroyShutdown, DestroySignal, IoThreadEnds, AcceptCompletes,
              ReadCompletes, WriteCompletes, EmitPicks, AcceptFails, EmitCalls, IoStop, StopBegins,
              StopLocks, StopEnds, vars, object, history
<1>6. UNCHANGED <<stage, destroyer, peer>> =>
        /\ stage[c] = "erased" => stage'[c] = "erased" /\ destroyer'[c] = destroyer[c]
        /\ Gone(c) => Gone(c)'
  BY DEF Gone
<1>7. UNCHANGED <<peer, destroyer>> => (Gone(c) => Gone(c)')
  BY DEF Gone
<1> QED
  BY <1>1, <1>2, <1>3, <1>4, <1>5, <1>6, <1>7 DEF Next

\* A failed operation that enters the queue has its cause.
LEMMA FailsForCause ==
  ASSUME FullInv, CauseInv, [Next]_vars, NEW i \in DOMAIN ready', ready'[i].kind \in ErrorKinds
  PROVE  ready'[i].c \in Client /\ Gone(ready'[i].c)
<1> DEFINE Old == \E j \in DOMAIN ready : ready'[i] = ready[j]
<1>0. ready \in Seq(EventSet) /\ peer \in [Client -> {"away", "up", "left", "reset"}]
  BY DEF FullInv, ServerInv, Shape, ReadyOK, RestTypes, PeerTypes
<1>1. CASE Old
  <2>1. PICK j \in DOMAIN ready : ready'[i] = ready[j]
    BY <1>1
  <2>2. ready[j] \in EventSet
    BY <1>0, ElementIs
  <2> QED
    BY <2>1, <2>2 DEF CauseInv, EventSet, ErrorKinds
<1>2. ASSUME NEW c \in Client, ReadCompletes(c) \/ WriteCompletes(c)
      PROVE  Old \/ (ready'[i].c = c /\ Gone(c))
  <2>1. PICK k \in Kinds : ready' = Append(ready, Event(k, c)) /\ (k \in ErrorKinds => Gone(c))
    BY <1>2 DEF ReadCompletes, WriteCompletes, Kinds, ErrorKinds, Gone, CauseInv
  <2>2. Event(k, c) \in EventSet /\ Event(k, c).c = c /\ Event(k, c).kind = k
    BY DEF Event, EventSet
  <2> QED
    BY <1>0, <2>1, <2>2, AppendIndex
<1>3. ASSUME NEW e \in EventSet, ready' = Append(ready, e), e.kind \in AcceptKinds
      PROVE  Old
  BY <1>0, <1>3, AppendIndex DEF AcceptKinds, ErrorKinds
<1>4. ASSUME NEW c \in Client, AcceptCompletes(c)
      PROVE  Old
  <2>1. Event("accept", c) \in EventSet /\ Event("accept", c).kind \in AcceptKinds
    BY DEF Event, EventSet, Kinds, AcceptKinds
  <2> QED
    BY <1>3, <1>4, <2>1 DEF AcceptCompletes
<1>5. CASE AcceptFails
  <2>1. Event("acceptError", "none") \in EventSet /\ Event("acceptError", "none").kind \in AcceptKinds
    BY DEF Event, EventSet, Kinds, AcceptKinds
  <2> QED
    BY <1>1, <1>3, <1>5, <2>1 DEF AcceptFails
<1>6. ASSUME NEW t \in Io, AcceptStarts(t) \/ ReadStarts(t) \/ WriteStarts(t) \/ DestroyStarts(t)
      PROVE  Old
  <2>1. ready # <<>> /\ ready' = Tail(ready)
    BY <1>6 DEF AcceptStarts, ReadStarts, WriteStarts, DestroyStarts, Starts
  <2> QED
    BY <1>0, <2>1, TailIndex
<1>7. UNCHANGED ready => Old
  OBVIOUS
<1>8. ASSUME \/ \E t \in Io : \/ AcceptEmplace(t) \/ AcceptConnectErase(t) \/ AcceptConnectOutput(t)
                              \/ AcceptKeep(t) \/ AcceptRearm(t) \/ ReadEmits(t) \/ DestroyDisconnect(t)
                              \/ DestroyShutdown(t) \/ DestroySignal(t) \/ EraseClient(t) \/ IoThreadEnds(t)
             \/ \E d \in Client : PeerConnects(d) \/ PeerEnds(d) \/ EmitPicks(d) \/ StopClient(d)
             \/ EmitCalls \/ IoStop \/ StopBegins \/ StopLocks \/ StopEnds \/ UNCHANGED vars
      PROVE  UNCHANGED ready
  BY <1>8 DEF AcceptEmplace, AcceptConnectErase, AcceptConnectOutput, AcceptKeep, AcceptRearm, ReadEmits,
              DestroyDisconnect, DestroyShutdown, DestroySignal, EraseClient, IoThreadEnds, PeerConnects,
              PeerEnds, EmitPicks, StopClient, EmitCalls, IoStop, StopBegins, StopLocks, StopEnds,
              vars, asio
<1> QED
  BY <1>1, <1>2, <1>4, <1>5, <1>6, <1>7, <1>8 DEF Next

\* A thread at work for a client was so before, or has just begun, with a client that
\* is there, and to destroy it only upon a failed operation.
LEMMA Begins ==
  ASSUME FullInv, [Next]_vars, NEW t \in Io, thread'[t].pc \in AtWork
  PROVE  /\ thread'[t].c \in Client /\ ~EraseClient(t)
         /\ \/ /\ thread[t].pc \in AtWork /\ thread'[t].c = thread[t].c
               /\ thread'[t].pc \in Destroying => thread[t].pc \in Destroying
            \/ /\ stage'[thread'[t].c] # "erased" /\ UNCHANGED destroyer
               /\ thread'[t].pc \in Destroying =>
                    \E i \in DOMAIN ready : ready[i].kind \in ErrorKinds /\ ready[i].c = thread'[t].c
<1> USE DEF AtWork, Destroying
<1>0. ThreadOK /\ ready \in Seq(EventSet) /\ Idle.pc = "idle" /\ Shape /\ OperationsSeen
  BY DEF FullInv, ServerInv, Shape, ReadyOK, Idle
<1>a. \A u \in Io : /\ \A p : Goes(u, p) => /\ thread'[u].pc = p /\ thread'[u].c = thread[u].c
                                            /\ \A v \in Io \ {u} : thread'[v] = thread[v]
                    /\ Rests(u) => /\ thread'[u] = Idle
                                   /\ \A v \in Io \ {u} : thread'[v] = thread[v]
  BY <1>0, AfterStep
<1>b. thread'[t].c \in Client
  <2>1. thread'[t] \in Doing
    BY FullStep DEF FullInv, ServerInv, Shape, ThreadOK
  <2> QED
    BY <2>1 DEF Doing, NoClient
<1>c. ~EraseClient(t)
  BY <1>0, <1>a DEF EraseClient
<1> DEFINE Was == /\ thread[t].pc \in AtWork /\ thread'[t].c = thread[t].c
                  /\ thread'[t].pc \in Destroying => thread[t].pc \in Destroying
           Begun == /\ stage'[thread'[t].c] # "erased" /\ UNCHANGED destroyer
                    /\ thread'[t].pc \in Destroying =>
                         \E i \in DOMAIN ready : ready[i].kind \in ErrorKinds /\ ready[i].c = thread'[t].c
<1>1. thread'[t] = thread[t] => Was
  OBVIOUS
<1>2. ASSUME NEW u \in Io, AcceptStarts(u)
      PROVE  Was
  <2>1. \E p \in {"emplace", "rearm"} : \E c : thread' = [thread EXCEPT ![u] = [pc |-> p, c |-> c]]
    BY <1>2 DEF AcceptStarts
  <2> QED
    BY <1>0, <2>1 DEF ThreadOK
<1>3. ASSUME NEW u \in Io, ReadStarts(u) \/ DestroyStarts(u)
      PROVE  Was \/ Begun
  <2>1. CASE thread'[t] = thread[t]
    BY <1>1, <2>1
  <2>2. CASE thread'[t] # thread[t]
    <3>1. /\ u = t /\ stage[Head(ready).c] # "erased" /\ UNCHANGED <<stage, destroyer>>
          /\ \E p \in {"emit", "disconnect"} :
               /\ thread' = [thread EXCEPT ![t] = [pc |-> p, c |-> Head(ready).c]]
               /\ p # "emit" => Head(ready).kind \in ErrorKinds
      <4>1. CASE ReadStarts(u)
        BY <1>0, <2>2, <4>1 DEF ReadStarts, object, ThreadOK
      <4>2. CASE DestroyStarts(u)
        BY <1>0, <2>2, <4>2 DEF DestroyStarts, Starts, object, ThreadOK, ErrorKinds
      <4> QED
        BY <1>3, <4>1, <4>2
    <3>2. thread'[t].c = Head(ready).c /\ (thread'[t].pc # "emit" => Head(ready).kind \in ErrorKinds)
      BY <1>0, <3>1 DEF ThreadOK
    <3>3. 1 \in DOMAIN ready /\ ready[1] = Head(ready)
      BY <1>0, <1>3, HeadTail DEF ReadStarts, DestroyStarts, Starts
    <3> QED
      BY <3>1, <3>2, <3>3
  <2> QED
    BY <2>1, <2>2
<1>4. ASSUME NEW u \in Io,
             \/ AcceptEmplace(u) \/ AcceptConnectErase(u) \/ AcceptConnectOutput(u) \/ AcceptKeep(u)
             \/ AcceptRearm(u) \/ ReadEmits(u) \/ EraseClient(u) \/ IoThreadEnds(u)
      PROVE  Was
  <2>1. Rests(u) \/ \E p \in {"connectErase", "connectOutput", "keep", "rearm", "ended"} : Goes(u, p)
    BY <1>4 DEF AcceptEmplace, AcceptConnectErase, AcceptConnectOutput, AcceptKeep, AfterKeep, AcceptRearm,
                ReadEmits, EraseClient, IoThreadEnds
  <2> QED
    BY <1>0, <1>1, <1>a, <2>1
<1>5. ASSUME NEW u \in Io, DestroyDisconnect(u) \/ DestroyShutdown(u) \/ DestroySignal(u)
      PROVE  Was
  <2>1. /\ Rests(u) \/ \E p \in {"shutdown", "signal", "erase", "crashed"} : Goes(u, p)
        /\ thread[u].pc \in Destroying
    <3>1. CASE DestroyDisconnect(u)
      BY <3>1 DEF DestroyDisconnect, At
    <3>2. CASE DestroyShutdown(u)
      BY <3>2 DEF DestroyShutdown, At
    <3>3. CASE DestroySignal(u)
      BY <3>3 DEF DestroySignal, At
    <3> QED
      BY <1>5, <3>1, <3>2, <3>3
  <2> QED
    BY <1>0, <1>1, <1>a, <2>1
<1>6. ASSUME \/ \E u \in Io : WriteStarts(u)
             \/ \E d \in Client : \/ PeerConnects(d) \/ PeerEnds(d) \/ AcceptCompletes(d) \/ ReadCompletes(d)
                                  \/ WriteCompletes(d) \/ EmitPicks(d) \/ StopClient(d)
             \/ AcceptFails \/ EmitCalls \/ IoStop \/ StopBegins \/ StopLocks \/ StopEnds \/ UNCHANGED vars
      PROVE  Was
  <2>1. UNCHANGED thread
    BY <1>6 DEF WriteStarts, PeerConnects, PeerEnds, AcceptCompletes, ReadCompletes, WriteCompletes, EmitPicks,
         StopClient, AcceptFails, EmitCalls, IoStop, StopBegins, StopLocks, StopEnds, vars
  <2> QED
    BY <1>1, <2>1
<1>7. Was \/ Begun
  BY <1>2, <1>3, <1>4, <1>5, <1>6 DEF Next
<1> QED
  BY <1>b, <1>c, <1>7

\* The steps that close a socket or destroy a client, and by whom.
LEMMA WhoDestroys ==
  ASSUME FullInv, [Next]_vars, NEW c \in Client
  PROVE  /\ \/ UNCHANGED <<stage[c], socket[c]>>
            \/ stage'[c] # "erased" /\ UNCHANGED socket[c]
            \/ \E t \in Io : thread[t].pc \in Destroying /\ thread[t].c = c
            \/ StopClient(c) /\ stage'[c] = "erased" /\ destroyer'[c] = "stop"
         /\ \/ UNCHANGED destroyer[c]
            \/ stage'[c] = "erased" /\ destroyer'[c] = "stop"
            \/ stage'[c] = "erased" /\ \E t \in Io : EraseClient(t) /\ destroyer'[c] = t
<1> USE DEF Destroying
<1>0. /\ stage \in [Client -> Stages] /\ destroyer \in [Client -> Io \cup {"none", "stop"}]
      /\ socket \in [Client -> {"open", "closed"}]
  BY DEF FullInv, ServerInv, BuildInv, StagesOK, RestTypes, NoteTypes, PeerTypes
<1>1. ASSUME NEW t \in Io, EraseClient(t)
      PROVE  /\ UNCHANGED <<stage[c], socket[c]>> \/ (thread[t].pc \in Destroying /\ thread[t].c = c)
             /\ UNCHANGED destroyer[c] \/ (stage'[c] = "erased" /\ destroyer'[c] = t)
  <2>1. /\ stage' = [stage EXCEPT ![thread[t].c] = "erased"] /\ UNCHANGED socket
        /\ destroyer' = [destroyer EXCEPT ![thread[t].c] =
                           IF stage[thread[t].c] = "erased" THEN @ ELSE t]
        /\ thread[t].pc = "erase"
    BY <1>1 DEF EraseClient, At
  <2> QED
    BY <1>0, <2>1
<1>2. ASSUME NEW d \in Client, StopClient(d)
      PROVE  /\ UNCHANGED <<stage[c], socket[c]>>
                \/ (StopClient(c) /\ stage'[c] = "erased" /\ destroyer'[c] = "stop")
             /\ UNCHANGED destroyer[c] \/ (stage'[c] = "erased" /\ destroyer'[c] = "stop")
  <2>1. \/ UNCHANGED <<stage, destroyer, socket>>
        \/ /\ stage' = [stage EXCEPT ![d] = "erased"] /\ socket' = [socket EXCEPT ![d] = "closed"]
           /\ destroyer' = [destroyer EXCEPT ![d] = "stop"]
    BY <1>2 DEF StopClient
  <2> QED
    BY <1>0, <1>2, <2>1
<1>3. ASSUME NEW t \in Io,
             \/ AcceptEmplace(t) \/ AcceptConnectErase(t) \/ AcceptConnectOutput(t) \/ AcceptKeep(t)
      PROVE  UNCHANGED <<socket, destroyer>> /\ (UNCHANGED stage[c] \/ stage'[c] # "erased")
  <2>1. UNCHANGED <<socket, destroyer>>
    BY <1>3 DEF AcceptEmplace, AcceptConnectErase, AcceptConnectOutput, AcceptKeep, history
  <2>2. \E p \in Stages \ {"erased"} : stage' = [stage EXCEPT ![thread[t].c] = p]
    BY <1>3 DEF AcceptEmplace, AcceptConnectErase, AcceptConnectOutput, AcceptKeep, Stages
  <2> QED
    BY <1>0, <2>1, <2>2
<1>4. ASSUME NEW t \in Io, DestroyShutdown(t)
      PROVE  /\ UNCHANGED destroyer
             /\ UNCHANGED <<stage[c], socket[c]>> \/ (thread[t].pc \in Destroying /\ thread[t].c = c)
  <2>1. /\ UNCHANGED <<stage, destroyer>> /\ thread[t].pc = "shutdown"
        /\ UNCHANGED socket \/ socket' = [socket EXCEPT ![thread[t].c] = "closed"]
    BY <1>4 DEF DestroyShutdown, At
  <2> QED
    BY <1>0, <2>1
<1>5. ASSUME \/ \E t \in Io : \/ AcceptStarts(t) \/ ReadStarts(t) \/ WriteStarts(t) \/ DestroyStarts(t)
                              \/ AcceptRearm(t) \/ ReadEmits(t) \/ DestroyDisconnect(t)
                              \/ DestroySignal(t) \/ IoThreadEnds(t)
             \/ \E d \in Client : \/ PeerConnects(d) \/ PeerEnds(d) \/ AcceptCompletes(d)
                                  \/ ReadCompletes(d) \/ WriteCompletes(d) \/ EmitPicks(d)
             \/ AcceptFails \/ EmitCalls \/ IoStop \/ StopBegins \/ StopLocks \/ StopEnds \/ UNCHANGED vars
      PROVE  UNCHANGED <<stage, destroyer, socket>>
  BY <1>5 DEF AcceptStarts, ReadStarts, WriteStarts, DestroyStarts, AcceptRearm, ReadEmits,
              DestroyDisconnect, DestroySignal, IoThreadEnds, PeerConnects, PeerEnds, AcceptCompletes,
              ReadCompletes, WriteCompletes, EmitPicks, AcceptFails, EmitCalls, IoStop, StopBegins,
              StopLocks, StopEnds, vars, object, history
<1> QED
  BY <1>1, <1>2, <1>3, <1>4, <1>5 DEF Next

LEMMA CauseStep ==
  ASSUME FullInv, CauseInv, [Next]_vars
  PROVE  CauseInv'
<1>0. \A c \in Client : Gone(c) => Gone(c)'
  BY CauseStays
<1>a. \A t \in Io : thread[t].pc \in Destroying => thread[t].c \in Client /\ Gone(thread[t].c)
  BY DEF CauseInv, FullInv, ServerInv, Shape, ThreadOK, Doing, NoClient, Destroying
<1>b. \A c \in Client : destroyer'[c] # "none" => stage'[c] = "erased"
  BY WhoDestroys, CauseStays DEF CauseInv
<1>1. ASSUME NEW i \in DOMAIN ready', ready'[i].kind \in ErrorKinds
      PROVE  Gone(ready[i].c)'
  <2>1. PICK c \in Client : c = ready'[i].c /\ Gone(c)
    BY <1>1, FailsForCause
  <2> QED
    BY <1>0, <2>1 DEF Gone
<1>2. ASSUME NEW t \in Io, thread'[t].pc \in Destroying
      PROVE  Gone(thread[t].c)'
  <2>1. PICK c \in Client : c = thread'[t].c
    BY <1>2, Begins DEF AtWork, Destroying
  <2>2. Gone(c)
    BY <1>2, <1>a, <2>1, Begins DEF AtWork, Destroying, CauseInv
  <2> QED
    BY <1>0, <2>1, <2>2 DEF Gone
<1>3. ASSUME NEW c \in Client, socket'[c] = "closed" \/ stage'[c] = "erased"
      PROVE  Gone(c)'
  <2>1. CASE Gone(c)
    BY <1>0, <2>1
  <2>2. CASE destroyer'[c] = "stop"
    BY <2>2 DEF Gone
  <2> QED
    BY <1>3, <1>a, <2>1, <2>2, WhoDestroys DEF CauseInv
<1>4. ASSUME NEW t \in Io, thread'[t].pc \in AtWork
      PROVE  destroyer'[thread'[t].c] # t
  <2>1. PICK c \in Client : c = thread'[t].c
    BY <1>4, Begins
  <2>2. t \notin {"none", "stop"}
    BY ServerAssumption DEF ServerAssumption
  <2>3. destroyer[c] # t
    BY <1>4, <1>b, <2>1, <2>2, Begins DEF CauseInv
  <2>4. ~EraseClient(t)
    BY <1>4, Begins
  <2>5. ASSUME NEW u \in Io, EraseClient(u), destroyer'[c] = u
        PROVE  u # t
    BY <2>4, <2>5
  <2> QED
    BY <2>1, <2>2, <2>3, <2>5, WhoDestroys
<1> QED
  BY <1>1, <1>2, <1>3, <1>4, <1>b DEF CauseInv

\* Every note of a misuse is about a client that is gone for good.
MisuseInv ==
  \A m \in misuse : /\ m.client \in Client /\ stage[m.client] = "erased"
                    /\ m.how \in {"emit", "destroy"} => destroyer[m.client] # m.by

LEMMA MisuseStep ==
  ASSUME FullInv, CauseInv, MisuseInv, [Next]_vars
  PROVE  MisuseInv'
<1> SUFFICES ASSUME NEW m \in misuse'
             PROVE  /\ m.client \in Client /\ stage'[m.client] = "erased"
                    /\ m.how \in {"emit", "destroy"} => destroyer'[m.client] # m.by
  BY DEF MisuseInv
<1>1. CASE m \in misuse
  BY <1>1, CauseStays DEF MisuseInv
<1>0. Shape /\ OperationsSeen
  BY DEF FullInv, ServerInv
<1>2. ASSUME m.client \in Client, stage[m.client] = "erased",
             m.how \in {"emit", "destroy"} =>
               \E t \in Io : m.by = t /\ thread[t].pc \in AtWork /\ thread[t].c = m.client
      PROVE  /\ m.client \in Client /\ stage'[m.client] = "erased"
             /\ m.how \in {"emit", "destroy"} => destroyer'[m.client] # m.by
  <2>1. stage'[m.client] = "erased" /\ destroyer'[m.client] = destroyer[m.client]
    BY <1>2, CauseStays
  <2> QED
    BY <1>2, <2>1 DEF CauseInv
<1>3. ASSUME m \notin misuse, NEW t \in Io, ReadStarts(t) \/ WriteStarts(t) \/ DestroyStarts(t)
      PROVE  m.client \in Client /\ stage[m.client] = "erased" /\ m.how = "handler"
  <2>1. Head(ready).c \in Client
    BY <1>0, <1>3, Started DEF ReadStarts, WriteStarts, DestroyStarts, Kinds, AcceptKinds
  <2>2. CASE ReadStarts(t)
    BY <1>3, <2>1, <2>2 DEF ReadStarts, Misused
  <2>3. CASE WriteStarts(t)
    BY <1>3, <2>1, <2>3 DEF WriteStarts, Misused
  <2>4. CASE DestroyStarts(t)
    BY <1>3, <2>1, <2>4 DEF DestroyStarts, Misused
  <2> QED
    BY <1>3, <2>2, <2>3, <2>4
<1>4. ASSUME m \notin misuse, NEW t \in Io,
             ReadEmits(t) \/ DestroyDisconnect(t) \/ DestroyShutdown(t) \/ DestroySignal(t)
      PROVE  /\ m.client \in Client /\ stage[m.client] = "erased"
             /\ m.by = t /\ thread[t].pc \in AtWork /\ thread[t].c = m.client
  <2>1. thread[t].pc \in AtWork
    BY <1>4 DEF ReadEmits, DestroyDisconnect, DestroyShutdown, DestroySignal, At, AtWork
  <2>2. thread[t].c \in Client
    BY <1>0, <2>1 DEF Shape, ThreadOK, Doing, NoClient, AtWork
  <2>3. m.client = thread[t].c /\ m.by = t /\ stage[m.client] = "erased"
    <3>1. CASE ReadEmits(t)
      BY <1>4, <3>1 DEF ReadEmits, Misused
    <3>2. CASE DestroyDisconnect(t)
      BY <1>4, <3>2 DEF DestroyDisconnect, Misused
    <3>3. CASE DestroyShutdown(t)
      BY <1>4, <3>3 DEF DestroyShutdown, Misused
    <3>4. CASE DestroySignal(t)
      BY <1>4, <3>4 DEF DestroySignal, Misused
    <3> QED
      BY <1>4, <3>1, <3>2, <3>3, <3>4
  <2> QED
    BY <2>1, <2>2, <2>3
<1>5. ASSUME m \notin misuse, EmitCalls
      PROVE  m.client \in Client /\ stage[m.client] = "erased" /\ m.how \in {"slot", "call"}
  <2>1. sender \in Client
    BY <1>0, <1>5 DEF EmitCalls, OperationsSeen
  <2> QED
    BY <1>5, <2>1 DEF EmitCalls, Misused
<1>6. ASSUME \/ \E t \in Io : \/ AcceptStarts(t) \/ AcceptEmplace(t) \/ AcceptConnectErase(t)
                              \/ AcceptConnectOutput(t) \/ AcceptKeep(t) \/ AcceptRearm(t)
                              \/ EraseClient(t) \/ IoThreadEnds(t)
             \/ \E c \in Client : \/ PeerConnects(c) \/ PeerEnds(c) \/ AcceptCompletes(c)
                                  \/ ReadCompletes(c) \/ WriteCompletes(c) \/ EmitPicks(c) \/ StopClient(c)
             \/ AcceptFails \/ IoStop \/ StopBegins \/ StopLocks \/ StopEnds \/ UNCHANGED vars
      PROVE  m \in misuse
  BY <1>6 DEF AcceptStarts, AcceptEmplace, AcceptConnectErase, AcceptConnectOutput, AcceptKeep,
              AcceptRearm, EraseClient, IoThreadEnds, PeerConnects, PeerEnds, AcceptCompletes,
              ReadCompletes, WriteCompletes, EmitPicks, StopClient, AcceptFails, IoStop, StopBegins,
              StopLocks, StopEnds, vars, history
<1> QED
  BY <1>1, <1>2, <1>3, <1>4, <1>5, <1>6 DEF Next
-----------------------------------------------------------------------------
(* The two theorems. *)

HarmInv == /\ FullInv /\ EndInv /\ CauseInv /\ MisuseInv
           /\ HandlersOutlivedByWritesOnly /\ CrashNeedsResetOrWrite

LEMMA HarmAlways == Spec => []HarmInv
<1>1. Init => HarmInv
  <2> SUFFICES ASSUME Init
               PROVE  /\ EndInv /\ HandlersOutlivedByWritesOnly /\ CrashNeedsResetOrWrite
                      /\ CauseInv /\ MisuseInv
    BY FullInit DEF HarmInv
  <2>1. \A c \in Client : Unwritten(c) /\ EndsOnce(c)
    BY DEF Init, Idle, Unwritten, EndsOnce, Over, NoneIn, OneIn, Ends, Destroys, Crashed, Late
  <2>2. life = "up"
    BY DEF Init
  <2>3. HandlersOutlivedByWritesOnly /\ CrashNeedsResetOrWrite
    BY DEF Init, Idle, HandlersOutlivedByWritesOnly, CrashNeedsResetOrWrite, At
  <2>4. CauseInv /\ MisuseInv
    BY DEF Init, Idle, CauseInv, MisuseInv, Destroying, AtWork
  <2> QED
    BY <2>1, <2>2, <2>3, <2>4 DEF EndInv
<1>2. HarmInv /\ [Next]_vars => HarmInv'
  BY FullStep, EndStep, UsesStep, CrashStep, CauseStep, MisuseStep DEF HarmInv
<1> QED
  BY <1>1, <1>2, PTL DEF Spec

\* Every use of a destroyed client has its race: its peer had ended or Stop destroyed it,
\* and an io thread that emits its chunk or destroys it too was overtaken by another; a
\* stale slot needs an end before it was kept, a handler a write or Stop; and only a write
\* or a reset makes shutdown throw on an io thread (DestroyMe, ReadDataHandler).
THEOREM UsedAfterEndOnlyIfRaced == Spec => []HarmOnlyIfRaced
<1>1. HarmInv => UsedAfterItsEndOnly /\ OvertakenByAnother
                 /\ HandlersOutlivedByWritesOnly /\ CrashNeedsResetOrWrite
  BY DEF HarmInv, CauseInv, MisuseInv, Gone, UsedAfterItsEndOnly, OvertakenByAnother
<1> QED
  BY <1>1, HarmAlways, StaleOnlyIfEarly, PTL DEF HarmOnlyIfRaced

\* Each thread lost to a reset client was lost to another one, unless it was written to.
LEMMA OneEach ==
  ASSUME HarmInv
  PROVE  ThreadLeft
<1> DEFINE R == {c \in Client : peer[c] = "reset"}
<1> SUFFICES ASSUME Cardinality(R) < Cardinality(Io),
                    \A t \in Io : At(t, "crashed") /\ thread[t].c \notin wrote
             PROVE  FALSE
  BY DEF ThreadLeft
<1>1. IsFiniteSet(R) /\ IsFiniteSet(Io)
  BY ServerAssumption, FS_Subset DEF ServerAssumption
<1>2. \A t \in Io : thread[t].c \in R
  BY DEF HarmInv, CrashNeedsResetOrWrite, At, FullInv, ServerInv, Shape, ThreadOK, Doing, NoClient
<1>3. PICK t, u \in Io : t # u /\ thread[t].c = thread[u].c
  <2>1. PICK lost \in [Io -> R] : \A t \in Io : lost[t] = thread[t].c
    <3>1. [t \in Io |-> thread[t].c] \in [Io -> R]
      BY <1>2
    <3> QED
      BY <3>1
  <2> HIDE DEF R
  <2>2. \E t, u \in Io : t # u /\ lost[t] = lost[u]
    BY <1>1, <2>1, FS_PigeonHole
  <2> QED
    BY <2>1, <2>2
<1>4. PICK c \in Client \ wrote : c = thread[t].c
  BY <1>2
<1>5. Ends(t, c) /\ Ends(u, c)
  BY <1>3, <1>4 DEF At, Ends, Crashed
<1> QED
  BY <1>3, <1>4, <1>5 DEF HarmInv, EndInv, EndsOnce

\* While the service runs an accept is armed or about to be, whatever handlers and clients
\* do (AcceptHandler), and an io thread is left to serve it as long as there are more of
\* them than peers that were reset and none was lost to a client with a write.
THEOREM PortNeverDeaf == Spec => []NeverDeaf
<1>1. Init => Shape /\ Hears
  <2>1. ASSUME Init
        PROVE  Shape
    BY <2>1, IdleDoing DEF Init, Shape, ReadyOK, ThreadOK, AcceptorOK
  <2> QED
    BY <2>1 DEF Init, Hears, AcceptArmed
<1>2. Shape /\ Hears /\ [Next]_vars => Shape' /\ Hears'
  BY NextEffect, ShapeStep, HearsStep
<1>3. HarmInv /\ Hears => NeverDeaf
  BY OneEach DEF NeverDeaf, Hears
<1> QED
  BY <1>1, <1>2, <1>3, HarmAlways, PTL DEF Spec
=============================================================================
