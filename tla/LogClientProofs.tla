-------------------------- MODULE LogClientProofs --------------------------
(***************************************************************************)
(* Proofs about the log client: for every set of threads, every number of  *)
(* packages and every failure of the network, one write at a time and no   *)
(* package that nobody will write.                                         *)
(***************************************************************************)
EXTENDS LogClient, TLAPS

\* A write that is outstanding is known to the flag.
WireFlagged == wire # "none" => writing

WriteInv == WireFlagged /\ OneWriteAtATime

\* Where the callers of Push can be.
CallersOK == pc \in [Callers -> {"idle", "enqueue", "write"}]

QueueInv == CallersOK /\ NotForgotten

-----------------------------------------------------------------------------
\* WriteNextMessage takes the flag up before a write is started, and starts none
\* while the flag is up.
LEMMA WriteNextFlags ==
  ASSUME WriteInv, WriteNext
  PROVE  WriteInv'
  BY DEF WriteInv, WireFlagged, OneWriteAtATime, WriteNext, FlagUp, MayWrite, writer

\* After WriteNextMessage the flag is up or the queue is empty.
LEMMA WriteNextServes ==
  ASSUME WriteNext
  PROVE  writing' \/ queue' = <<>>
<1>1. CASE MayWrite
  BY <1>1 DEF WriteNext, FlagUp
<1>2. CASE ~MayWrite
  <2>1. UNCHANGED <<queue, writing>>
    BY <1>2 DEF WriteNext, FlagUp, writer
  <2>2. writing \/ queue = <<>>
    BY <1>2 DEF MayWrite
  <2> QED
    BY <2>1, <2>2
<1> QED
  BY <1>1, <1>2

LEMMA WriteInvInit == Init => WriteInv
  BY DEF Init, WriteInv, WireFlagged, OneWriteAtATime

LEMMA WriteInvStep == WriteInv /\ [Next]_vars => WriteInv'
<1> SUFFICES ASSUME WriteInv, [Next]_vars
             PROVE  WriteInv'
  OBVIOUS
<1> USE DEF WriteInv, WireFlagged, OneWriteAtATime
<1>1. CASE \E x \in Pushers : Push(x)
  BY <1>1 DEF Push, writer
<1>2. CASE \E x \in Callers : Enqueue(x)
  BY <1>2 DEF Enqueue, Queued, writer
<1>3. CASE \E x \in Callers : PushWrites(x)
  BY <1>3, WriteNextFlags DEF PushWrites
<1>4. CASE SocketTakes \/ PeerResets
  BY <1>4 DEF SocketTakes, PeerResets
<1>5. CASE HandlerOk \/ HandlerError
  BY <1>5 DEF HandlerOk, FlagDown, HandlerGoesOn, HandlerError
<1>6. CASE HandlerWrites
  BY <1>6, WriteNextFlags DEF HandlerWrites
<1>7. CASE ConnectWorks \/ ConnectFails \/ ResolveThrows
  BY <1>7 DEF ConnectWorks, ConnectFails, ResolveThrows, writer
<1>8. CASE OpenNewLogFile \/ Constructed \/ LoggingMode \/ CloseLogFile \/ RaiseStop \/ WaitQueueEmpty
  BY <1>8 DEF OpenNewLogFile, Constructed, LoggingMode, CloseLogFile, RaiseStop, WaitQueueEmpty, writer
<1>9. CASE CloseSocket \/ ShutdownThrows \/ Join \/ ProgramEnds
  BY <1>9 DEF CloseSocket, ShutdownThrows, Join, ProgramEnds, writer
<1>10. CASE UNCHANGED vars
  BY <1>10 DEF vars, writer
<1> QED
  BY <1>1, <1>2, <1>3, <1>4, <1>5, <1>6, <1>7, <1>8, <1>9, <1>10 DEF Next

\* CLogClient has one package in m_currentMessage: while the socket reads from it, no
\* caller of Push and no handler puts another one there (logclient.cpp:195-225).
THEOREM OneWriteInFlight == Spec => []OneWriteAtATime
<1>1. WriteInv => OneWriteAtATime
  BY DEF WriteInv
<1> QED
  BY WriteInvInit, WriteInvStep, <1>1, PTL DEF Spec

-----------------------------------------------------------------------------
LEMMA QueueInvInit == Init => QueueInv
  BY DEF Init, QueueInv, CallersOK, NotForgotten

\* A step that leaves the queue, the flag and io alone, and no caller in front of
\* WriteNextMessage, keeps the promise.
LEMMA QueueInvQuiet ==
  ASSUME QueueInv, CallersOK', UNCHANGED <<queue, writing, io>>, Alive' => Alive,
         \A x \in Callers : pc[x] = "write" => pc'[x] = "write"
  PROVE  QueueInv'
  BY DEF QueueInv, NotForgotten

LEMMA PushByQuiet ==
  ASSUME CallersOK, NEW x \in Callers, NEW p, PushBy(x, p)
  PROVE  /\ CallersOK'
         /\ \A y \in Callers : pc[y] = "write" => pc'[y] = "write"
  BY DEF CallersOK, PushBy

LEMMA QueueInvStep == QueueInv /\ [Next]_vars => QueueInv'
<1> SUFFICES ASSUME QueueInv, [Next]_vars
             PROVE  QueueInv'
  OBVIOUS
<1>0. CallersOK
  BY DEF QueueInv
<1>1. ASSUME NEW x \in Pushers, Push(x)
      PROVE  QueueInv'
  BY <1>0, <1>1, PushByQuiet, QueueInvQuiet DEF Push, Callers, writer, Alive
<1>2. ASSUME NEW x \in Callers, Enqueue(x)
      PROVE  QueueInv'
  <2>1. CallersOK' /\ pc'[x] = "write"
    BY <1>0, <1>2 DEF Enqueue, Queued, CallersOK
  <2> QED
    BY <2>1 DEF QueueInv, NotForgotten
<1>3. ASSUME NEW x \in Callers, PushWrites(x)
      PROVE  QueueInv'
  <2>1. CallersOK'
    BY <1>0, <1>3 DEF PushWrites, CallersOK
  <2>2. writing' \/ queue' = <<>>
    BY <1>3, WriteNextServes DEF PushWrites
  <2> QED
    BY <2>1, <2>2 DEF QueueInv, NotForgotten
<1>4. CASE SocketTakes \/ PeerResets \/ HandlerError
  BY <1>0, <1>4, QueueInvQuiet DEF SocketTakes, PeerResets, HandlerError, CallersOK, Alive
<1>5. CASE HandlerOk
  BY <1>0, <1>5 DEF HandlerOk, FlagDown, HandlerGoesOn, QueueInv, CallersOK, NotForgotten
<1>6. CASE HandlerWrites
  <2>1. CallersOK'
    BY <1>0, <1>6 DEF HandlerWrites, CallersOK
  <2>2. writing' \/ queue' = <<>>
    BY <1>6, WriteNextServes DEF HandlerWrites
  <2> QED
    BY <2>1, <2>2 DEF QueueInv, NotForgotten
<1>7. CASE ConnectWorks \/ ConnectFails \/ ResolveThrows \/ Constructed \/ RaiseStop \/ WaitQueueEmpty
  BY <1>0, <1>7, QueueInvQuiet
    DEF ConnectWorks, ConnectFails, ResolveThrows, Constructed, RaiseStop, WaitQueueEmpty,
        CallersOK, MainGoes, Alive, writer
<1>11. CASE LoggingMode \/ CloseSocket \/ ShutdownThrows \/ ProgramEnds
  BY <1>0, <1>11, QueueInvQuiet
    DEF LoggingMode, CloseSocket, ShutdownThrows, ProgramEnds, CallersOK, MainGoes, Alive, writer
<1>8. CASE OpenNewLogFile \/ CloseLogFile
  BY <1>0, <1>8, PushByQuiet, QueueInvQuiet
    DEF OpenNewLogFile, CloseLogFile, Callers, writer, Alive
<1>9. CASE Join
  BY <1>0, <1>9 DEF Join, QueueInv, CallersOK, NotForgotten, MainGoes, Alive, writer
<1>10. CASE UNCHANGED vars
  BY <1>0, <1>10, QueueInvQuiet DEF vars, writer, CallersOK, Alive
<1> QED
  BY <1>1, <1>2, <1>3, <1>4, <1>5, <1>6, <1>7, <1>8, <1>9, <1>10, <1>11 DEF Next

\* A package that waits while no write is going on has a caller of Push, or the
\* handler of the last write, that has not looked at the queue yet: neither the test
\* of the mode outside the lock nor Stop loses a wake-up.
THEOREM NoPackageForgotten == Spec => []NotForgotten
<1>1. QueueInv => NotForgotten
  BY DEF QueueInv
<1> QED
  BY QueueInvInit, QueueInvStep, <1>1, PTL DEF Spec
-----------------------------------------------------------------------------
(* The refinement of PackageQueue *)

\* How many packages each caller has pushed: enough to know that what it is about to
\* put into the queue is one of the packages.
Pushed ==
  /\ pushed \in [Callers -> Nat]
  /\ \A x \in Pushers : pushed[x] <= MaxPush
  /\ pushed["main"] <= 2
  /\ main \in {"connect", "newFile", "unconnected"} => pushed["main"] = 0
  /\ main \in {"pushing", "up"} => pushed["main"] = 1
  /\ \A x \in Callers : pc[x] # "idle" => pushed[x] >= 1

\* A package that could not be built leaves the flag up without a write, for good.
LostBlocks == lost # {} => writing /\ wire = "none"

Waiting == queue \in Seq(Packages)

ImplInv == CallersOK /\ Pushed /\ WireFlagged /\ LostBlocks /\ Waiting

LEMMA MainIsNoPusher == "main" \in Callers /\ \A x \in Pushers : x \in Callers /\ x # "main"
  BY LogClientAssumption DEF Callers

LEMMA ImplInvInit == Init => ImplInv
<1> SUFFICES ASSUME Init PROVE ImplInv
  OBVIOUS
<1>1. CallersOK
  BY DEF Init, CallersOK
<1>2. Pushed
  BY MainIsNoPusher, LogClientAssumption DEF Init, Pushed
<1> QED
  BY <1>1, <1>2 DEF Init, ImplInv, WireFlagged, LostBlocks, Waiting

\* What a caller is about to enqueue is a package.
LEMMA EnqueuedIsPackage ==
  ASSUME CallersOK, Pushed, NEW x \in Callers, pc[x] = "enqueue"
  PROVE  <<x, pushed[x]>> \in Packages
<1>1. pushed[x] \in Nat /\ pushed[x] >= 1
  BY DEF Pushed
<1>2. CASE x \in Pushers
  <2>1. pushed[x] \in 1 .. MaxPush
    BY <1>1, <1>2, LogClientAssumption DEF Pushed
  <2> QED
    BY <1>2, <2>1 DEF Packages
<1>3. CASE x = "main"
  <2>1. pushed[x] = 1 \/ pushed[x] = 2
    BY <1>1, <1>3 DEF Pushed
  <2> QED
    BY <1>3, <2>1 DEF Packages, NewFile, StopFile
<1> QED
  BY <1>2, <1>3 DEF Callers

\* WriteNextMessage takes the first package or nothing.
LEMMA WriteNextTakes ==
  ASSUME WireFlagged, LostBlocks, Waiting, WriteNext
  PROVE  WireFlagged' /\ LostBlocks' /\ Waiting'
<1>1. CASE MayWrite
  <2>1. lost = {} /\ wire = "none"
    BY <1>1 DEF MayWrite, LostBlocks, WireFlagged
  <2> QED
    BY <1>1, <2>1 DEF WriteNext, FlagUp, WireFlagged, LostBlocks, Waiting, MayWrite
<1>2. CASE ~MayWrite
  BY <1>2 DEF WriteNext, FlagUp, WireFlagged, LostBlocks, Waiting, writer
<1> QED
  BY <1>1, <1>2

LEMMA PushByCounts ==
  ASSUME CallersOK, Pushed, NEW x \in Callers, NEW p, PushBy(x, p)
  PROVE  /\ pushed' \in [Callers -> Nat]
         /\ pushed'[x] = pushed[x] + 1
         /\ \A y \in Callers \ {x} : pushed'[y] = pushed[y] /\ pc'[y] = pc[y]
         /\ CallersOK'
  BY DEF CallersOK, Pushed, PushBy

LEMMA ImplInvStep == ImplInv /\ [Next]_vars => ImplInv'
<1> SUFFICES ASSUME ImplInv, [Next]_vars
             PROVE  ImplInv'
  OBVIOUS
<1>0. CallersOK /\ Pushed /\ WireFlagged /\ LostBlocks /\ Waiting
  BY DEF ImplInv
<1>1. ASSUME NEW x \in Pushers, Push(x)
      PROVE  ImplInv'
  <2>1. x \in Callers /\ "main" \in Callers \ {x} /\ \A y \in Pushers : y \in Callers
    BY MainIsNoPusher
  <2>2. PushBy(x, <<x, pushed[x] + 1>>) /\ pushed[x] < MaxPush /\ UNCHANGED <<main, wire, writing, lost, queue>>
    BY <1>1 DEF Push, control, writer
  <2>3. CallersOK' /\ pushed' \in [Callers -> Nat] /\ pushed'[x] = pushed[x] + 1
        /\ \A y \in Callers \ {x} : pushed'[y] = pushed[y] /\ pc'[y] = pc[y]
    BY <1>0, <2>1, <2>2, PushByCounts
  <2>4. Pushed'
    BY <1>0, <2>1, <2>2, <2>3, LogClientAssumption DEF Pushed
  <2> QED
    BY <1>0, <2>2, <2>3, <2>4 DEF ImplInv, WireFlagged, LostBlocks, Waiting
<1>2. ASSUME NEW x \in Callers, Enqueue(x)
      PROVE  ImplInv'
  <2>1. <<x, pushed[x]>> \in Packages
    BY <1>0, <1>2, EnqueuedIsPackage DEF Enqueue, Queued
  <2>2. Waiting'
    BY <1>0, <1>2, <2>1 DEF Enqueue, Queued, Waiting
  <2>3. CallersOK' /\ Pushed'
    BY <1>0, <1>2 DEF Enqueue, Queued, CallersOK, Pushed, control
  <2> QED
    BY <1>0, <1>2, <2>2, <2>3 DEF Enqueue, Queued, ImplInv, WireFlagged, LostBlocks, writer
<1>3. ASSUME NEW x \in Callers, PushWrites(x)
      PROVE  ImplInv'
  <2>1. WireFlagged' /\ LostBlocks' /\ Waiting'
    BY <1>0, <1>3, WriteNextTakes DEF PushWrites
  <2>2. CallersOK' /\ Pushed'
    BY <1>0, <1>3 DEF PushWrites, CallersOK, Pushed
  <2> QED
    BY <2>1, <2>2 DEF ImplInv
<1>4. CASE HandlerWrites
  <2>1. WireFlagged' /\ LostBlocks' /\ Waiting'
    BY <1>0, <1>4, WriteNextTakes DEF HandlerWrites
  <2>2. CallersOK' /\ Pushed'
    BY <1>0, <1>4 DEF HandlerWrites, CallersOK, Pushed, control
  <2> QED
    BY <2>1, <2>2 DEF ImplInv
<1>5. CASE SocketTakes \/ PeerResets \/ HandlerOk \/ HandlerError
  BY <1>0, <1>5
    DEF SocketTakes, PeerResets, HandlerOk, FlagDown, FlagDown, HandlerGoesOn, HandlerError, control,
        ImplInv, CallersOK, Pushed, WireFlagged, LostBlocks, Waiting
<1>6. CASE \/ ConnectWorks \/ ConnectFails \/ ResolveThrows \/ LoggingMode
           \/ RaiseStop \/ WaitQueueEmpty \/ CloseSocket \/ ShutdownThrows \/ Join \/ ProgramEnds
  <2>1. UNCHANGED <<pc, pushed, writing, lost, queue>> /\ (wire' = wire \/ (wire = "going" /\ wire' = "failed"))
    BY <1>6 DEF ConnectWorks, ConnectFails, ResolveThrows, LoggingMode, RaiseStop, WaitQueueEmpty,
                CloseSocket, ShutdownThrows, Join, ProgramEnds, writer
  <2>2. /\ main' \in {"connect", "newFile", "unconnected"} => main \in {"connect", "newFile", "unconnected"}
        /\ main' \in {"pushing", "up"} => main \in {"pushing", "up"}
    BY <1>6 DEF ConnectWorks, ConnectFails, ResolveThrows, LoggingMode, RaiseStop, WaitQueueEmpty,
                CloseSocket, ShutdownThrows, Join, ProgramEnds, MainGoes, control
  <2>3. Pushed'
    BY <1>0, <2>1, <2>2 DEF Pushed
  <2> QED
    BY <1>0, <2>1, <2>3 DEF ImplInv, CallersOK, WireFlagged, LostBlocks, Waiting
<1>7. CASE Constructed
  <2>1. Pushed'
    BY <1>0, <1>7, MainIsNoPusher DEF Constructed, MainGoes, Pushed, CallersOK
  <2> QED
    BY <1>0, <1>7, <2>1 DEF Constructed, ImplInv, CallersOK, WireFlagged, LostBlocks, Waiting, writer
<1>8. CASE OpenNewLogFile \/ CloseLogFile
  <2>1. PICK p : PushBy("main", p)
    BY <1>8 DEF OpenNewLogFile, CloseLogFile
  <2>2. UNCHANGED <<wire, writing, lost, queue>>
    BY <1>8 DEF OpenNewLogFile, CloseLogFile, writer
  <2>3. /\ main \in {"connect", "newFile", "unconnected"} \/ main = "up"
        /\ main = "newFile" => main' = "pushing"
        /\ main' \in {"pushing", "flag", "flagFailed"}
        /\ main' = "pushing" => main = "newFile"
    BY <1>8 DEF OpenNewLogFile, CloseLogFile, MainGoes
  <2>4. CallersOK' /\ pushed' \in [Callers -> Nat] /\ pushed'["main"] = pushed["main"] + 1
        /\ \A y \in Callers \ {"main"} : pushed'[y] = pushed[y] /\ pc'[y] = pc[y]
    BY <1>0, <2>1, MainIsNoPusher, PushByCounts
  <2>5. pushed["main"] \in {0, 1} /\ (main = "newFile" => pushed["main"] = 0)
    BY <1>0, <2>3 DEF Pushed
  <2>6. Pushed'
    BY <1>0, <2>3, <2>4, <2>5, MainIsNoPusher DEF Pushed
  <2> QED
    BY <1>0, <2>2, <2>4, <2>6 DEF ImplInv, WireFlagged, LostBlocks, Waiting
<1>9. CASE UNCHANGED vars
  BY <1>0, <1>9 DEF vars, writer, control, ImplInv, CallersOK, Pushed, WireFlagged, LostBlocks, Waiting
<1> QED
  BY <1>1, <1>2, <1>3, <1>4, <1>5, <1>6, <1>7, <1>8, <1>9 DEF Next

\* Taking the first package of the queue into the write in progress does not change
\* what is waiting.
LEMMA HeadThenTail ==
  ASSUME NEW S, NEW q \in Seq(S), q # <<>>
  PROVE  <<Head(q)>> \o Tail(q) = q
  OBVIOUS

LEMMA AppendAfterOne ==
  ASSUME NEW S, NEW q \in Seq(S), NEW c \in S, NEW e \in S
  PROVE  <<c>> \o Append(q, e) = Append(<<c>> \o q, e)
  OBVIOUS

\* WriteNextMessage either moves the first package into the write, or leaves out one
\* that is too big.
LEMMA WriteNextMaps ==
  ASSUME WireFlagged, LostBlocks, Waiting, WriteNext, UNCHANGED sent
  PROVE  Promise!LeaveOut \/ UNCHANGED <<InFlight \o queue, sent>>
<1> USE DEF Waiting
<1>1. CASE MayWrite
  <2>1. lost = {} /\ ~writing /\ queue # <<>> /\ queue' = Tail(queue) /\ writing'
    BY <1>1 DEF MayWrite, LostBlocks, WriteNext, FlagUp
  <2>2. InFlight = <<>>
    BY <2>1 DEF InFlight
  <2>3. InFlight \o queue = queue
    BY <2>2
  <2>4. CASE Head(queue) \in Big
    <3>1. InFlight' = <<>>
      BY <1>1, <2>4 DEF WriteNext, FlagUp, InFlight
    <3>2. (InFlight \o queue)' = Tail(queue)
      BY <2>1, <3>1
    <3> QED
      BY <2>1, <2>3, <2>4, <3>2 DEF Promise!LeaveOut
  <2>5. CASE Head(queue) \notin Big
    <3>1. current' = Head(queue) /\ wire' \in {"going", "failed"} /\ lost' = {}
      BY <1>1, <2>1, <2>5 DEF WriteNext, FlagUp
    <3>2. InFlight' = <<Head(queue)>>
      BY <2>1, <3>1 DEF InFlight
    <3>3. (InFlight \o queue)' = <<Head(queue)>> \o Tail(queue)
      BY <2>1, <3>2
    <3> QED
      BY <2>1, <2>3, <3>3, HeadThenTail
  <2> QED
    BY <2>4, <2>5
<1>2. CASE ~MayWrite
  BY <1>2 DEF WriteNext, FlagUp, InFlight, writer
<1> QED
  BY <1>1, <1>2

LEMMA StepMaps == ImplInv /\ [Next]_vars => [Promise!QueueNext]_<<InFlight \o queue, sent>>
<1> SUFFICES ASSUME ImplInv, [Next]_vars
             PROVE  [Promise!QueueNext]_<<InFlight \o queue, sent>>
  OBVIOUS
<1> USE DEF Promise!QueueNext
<1>0. CallersOK /\ Pushed /\ WireFlagged /\ LostBlocks /\ Waiting
  BY DEF ImplInv
<1>1. ASSUME NEW x \in Callers, Enqueue(x)
      PROVE  \E p \in Packages : Promise!Take(p)
  <2>1. <<x, pushed[x]>> \in Packages
    BY <1>0, <1>1, EnqueuedIsPackage DEF Enqueue, Queued
  <2>2. InFlight' = InFlight /\ queue' = Append(queue, <<x, pushed[x]>>) /\ sent' = sent
    BY <1>1 DEF Enqueue, Queued, InFlight, writer
  <2>3. InFlight = <<current>> \/ InFlight = <<>>
    BY DEF InFlight
  <2>4. (InFlight \o queue)' = Append(InFlight \o queue, <<x, pushed[x]>>)
    <3>1. queue \in Seq(Packages \cup {current}) /\ <<x, pushed[x]>> \in Packages \cup {current}
      BY <1>0, <2>1 DEF Waiting
    <3>2. CASE InFlight = <<current>>
      BY <2>2, <3>1, <3>2, AppendAfterOne
    <3>3. CASE InFlight = <<>>
      BY <2>2, <3>1, <3>3
    <3> QED
      BY <2>3, <3>2, <3>3
  <2> QED
    BY <2>1, <2>2, <2>4 DEF Promise!Take
<1>2. ASSUME NEW x \in Callers, PushWrites(x)
      PROVE  Promise!LeaveOut \/ UNCHANGED <<InFlight \o queue, sent>>
  BY <1>0, <1>2, WriteNextMaps DEF PushWrites
<1>3. CASE HandlerWrites
  BY <1>0, <1>3, WriteNextMaps DEF HandlerWrites
<1>4. ASSUME SocketTakes
      PROVE  Promise!Deliver
  <2>1. writing /\ lost = {} /\ wire = "going"
    BY <1>0, <1>4 DEF SocketTakes, WireFlagged, LostBlocks
  <2>2. InFlight = <<current>> /\ InFlight' = <<>> /\ UNCHANGED queue
    BY <1>4, <2>1 DEF SocketTakes, InFlight
  <2>3. /\ InFlight \o queue # <<>>
        /\ Head(InFlight \o queue) = current
        /\ Tail(InFlight \o queue) = queue
    BY <1>0, <2>2 DEF Waiting
  <2>4. (InFlight \o queue)' = queue
    BY <1>0, <2>2 DEF Waiting
  <2> QED
    BY <1>4, <2>3, <2>4 DEF Promise!Deliver, SocketTakes
<1>5. CASE HandlerOk
  BY <1>0, <1>5 DEF HandlerOk, FlagDown, HandlerGoesOn, InFlight, Waiting
<1>6. CASE PeerResets \/ HandlerError \/ CloseSocket
  <2>1. UNCHANGED <<queue, current, writing, lost, sent>> /\ ((wire' = "sent") <=> (wire = "sent"))
    BY <1>6 DEF PeerResets, HandlerError, CloseSocket
  <2> QED
    BY <2>1 DEF InFlight
<1>7. CASE (\E x \in Pushers : Push(x)) \/ OpenNewLogFile \/ CloseLogFile
  <2>1. UNCHANGED <<queue, writing, current, wire, lost, sent>>
    BY <1>7 DEF Push, OpenNewLogFile, CloseLogFile, writer
  <2> QED
    BY <2>1 DEF InFlight
<1>8. CASE \/ ConnectWorks \/ ConnectFails \/ ResolveThrows \/ Constructed \/ LoggingMode
           \/ RaiseStop \/ WaitQueueEmpty \/ ShutdownThrows \/ Join \/ ProgramEnds
  BY <1>8 DEF ConnectWorks, ConnectFails, ResolveThrows, Constructed, LoggingMode, RaiseStop, WaitQueueEmpty,
              ShutdownThrows, Join, ProgramEnds, InFlight, writer
<1>9. CASE UNCHANGED vars
  BY <1>9 DEF vars, writer, InFlight
<1> QED
  BY <1>1, <1>2, <1>3, <1>4, <1>5, <1>6, <1>7, <1>8, <1>9 DEF Next

\* CLogClient implements the queue it promises (logclient.cpp:96-108, 177-237): for
\* every set of threads, every number of packages and every failure of the network,
\* the server gets the packages in the order of m_queue, each once, none left out but
\* one whose SNAC does not fit its length field.
THEOREM ClientImplementsQueue == Spec => ImplementsQueue
<1>1. Init => Promise!QueueInit
  BY DEF Init, InFlight, Promise!QueueInit
<1> QED
  BY <1>1, ImplInvInit, ImplInvStep, StepMaps, PTL DEF Spec, ImplementsQueue, Promise!QueueSpec, Promise!queueVars
-----------------------------------------------------------------------------
(* The types *)

MainPlaces == {"connect", "newFile", "pushing", "up", "flag", "wait", "close", "join", "done", "threw",
               "unconnected", "flagFailed", "waitFailed", "closeFailed", "joinFailed", "failed"}

MainTypes == main \in MainPlaces /\ mode \in {"server", "none"} /\ stopping \in BOOLEAN /\ dead \in BOOLEAN

\* The attempts to connect: the loop goes on while another one is allowed.
TryTypes ==
  /\ tries \in 0 .. Retry + 1
  /\ main = "connect" => tries = 0 \/ tries < Retry

\* What is written is a package of the queue, and the server gets what is written.
WireTypes ==
  /\ writing \in BOOLEAN /\ overlap \in BOOLEAN
  /\ current \in Packages \cup {Nothing}
  /\ wire \in {"none", "going", "sent", "failed"}
  /\ wire = "going" => current \in Packages
  /\ lost \subseteq Packages /\ sent \in Seq(Packages)

RestTypes == printed \subseteq Packages /\ socket \in {"open", "closed", "broken"} /\ io \in {"run", "next", "ended"}

TypeInv == ImplInv /\ MainTypes /\ TryTypes /\ WireTypes /\ RestTypes

LEMMA TypeInvIsType == TypeInv => TypeOK
  BY DEF TypeInv, ImplInv, CallersOK, Pushed, WireFlagged, Waiting, MainTypes, MainPlaces, TryTypes,
         WireTypes, RestTypes, TypeOK

LEMMA TypesInit == Init => MainTypes /\ TryTypes /\ WireTypes /\ RestTypes
<1> SUFFICES ASSUME Init PROVE MainTypes /\ TryTypes /\ WireTypes /\ RestTypes
  OBVIOUS
<1>1. MainTypes /\ RestTypes
  BY DEF Init, MainTypes, MainPlaces, RestTypes
<1>2. TryTypes
  BY LogClientAssumption DEF Init, TryTypes
<1>3. WireTypes
  <2>1. /\ writing = FALSE /\ overlap = FALSE /\ current = Nothing /\ wire = "none"
        /\ lost = {} /\ sent = <<>>
    BY DEF Init
  <2>2. sent \in Seq(Packages)
    BY <2>1
  <2> QED
    BY <2>1, <2>2 DEF WireTypes
<1> QED
  BY <1>1, <1>2, <1>3

LEMMA MainTypesStep == MainTypes /\ [Next]_vars => MainTypes'
<1> SUFFICES ASSUME MainTypes, [Next]_vars
             PROVE  MainTypes'
  OBVIOUS
<1> USE DEF MainTypes, MainPlaces
<1>1. CASE \/ \E x \in Pushers : Push(x)
           \/ \E x \in Callers : Enqueue(x) \/ PushWrites(x)
           \/ SocketTakes \/ PeerResets \/ HandlerOk
           \/ UNCHANGED vars
  BY <1>1 DEF Push, Enqueue, Queued, PushWrites, SocketTakes, PeerResets, HandlerOk, control, vars
<1>2. CASE HandlerWrites \/ HandlerError
  BY <1>2 DEF HandlerWrites, HandlerError, control
<1>3. CASE ConnectWorks \/ ConnectFails \/ ResolveThrows \/ OpenNewLogFile \/ Constructed
  BY <1>3 DEF ConnectWorks, ConnectFails, ResolveThrows, OpenNewLogFile, Constructed, MainGoes, control
<1>4. CASE CloseLogFile \/ RaiseStop \/ WaitQueueEmpty \/ LoggingMode
  BY <1>4 DEF CloseLogFile, RaiseStop, WaitQueueEmpty, LoggingMode, MainGoes
<1>5. CASE CloseSocket \/ ShutdownThrows \/ Join \/ ProgramEnds
  BY <1>5 DEF CloseSocket, ShutdownThrows, Join, ProgramEnds, MainGoes, control
<1> QED
  BY <1>1, <1>2, <1>3, <1>4, <1>5 DEF Next

LEMMA TryTypesStep == TryTypes /\ [Next]_vars => TryTypes'
<1> SUFFICES ASSUME TryTypes, [Next]_vars
             PROVE  TryTypes'
  OBVIOUS
<1> USE LogClientAssumption DEF TryTypes
<1>1. CASE \/ \E x \in Pushers : Push(x)
           \/ \E x \in Callers : Enqueue(x) \/ PushWrites(x)
           \/ SocketTakes \/ PeerResets \/ HandlerOk
           \/ UNCHANGED vars
  BY <1>1 DEF Push, Enqueue, Queued, PushWrites, SocketTakes, PeerResets, HandlerOk, control, vars
<1>2. CASE HandlerWrites \/ HandlerError \/ ResolveThrows
  BY <1>2 DEF HandlerWrites, HandlerError, ResolveThrows, control
<1>3. CASE ConnectWorks \/ ConnectFails
  BY <1>3 DEF ConnectWorks, ConnectFails, MainGoes
<1>4. CASE OpenNewLogFile \/ Constructed \/ LoggingMode \/ CloseLogFile \/ RaiseStop \/ WaitQueueEmpty
  BY <1>4 DEF OpenNewLogFile, Constructed, LoggingMode, CloseLogFile, RaiseStop, WaitQueueEmpty, MainGoes
<1>5. CASE CloseSocket \/ ShutdownThrows \/ Join \/ ProgramEnds
  BY <1>5 DEF CloseSocket, ShutdownThrows, Join, ProgramEnds, MainGoes, control
<1> QED
  BY <1>1, <1>2, <1>3, <1>4, <1>5 DEF Next

\* WriteNextMessage takes a package of the queue.
LEMMA WriteNextTypes ==
  ASSUME Waiting, WireTypes, WriteNext, UNCHANGED sent
  PROVE  WireTypes'
<1>1. CASE MayWrite
  <2>1. Head(queue) \in Packages
    BY <1>1 DEF MayWrite, Waiting
  <2> QED
    BY <1>1, <2>1 DEF WriteNext, FlagUp, WireTypes
<1>2. CASE ~MayWrite
  BY <1>2 DEF WriteNext, FlagUp, WireTypes, writer
<1> QED
  BY <1>1, <1>2

LEMMA WireTypesStep == Waiting /\ WireTypes /\ [Next]_vars => WireTypes'
<1> SUFFICES ASSUME Waiting, WireTypes, [Next]_vars
             PROVE  WireTypes'
  OBVIOUS
<1>1. CASE \/ \E x \in Pushers : Push(x)
           \/ \E x \in Callers : Enqueue(x)
           \/ UNCHANGED vars
  BY <1>1 DEF Push, Enqueue, Queued, vars, writer, WireTypes
<1>2. CASE HandlerWrites \/ \E x \in Callers : PushWrites(x)
  BY <1>2, WriteNextTypes DEF HandlerWrites, PushWrites
<1>3. CASE SocketTakes
  <2>1. current \in Packages /\ sent \in Seq(Packages) /\ sent' = Append(sent, current)
    BY <1>3 DEF SocketTakes, WireTypes
  <2> QED
    BY <1>3, <2>1 DEF SocketTakes, WireTypes
<1>6. CASE PeerResets \/ HandlerOk \/ HandlerError
  BY <1>6 DEF PeerResets, HandlerOk, FlagDown, HandlerError, WireTypes
<1>4. CASE ConnectWorks \/ ConnectFails \/ ResolveThrows \/ OpenNewLogFile \/ Constructed
  BY <1>4 DEF ConnectWorks, ConnectFails, ResolveThrows, OpenNewLogFile, Constructed, writer, WireTypes
<1>5. CASE CloseLogFile \/ RaiseStop \/ WaitQueueEmpty \/ LoggingMode
  BY <1>5 DEF CloseLogFile, RaiseStop, WaitQueueEmpty, LoggingMode, writer, WireTypes
<1>7. CASE CloseSocket \/ ShutdownThrows \/ Join \/ ProgramEnds
  BY <1>7 DEF CloseSocket, ShutdownThrows, Join, ProgramEnds, writer, WireTypes
<1> QED
  BY <1>1, <1>2, <1>3, <1>4, <1>5, <1>6, <1>7 DEF Next

LEMMA RestTypesStep == Pushed /\ RestTypes /\ [Next]_vars => RestTypes'
<1> SUFFICES ASSUME Pushed, RestTypes, [Next]_vars
             PROVE  RestTypes'
  OBVIOUS
<1> USE DEF RestTypes
<1>1. ASSUME NEW x \in Pushers, Push(x)
      PROVE  RestTypes'
  <2>1. pushed[x] + 1 \in 1 .. MaxPush
    BY <1>1, MainIsNoPusher, LogClientAssumption DEF Push, Pushed
  <2>2. <<x, pushed[x] + 1>> \in Packages
    BY <2>1 DEF Packages
  <2> QED
    BY <1>1, <2>2 DEF Push, PushBy
<1>2. CASE OpenNewLogFile \/ CloseLogFile
  BY <1>2 DEF OpenNewLogFile, CloseLogFile, PushBy, Packages
<1>3. CASE \/ \E x \in Callers : Enqueue(x) \/ PushWrites(x)
           \/ SocketTakes \/ PeerResets \/ HandlerOk \/ HandlerWrites \/ HandlerError
           \/ UNCHANGED vars
  BY <1>3 DEF Enqueue, Queued, PushWrites, SocketTakes, PeerResets, HandlerOk, HandlerGoesOn, HandlerWrites,
              HandlerError, vars
<1>4. CASE ConnectWorks \/ ConnectFails \/ ResolveThrows \/ Constructed \/ RaiseStop \/ WaitQueueEmpty \/ Join
  BY <1>4 DEF ConnectWorks, ConnectFails, ResolveThrows, Constructed, RaiseStop, WaitQueueEmpty, Join
<1>5. CASE LoggingMode \/ CloseSocket \/ ShutdownThrows \/ ProgramEnds
  BY <1>5 DEF LoggingMode, CloseSocket, ShutdownThrows, ProgramEnds
<1> QED
  BY <1>1, <1>2, <1>3, <1>4, <1>5 DEF Next

\* Whatever the callers of Push, the network and Stop do, the client is in a state the
\* types allow: the loop that connects is left after m_retry attempts at the latest
\* (logclient.cpp:40-94), and an outstanding write has the flag up and a package of
\* the queue in m_currentMessage.
THEOREM LogClientTypes == Spec => []TypeOK
<1>1. Init => TypeInv
  BY ImplInvInit, TypesInit DEF TypeInv
<1>2. TypeInv /\ [Next]_vars => TypeInv'
  <2> SUFFICES ASSUME TypeInv, [Next]_vars
               PROVE  TypeInv'
    OBVIOUS
  <2>1. ImplInv /\ MainTypes /\ TryTypes /\ WireTypes /\ RestTypes /\ Waiting /\ Pushed
    BY DEF TypeInv, ImplInv
  <2> QED
    BY <2>1, ImplInvStep, MainTypesStep, TryTypesStep, WireTypesStep, RestTypesStep DEF TypeInv
<1> QED
  BY <1>1, <1>2, TypeInvIsType, PTL DEF Spec
=============================================================================
