-------------------------- MODULE TcpClientProofs --------------------------
(***************************************************************************)
(* Proofs about TcpClient, for any messages, sizes and number of sends:    *)
(* types, the single outstanding write, and the integrity of the frames    *)
(* on the wire however the kernel cuts the writes.                         *)
(***************************************************************************)
EXTENDS TcpClient, SequenceTheorems, TLAPS

\* A completed write never reports more bytes than the buffer holds.
ResultBounded ==
  \A i \in 1 .. Len(done) : done[i].ok => done[i].n \in 1 .. Len(outBuffer)

WriteInv == SingleWrite /\ ResultBounded

\* The bytes of a message form a sequence of units.
LEMMA UnitsType == \A m \in Msg : Units(m) \in Seq(Unit) /\ Len(Units(m)) = Size[m]
  <1> TAKE m \in Msg
  <1>1. Size[m] \in Nat
    BY SizeAssumption
  <1>2. \A i \in 1 .. Size[m] : <<m, i>> \in Unit
    BY <1>1 DEF Unit
  <1>3. Units(m) \in [1 .. Size[m] -> Unit]
    BY <1>2 DEF Units
  <1> QED
    BY <1>1, <1>3

\* A message has a byte.
LEMMA UnitsSome == \A m \in Msg : Units(m) # <<>>
  <1> TAKE m \in Msg
  <1>1. Units(m) \in Seq(Unit) /\ Len(Units(m)) = Size[m] /\ Size[m] \in Nat \ {0}
    BY UnitsType, SizeAssumption
  <1> QED
    BY <1>1, EmptySeq

\* What follows a proper beginning of a sequence is not empty.
LEMMA PartSome ==
  ASSUME NEW S, NEW s \in Seq(S), NEW n \in Nat, n < Len(s)
  PROVE  SubSeq(s, n + 1, Len(s)) # <<>>
  <1>0. Len(s) \in Nat /\ n + 1 \in 1 .. Len(s) + 1
    BY LenProperties
  <1> DEFINE rest == SubSeq(s, n + 1, Len(s))
  <1>1. Len(rest) = Len(s) - n
    BY <1>0, SubSeqProperties, ElementOfSeq
  <1> HIDE DEF rest
  <1>2. Len(rest) > 0
    BY <1>0, <1>1
  <1>3. rest # <<>>
    BY <1>2, EmptySeq
  <1> QED
    BY <1>3 DEF rest

\* A part of a sequence is a sequence of the same elements.
LEMMA PartType ==
  ASSUME NEW S, NEW s \in Seq(S), NEW i \in 1 .. Len(s) + 1, NEW j \in 0 .. Len(s)
  PROVE  SubSeq(s, i, j) \in Seq(S)
  BY SubSeqProperties, ElementOfSeq

\* RemoveAt removes one element.
LEMMA RemoveOne ==
  ASSUME NEW S, NEW s \in Seq(S), NEW i \in 1 .. Len(s)
  PROVE  /\ RemoveAt(s, i) \in Seq(S)
         /\ Len(RemoveAt(s, i)) = Len(s) - 1
  <1> DEFINE a == SubSeq(s, 1, i - 1)
             b == SubSeq(s, i + 1, Len(s))
  <1>1. a \in Seq(S) /\ Len(a) = i - 1
    BY SubSeqProperties, ElementOfSeq
  <1>2. b \in Seq(S) /\ Len(b) = Len(s) - i
    BY SubSeqProperties, ElementOfSeq
  <1>3. RemoveAt(s, i) = a \o b
    BY DEF RemoveAt
  <1> HIDE DEF a, b
  <1> QED
    BY <1>1, <1>2, <1>3, LenProperties

-----------------------------------------------------------------------------
\* A result has a byte count, and the buffer a length.
LEMMA ResultType ==
  ASSUME TypeOK, NEW i \in 1 .. Len(done)
  PROVE  done[i].n \in Nat /\ done[i].ok \in BOOLEAN /\ Len(outBuffer) \in Nat
  <1>1. done \in Seq([ok : BOOLEAN, n : Nat])
    BY DEF TypeOK, KernelOK
  <1>2. done[i] \in [ok : BOOLEAN, n : Nat]
    BY <1>1, ElementOfSeq
  <1>3. Len(outBuffer) \in Nat
    BY LenProperties DEF TypeOK, WriterOK
  <1> QED
    BY <1>2, <1>3

\* What the actions do, branch by branch.

LEMMA SendBusy ==
  ASSUME NEW m, SendMessage(m), ~idleWrite
  PROVE  /\ msgQueue' = Append(msgQueue, m)
         /\ sent' = Append(sent, m)
         /\ highWater' = IF Len(msgQueue) < highWater THEN highWater ELSE Len(msgQueue) + 1
         /\ UNCHANGED <<idleWrite, outBuffer, pending, loaded, stream>>
         /\ UNCHANGED <<lifeVars, done, wire>>
  BY DEF SendMessage

LEMMA SendIdle ==
  ASSUME NEW m, SendMessage(m), idleWrite
  PROVE  /\ outBuffer' = Units(m) /\ pending' = pending + 1
         /\ loaded' = Append(loaded, m) /\ stream' = stream \o Units(m)
         /\ sent' = Append(sent, m) /\ idleWrite' = FALSE
         /\ UNCHANGED <<msgQueue, highWater, lifeVars, done, wire>>
  BY DEF SendMessage, StartWrite

LEMMA HandlerRest ==
  ASSUME TypeOK, NEW i \in 1 .. Len(done), WriteHandler(i), done[i].n < Len(outBuffer)
  PROVE  /\ outBuffer' = SubSeq(outBuffer, done[i].n + 1, Len(outBuffer))
         /\ pending' = pending + 1
         /\ done' = RemoveAt(done, i)
         /\ UNCHANGED <<idleWrite, msgQueue, loaded, stream>>
         /\ UNCHANGED <<lifeVars, wire, sent, highWater>>
  <1>1. ~(done[i].n >= Len(outBuffer))
    BY ResultType
  <1> QED
    BY <1>1 DEF WriteHandler, WriteRest

LEMMA HandlerNext ==
  ASSUME TypeOK, NEW i \in 1 .. Len(done), WriteHandler(i),
         ~(done[i].n < Len(outBuffer)), msgQueue # <<>>
  PROVE  /\ outBuffer' = Units(Last(msgQueue)) /\ pending' = pending + 1
         /\ loaded' = Append(loaded, Last(msgQueue))
         /\ stream' = stream \o Units(Last(msgQueue))
         /\ msgQueue' = Tail(msgQueue) /\ idleWrite' = FALSE
         /\ done' = RemoveAt(done, i)
         /\ UNCHANGED <<lifeVars, wire, sent, highWater>>
  BY DEF WriteHandler, TakeNext, StartWrite

LEMMA HandlerDone ==
  ASSUME TypeOK, NEW i \in 1 .. Len(done), WriteHandler(i),
         ~(done[i].n < Len(outBuffer)), msgQueue = <<>>
  PROVE  /\ idleWrite' = TRUE
         /\ done' = RemoveAt(done, i)
         /\ UNCHANGED <<msgQueue, outBuffer, pending, loaded, stream>>
         /\ UNCHANGED <<lifeVars, wire, sent, highWater>>
  BY DEF WriteHandler, GoIdle

-----------------------------------------------------------------------------
LEMMA InitTypes == Init => TypeOK
  BY DEF Init, TypeOK, LifeOK, WriterOK, KernelOK, HistoryOK

\* Every step keeps the types.
LEMMA NextTypes == TypeOK /\ [Next]_vars => TypeOK'
  <1> SUFFICES ASSUME TypeOK, [Next]_vars PROVE TypeOK'
    OBVIOUS
  <1>a. LifeOK
    BY DEF TypeOK
  <1>b. WriterOK
    BY DEF TypeOK
  <1>c. KernelOK
    BY DEF TypeOK
  <1>d. HistoryOK
    BY DEF TypeOK
  <1>1. ASSUME NEW m \in Msg, SendMessage(m) PROVE TypeOK'
    <2>1. Units(m) \in Seq(Unit)
      BY UnitsType
    <2>4. Units(m) # <<>>
      BY UnitsType, UnitsSome
    <2>2. CASE idleWrite
      <3>0. /\ outBuffer' = Units(m) /\ pending' = pending + 1
            /\ loaded' = Append(loaded, m) /\ stream' = stream \o Units(m)
            /\ sent' = Append(sent, m) /\ idleWrite' = FALSE
            /\ UNCHANGED <<msgQueue, highWater, lifeVars, done, wire>>
        BY <1>1, <2>2, SendIdle
      <3>1. WriterOK'
        BY <1>b, <2>1, <3>0 DEF WriterOK
      <3>2. KernelOK'
        BY <1>c, <2>4, <3>0 DEF KernelOK
      <3>3. HistoryOK'
        BY <1>d, <2>1, <3>0 DEF HistoryOK
      <3>4. LifeOK'
        BY <1>a, <3>0 DEF LifeOK, lifeVars
      <3> QED
        BY <3>1, <3>2, <3>3, <3>4 DEF TypeOK
    <2>3. CASE ~idleWrite
      <3>1. WriterOK'
        BY <1>b, <1>1, <2>3, SendBusy DEF WriterOK
      <3>2. KernelOK' /\ LifeOK'
        BY <1>a, <1>c, <1>1, <2>3, SendBusy DEF KernelOK, LifeOK, lifeVars
      <3>3. HistoryOK'
        <4>1. Len(msgQueue) \in Nat
          BY <1>b DEF WriterOK
        <4>2. /\ sent' = Append(sent, m) /\ UNCHANGED <<loaded, stream>>
              /\ highWater' = IF Len(msgQueue) < highWater THEN highWater ELSE Len(msgQueue) + 1
          BY <1>1, <2>3, SendBusy
        <4> QED
          BY <1>d, <4>1, <4>2 DEF HistoryOK
      <3> QED
        BY <3>1, <3>2, <3>3 DEF TypeOK
    <2> QED
      BY <2>2, <2>3
  <1>2. ASSUME NEW n \in 1 .. Len(outBuffer), Transfer(n) PROVE TypeOK'
    <2>1. SubSeq(outBuffer, 1, n) \in Seq(Unit)
      BY <1>b, PartType DEF WriterOK
    <2>2. KernelOK'
      BY <1>b, <1>b, <1>c, <1>2, <2>1 DEF Transfer, KernelOK, WriterOK, writeVars
    <2>3. WriterOK' /\ LifeOK' /\ HistoryOK'
      BY <1>a, <1>b, <1>d, <1>2 DEF Transfer, WriterOK, LifeOK, HistoryOK, lifeVars, writeVars, history
    <2> QED
      BY <2>2, <2>3 DEF TypeOK
  <1>3. CASE TransferFails
    <2>1. KernelOK'
      BY <1>c, <1>3 DEF TransferFails, KernelOK, writeVars
    <2>2. WriterOK' /\ LifeOK' /\ HistoryOK'
      BY <1>a, <1>b, <1>d, <1>3 DEF TransferFails, WriterOK, LifeOK, HistoryOK, lifeVars, writeVars, history
    <2> QED
      BY <2>1, <2>2 DEF TypeOK
  <1>4. CASE PeerResets
    <2>1. KernelOK' /\ WriterOK' /\ HistoryOK'
      BY <1>b, <1>c, <1>d, <1>4 DEF PeerResets, KernelOK, WriterOK, HistoryOK, writeVars, history
    <2>2. LifeOK'
      BY <1>a, <1>4 DEF PeerResets, LifeOK
    <2> QED
      BY <2>1, <2>2 DEF TypeOK
  <1>5. ASSUME NEW i \in 1 .. Len(done), WriteHandler(i) PROVE TypeOK'
    <2>1. RemoveAt(done, i) \in Seq([ok : BOOLEAN, n : Nat])
      BY <1>c, RemoveOne DEF KernelOK
    <2>2. CASE done[i].n < Len(outBuffer)
      <3>1. done[i].n \in Nat /\ Len(outBuffer) \in Nat
        BY ResultType
      <3>2. SubSeq(outBuffer, done[i].n + 1, Len(outBuffer)) \in Seq(Unit)
        <4>1. done[i].n + 1 \in 1 .. Len(outBuffer) + 1
          BY <2>2, <3>1
        <4> QED
          BY <1>b, <3>1, <4>1, PartType DEF WriterOK
      <3>0. /\ outBuffer' = SubSeq(outBuffer, done[i].n + 1, Len(outBuffer))
            /\ pending' = pending + 1 /\ done' = RemoveAt(done, i)
            /\ UNCHANGED <<idleWrite, msgQueue, loaded, stream>>
            /\ UNCHANGED <<lifeVars, wire, sent, highWater>>
        BY <1>5, <2>2, HandlerRest
      <3>3. WriterOK'
        BY <1>b, <3>0, <3>2 DEF WriterOK
      <3>6. SubSeq(outBuffer, done[i].n + 1, Len(outBuffer)) # <<>>
        BY <1>b, <2>2, <3>1, PartSome DEF WriterOK
      <3>4. KernelOK' /\ LifeOK'
        BY <1>a, <1>c, <2>1, <3>0, <3>6 DEF KernelOK, LifeOK, lifeVars
      <3>5. HistoryOK'
        BY <1>d, <3>0 DEF HistoryOK
      <3> QED
        BY <3>3, <3>4, <3>5 DEF TypeOK
    <2>3. CASE ~(done[i].n < Len(outBuffer)) /\ msgQueue # <<>>
      <3> DEFINE m == Last(msgQueue)
      <3>1. m \in Msg
        <4>1. Len(msgQueue) \in 1 .. Len(msgQueue)
          BY <1>b, <2>3 DEF WriterOK
        <4> QED
          BY <1>b, <4>1, ElementOfSeq DEF WriterOK, Last
      <3>2. Tail(msgQueue) \in Seq(Msg)
        BY <1>b, <2>3, HeadTailProperties DEF WriterOK
      <3>3. Units(m) \in Seq(Unit)
        BY <3>1, UnitsType
      <3>7. Units(m) # <<>>
        BY <3>1, UnitsSome
      <3>0. /\ outBuffer' = Units(m) /\ pending' = pending + 1
            /\ loaded' = Append(loaded, m) /\ stream' = stream \o Units(m)
            /\ msgQueue' = Tail(msgQueue) /\ idleWrite' = FALSE
            /\ done' = RemoveAt(done, i)
            /\ UNCHANGED <<lifeVars, wire, sent, highWater>>
        BY <1>5, <2>3, HandlerNext
      <3> HIDE DEF m
      <3>4. WriterOK'
        BY <1>b, <3>0, <3>2, <3>3 DEF WriterOK
      <3>5. KernelOK' /\ LifeOK'
        BY <1>a, <1>c, <2>1, <3>0, <3>7 DEF KernelOK, LifeOK, lifeVars
      <3>6. HistoryOK'
        BY <1>d, <3>0, <3>1, <3>3 DEF HistoryOK
      <3> QED
        BY <3>4, <3>5, <3>6 DEF TypeOK
    <2>4. CASE ~(done[i].n < Len(outBuffer)) /\ msgQueue = <<>>
      <3>1. WriterOK' /\ HistoryOK'
        BY <1>b, <1>d, <1>5, <2>4, HandlerDone DEF WriterOK, HistoryOK
      <3>0. done' = RemoveAt(done, i) /\ UNCHANGED <<outBuffer, pending, wire, lifeVars>>
        BY <1>5, <2>4, HandlerDone
      <3>2. KernelOK' /\ LifeOK'
        BY <1>a, <1>c, <2>1, <3>0 DEF KernelOK, LifeOK, lifeVars
      <3> QED
        BY <3>1, <3>2 DEF TypeOK
    <2> QED
      BY <2>2, <2>3, <2>4
  <1>6. ASSUME NEW i \in 1 .. Len(done), WriteHandlerError(i) PROVE TypeOK'
    <2>1. RemoveAt(done, i) \in Seq([ok : BOOLEAN, n : Nat])
      BY <1>c, RemoveOne DEF KernelOK
    <2>2. KernelOK' /\ WriterOK' /\ HistoryOK'
      BY <1>b, <1>c, <1>d, <1>6, <2>1 DEF WriteHandlerError, KernelOK, WriterOK, HistoryOK, writeVars, history
    <2>3. LifeOK'
      BY <1>a, <1>6 DEF WriteHandlerError, DestroyMe, LifeOK
    <2> QED
      BY <2>2, <2>3 DEF TypeOK
  <1>7. CASE ReadHandlerError
    <2>1. KernelOK' /\ WriterOK' /\ HistoryOK'
      BY <1>b, <1>c, <1>d, <1>7 DEF ReadHandlerError, KernelOK, WriterOK, HistoryOK, writeVars, history
    <2>2. LifeOK'
      BY <1>a, <1>7 DEF ReadHandlerError, DestroyMe, LifeOK
    <2> QED
      BY <2>1, <2>2 DEF TypeOK
  <1>8. CASE UNCHANGED vars
    BY <1>a, <1>b, <1>c, <1>d, <1>8 DEF vars, lifeVars, writeVars, history, TypeOK, LifeOK, WriterOK,
       KernelOK, HistoryOK
  <1> QED
    BY <1>1, <1>2, <1>3, <1>4, <1>5, <1>6, <1>7, <1>8 DEF Next

\* The state of a client stays well formed for every set of messages and sizes.
THEOREM TypeCorrect == Spec => []TypeOK
  BY InitTypes, NextTypes, PTL DEF Spec

-----------------------------------------------------------------------------
\* While a write is outstanding the buffer is not idle and there is one of it.
LEMMA OneOutstanding ==
  ASSUME TypeOK, SingleWrite
  PROVE  /\ pending > 0 => pending = 1 /\ done = <<>> /\ ~idleWrite
         /\ done # <<>> => pending = 0 /\ Len(done) = 1 /\ ~idleWrite
         /\ idleWrite => pending = 0 /\ done = <<>>
  <1>1. pending \in Nat /\ Len(done) \in Nat /\ (done # <<>> => Len(done) > 0)
    BY EmptySeq DEF TypeOK, KernelOK
  <1>2. pending + Len(done) <= 1
    BY DEF SingleWrite, Outstanding
  <1>3. idleWrite => pending + Len(done) = 0
    BY DEF SingleWrite, Outstanding
  <1>4. idleWrite => pending = 0 /\ done = <<>>
    BY <1>1, <1>3
  <1>5. pending > 0 => pending = 1 /\ done = <<>>
    BY <1>1, <1>2
  <1>6. done # <<>> => pending = 0 /\ Len(done) = 1
    BY <1>1, <1>2
  <1>7. pending > 0 => ~idleWrite
    BY <1>4
  <1>8. done # <<>> => ~idleWrite
    BY <1>4
  <1> QED
    BY <1>4, <1>5, <1>6, <1>7, <1>8

\* Handling the only result leaves none.
LEMMA LastResult ==
  ASSUME TypeOK, SingleWrite, NEW i \in 1 .. Len(done), done' = RemoveAt(done, i)
  PROVE  i = 1 /\ pending = 0 /\ ~idleWrite /\ done # <<>> /\ done' = <<>>
  <1>1. done \in Seq([ok : BOOLEAN, n : Nat])
    BY DEF TypeOK, KernelOK
  <1>2. done # <<>>
    BY <1>1
  <1>3. pending = 0 /\ Len(done) = 1 /\ ~idleWrite
    BY <1>2, OneOutstanding
  <1>4. done' \in Seq([ok : BOOLEAN, n : Nat]) /\ Len(done') = 0
    BY <1>1, <1>3, RemoveOne
  <1> QED
    BY <1>2, <1>3, <1>4, EmptySeq

LEMMA InitWrite == Init => WriteInv
  BY DEF Init, WriteInv, SingleWrite, Outstanding, ResultBounded

\* Every step keeps the writes apart.
LEMMA NextWrite == TypeOK /\ WriteInv /\ [Next]_vars => WriteInv'
  <1> SUFFICES ASSUME TypeOK, WriteInv, [Next]_vars PROVE WriteInv'
    OBVIOUS
  <1>0. SingleWrite /\ ResultBounded
    BY DEF WriteInv
  <1> USE DEF WriteInv, SingleWrite, Outstanding, ResultBounded
  <1>1. ASSUME NEW m \in Msg, SendMessage(m) PROVE WriteInv'
    <2>1. CASE idleWrite
      <3>1. pending = 0 /\ done = <<>>
        BY <1>0, <2>1, OneOutstanding
      <3>2. pending' = pending + 1 /\ idleWrite' = FALSE /\ done' = done
        BY <1>1, <2>1, SendIdle
      <3> QED
        BY <3>1, <3>2
    <2>2. CASE ~idleWrite
      BY <1>0, <1>1, <2>2, SendBusy DEF lifeVars
    <2> QED
      BY <2>1, <2>2
  <1>2. ASSUME NEW n \in 1 .. Len(outBuffer), Transfer(n) PROVE WriteInv'
    <2>1. pending = 1 /\ done = <<>> /\ ~idleWrite
      BY <1>0, <1>2, OneOutstanding DEF Transfer
    <2>2. done' = <<[ok |-> TRUE, n |-> n]>>
      BY <1>2, <2>1 DEF Transfer
    <2> QED
      BY <1>2, <2>1, <2>2 DEF Transfer, writeVars, lifeVars
  <1>3. CASE TransferFails
    <2>1. pending = 1 /\ done = <<>> /\ ~idleWrite
      BY <1>0, <1>3, OneOutstanding DEF TransferFails
    <2>2. done' = <<[ok |-> FALSE, n |-> 0]>>
      BY <1>3, <2>1 DEF TransferFails
    <2> QED
      BY <1>3, <2>1, <2>2 DEF TransferFails, writeVars, lifeVars
  <1>4. CASE PeerResets
    BY <1>0, <1>4 DEF PeerResets, writeVars
  <1>5. ASSUME NEW i \in 1 .. Len(done), WriteHandler(i) PROVE WriteInv'
    <2>1. i = 1 /\ pending = 0 /\ ~idleWrite /\ done' = <<>>
      BY <1>0, <1>5, LastResult DEF WriteHandler
    <2>2. CASE done[i].n < Len(outBuffer)
      BY <1>5, <2>1, <2>2, HandlerRest
    <2>3. CASE ~(done[i].n < Len(outBuffer)) /\ msgQueue # <<>>
      <3>1. pending' = pending + 1 /\ idleWrite' = FALSE
        BY <1>5, <2>3, HandlerNext
      <3> QED
        BY <2>1, <3>1
    <2>4. CASE ~(done[i].n < Len(outBuffer)) /\ msgQueue = <<>>
      <3>1. pending' = pending /\ idleWrite' = TRUE
        BY <1>5, <2>4, HandlerDone
      <3> QED
        BY <2>1, <3>1
    <2> QED
      BY <2>2, <2>3, <2>4
  <1>6. ASSUME NEW i \in 1 .. Len(done), WriteHandlerError(i) PROVE WriteInv'
    <2>1. pending = 0 /\ ~idleWrite /\ done' = <<>>
      BY <1>0, <1>6, LastResult DEF WriteHandlerError
    <2>2. socket' # "open" /\ UNCHANGED <<idleWrite, outBuffer, pending>>
      BY <1>6 DEF WriteHandlerError, DestroyMe, writeVars
    <2> QED
      BY <2>1, <2>2
  <1>7. CASE ReadHandlerError
    <2>1. socket' # "open" /\ UNCHANGED <<idleWrite, outBuffer, pending, done>>
      BY <1>7 DEF ReadHandlerError, DestroyMe, writeVars
    <2> QED
      BY <1>0, <2>1
  <1>8. CASE UNCHANGED vars
    BY <1>0, <1>8 DEF vars, lifeVars, writeVars
  <1> QED
    BY <1>1, <1>2, <1>3, <1>4, <1>5, <1>6, <1>7, <1>8 DEF Next

\* At no time are two writes outstanding on the one output buffer, and an idle
\* writer has none: SendMessage and WriteHandler keep m_idleWrite right.
THEOREM OneWriteAtATime == Spec => []SingleWrite
  <1>1. Init => TypeOK /\ WriteInv
    BY InitTypes, InitWrite
  <1>2. TypeOK /\ WriteInv /\ [Next]_vars => (TypeOK /\ WriteInv)'
    BY NextTypes, NextWrite
  <1>3. WriteInv => SingleWrite
    BY DEF WriteInv
  <1> QED
    BY <1>1, <1>2, <1>3, PTL DEF Spec

-----------------------------------------------------------------------------
\* Cutting the front off what remains moves it to the wire.
LEMMA CutFront ==
  ASSUME NEW S, NEW w \in Seq(S), NEW b \in Seq(S), NEW n \in 0 .. Len(b)
  PROVE  /\ (w \o SubSeq(b, 1, n)) \o SubSeq(b, n + 1, Len(b)) = w \o b
         /\ SubSeq(w \o b, 1, Len(w) + n) = w \o SubSeq(b, 1, n)
         /\ Len(w \o SubSeq(b, 1, n)) = Len(w) + n
  <1> DEFINE x == SubSeq(b, 1, n)
             y == SubSeq(b, n + 1, Len(b))
  <1>1. x \in Seq(S) /\ Len(x) = n /\ \A i \in 1 .. n : x[i] = b[i]
    BY SubSeqProperties, ElementOfSeq
  <1>2. y \in Seq(S)
    BY SubSeqProperties, ElementOfSeq
  <1>3. x \o y = b
    <2>1. 1 \in 1 .. Len(b) + 1 /\ n \in 1 - 1 .. Len(b) /\ Len(b) \in n .. Len(b)
      OBVIOUS
    <2>2. x \o y = SubSeq(b, 1, Len(b))
      BY ONLY b \in Seq(S), <2>1, ConcatAdjacentSubSeq
    <2> QED
      BY <2>2, SubSeqFull
  <1>4. SubSeq(w \o b, 1, Len(w) + n) = w \o x
    <2> DEFINE p == SubSeq(w \o b, 1, Len(w) + n)
    <2>1. /\ w \o b \in Seq(S) /\ Len(w \o b) = Len(w) + Len(b)
          /\ \A i \in 1 .. Len(w) + n :
               (w \o b)[i] = IF i <= Len(w) THEN w[i] ELSE b[i - Len(w)]
      BY ConcatProperties
    <2>2. /\ p \in Seq(S) /\ Len(p) = Len(w) + n
          /\ \A i \in 1 .. Len(w) + n : p[i] = (w \o b)[i]
      BY <2>1, SubSeqProperties, ElementOfSeq
    <2>3. /\ w \o x \in Seq(S) /\ Len(w \o x) = Len(w) + n
          /\ \A i \in 1 .. Len(w) + n :
               (w \o x)[i] = IF i <= Len(w) THEN w[i] ELSE x[i - Len(w)]
      BY <1>1, ConcatProperties
    <2> HIDE DEF p, x
    <2>4. \A i \in 1 .. Len(w) + n : p[i] = (w \o x)[i]
      BY <1>1, <2>1, <2>2, <2>3
    <2>5. p = w \o x
      BY <2>2, <2>3, <2>4, SeqEqual
    <2> QED
      BY <2>5 DEF p
  <1> HIDE DEF x, y
  <1>5. Len(w \o x) = Len(w) + n
    BY <1>1
  <1>6. (w \o x) \o y = w \o (x \o y)
    BY ONLY <1>1, <1>2, w \in Seq(S), ConcatAssociative, SMTT(30)
  <1> QED
    BY <1>3, <1>4, <1>5, <1>6 DEF x, y

FramesInv == TypeOK /\ WriteInv /\ FramesIntact

LEMMA InitFrames == Init => FramesInv
  <1> SUFFICES ASSUME Init PROVE FramesInv
    OBVIOUS
  <1>1. FramesIntact
    BY DEF Init, FramesIntact, Remaining
  <1> QED
    BY <1>1, InitTypes, InitWrite DEF FramesInv

\* What remains in the buffer around a transfer of its first n bytes.
LEMMA TransferFrames ==
  ASSUME FramesInv, NEW n \in 1 .. Len(outBuffer), Transfer(n)
  PROVE  /\ FramesIntact'
         /\ stream' = stream
         /\ wire' = SubSeq(stream, 1, Len(wire) + n)
         /\ Len(wire) + n <= Len(stream)
  <1>1. TypeOK /\ SingleWrite /\ stream = wire \o Remaining
    BY DEF FramesInv, WriteInv, FramesIntact
  <1>2. done = <<>> /\ ~idleWrite
    BY <1>1, OneOutstanding DEF Transfer
  <1>3. stream = wire \o outBuffer
    BY <1>1, <1>2 DEF Remaining
  <1>4. wire \in Seq(Unit) /\ outBuffer \in Seq(Unit) /\ n \in 0 .. Len(outBuffer)
    BY <1>1 DEF TypeOK, KernelOK, WriterOK
  <1>5. /\ wire' = wire \o SubSeq(outBuffer, 1, n)
        /\ done' = <<[ok |-> TRUE, n |-> n]>>
        /\ UNCHANGED <<outBuffer, idleWrite, stream>>
    BY <1>2 DEF Transfer, writeVars, history
  <1>6. done' # <<>> /\ done'[1].ok /\ done'[1].n = n
    BY <1>5
  <1>7. Remaining' = SubSeq(outBuffer, n + 1, Len(outBuffer))
    BY <1>2, <1>5, <1>6 DEF Remaining
  <1>8. stream' = wire' \o Remaining'
    BY <1>3, <1>4, <1>5, <1>7, CutFront
  <1>9. wire' = SubSeq(stream, 1, Len(wire) + n)
    BY <1>3, <1>4, <1>5, CutFront
  <1>10. Len(stream) = Len(wire) + Len(outBuffer)
    BY <1>3, <1>4
  <1> QED
    BY <1>4, <1>5, <1>8, <1>9, <1>10 DEF FramesIntact

\* A step that starts a write of a new message appends its frame.
LEMMA StartFrames ==
  ASSUME FramesInv, NEW m \in Msg, Remaining = <<>>,
         outBuffer' = Units(m), stream' = stream \o Units(m),
         idleWrite' = FALSE, done' = <<>>, wire' = wire
  PROVE  FramesIntact'
  <1>1. wire \in Seq(Unit) /\ stream = wire
    BY ConcatEmptySeq DEF FramesInv, FramesIntact, TypeOK, KernelOK
  <1>2. Remaining' = Units(m)
    BY DEF Remaining
  <1> QED
    BY <1>1, <1>2 DEF FramesIntact

LEMMA NextFrames == FramesInv /\ [Next]_vars => FramesInv'
  <1> SUFFICES ASSUME FramesInv, [Next]_vars PROVE FramesIntact'
    BY NextTypes, NextWrite DEF FramesInv
  <1>0. TypeOK /\ WriteInv /\ SingleWrite /\ stream = wire \o Remaining
    BY DEF FramesInv, WriteInv, FramesIntact
  <1>1. ASSUME NEW m \in Msg, SendMessage(m) PROVE FramesIntact'
    <2>1. CASE idleWrite
      <3>1. done = <<>> /\ Remaining = <<>>
        BY <1>0, <2>1, OneOutstanding DEF Remaining
      <3>2. /\ outBuffer' = Units(m) /\ stream' = stream \o Units(m)
            /\ idleWrite' = FALSE /\ done' = done /\ wire' = wire
        BY <1>1, <2>1, SendIdle
      <3> QED
        BY <3>1, <3>2, StartFrames
    <2>2. CASE ~idleWrite
      <3>1. UNCHANGED <<idleWrite, outBuffer, stream, done, wire>>
        BY <1>1, <2>2, SendBusy
      <3> QED
        BY <1>0, <3>1 DEF FramesIntact, Remaining
    <2> QED
      BY <2>1, <2>2
  <1>2. ASSUME NEW n \in 1 .. Len(outBuffer), Transfer(n) PROVE FramesIntact'
    BY <1>2, TransferFrames
  <1>3. CASE TransferFails
    <2>1. done = <<>> /\ ~idleWrite
      BY <1>0, <1>3, OneOutstanding DEF TransferFails
    <2>2. done' = <<[ok |-> FALSE, n |-> 0]>>
      BY <1>3, <2>1 DEF TransferFails
    <2>3. UNCHANGED <<idleWrite, outBuffer, stream, wire>>
      BY <1>3 DEF TransferFails, writeVars, history
    <2>4. Remaining' = Remaining
      BY <2>1, <2>2, <2>3 DEF Remaining
    <2> QED
      BY <1>0, <2>3, <2>4 DEF FramesIntact
  <1>4. CASE PeerResets
    <2>1. UNCHANGED <<idleWrite, outBuffer, stream, done, wire>>
      BY <1>4 DEF PeerResets, writeVars, history
    <2> QED
      BY <1>0, <2>1 DEF FramesIntact, Remaining
  <1>5. ASSUME NEW i \in 1 .. Len(done), WriteHandler(i) PROVE FramesIntact'
    <2>1. i = 1 /\ ~idleWrite /\ done # <<>> /\ done' = <<>>
      BY <1>0, <1>5, LastResult DEF WriteHandler
    <2>2. Remaining = SubSeq(outBuffer, done[1].n + 1, Len(outBuffer))
      BY <1>5, <2>1 DEF Remaining, WriteHandler
    <2>3. CASE done[i].n < Len(outBuffer)
      <3>1. /\ outBuffer' = SubSeq(outBuffer, done[i].n + 1, Len(outBuffer))
            /\ UNCHANGED <<idleWrite, stream, wire>>
        BY <1>0, <1>5, <2>3, HandlerRest
      <3>2. Remaining' = outBuffer'
        BY <2>1, <3>1 DEF Remaining
      <3> QED
        BY <1>0, <2>1, <2>2, <3>1, <3>2 DEF FramesIntact
    <2>4. CASE ~(done[i].n < Len(outBuffer))
      <3>1. Remaining = <<>>
        <4>1. done[1].n \in Nat /\ Len(outBuffer) \in Nat
          BY <1>0, <2>1, ResultType
        <4> QED
          BY <2>1, <2>2, <2>4, <4>1, SubSeqEmpty
      <3>2. CASE msgQueue # <<>>
        <4> DEFINE m == Last(msgQueue)
        <4>1. m \in Msg
          <5>1. msgQueue \in Seq(Msg) /\ Len(msgQueue) \in 1 .. Len(msgQueue)
            BY <1>0, <3>2 DEF TypeOK, WriterOK
          <5> QED
            BY <5>1, ElementOfSeq DEF Last
        <4>2. /\ outBuffer' = Units(m) /\ stream' = stream \o Units(m)
              /\ idleWrite' = FALSE /\ wire' = wire
          BY <1>0, <1>5, <2>4, <3>2, HandlerNext
        <4> HIDE DEF m
        <4> QED
          BY <2>1, <3>1, <4>1, <4>2, StartFrames
      <3>3. CASE msgQueue = <<>>
        <4>1. idleWrite' = TRUE /\ UNCHANGED <<stream, wire>>
          BY <1>0, <1>5, <2>4, <3>3, HandlerDone
        <4>2. Remaining' = <<>>
          BY <4>1 DEF Remaining
        <4> QED
          BY <1>0, <3>1, <4>1, <4>2 DEF FramesIntact
      <3> QED
        BY <3>2, <3>3
    <2> QED
      BY <2>3, <2>4
  <1>6. ASSUME NEW i \in 1 .. Len(done), WriteHandlerError(i) PROVE FramesIntact'
    <2>1. i = 1 /\ ~idleWrite /\ done' = <<>>
      BY <1>0, <1>6, LastResult DEF WriteHandlerError
    <2>2. UNCHANGED <<idleWrite, outBuffer, stream, wire>> /\ ~done[1].ok
      BY <1>6, <2>1 DEF WriteHandlerError, writeVars, history
    <2>3. Remaining' = Remaining
      BY <2>1, <2>2 DEF Remaining
    <2> QED
      BY <1>0, <2>2, <2>3 DEF FramesIntact
  <1>7. CASE ReadHandlerError
    <2>1. UNCHANGED <<idleWrite, outBuffer, stream, done, wire>>
      BY <1>7 DEF ReadHandlerError, writeVars, history
    <2> QED
      BY <1>0, <2>1 DEF FramesIntact, Remaining
  <1>8. CASE UNCHANGED vars
    BY <1>0, <1>8 DEF vars, writeVars, history, FramesIntact, Remaining
  <1> QED
    BY <1>1, <1>2, <1>3, <1>4, <1>5, <1>6, <1>7, <1>8 DEF Next

\* However the kernel cuts the writes, the wire followed by what the buffer still
\* holds is the concatenation of the frames chosen for sending.
THEOREM FramesStayIntact == Spec => []FramesIntact
  <1>1. FramesInv => FramesIntact
    BY DEF FramesInv
  <1> QED
    BY <1>1, InitFrames, NextFrames, PTL DEF Spec

-----------------------------------------------------------------------------
(* The order of the messages *)

\* The waiting messages are counted by the high-water mark; an idle writer has none.
QueueCounted ==
  /\ Len(msgQueue) <= highWater
  /\ idleWrite => msgQueue = <<>>

OrderInv == TypeOK /\ QueueCounted /\ FifoWhileShallow

LEMMA AppendAfter ==
  ASSUME NEW S, NEW a \in Seq(S), NEW b \in Seq(S), NEW e \in S
  PROVE  a \o Append(b, e) = Append(a \o b, e)
  OBVIOUS

\* back() and pop() agree on a queue of one.
LEMMA OnlyOneWaits ==
  ASSUME NEW S, NEW a \in Seq(S), NEW q \in Seq(S), Len(q) = 1
  PROVE  Append(a, Last(q)) \o Tail(q) = a \o q
<1>0. q[1] \in S /\ Last(q) = q[1] /\ Tail(q) \in Seq(S) /\ Len(Tail(q)) = 0
  <2>1. Tail(q) \in Seq(S) /\ Len(Tail(q)) = Len(q) - 1
    <3>1. q # <<>>
      OBVIOUS
    <3> QED
      BY <3>1, HeadTailProperties
  <2> QED
    BY <2>1, ElementOfSeq DEF Last
<1>1. /\ q = <<q[1]>>
      /\ q[1] \in S /\ Last(q) = q[1] /\ Tail(q) = <<>>
  <2>1. q = <<q[1]>>
    BY <1>0, SeqEqual
  <2> QED
    BY <1>0, <2>1, EmptySeq
<1>2. a \o <<q[1]>> = Append(a, q[1]) /\ Append(a, q[1]) \in Seq(S)
  BY <1>1
<1>3. Append(a, q[1]) \o <<>> = Append(a, q[1])
  BY <1>2
<1> QED
  BY <1>1, <1>2, <1>3

LEMMA InitOrder == Init => OrderInv
<1> SUFFICES ASSUME Init PROVE OrderInv
  OBVIOUS
<1>1. QueueCounted /\ FifoWhileShallow
  BY DEF Init, QueueCounted, FifoWhileShallow
<1> QED
  BY <1>1, InitTypes DEF OrderInv

LEMMA NextOrder == OrderInv /\ [Next]_vars => OrderInv'
<1> SUFFICES ASSUME OrderInv, [Next]_vars PROVE QueueCounted' /\ FifoWhileShallow'
  BY NextTypes DEF OrderInv
<1>0. TypeOK /\ QueueCounted /\ FifoWhileShallow
  BY DEF OrderInv
<1>t. /\ msgQueue \in Seq(Msg) /\ sent \in Seq(Msg) /\ loaded \in Seq(Msg)
      /\ highWater \in Nat /\ Len(msgQueue) \in Nat
  BY <1>0 DEF TypeOK, WriterOK, HistoryOK
\* A step that leaves the messages and the flag alone.
<1>u. ASSUME UNCHANGED <<idleWrite, msgQueue, loaded, sent, highWater>>
      PROVE  QueueCounted' /\ FifoWhileShallow'
  BY <1>0, <1>u DEF QueueCounted, FifoWhileShallow
<1>1. ASSUME NEW m \in Msg, SendMessage(m) PROVE QueueCounted' /\ FifoWhileShallow'
  <2>1. CASE idleWrite
    <3>1. /\ loaded' = Append(loaded, m) /\ sent' = Append(sent, m) /\ idleWrite' = FALSE
          /\ UNCHANGED <<msgQueue, highWater>>
      BY <1>1, <2>1, SendIdle
    <3>2. msgQueue = <<>>
      BY <1>0, <2>1 DEF QueueCounted
    <3>3. loaded \o <<>> = loaded /\ Append(loaded, m) \o <<>> = Append(loaded, m)
      BY <1>t
    <3>4. QueueCounted'
      BY <1>0, <3>1 DEF QueueCounted
    <3>5. FifoWhileShallow'
      BY <1>0, <3>1, <3>2, <3>3 DEF FifoWhileShallow
    <3> QED
      BY <3>4, <3>5
  <2>2. CASE ~idleWrite
    <3>1. /\ msgQueue' = Append(msgQueue, m) /\ sent' = Append(sent, m)
          /\ highWater' = IF Len(msgQueue) < highWater THEN highWater ELSE Len(msgQueue) + 1
          /\ UNCHANGED <<idleWrite, loaded>>
      BY <1>1, <2>2, SendBusy
    <3>2. Len(msgQueue') = Len(msgQueue) + 1
      BY <1>t, <3>1
    <3>3. Len(msgQueue') <= highWater' /\ (highWater' <= 1 => highWater <= 1)
      BY <1>0, <1>t, <3>1, <3>2 DEF QueueCounted
    <3>4. loaded \o msgQueue' = Append(loaded \o msgQueue, m)
      BY <1>t, <3>1, AppendAfter
    <3> QED
      BY <1>0, <2>2, <3>1, <3>3, <3>4 DEF QueueCounted, FifoWhileShallow
  <2> QED
    BY <2>1, <2>2
<1>2. CASE (\E n \in 1 .. Len(outBuffer) : Transfer(n)) \/ TransferFails
  BY <1>2, <1>u DEF Transfer, TransferFails, writeVars, history
<1>3. CASE PeerResets \/ ReadHandlerError \/ \E i \in 1 .. Len(done) : WriteHandlerError(i)
  BY <1>3, <1>u DEF PeerResets, ReadHandlerError, WriteHandlerError, writeVars, history
<1>4. ASSUME NEW i \in 1 .. Len(done), WriteHandler(i) PROVE QueueCounted' /\ FifoWhileShallow'
  <2>1. CASE done[i].n < Len(outBuffer)
    <3>1. UNCHANGED <<idleWrite, msgQueue, loaded, sent, highWater>>
      BY <1>0, <1>4, <2>1, HandlerRest
    <3> QED
      BY <3>1, <1>u
  <2>2. CASE ~(done[i].n < Len(outBuffer)) /\ msgQueue # <<>>
    <3>1. /\ loaded' = Append(loaded, Last(msgQueue)) /\ msgQueue' = Tail(msgQueue)
          /\ idleWrite' = FALSE /\ UNCHANGED <<sent, highWater>>
      BY <1>0, <1>4, <2>2, HandlerNext
    <3>2. Len(msgQueue') = Len(msgQueue) - 1 /\ Len(msgQueue) >= 1
      BY <1>t, <2>2, <3>1
    <3>3. QueueCounted'
      BY <1>0, <1>t, <3>1, <3>2 DEF QueueCounted
    <3>4. ASSUME highWater <= 1 PROVE loaded' \o msgQueue' = sent'
      <4>1. Len(msgQueue) = 1
        BY <1>0, <1>t, <3>2, <3>4 DEF QueueCounted
      <4> QED
        BY <1>0, <1>t, <3>1, <3>4, <4>1, OnlyOneWaits DEF FifoWhileShallow
    <3> QED
      BY <3>1, <3>3, <3>4 DEF FifoWhileShallow
  <2>3. CASE ~(done[i].n < Len(outBuffer)) /\ msgQueue = <<>>
    <3>1. UNCHANGED <<msgQueue, loaded, sent, highWater>>
      BY <1>0, <1>4, <2>3, HandlerDone
    <3> QED
      BY <1>0, <2>3, <3>1 DEF QueueCounted, FifoWhileShallow
  <2> QED
    BY <2>1, <2>2, <2>3
<1>5. CASE UNCHANGED vars
  BY <1>5, <1>u DEF vars, writeVars, history
<1> QED
  BY <1>1, <1>2, <1>3, <1>4, <1>5 DEF Next

\* WriteHandler copies m_msgQueue.back() and removes the front (tcpserver_child.cpp:76): whatever the interleaving, messages can be swapped or repeated only
\* once two of them have waited together.
THEOREM OrderKeptWhileShallow == Spec => []FifoWhileShallow
<1>1. OrderInv => FifoWhileShallow
  BY DEF OrderInv
<1> QED
  BY <1>1, InitOrder, NextOrder, PTL DEF Spec

-----------------------------------------------------------------------------
Blocks == {Units(m) : m \in Msg}

\* Choosing a message accepts its frame.
LEMMA AcceptStep ==
  ASSUME NEW m \in Msg, stream' = stream \o Units(m), wire' = wire
  PROVE  Frames!StreamNext
  <1>1. Units(m) \in Blocks
    BY DEF Blocks
  <1>2. Frames!Accept(Units(m))
    BY DEF Frames!Accept
  <1> QED
    BY <1>1, <1>2 DEF Frames!StreamNext, Blocks

LEMMA StreamStep == FramesInv /\ [Next]_vars => [Frames!StreamNext]_(Frames!streamVars)
  <1> SUFFICES ASSUME FramesInv, [Next]_vars
               PROVE  Frames!StreamNext \/ UNCHANGED <<stream, wire>>
    BY DEF Frames!streamVars
  <1>0. TypeOK /\ WriteInv /\ SingleWrite
    BY DEF FramesInv, WriteInv
  <1>1. ASSUME NEW m \in Msg, SendMessage(m)
        PROVE  Frames!StreamNext \/ UNCHANGED <<stream, wire>>
    <2>1. CASE idleWrite
      BY <1>1, <2>1, SendIdle, AcceptStep
    <2>2. CASE ~idleWrite
      BY <1>1, <2>2, SendBusy
    <2> QED
      BY <2>1, <2>2
  <1>2. ASSUME NEW n \in 1 .. Len(outBuffer), Transfer(n)
        PROVE  Frames!StreamNext
    <2>1. /\ stream' = stream /\ wire' = SubSeq(stream, 1, Len(wire) + n)
          /\ Len(wire) + n <= Len(stream)
      BY <1>2, TransferFrames
    <2>2. Len(wire) \in Nat /\ Len(stream) \in Nat /\ n \in Nat \ {0}
      BY <1>0 DEF TypeOK, KernelOK, HistoryOK, WriterOK
    <2>3. n \in 1 .. Len(stream) - Len(wire)
      BY <2>1, <2>2
    <2>4. Frames!Deliver(n)
      BY <2>1 DEF Frames!Deliver
    <2> QED
      BY <2>3, <2>4 DEF Frames!StreamNext
  <1>3. CASE TransferFails
    BY <1>3 DEF TransferFails, history
  <1>4. CASE PeerResets
    BY <1>4 DEF PeerResets, history
  <1>5. ASSUME NEW i \in 1 .. Len(done), WriteHandler(i)
        PROVE  Frames!StreamNext \/ UNCHANGED <<stream, wire>>
    <2>1. CASE done[i].n < Len(outBuffer)
      BY <1>0, <1>5, <2>1, HandlerRest
    <2>2. CASE ~(done[i].n < Len(outBuffer)) /\ msgQueue # <<>>
      <3> DEFINE m == Last(msgQueue)
      <3>1. m \in Msg
        <4>1. msgQueue \in Seq(Msg) /\ Len(msgQueue) \in 1 .. Len(msgQueue)
          BY <1>0, <2>2 DEF TypeOK, WriterOK
        <4> QED
          BY <4>1, ElementOfSeq DEF Last
      <3>2. stream' = stream \o Units(m) /\ wire' = wire
        BY <1>0, <1>5, <2>2, HandlerNext
      <3> HIDE DEF m
      <3> QED
        BY <3>1, <3>2, AcceptStep
    <2>3. CASE ~(done[i].n < Len(outBuffer)) /\ msgQueue = <<>>
      BY <1>0, <1>5, <2>3, HandlerDone
    <2> QED
      BY <2>1, <2>2, <2>3
  <1>6. ASSUME NEW i \in 1 .. Len(done), WriteHandlerError(i)
        PROVE  UNCHANGED <<stream, wire>>
    BY <1>6 DEF WriteHandlerError, history
  <1>7. CASE ReadHandlerError
    BY <1>7 DEF ReadHandlerError, history
  <1>8. CASE UNCHANGED vars
    BY <1>8 DEF vars, history
  <1> QED
    BY <1>1, <1>2, <1>3, <1>4, <1>5, <1>6, <1>7, <1>8 DEF Next

\* The write side of a client implements an ordered byte stream of the frames
\* chosen for sending, for every set of messages and sizes.
THEOREM ClientImplementsStream == Spec => ImplementsStream
  <1>1. Init => Frames!StreamInit
    BY DEF Init, Frames!StreamInit
  <1> QED
    BY <1>1, InitFrames, NextFrames, StreamStep, PTL
       DEF Spec, ImplementsStream, Frames!StreamSpec
=============================================================================
