------------------------- MODULE UartTerminalProofs -------------------------
(***************************************************************************)
(* Proofs about CTerminal: for messages of any sizes, however often the    *)
(* device goes and comes back and however operations end then, no byte is  *)
(* skipped or moved on the way out, but for the two named races, and no    *)
(* read longer than a byte is lost on the way in.                          *)
(***************************************************************************)
EXTENDS UartTerminal, FiniteSetTheorems, TLAPS

FlagTypes ==
  /\ device \in {"present", "gone"} /\ port \in {"none", "open", "dead", "closed"}
  /\ lossKind \in {"aborted", "failed"}
  /\ setup \in {"submitted", "opened", "write", "read", "idle"}
  /\ readDone \in {"none", "data", "aborted", "failed"}
  /\ flaws \subseteq {"race", "stale", "readFailed", "underflow", "refused"}

BooleanTypes ==
  /\ isOpened \in BOOLEAN /\ inProgress \in BOOLEAN /\ connected \in BOOLEAN
  /\ wired \in BOOLEAN /\ stopped \in BOOLEAN /\ lock \in BOOLEAN /\ reading \in BOOLEAN

Counts == epoch \in Nat /\ total \in 0 .. MaxBytes /\ popped \in 0 .. total

WriteTypes ==
  /\ \A w \in pending : w.byte \in 0 .. MaxBytes
  /\ \A w \in pending \cup done : w.epoch \in 1 .. epoch
  /\ wire \in Seq(0 .. MaxBytes)

ReadTypes == got \in Seq({1, 2}) /\ passed \in Seq(Nat) /\ (readDone = "data" => got # <<>>)

Typed == FlagTypes /\ BooleanTypes /\ Counts /\ WriteTypes /\ ReadTypes

\* A port is open only after it was made, and not while it waits to be set up; a write in
\* progress, or about to be started, has a byte to write.
FlagsAgree ==
  /\ isOpened => epoch > 0
  /\ setup = "submitted" => ~isOpened
  /\ inProgress \/ lock => Buffered

\* No message came in while Setup was between raising bIsOpened and looking at the
\* buffer, and no completion of an old port was taken for one of the new.
Calm == flaws \cap {"race", "stale"} = {}

Outstanding == Current(pending \cup done)

\* The flag bIsOpened together with bWriteInProgress, and the place of Setup, tell
\* whether a write of this port can be under way.
OneWrite == Calm =>
  /\ \A v, w \in Current(pending) : v = w
  /\ \A c, d \in Current(done) : c = d
  /\ Current(pending) = {} \/ Current(done) = {}
  /\ setup \in {"opened", "write"} => Outstanding = {} /\ ~lock
  /\ setup = "write" => inProgress
  /\ isOpened /\ ~inProgress => Outstanding = {} /\ ~lock
  /\ isOpened /\ lock => Outstanding = {}

\* The byte under way is the front of m_WriteBuffer, and the device took it last when
\* the write has ended well.
FrontUnderWay == Calm =>
  /\ \A w \in pending : w.epoch = epoch => w.byte = popped + 1
  /\ \A d \in done : d.epoch = epoch /\ d.result = "ok" => wire # <<>> /\ wire[Len(wire)] = popped + 1

LastTaken == Calm => IF wire = <<>> THEN popped = 0 ELSE wire[Len(wire)] \in {popped, popped + 1}

IInv ==
  /\ Typed /\ FlagsAgree /\ OneWrite /\ FrontUnderWay /\ LastTaken
  /\ NothingSkippedUnlessRaced /\ InOrderUnlessRaced /\ LongerReadsPassed
-----------------------------------------------------------------------------
(* What a step may do, by the part of the state. *)

\* A write is started on the port that is, and only on an open one.
LEMMA StartsOne ==
  ASSUME NEW front, WriteStarts(front)
  PROVE  \/ UNCHANGED pending
         \/ /\ isOpened
            /\ \E w : /\ w.epoch = epoch /\ w.byte = (IF front <= total THEN front ELSE 0)
                      /\ pending' = pending \cup {w}
<1>1. CASE isOpened
  <2> DEFINE w == [byte |-> IF front <= total THEN front ELSE 0, epoch |-> epoch, id |-> FreshId]
  <2>1. pending' = pending \cup {w}
    BY <1>1 DEF WriteStarts
  <2>2. w.epoch = epoch /\ w.byte = (IF front <= total THEN front ELSE 0)
    OBVIOUS
  <2> QED
    BY <1>1, <2>1, <2>2
<1>2. CASE ~isOpened
  BY <1>2 DEF WriteStarts
<1> QED
  BY <1>1, <1>2

\* The steps of each part.
DeviceStep ==
  \/ \E k \in LossKinds : DeviceGoes(k)
  \/ DeviceReturns \/ ReadEnds
OpeningStep == SetupFails \/ SetupOpens \/ SetupRefused \/ SetupDropped \/ SetupBuffer \/ SetupRead
WriterStep ==
  \/ \E w \in pending : WriteEnds(w)
  \/ \E n \in MsgSize : DoWrite(n)
  \/ DoWriteStart \/ SetupWrite
  \/ \E d \in done : WriteCompleteOk(d) \/ WriteCompleteError(d)
ReaderStep == ReadCompleteData \/ ReadCompleteAborted \/ ReadCompleteFailed

LEMMA StepKinds ==
  Next <=> DeviceStep \/ OpeningStep \/ WriterStep \/ ReaderStep \/ SetChannels \/ Stop
BY DEF Next, DeviceStep, OpeningStep, WriterStep, ReaderStep

LEMMA FlagTypesStay ==
  ASSUME Typed, [Next]_vars
  PROVE  FlagTypes'
<1> USE DEF Typed, FlagTypes, flags, portVars, queueVars, reader, writes, history
<1>1. CASE DeviceStep
  BY <1>1, TerminalAssumption DEF DeviceStep, DeviceGoes, DeviceReturns, ReadEnds, TerminalAssumption
<1>2. CASE OpeningStep
  BY <1>2 DEF OpeningStep, SetupFails, SetupOpens, SetupRefused, SetupDropped, SetupBuffer, SetupRead, SetupAsync
<1>3. CASE WriterStep
  <2>1. CASE (\E w \in pending : WriteEnds(w)) \/ (\E n \in MsgSize : DoWrite(n)) \/ DoWriteStart \/ SetupWrite
    <3>1. /\ UNCHANGED <<device, port, lossKind, readDone>>
          /\ UNCHANGED setup \/ setup' = "read"
          /\ UNCHANGED flaws \/ flaws' = flaws \cup {"race"}
      BY <2>1 DEF WriteEnds, DoWrite, DoWriteStart, SetupWrite
    <3> QED
      BY <3>1
  <2>2. ASSUME NEW d \in done, WriteCompleteOk(d)
        PROVE  FlagTypes'
    <3>1. /\ UNCHANGED <<device, port, lossKind, setup, readDone>>
          /\ flaws' \subseteq flaws \cup {"stale", "underflow"}
      BY <2>2 DEF WriteCompleteOk
    <3> QED
      BY <3>1
  <2>3. ASSUME NEW d \in done, WriteCompleteError(d)
        PROVE  FlagTypes'
    BY <2>3 DEF WriteCompleteError
  <2> QED
    BY <1>3, <2>1, <2>2, <2>3 DEF WriterStep
<1>4. CASE ReaderStep
  BY <1>4 DEF ReaderStep, ReadCompleteData, ReadCompleteAborted, ReadCompleteFailed, SetupAsync
<1>5. CASE SetChannels \/ Stop
  BY <1>5 DEF SetChannels, Stop
<1>6. CASE UNCHANGED vars
  BY <1>6 DEF vars
<1> QED
  BY <1>1, <1>2, <1>3, <1>4, <1>5, <1>6, StepKinds

LEMMA BooleanTypesStay ==
  ASSUME Typed, [Next]_vars
  PROVE  BooleanTypes'
<1> USE DEF Typed, BooleanTypes, flags, portVars, queueVars, reader, writes, history
<1>1. CASE DeviceStep
  BY <1>1 DEF DeviceStep, DeviceGoes, DeviceReturns, ReadEnds
<1>2. CASE OpeningStep
  BY <1>2 DEF OpeningStep, SetupFails, SetupOpens, SetupRefused, SetupDropped, SetupBuffer, SetupRead, SetupAsync
<1>3. CASE WriterStep
  <2>1. CASE \/ (\E w \in pending : WriteEnds(w)) \/ DoWriteStart \/ SetupWrite
             \/ \E d \in done : WriteCompleteError(d)
    BY <2>1 DEF WriteEnds, DoWriteStart, SetupWrite, WriteCompleteError
  <2>2. ASSUME NEW n \in MsgSize, DoWrite(n)
        PROVE  BooleanTypes'
    BY <2>2 DEF DoWrite
  <2>3. ASSUME NEW d \in done, WriteCompleteOk(d)
        PROVE  BooleanTypes'
    <3>1. UNCHANGED <<isOpened, connected, wired, stopped, lock, reading>> /\ inProgress' = (popped' < total)
      BY <2>3 DEF WriteCompleteOk
    <3> QED
      BY <3>1
  <2> QED
    BY <1>3, <2>1, <2>2, <2>3 DEF WriterStep
<1>4. CASE ReaderStep
  BY <1>4 DEF ReaderStep, ReadCompleteData, ReadCompleteAborted, ReadCompleteFailed, SetupAsync
<1>5. CASE SetChannels \/ Stop
  BY <1>5 DEF SetChannels, Stop
<1>6. CASE UNCHANGED vars
  BY <1>6 DEF vars
<1> QED
  BY <1>1, <1>2, <1>3, <1>4, <1>5, <1>6, StepKinds

LEMMA CountsStay ==
  ASSUME Typed, [Next]_vars
  PROVE  Counts'
<1> USE DEF Typed, Counts, flags, portVars, queueVars, reader, writes, history
<1>1. CASE DeviceStep
  BY <1>1 DEF DeviceStep, DeviceGoes, DeviceReturns, ReadEnds
<1>2. CASE OpeningStep
  BY <1>2 DEF OpeningStep, SetupFails, SetupOpens, SetupRefused, SetupDropped, SetupBuffer, SetupRead, SetupAsync
<1>3. CASE WriterStep
  BY <1>3, TerminalAssumption DEF WriterStep, WriteEnds, DoWrite, DoWriteStart, SetupWrite, WriteCompleteOk,
     WriteCompleteError, TerminalAssumption, Buffered
<1>4. CASE ReaderStep
  BY <1>4 DEF ReaderStep, ReadCompleteData, ReadCompleteAborted, ReadCompleteFailed, SetupAsync
<1>5. CASE SetChannels \/ Stop
  BY <1>5 DEF SetChannels, Stop
<1>6. CASE UNCHANGED vars
  BY <1>6 DEF vars
<1> QED
  BY <1>1, <1>2, <1>3, <1>4, <1>5, <1>6, StepKinds

LEMMA WriteTypesStay ==
  ASSUME Typed, FlagsAgree, [Next]_vars
  PROVE  WriteTypes'
<1> USE DEF Typed, Counts, WriteTypes, flags, portVars, queueVars, reader, writes, history
<1>1. ASSUME UNCHANGED <<pending, done, wire>>, epoch' \in {epoch, epoch + 1}
      PROVE  WriteTypes'
  BY <1>1
<1>2. ASSUME NEW front \in Nat, WriteStarts(front), UNCHANGED <<wire, epoch>>, done' \subseteq done
      PROVE  WriteTypes'
  <2>1. CASE UNCHANGED pending
    BY <1>2, <2>1
  <2>2. CASE /\ isOpened
             /\ \E w : /\ w.epoch = epoch /\ w.byte = (IF front <= total THEN front ELSE 0)
                       /\ pending' = pending \cup {w}
    <3>1. PICK w : /\ w.epoch = epoch /\ w.byte = (IF front <= total THEN front ELSE 0)
                   /\ pending' = pending \cup {w}
      BY <2>2
    <3>2. w.epoch \in 1 .. epoch /\ w.byte \in 0 .. MaxBytes
      BY <2>2, <3>1, TerminalAssumption DEF FlagsAgree, TerminalAssumption
    <3> QED
      BY <1>2, <3>1, <3>2
  <2> QED
    BY <1>2, <2>1, <2>2, StartsOne
<1>3. CASE DeviceStep
  BY <1>1, <1>3 DEF DeviceStep, DeviceGoes, DeviceReturns, ReadEnds
<1>4. CASE OpeningStep
  BY <1>1, <1>4 DEF OpeningStep, SetupFails, SetupOpens, SetupRefused, SetupDropped, SetupBuffer, SetupRead
<1>5. ASSUME NEW w \in pending, WriteEnds(w)
      PROVE  WriteTypes'
  <2>1. /\ UNCHANGED epoch /\ pending' = pending \ {w}
        /\ wire' = wire \/ wire' = Append(wire, w.byte)
        /\ \E d : d.epoch = w.epoch /\ done' = done \cup {d}
    BY <1>5 DEF WriteEnds
  <2>2. PICK d : d.epoch = w.epoch /\ done' = done \cup {d}
    BY <2>1
  <2>3. w.byte \in 0 .. MaxBytes /\ w.epoch \in 1 .. epoch
    BY <1>5
  <2>4. wire' \in Seq(0 .. MaxBytes)
    <3>1. Append(wire, w.byte) \in Seq(0 .. MaxBytes)
      BY <2>3
    <3> QED
      BY <2>1, <3>1
  <2>5. \A v \in pending' : v.byte \in 0 .. MaxBytes
    BY <2>1
  <2>6. \A v \in pending' \cup done' : v.epoch \in 1 .. epoch'
    BY <2>1, <2>2, <2>3
  <2> QED
    BY <2>4, <2>5, <2>6
<1>6. ASSUME NEW n \in MsgSize, DoWrite(n)
      PROVE  WriteTypes'
  BY <1>1, <1>6 DEF DoWrite
<1>7. CASE DoWriteStart \/ SetupWrite
  BY <1>2, <1>7 DEF DoWriteStart, SetupWrite, Resumed
<1>8. ASSUME NEW d \in done, WriteCompleteOk(d)
      PROVE  WriteTypes'
  <2>1. /\ UNCHANGED <<epoch, wire>> /\ done' \subseteq done
        /\ UNCHANGED pending \/ WriteStarts(popped' + 1)
        /\ popped' \in Nat
    BY <1>8 DEF WriteCompleteOk
  <2>2. PICK p \in Nat : p = popped'
    BY <2>1
  <2>3. CASE UNCHANGED pending
    BY <2>1, <2>3
  <2>4. CASE WriteStarts(p + 1)
    BY <1>2, <2>1, <2>4
  <2> QED
    BY <2>1, <2>2, <2>3, <2>4
<1>9. ASSUME NEW d \in done, WriteCompleteError(d)
      PROVE  WriteTypes'
  BY <1>9 DEF WriteCompleteError
<1>10. CASE ReaderStep \/ SetChannels \/ Stop
  BY <1>1, <1>10 DEF ReaderStep, ReadCompleteData, ReadCompleteAborted, ReadCompleteFailed, SetChannels, Stop
<1>11. CASE UNCHANGED vars
  BY <1>1, <1>11 DEF vars
<1> QED
  BY <1>3, <1>4, <1>5, <1>6, <1>7, <1>8, <1>9, <1>10, <1>11, StepKinds DEF WriterStep

\* A read is remembered when it ends, and passed on, if it is longer than a byte, when its
\* handler runs.
LEMMA ReadsStay ==
  ASSUME Typed, LongerReadsPassed, [Next]_vars
  PROVE  ReadTypes' /\ LongerReadsPassed'
<1> USE DEF Typed, ReadTypes, LongerReadsPassed, Handled
<1>1. ASSUME UNCHANGED <<got, passed>>, readDone' = readDone \/ (readDone # "data" /\ readDone' # "data")
      PROVE  ReadTypes' /\ LongerReadsPassed'
  BY <1>1
<1>2. CASE ReadEnds
  <2>1. CASE UNCHANGED got
    BY <1>1, <1>2, <2>1 DEF ReadEnds, FlagTypes
  <2>2. CASE got' # got
    <3>1. readDone = "none" /\ readDone' = "data" /\ UNCHANGED passed
      BY <1>2, <2>2 DEF ReadEnds
    <3>2. PICK n \in {1, 2} : got' = Append(got, n)
      BY <1>2, <2>2 DEF ReadEnds
    <3>3. /\ got' \in Seq({1, 2}) /\ Len(got') = Len(got) + 1 /\ got' # <<>>
          /\ \A i \in 1 .. Len(got) : got'[i] = got[i]
      BY <3>2
    <3>4. Len(got) \in Nat /\ Handled = 1 .. Len(got) /\ Handled' = 1 .. Len(got)
      BY <3>1, <3>3
    <3>5. {k \in Handled' : got'[k] > 1} = {k \in Handled : got[k] > 1}
      BY <3>3, <3>4
    <3>6. LongerReadsPassed'
      BY <3>1, <3>5
    <3> QED
      BY <3>1, <3>3, <3>6
  <2> QED
    BY <2>1, <2>2
<1>3. CASE ReadCompleteData
  <2>1. /\ readDone = "data" /\ readDone' = "none" /\ UNCHANGED got
        /\ passed' = IF got[Len(got)] > 1 THEN Append(passed, Len(got)) ELSE passed
    BY <1>3 DEF ReadCompleteData
  <2>2. Len(got) \in Nat \ {0} /\ Handled = 1 .. Len(got) - 1
    BY <2>1
  <2>5. ASSUME NEW i \in DOMAIN passed
        PROVE  passed[i] \in Nat /\ passed[i] < Len(got)
    <3>1. passed[i] \in {passed[k] : k \in DOMAIN passed}
      OBVIOUS
    <3>2. passed[i] \in Handled
      BY <3>1
    <3> QED
      BY <2>2, <3>2
  <2>6. DOMAIN passed = 1 .. Len(passed) /\ Len(passed) \in Nat
    OBVIOUS
  <2>3. CASE got[Len(got)] > 1
    <3>1. /\ passed' \in Seq(Nat) /\ Len(passed') = Len(passed) + 1 /\ passed'[Len(passed) + 1] = Len(got)
          /\ \A i \in 1 .. Len(passed) : passed'[i] = passed[i]
      BY <2>1, <2>2, <2>3
    <3>6. DOMAIN passed' = DOMAIN passed \cup {Len(passed) + 1} /\ Len(passed) + 1 \notin DOMAIN passed
      BY <2>6, <3>1
    <3>2. {passed'[i] : i \in DOMAIN passed'} = {passed[i] : i \in DOMAIN passed} \cup {Len(got)}
      <4>1. \A i \in DOMAIN passed : passed'[i] = passed[i]
        BY <2>6, <3>1
      <4> QED
        BY ONLY <3>1, <3>6, <4>1
    <3>3. {n \in 1 .. Len(got) : got[n] > 1} = {n \in 1 .. Len(got) - 1 : got[n] > 1} \cup {Len(got)}
      BY <2>2, <2>3
    <3>4. ASSUME NEW i \in DOMAIN passed', NEW j \in DOMAIN passed', i < j
          PROVE  passed'[i] < passed'[j]
      <4>1. i \in 1 .. Len(passed) /\ (j \in 1 .. Len(passed) \/ j = Len(passed) + 1)
        BY <2>6, <3>4, <3>6
      <4>2. CASE j \in 1 .. Len(passed)
        BY <2>6, <3>1, <3>4, <4>1, <4>2
      <4>3. CASE j = Len(passed) + 1
        BY <2>5, <2>6, <3>1, <4>1, <4>3
      <4> QED
        BY <4>1, <4>2, <4>3
    <3>5. ReadTypes'
      BY <2>1, <3>1
    <3> QED
      BY <2>1, <3>2, <3>3, <3>4, <3>5
  <2>4. CASE ~(got[Len(got)] > 1)
    <3>1. {n \in 1 .. Len(got) : got[n] > 1} = {n \in 1 .. Len(got) - 1 : got[n] > 1}
      BY <2>2, <2>4
    <3> QED
      BY <2>1, <2>4, <3>1
  <2> QED
    BY <2>3, <2>4
<1>4. CASE ReadCompleteAborted \/ ReadCompleteFailed
  BY <1>1, <1>4 DEF ReadCompleteAborted, ReadCompleteFailed
<1>5. CASE (\E k \in LossKinds : DeviceGoes(k)) \/ DeviceReturns \/ OpeningStep \/ SetChannels \/ Stop
  BY <1>1, <1>5 DEF DeviceGoes, DeviceReturns, OpeningStep, SetupFails, SetupOpens, SetupRefused, SetupDropped,
     SetupBuffer, SetupRead, SetChannels, Stop, reader
<1>6. CASE WriterStep
  <2>1. UNCHANGED <<got, passed, readDone>>
    BY <1>6 DEF WriterStep, WriteEnds, DoWrite, DoWriteStart, SetupWrite, WriteCompleteOk, WriteCompleteError, reader
  <2> QED
    BY <1>1, <2>1
<1>7. CASE UNCHANGED vars
  BY <1>1, <1>7 DEF vars, reader
<1> QED
  BY <1>2, <1>3, <1>4, <1>5, <1>6, <1>7, StepKinds DEF DeviceStep, ReaderStep

LEMMA FlagsAgreeStay ==
  ASSUME Typed, FlagsAgree, [Next]_vars
  PROVE  FlagsAgree'
<1> USE DEF Typed, Counts, FlagsAgree, Buffered, flags, portVars, queueVars, reader, writes, history
<1>1. CASE DeviceStep \/ SetChannels \/ Stop
  BY <1>1 DEF DeviceStep, DeviceGoes, DeviceReturns, ReadEnds, SetChannels, Stop
<1>2. CASE OpeningStep
  <2>1. CASE SetupFails
    <3>1. isOpened' = FALSE /\ inProgress' = FALSE /\ UNCHANGED queueVars
      BY <2>1 DEF SetupFails, SetupAsync
    <3> QED
      BY <3>1
  <2>2. CASE SetupOpens
    BY <2>2 DEF SetupOpens
  <2>3. CASE SetupRefused
    BY <2>3 DEF SetupRefused
  <2>4. CASE SetupDropped \/ SetupRead
    BY <2>4 DEF SetupDropped, SetupRead
  <2>5. CASE SetupBuffer
    <3>1. /\ UNCHANGED <<isOpened, epoch, lock, total, popped>> /\ setup' # "submitted"
          /\ inProgress' => inProgress \/ Buffered
      BY <2>5 DEF SetupBuffer
    <3> QED
      BY <3>1
  <2> QED
    BY <1>2, <2>1, <2>2, <2>3, <2>4, <2>5 DEF OpeningStep
<1>3. CASE WriterStep
  <2>1. CASE (\E w \in pending : WriteEnds(w)) \/ DoWriteStart \/ SetupWrite
    BY <2>1 DEF WriteEnds, DoWriteStart, SetupWrite
  <2>2. ASSUME NEW n \in MsgSize, DoWrite(n)
        PROVE  FlagsAgree'
    <3>1. n \in Nat \ {0}
      BY TerminalAssumption DEF TerminalAssumption
    <3> QED
      BY <2>2, <3>1 DEF DoWrite
  <2>3. ASSUME NEW d \in done, WriteCompleteOk(d)
        PROVE  FlagsAgree'
    <3>1. /\ UNCHANGED <<isOpened, setup, lock, total, epoch>> /\ ~lock
          /\ inProgress' = (popped' < total)
      BY <2>3 DEF WriteCompleteOk
    <3>2. inProgress' => popped' < total'
      BY <3>1
    <3> QED
      BY <3>1, <3>2
  <2>4. ASSUME NEW d \in done, WriteCompleteError(d)
        PROVE  FlagsAgree'
    BY <2>4 DEF WriteCompleteError
  <2> QED
    BY <1>3, <2>1, <2>2, <2>3, <2>4 DEF WriterStep
<1>4. CASE ReaderStep
  BY <1>4 DEF ReaderStep, ReadCompleteData, ReadCompleteAborted, ReadCompleteFailed, SetupAsync
<1>5. CASE UNCHANGED vars
  BY <1>5 DEF vars
<1> QED
  BY <1>1, <1>2, <1>3, <1>4, <1>5, StepKinds

\* The flaws are never forgotten.
LEMMA CalmBefore ==
  ASSUME [Next]_vars, Calm'
  PROVE  Calm
<1>1. flaws \subseteq flaws'
  <2>1. CASE DeviceStep \/ SetChannels \/ Stop
    BY <2>1 DEF DeviceStep, DeviceGoes, DeviceReturns, ReadEnds, SetChannels, Stop, history
  <2>2. CASE OpeningStep
    BY <2>2 DEF OpeningStep, SetupFails, SetupOpens, SetupRefused, SetupDropped, SetupBuffer, SetupRead, history
  <2>3. CASE WriterStep
    BY <2>3 DEF WriterStep, WriteEnds, DoWrite, DoWriteStart, SetupWrite, WriteCompleteOk, WriteCompleteError, history
  <2>4. CASE ReaderStep
    BY <2>4 DEF ReaderStep, ReadCompleteData, ReadCompleteAborted, ReadCompleteFailed, history
  <2>5. CASE UNCHANGED vars
    BY <2>5 DEF vars, history
  <2> QED
    BY <2>1, <2>2, <2>3, <2>4, <2>5, StepKinds
<1> QED
  BY <1>1 DEF Calm

\* A new port has nothing under way.
LEMMA NewPort ==
  ASSUME Typed, UNCHANGED <<pending, done>>,
         epoch' = epoch + 1 \/ (epoch' = epoch /\ Outstanding = {})
  PROVE  Outstanding' = {}
BY DEF Typed, Counts, WriteTypes, Outstanding, Current

\* The write that is under way when a completion is handled is the completed one.
LEMMA CompletesOne ==
  ASSUME Typed, FlagsAgree, OneWrite, FrontUnderWay, Calm, NEW d \in done, WriteCompleteOk(d), Calm'
  PROVE  /\ d.epoch = epoch /\ isOpened /\ inProgress /\ Buffered /\ popped' = popped + 1
         /\ \A w \in pending : w.epoch # epoch
         /\ \A w \in done' : w.epoch # epoch
         /\ setup \notin {"opened", "write"} /\ ~lock
         /\ wire # <<>> /\ wire[Len(wire)] = popped + 1
<1>1. /\ isOpened /\ ~lock /\ d.result = "ok" /\ done' = done \ {d}
      /\ d.epoch # epoch => "stale" \in flaws'
      /\ Buffered => popped' = popped + 1
  BY DEF WriteCompleteOk
<1>2. d.epoch = epoch
  BY <1>1 DEF Calm
<1>3. d \in Current(done) /\ d \in Outstanding
  BY <1>2 DEF Outstanding, Current
<1>4. Current(pending) = {} /\ \A c \in Current(done) : c = d
  BY <1>3 DEF OneWrite
<1>5. inProgress /\ Buffered /\ setup \notin {"opened", "write"}
  BY <1>1, <1>3 DEF OneWrite, FlagsAgree
<1>6. \A w \in done' : w.epoch # epoch
  BY <1>1, <1>4 DEF Current
<1>7. wire # <<>> /\ wire[Len(wire)] = popped + 1
  BY <1>1, <1>2 DEF FrontUnderWay
<1>8. \A w \in pending : w.epoch # epoch
  BY <1>4 DEF Current
<1> QED
  BY <1>1, <1>2, <1>5, <1>6, <1>7, <1>8

\* Starting a write where none is under way leaves one under way.
LEMMA StartedAlone ==
  ASSUME Typed, NEW front, NEW P, NEW D, WriteStarts(front), P = pending,
         \A w \in P : w.epoch # epoch, \A d \in D : d.epoch # epoch,
         done' = D, UNCHANGED epoch
  PROVE  /\ \A v, w \in Current(pending') : v = w
         /\ Current(done') = {}
         /\ \A w \in pending' : w.epoch = epoch => w.byte = IF front <= total THEN front ELSE 0
         /\ ~isOpened => Current(pending') = {}
<1>1. CASE UNCHANGED pending
  BY <1>1 DEF Current
<1>2. CASE /\ isOpened
           /\ \E w : /\ w.epoch = epoch /\ w.byte = (IF front <= total THEN front ELSE 0)
                     /\ pending' = pending \cup {w}
  BY <1>2 DEF Current
<1> QED
  BY <1>1, <1>2, StartsOne

LEMMA OneWriteStays ==
  ASSUME Typed, FlagsAgree, OneWrite, FrontUnderWay, [Next]_vars
  PROVE  OneWrite'
<1> SUFFICES ASSUME Calm'
             PROVE  OneWrite'
  BY DEF OneWrite
<1>c. Calm
  BY CalmBefore
<1> USE DEF flags, portVars, queueVars, reader, writes, history
<1>1. ASSUME UNCHANGED <<pending, done, epoch, inProgress, isOpened, lock>>,
             setup' \in {"opened", "write"} => setup' = setup
      PROVE  OneWrite'
  BY <1>1, <1>c DEF OneWrite, Outstanding, Current, Calm
<1>2. ASSUME isOpened' = FALSE, setup' \notin {"opened", "write"}, UNCHANGED <<pending, done>>,
             epoch' = epoch \/ Outstanding' = {}
      PROVE  OneWrite'
  <2>1. CASE epoch' = epoch
    BY <1>2, <1>c, <2>1 DEF OneWrite, Outstanding, Current, Calm
  <2>2. CASE Outstanding' = {}
    BY <1>2, <2>2 DEF OneWrite, Outstanding, Current
  <2> QED
    BY <1>2, <2>1, <2>2
<1>3. CASE DeviceStep
  BY <1>1, <1>3 DEF DeviceStep, DeviceGoes, DeviceReturns, ReadEnds
<1>4. CASE SetupFails
  <2>1. /\ isOpened' = FALSE /\ setup' \notin {"opened", "write"} /\ UNCHANGED <<pending, done>>
        /\ epoch' = epoch + 1 \/ (epoch' = epoch /\ Outstanding = {})
    BY <1>4 DEF SetupFails, SetupAsync, Outstanding
  <2> QED
    BY <1>2, <2>1, NewPort
<1>5. CASE SetupOpens
  <2>1. /\ UNCHANGED <<pending, done, lock>> /\ epoch' = epoch + 1 /\ setup' = "opened"
        /\ lock => "race" \in flaws'
    BY <1>5 DEF SetupOpens
  <2>2. Outstanding' = {}
    BY <2>1, NewPort
  <2>3. ~lock'
    BY <2>1 DEF Calm
  <2> QED
    BY <2>1, <2>2, <2>3 DEF OneWrite, Outstanding, Current
<1>6. CASE SetupRefused
  <2>1. /\ isOpened' = FALSE \/ isOpened' = isOpened
        /\ UNCHANGED <<pending, done, isOpened>> /\ epoch' = epoch + 1 /\ setup' = "idle" /\ ~isOpened
    BY <1>6 DEF SetupRefused, FlagsAgree
  <2>2. Outstanding' = {}
    BY <2>1, NewPort
  <2> QED
    BY <2>1, <2>2 DEF OneWrite, Outstanding, Current
<1>7. CASE SetupDropped \/ SetupRead
  BY <1>1, <1>7 DEF SetupDropped, SetupRead
<1>8. CASE SetupBuffer
  <2>1. /\ setup = "opened" /\ setup' = (IF Buffered THEN "write" ELSE "read")
        /\ inProgress' = (inProgress \/ Buffered)
        /\ UNCHANGED <<pending, done, epoch, isOpened, lock>>
    BY <1>8 DEF SetupBuffer
  <2>2. Outstanding' = {} /\ ~lock'
    BY <1>c, <2>1 DEF OneWrite, Outstanding, Current
  <2>3. setup' = "write" => inProgress'
    BY <2>1
  <2> QED
    BY <2>2, <2>3 DEF OneWrite, Outstanding, Current
<1>9. ASSUME NEW w \in pending, WriteEnds(w)
      PROVE  OneWrite'
  <2>1. PICK d : d.epoch = w.epoch /\ done' = done \cup {d}
    BY <1>9 DEF WriteEnds
  <2>2. pending' = pending \ {w} /\ UNCHANGED <<epoch, isOpened, inProgress, setup, lock>>
    BY <1>9 DEF WriteEnds
  <2>3. CASE w.epoch = epoch
    <3>1. w \in Current(pending) /\ w \in Outstanding
      BY <2>3 DEF Current, Outstanding
    <3>2. Current(done) = {} /\ \A v \in Current(pending) : v = w
      BY <1>c, <3>1 DEF OneWrite
    <3>3. Current(pending') = {} /\ \A v \in Current(done') : v = d
      BY <2>1, <2>2, <3>2 DEF Current
    <3>4. /\ setup \notin {"opened", "write"}
          /\ isOpened => inProgress /\ ~lock
      BY <1>c, <3>1 DEF OneWrite
    <3>5. (\A v, x \in Current(pending') : v = x) /\ (\A v, x \in Current(done') : v = x)
      BY <3>3
    <3>6. Current(pending)' = Current(pending') /\ Current(done)' = Current(done')
      BY <2>2 DEF Current
    <3> QED
      BY <2>2, <3>3, <3>4, <3>5, <3>6 DEF OneWrite
  <2>4. CASE w.epoch # epoch
    <3>1. /\ Current(pending)' = Current(pending) /\ Current(done)' = Current(done)
          /\ Outstanding' = Outstanding
      BY <2>1, <2>2, <2>4 DEF Current, Outstanding
    <3> QED
      BY <1>c, <2>2, <3>1 DEF OneWrite
  <2> QED
    BY <2>3, <2>4
<1>10. ASSUME NEW n \in MsgSize, DoWrite(n)
       PROVE  OneWrite'
  <2>1. /\ UNCHANGED <<pending, done, epoch, isOpened, setup>>
        /\ inProgress' = TRUE /\ lock' = ~inProgress
        /\ setup \in {"opened", "write"} => "race" \in flaws'
    BY <1>10 DEF DoWrite
  <2>2. setup' \notin {"opened", "write"}
    BY <2>1 DEF Calm
  <2>3. isOpened' /\ lock' => Outstanding = {}
    BY <1>c, <2>1 DEF OneWrite
  <2>4. /\ Current(pending)' = Current(pending) /\ Current(done)' = Current(done)
        /\ Outstanding' = Outstanding
    BY <2>1 DEF Current, Outstanding
  <2> QED
    BY <1>c, <2>1, <2>2, <2>3, <2>4 DEF OneWrite
<1>11. CASE DoWriteStart
  <2>1. /\ lock /\ ~lock' /\ WriteStarts(popped + 1) /\ UNCHANGED <<done, epoch, isOpened, inProgress, setup>>
    BY <1>11 DEF DoWriteStart
  <2>2. setup' \notin {"opened", "write"}
    BY <1>c, <2>1 DEF OneWrite
  <2>3. CASE isOpened
    <3>1. Outstanding = {} /\ inProgress
      BY <1>c, <2>1, <2>3 DEF OneWrite
    <3>2. (\A w \in pending : w.epoch # epoch) /\ (\A d \in done : d.epoch # epoch)
      BY <3>1 DEF Outstanding, Current
    <3>3. (\A v, w \in Current(pending') : v = w) /\ Current(done') = {}
      BY <2>1, <3>2, StartedAlone
    <3>4. Current(pending)' = Current(pending') /\ Current(done)' = Current(done')
      BY <2>1 DEF Current
    <3> QED
      BY <2>1, <2>2, <3>1, <3>3, <3>4 DEF OneWrite
  <2>4. CASE ~isOpened
    <3>1. UNCHANGED pending
      BY <2>1, <2>4 DEF WriteStarts
    <3> QED
      BY <1>c, <2>1, <2>2, <2>4, <3>1 DEF OneWrite, Current
  <2> QED
    BY <2>3, <2>4
<1>12. CASE SetupWrite
  <2>1. /\ setup = "write" /\ setup' = "read" /\ WriteStarts(popped + 1)
        /\ UNCHANGED <<done, epoch, isOpened, inProgress, lock>>
    BY <1>12 DEF SetupWrite, Resumed
  <2>2. Outstanding = {} /\ ~lock /\ inProgress
    BY <1>c, <2>1 DEF OneWrite
  <2>3. (\A w \in pending : w.epoch # epoch) /\ (\A d \in done : d.epoch # epoch)
    BY <2>2 DEF Outstanding, Current
  <2>4. (\A v, w \in Current(pending') : v = w) /\ Current(done') = {}
    BY <2>1, <2>3, StartedAlone
  <2>5. Current(pending)' = Current(pending') /\ Current(done)' = Current(done')
    BY <2>1 DEF Current
  <2> QED
    BY <2>1, <2>2, <2>4, <2>5 DEF OneWrite
<1>13. ASSUME NEW d \in done, WriteCompleteOk(d)
       PROVE  OneWrite'
  <2>1. /\ UNCHANGED <<epoch, isOpened, setup, lock>>
        /\ inProgress' = (popped' < total)
        /\ IF popped' < total THEN WriteStarts(popped' + 1) ELSE UNCHANGED pending
    BY <1>13 DEF WriteCompleteOk
  <2>2. /\ isOpened /\ setup \notin {"opened", "write"} /\ ~lock
        /\ \A w \in pending : w.epoch # epoch
        /\ \A w \in done' : w.epoch # epoch
    BY <1>13, <1>c, CompletesOne
  <2>3. Current(pending)' = Current(pending') /\ Current(done)' = Current(done')
    BY <2>1 DEF Current
  <2>4. CASE inProgress'
    <3>1. PICK p, D : p = popped' /\ D = done'
      OBVIOUS
    <3>2. WriteStarts(p + 1) /\ \A w \in D : w.epoch # epoch
      BY <2>1, <2>2, <2>4, <3>1
    <3>3. (\A v, w \in Current(pending') : v = w) /\ Current(done') = {}
      BY <2>1, <2>2, <3>1, <3>2, StartedAlone
    <3> QED
      BY <2>1, <2>2, <2>3, <2>4, <3>3 DEF OneWrite
  <2>5. CASE ~inProgress'
    <3>1. UNCHANGED pending
      BY <2>1, <2>5
    <3>2. Outstanding' = {} /\ Current(pending') = {} /\ Current(done') = {}
      BY <2>1, <2>2, <3>1 DEF Outstanding, Current
    <3> QED
      BY <2>1, <2>2, <2>3, <3>2 DEF OneWrite
  <2> QED
    BY <2>4, <2>5
<1>14. ASSUME NEW d \in done, WriteCompleteError(d)
       PROVE  OneWrite'
  <2>1. UNCHANGED <<pending, epoch, isOpened, inProgress, setup, lock>> /\ done' = done \ {d}
    BY <1>14 DEF WriteCompleteError
  <2>2. /\ Current(pending)' = Current(pending) /\ Current(done)' \subseteq Current(done)
        /\ Outstanding' \subseteq Outstanding
    BY <2>1 DEF Current, Outstanding
  <2> QED
    BY <1>c, <2>1, <2>2 DEF OneWrite
<1>15. CASE ReaderStep
  <2>1. CASE ReadCompleteData \/ ReadCompleteFailed
    BY <1>1, <2>1 DEF ReadCompleteData, ReadCompleteFailed
  <2>2. CASE ReadCompleteAborted
    BY <1>2, <2>2 DEF ReadCompleteAborted, SetupAsync
  <2> QED
    BY <1>15, <2>1, <2>2 DEF ReaderStep
<1>16. CASE SetChannels \/ Stop
  BY <1>1, <1>16 DEF SetChannels, Stop
<1>17. CASE UNCHANGED vars
  BY <1>1, <1>17 DEF vars
<1> QED
  BY <1>3, <1>4, <1>5, <1>6, <1>7, <1>8, <1>9, <1>10, <1>11, <1>12, <1>13, <1>14, <1>15, <1>16, <1>17, StepKinds
  DEF OpeningStep, WriterStep

\* A write ends well only when the device takes its byte, the front of the buffer; a
\* byte leaves the buffer only then.
LEMMA TakenStay ==
  ASSUME Typed, FlagsAgree, OneWrite, FrontUnderWay, LastTaken,
         NothingSkippedUnlessRaced, InOrderUnlessRaced, [Next]_vars
  PROVE  FrontUnderWay' /\ LastTaken' /\ NothingSkippedUnlessRaced' /\ InOrderUnlessRaced'
<1> DEFINE Kept == FrontUnderWay' /\ LastTaken' /\ NothingSkippedUnlessRaced' /\ InOrderUnlessRaced'
<1> SUFFICES ASSUME Calm'
             PROVE  Kept
  BY DEF FrontUnderWay, LastTaken, NothingSkippedUnlessRaced, InOrderUnlessRaced, Calm
<1>c. /\ Calm
      /\ \A w \in pending : w.epoch = epoch => w.byte = popped + 1
      /\ \A d \in done : d.epoch = epoch /\ d.result = "ok" => wire # <<>> /\ wire[Len(wire)] = popped + 1
      /\ IF wire = <<>> THEN popped = 0 ELSE wire[Len(wire)] \in {popped, popped + 1}
      /\ \A b \in 1 .. popped : OnWire(b)
      /\ \A i \in DOMAIN wire : IF i = 1 THEN wire[i] = 1 ELSE wire[i] \in {wire[i - 1], wire[i - 1] + 1}
  BY CalmBefore DEF FrontUnderWay, LastTaken, NothingSkippedUnlessRaced, InOrderUnlessRaced, Calm
<1> USE DEF flags, portVars, queueVars, reader, writes, history
<1>t. /\ epoch \in Nat /\ popped \in Nat /\ total \in Nat /\ wire \in Seq(0 .. MaxBytes)
      /\ \A w \in pending \cup done : w.epoch \in 1 .. epoch
  BY TerminalAssumption DEF Typed, Counts, WriteTypes, TerminalAssumption
<1>1. ASSUME UNCHANGED <<wire, popped>>,
             \A w \in pending' : w.epoch = epoch' => w.byte = popped + 1,
             \A d \in done' : d.epoch = epoch' /\ d.result = "ok" => d \in done /\ d.epoch = epoch
      PROVE  Kept
  <2>1. FrontUnderWay'
    BY <1>1, <1>c DEF FrontUnderWay
  <2>2. LastTaken' /\ NothingSkippedUnlessRaced' /\ InOrderUnlessRaced'
    BY <1>1, <1>c DEF LastTaken, NothingSkippedUnlessRaced, InOrderUnlessRaced, OnWire
  <2> QED
    BY <2>1, <2>2
<1>2. ASSUME UNCHANGED <<wire, popped, pending, done>>, epoch' \in {epoch, epoch + 1}
      PROVE  Kept
  <2>1. CASE epoch' = epoch
    BY <1>1, <1>2, <1>c, <2>1
  <2>2. CASE epoch' = epoch + 1
    <3>1. \A w \in pending' \cup done' : w.epoch # epoch'
      BY <1>2, <1>t, <2>2
    <3> QED
      BY <1>1, <1>2, <3>1
  <2> QED
    BY <1>2, <2>1, <2>2
<1>3. CASE DeviceStep \/ SetChannels \/ Stop \/ ReaderStep \/ (\E n \in MsgSize : DoWrite(n))
  <2>1. UNCHANGED <<wire, popped, pending, done, epoch>>
    BY <1>3 DEF DeviceStep, DeviceGoes, DeviceReturns, ReadEnds, SetChannels, Stop, ReaderStep,
       ReadCompleteData, ReadCompleteAborted, ReadCompleteFailed, DoWrite
  <2> QED
    BY <1>2, <2>1
<1>4. CASE OpeningStep
  <2>1. UNCHANGED <<wire, popped, pending, done>> /\ epoch' \in {epoch, epoch + 1}
    BY <1>4 DEF OpeningStep, SetupFails, SetupOpens, SetupRefused, SetupDropped, SetupBuffer, SetupRead
  <2> QED
    BY <1>2, <2>1
<1>5. CASE UNCHANGED vars
  BY <1>2, <1>5 DEF vars
<1>6. ASSUME NEW w \in pending, WriteEnds(w)
      PROVE  Kept
  <2>1. pending' = pending \ {w} /\ UNCHANGED <<epoch, popped>>
    BY <1>6 DEF WriteEnds
  <2>2. CASE w.epoch = epoch /\ port = "open"
    <3>1. PICK d : d.epoch = w.epoch /\ done' = done \cup {d}
      BY <1>6 DEF WriteEnds
    <3>2. wire' = Append(wire, w.byte) /\ w.byte = popped + 1
      BY <1>6, <1>c, <2>2 DEF WriteEnds
    <3>3. /\ w.byte \in 0 .. MaxBytes /\ wire' \in Seq(0 .. MaxBytes)
          /\ Len(wire') = Len(wire) + 1 /\ wire'[Len(wire) + 1] = popped + 1
          /\ \A i \in 1 .. Len(wire) : wire'[i] = wire[i]
      <4>1. w.byte \in 0 .. MaxBytes
        BY DEF Typed, WriteTypes
      <4> QED
        BY <1>t, <3>2, <4>1
    <3>4. FrontUnderWay'
      BY <1>c, <2>1, <3>3 DEF FrontUnderWay
    <3>5. LastTaken'
      BY <1>t, <2>1, <3>3 DEF LastTaken
    <3>6. NothingSkippedUnlessRaced'
      <4>1. ASSUME NEW b \in 1 .. popped
            PROVE  \E i \in DOMAIN wire' : wire'[i] = b
        <5>1. PICK i \in DOMAIN wire : wire[i] = b
          BY <1>c DEF OnWire
        <5> QED
          BY <1>t, <3>3, <5>1
      <4> QED
        BY <2>1, <4>1 DEF NothingSkippedUnlessRaced, OnWire
    <3>7. ASSUME NEW i \in DOMAIN wire'
          PROVE  IF i = 1 THEN wire'[i] = 1 ELSE wire'[i] \in {wire'[i - 1], wire'[i - 1] + 1}
      <4>1. CASE i \in 1 .. Len(wire)
        <5>1. wire'[i] = wire[i] /\ (i # 1 => i - 1 \in 1 .. Len(wire) /\ wire'[i - 1] = wire[i - 1])
          BY <1>t, <3>3, <4>1
        <5> QED
          BY <1>c, <1>t, <4>1, <5>1
      <4>2. CASE i = Len(wire) + 1
        <5>1. CASE wire = <<>>
          <6>1. i = 1 /\ popped = 0 /\ wire'[1] = popped + 1
            BY <1>c, <3>3, <4>2, <5>1
          <6> QED
            BY <6>1
        <5>2. CASE wire # <<>>
          <6>1. Len(wire) \in Nat \ {0}
            BY <1>t, <5>2
          <6>2. i # 1 /\ i - 1 = Len(wire)
            BY <4>2, <6>1
          <6>3. wire'[i - 1] = wire[Len(wire)] /\ wire'[i] = popped + 1
            BY <3>3, <4>2, <6>1, <6>2
          <6>4. wire[Len(wire)] \in {popped, popped + 1}
            BY <1>c, <5>2
          <6> QED
            BY <6>2, <6>3, <6>4
        <5> QED
          BY <5>1, <5>2
      <4> QED
        BY <1>t, <3>3, <4>1, <4>2
    <3>8. InOrderUnlessRaced'
      BY <3>7 DEF InOrderUnlessRaced
    <3> QED
      BY <3>4, <3>5, <3>6, <3>8
  <2>3. CASE ~(w.epoch = epoch /\ port = "open")
    <3>1. /\ UNCHANGED wire
          /\ \E d : /\ done' = done \cup {d} /\ d.epoch = w.epoch
                    /\ d.result \in {"aborted", lossKind}
      <4> DEFINE d == [result |-> IF w.epoch = epoch /\ port = "dead" THEN lossKind ELSE "aborted",
                       epoch |-> w.epoch, id |-> w.id]
      <4>1. UNCHANGED wire /\ done' = done \cup {d}
        BY <1>6, <2>3 DEF WriteEnds
      <4>2. d.epoch = w.epoch /\ d.result \in {"aborted", lossKind}
        OBVIOUS
      <4> QED
        BY <4>1, <4>2
    <3>2. lossKind # "ok"
      BY DEF Typed, FlagTypes
    <3> QED
      BY <1>1, <1>c, <2>1, <3>1, <3>2
  <2> QED
    BY <2>2, <2>3
<1>7. CASE DoWriteStart \/ SetupWrite
  <2>1. WriteStarts(popped + 1) /\ UNCHANGED <<wire, popped, done, epoch>>
    BY <1>7 DEF DoWriteStart, SetupWrite, Resumed
  <2>2. popped + 1 <= total
    <3>1. lock \/ setup = "write"
      BY <1>7 DEF DoWriteStart, SetupWrite
    <3>2. Buffered
      BY <1>c, <3>1 DEF OneWrite, FlagsAgree
    <3> QED
      BY <1>t, <3>2 DEF Buffered
  <2>3. \A w \in pending' : w.epoch = epoch' => w.byte = popped + 1
    BY <1>c, <2>1, <2>2, StartsOne
  <2> QED
    BY <1>1, <2>1, <2>3
<1>8. ASSUME NEW d \in done, WriteCompleteOk(d)
      PROVE  Kept
  <2>1. /\ popped' = popped + 1
        /\ \A w \in pending : w.epoch # epoch
        /\ \A w \in done' : w.epoch # epoch
        /\ wire # <<>> /\ wire[Len(wire)] = popped + 1
    BY <1>8, <1>c, CompletesOne
  <2>2. /\ UNCHANGED <<epoch, wire>>
        /\ IF popped' < total THEN WriteStarts(popped' + 1) ELSE UNCHANGED pending
    BY <1>8 DEF WriteCompleteOk
  <2>3. \A w \in pending' : w.epoch = epoch => w.byte = popped + 2
    <3>1. CASE popped + 1 < total
      <4>1. WriteStarts(popped + 2) /\ popped + 2 <= total
        BY <1>t, <2>1, <2>2, <3>1
      <4>2. PICK p, D : p = popped + 2 /\ D = done'
        OBVIOUS
      <4> QED
        BY <2>1, <4>1, StartsOne
    <3>2. CASE ~(popped + 1 < total)
      BY <2>1, <2>2, <3>2
    <3> QED
      BY <3>1, <3>2
  <2>4. FrontUnderWay'
    BY <1>t, <2>1, <2>2, <2>3 DEF FrontUnderWay
  <2>5. LastTaken'
    BY <2>1, <2>2 DEF LastTaken
  <2>6. NothingSkippedUnlessRaced'
    <3>1. Len(wire) \in DOMAIN wire
      BY <1>t, <2>1
    <3>2. \A b \in 1 .. popped + 1 : \E i \in DOMAIN wire : wire[i] = b
      BY <1>c, <1>t, <2>1, <3>1 DEF OnWire
    <3> QED
      BY <2>1, <2>2, <3>2 DEF NothingSkippedUnlessRaced, OnWire
  <2>7. InOrderUnlessRaced'
    BY <1>c, <2>2 DEF InOrderUnlessRaced
  <2> QED
    BY <2>4, <2>5, <2>6, <2>7
<1>9. ASSUME NEW d \in done, WriteCompleteError(d)
      PROVE  Kept
  <2>1. UNCHANGED <<wire, popped, pending, epoch>> /\ done' \subseteq done
    BY <1>9 DEF WriteCompleteError
  <2> QED
    BY <1>1, <1>c, <2>1
<1> HIDE DEF Kept
<1> QED
  BY <1>3, <1>4, <1>5, <1>6, <1>7, <1>8, <1>9, StepKinds DEF WriterStep
-----------------------------------------------------------------------------
LEMMA InitIInv == Init => IInv
<1> SUFFICES ASSUME Init
             PROVE  IInv
  OBVIOUS
<1> USE DEF Init
<1>1. Typed
  <2>1. FlagTypes /\ BooleanTypes
    BY TerminalAssumption DEF FlagTypes, BooleanTypes, TerminalAssumption
  <2>2. Counts /\ WriteTypes /\ ReadTypes
    BY TerminalAssumption DEF Counts, WriteTypes, ReadTypes, TerminalAssumption
  <2> QED
    BY <2>1, <2>2 DEF Typed
<1>2. FlagsAgree /\ OneWrite /\ FrontUnderWay /\ LastTaken
  BY DEF FlagsAgree, OneWrite, FrontUnderWay, LastTaken, Outstanding, Current
<1>3. NothingSkippedUnlessRaced /\ InOrderUnlessRaced /\ LongerReadsPassed
  BY DEF NothingSkippedUnlessRaced, InOrderUnlessRaced, LongerReadsPassed, Handled
<1> QED
  BY <1>1, <1>2, <1>3 DEF IInv

LEMMA IInvStays == IInv /\ [Next]_vars => IInv'
<1> SUFFICES ASSUME IInv, [Next]_vars
             PROVE  IInv'
  OBVIOUS
<1>1. Typed'
  BY FlagTypesStay, BooleanTypesStay, CountsStay, WriteTypesStay, ReadsStay DEF IInv, Typed
<1>2. FlagsAgree' /\ OneWrite'
  BY FlagsAgreeStay, OneWriteStays DEF IInv
<1>3. FrontUnderWay' /\ LastTaken' /\ NothingSkippedUnlessRaced' /\ InOrderUnlessRaced'
  BY TakenStay DEF IInv
<1>4. LongerReadsPassed'
  BY ReadsStay DEF IInv
<1> QED
  BY <1>1, <1>2, <1>3, <1>4 DEF IInv

\* The invariant says what the runs check.
LEMMA IInvSays == IInv => BytesKeptUnlessRaced
<1> SUFFICES ASSUME IInv
             PROVE  BytesKeptUnlessRaced
  OBVIOUS
<1>1. TypeOK
  BY DEF IInv, Typed, FlagTypes, BooleanTypes, Counts, WriteTypes, TypeOK
<1>2. ASSUME flaws \cap {"race", "stale"} = {}
      PROVE  Cardinality(Current(pending \cup done)) <= 1
  <2>1. /\ \A v, w \in Current(pending) : v = w
        /\ \A c, d \in Current(done) : c = d
        /\ Current(pending) = {} \/ Current(done) = {}
    BY <1>2 DEF IInv, OneWrite, Calm
  <2>2. Current(pending \cup done) = Current(pending) \cup Current(done)
    BY DEF Current
  <2>3. Current(pending \cup done) = {} \/ \E w : Current(pending \cup done) = {w}
    BY <2>1, <2>2
  <2>4. CASE Current(pending \cup done) = {}
    BY <2>4, FS_EmptySet
  <2>5. ASSUME NEW w, Current(pending \cup done) = {w}
        PROVE  Cardinality(Current(pending \cup done)) <= 1
    <3>1. Cardinality({w}) = 1
      BY FS_Singleton
    <3> QED
      BY <2>5, <3>1
  <2> QED
    BY <2>3, <2>4, <2>5
<1> QED
  BY <1>1, <1>2 DEF IInv, BytesKeptUnlessRaced, SingleWriteUnlessRaced

\* Over any number of losses and reopenings of the port, no byte that channels hand to
\* CTerminal is skipped, moved or, but for the one in flight, repeated on its way to the
\* device, at most one write is outstanding, and every read longer than a byte is passed
\* on once and in order, but for the two races Setup is open to.
THEOREM BytesKept == Spec => []BytesKeptUnlessRaced
<1>1. Init => IInv
  BY InitIInv
<1>2. IInv /\ [Next]_vars => IInv'
  BY IInvStays
<1>3. IInv => BytesKeptUnlessRaced
  BY IInvSays
<1> QED
  BY <1>1, <1>2, <1>3, PTL DEF Spec
=============================================================================
