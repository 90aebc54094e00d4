--------------------------- MODULE ManagerProofs ---------------------------
(***************************************************************************)
(* Proofs about the manager.  In a session: for any number of io threads,  *)
(* handlers and lines, the main thread misses no wake-up, reset pulls      *)
(* nothing from under a handler but through the flag the threads share,    *)
(* and lines stay lines.  In the routing it builds: every configuration is *)
(* built as described, and messages pass all their channels as read.       *)
(***************************************************************************)
EXTENDS ConsoleSession, Routing, TLAPS, WellFoundedInduction, FiniteSetTheorems, FunctionTheorems, SequenceTheorems

\* What a session does to the manager.
ManagerNext ==
  MainStep \/ LoggerTakes \/ \E t \in Io : UnitStep(t) \/ HandlerStarts(t) \/ HandlerEnds(t) \/ HandlerThrows(t) \/ Quit(t)

Places == {"absent", "queued", "raised", "running", "busy", "leaving", "ended"}
PlacesOK == ioThread \in [Io -> Places]

\* Units exist from the first step of init on.
SubmittedOK ==
  /\ main = "submit" => \A t \in Io : ioThread[t] = "absent"
  /\ main # "submit" => \A t \in Io : ioThread[t] # "absent"

\* A flag that is down with a unit inside was lowered by another that has ended.
LoweredByAnother ==
  ~ioFlag => (\E t \in Io : ioThread[t] = "ended") \/ \A t \in Io : ~Inside(t)

\* Past the wait of reset.
PastWait == main \in {"erase", "exit", "stopLogger", "destroyIo", "destroyPool", "done", "hung"}
AllOutUnlessShared == PastWait => (firstOut \/ unraised \/ \A t \in Io : ioThread[t] = "ended")

\* Nothing is destroyed or misused before that.
GoneIsPast == (actors = "erased" \/ ioService = "destroyed" \/ misuse # {}) => PastWait

ManagerInv ==
  /\ PlacesOK /\ SubmittedOK /\ LoweredByAnother /\ AllOutUnlessShared /\ GoneIsPast
  /\ LateUseNeedsSharedFlag

-----------------------------------------------------------------------------
\* A step of the session is a step of the manager or leaves it alone.
LEMMA SessionStepsManager ==
  ASSUME [SessionNext]_session
  PROVE  [ManagerNext]_vars
<1>1. CASE ManagerStep
  BY <1>1 DEF ManagerStep, ManagerNext
<1>2. CASE Operator \/ LoggerServed
  BY <1>2 DEF Operator, LoggerServed, ManagerNext
<1>3. ASSUME NEW t \in Io,
             \/ TakesLine(t) \/ ConsoleEnds(t) \/ ChunkComes(t) \/ OtherHandler(t) \/ Deaf(t)
      PROVE  [ManagerNext]_vars
  BY <1>3 DEF TakesLine, ConsoleEnds, ChunkComes, OtherHandler, Deaf, ManagerNext
<1>4. ASSUME NEW t \in Io, ReadsOn(t) \/ InAdaptor(t) \/ Done(t) \/ Fails(t) \/ ThreadOfManager(t)
      PROVE  [ManagerNext]_vars
  BY <1>4 DEF ReadsOn, InAdaptor, Done, Fails, ThreadOfManager, ManagerNext
<1>5. ASSUME NEW t \in Io, Obeys(t)
      PROVE  [ManagerNext]_vars
  BY <1>5 DEF Obeys, ManagerNext
<1>6. CASE UNCHANGED session
  BY <1>6 DEF session
<1> QED
  BY <1>1, <1>2, <1>3, <1>4, <1>5, <1>6 DEF SessionNext

\* The sleepers wait for what is not there: io for a flag that is up.
SleepersOK == (blocked = "stop" => ~stopFlag) /\ (blocked = "io" => ioFlag)

LEMMA SleepersStep ==
  ASSUME SleepersOK, [ManagerNext]_vars
  PROVE  SleepersOK'
<1> USE DEF SleepersOK
<1>1. CASE MainStep
  <2>1. CASE WaitStop
    BY <2>1 DEF WaitStop
  <2>2. CASE WaitIo
    BY <2>2 DEF WaitIo, Waits
  <2>3. CASE SubmitUnits \/ RunActors \/ StopIo
    BY <2>3 DEF SubmitUnits, RunActors, StopIo
  <2>4. CASE EraseActors \/ ActorStopThrows \/ ExitDestroysActors \/ StopLogger
    BY <2>4 DEF EraseActors, ActorStopThrows, ExitDestroysActors, StopLogger
  <2>5. CASE DestroyIoService \/ DestroyPool \/ PoolHangs
    BY <2>5 DEF DestroyIoService, DestroyPool, PoolHangs
  <2> QED
    BY <1>1, <2>1, <2>2, <2>3, <2>4, <2>5 DEF MainStep
<1>2. ASSUME NEW t \in Io, UnitStep(t)
      PROVE  SleepersOK'
  BY <1>2 DEF UnitStep, Moves, UnitStarts, UnitRuns, UnitLeaves, UnitEnds, ghosts
<1>3. ASSUME NEW t \in Io, HandlerStarts(t) \/ HandlerEnds(t) \/ HandlerThrows(t)
      PROVE  SleepersOK'
  BY <1>3 DEF HandlerStarts, HandlerEnds, HandlerThrows
<1>4. ASSUME NEW t \in Io, Quit(t)
      PROVE  SleepersOK'
  BY <1>4 DEF Quit, Woken
<1>5. CASE UNCHANGED vars \/ LoggerTakes
  BY <1>5 DEF vars, LoggerTakes
<1> QED
  BY <1>1, <1>2, <1>3, <1>4, <1>5 DEF ManagerNext

\* No wake-up of the main thread is missed: neither the quit command nor the end of an
\* io thread (the predicates and mutexes of CManager::init, Stop, reset).
THEOREM NoWakeupMissed == SessionSpec => []NoMissedWakeup
<1>1. SessionInit => SleepersOK
  BY DEF SessionInit, Init, SleepersOK
<1>2. SleepersOK /\ [SessionNext]_session => SleepersOK'
  BY SleepersStep, SessionStepsManager
<1>3. SleepersOK => NoMissedWakeup
  BY DEF SleepersOK, NoMissedWakeup
<1> QED
  BY <1>1, <1>2, <1>3, PTL DEF SessionSpec
-----------------------------------------------------------------------------
\* What a unit does: it moves forward from one place to the next.
LEMMA UnitMoves ==
  ASSUME NEW t \in Io,
         UnitStep(t) \/ HandlerStarts(t) \/ HandlerEnds(t) \/ HandlerThrows(t) \/ Quit(t)
  PROVE  /\ UNCHANGED <<main, actors, ioService, firstOut, unraised>>
         /\ \/ UNCHANGED <<ioThread, ioFlag>>
            \/ /\ ioThread[t] = "queued" /\ ioThread' = [ioThread EXCEPT ![t] = "raised"] /\ ioFlag'
            \/ /\ Inside(t) /\ ioFlag' = ioFlag
               /\ \E p \in {"running", "busy", "leaving"} : ioThread' = [ioThread EXCEPT ![t] = p]
            \/ /\ Inside(t) /\ ~ioFlag' /\ ioThread' = [ioThread EXCEPT ![t] = "ended"]
         /\ \/ UNCHANGED misuse
            \/ Inside(t) /\ (actors = "erased" \/ ioService = "destroyed" \/ misuse' = misuse)
<1> USE DEF Inside
<1>1. CASE UnitStarts(t)
  BY <1>1 DEF UnitStarts, Moves, ghosts
<1>2. CASE UnitRuns(t)
  BY <1>2 DEF UnitRuns, Moves
<1>3. CASE UnitLeaves(t)
  BY <1>3 DEF UnitLeaves, Moves, ghosts
<1>4. CASE UnitEnds(t)
  BY <1>4 DEF UnitEnds, Moves
<1>5. CASE HandlerStarts(t)
  BY <1>5 DEF HandlerStarts, Moves
<1>6. CASE HandlerEnds(t)
  BY <1>6 DEF HandlerEnds, Moves, Touches
<1>7. CASE HandlerThrows(t)
  BY <1>7 DEF HandlerThrows, Moves, Touches
<1>8. CASE Quit(t)
  BY <1>8 DEF Quit, ghosts
<1> QED
  BY <1>1, <1>2, <1>3, <1>4, <1>5, <1>6, <1>7, <1>8 DEF UnitStep

LEMMA ManagerUnitStep ==
  ASSUME ManagerInv, NEW t \in Io,
         UnitStep(t) \/ HandlerStarts(t) \/ HandlerEnds(t) \/ HandlerThrows(t) \/ Quit(t)
  PROVE  ManagerInv'
<1> USE DEF ManagerInv
<1>1. PlacesOK'
  BY UnitMoves DEF PlacesOK, Places
<1>2. SubmittedOK'
  <2>1. main = "submit" => UNCHANGED ioThread
    BY UnitMoves DEF SubmittedOK, Inside
  <2>2. \A u \in Io : ioThread'[u] = "absent" => ioThread[u] = "absent"
    BY UnitMoves DEF PlacesOK
  <2> QED
    BY <2>1, <2>2, UnitMoves DEF SubmittedOK
<1>3. LoweredByAnother'
  <2>1. \A u \in Io : ioThread[u] = "ended" => ioThread'[u] = "ended"
    BY UnitMoves DEF PlacesOK, Inside
  <2>2. ~ioFlag' => ioThread'[t] = "ended" \/ (~ioFlag /\ \A u \in Io : Inside(u)' => Inside(u))
    BY UnitMoves DEF PlacesOK, Inside
  <2> QED
    BY <2>1, <2>2 DEF LoweredByAnother
<1>4. AllOutUnlessShared'
  BY UnitMoves DEF AllOutUnlessShared, PastWait, Inside, PlacesOK
<1>5. GoneIsPast'
  BY UnitMoves DEF GoneIsPast, PastWait
<1>6. LateUseNeedsSharedFlag'
  <2>1. CASE UNCHANGED misuse
    BY <2>1, UnitMoves DEF LateUseNeedsSharedFlag
  <2>2. CASE Inside(t) /\ (actors = "erased" \/ ioService = "destroyed")
    BY <2>2, UnitMoves DEF GoneIsPast, AllOutUnlessShared, LateUseNeedsSharedFlag, Inside
  <2> QED
    BY <2>1, <2>2, UnitMoves
<1> QED
  BY <1>1, <1>2, <1>3, <1>4, <1>5, <1>6

LEMMA ManagerMainStep ==
  ASSUME ManagerInv, MainStep
  PROVE  ManagerInv'
<1> USE DEF ManagerInv
<1>1. CASE SubmitUnits
  <2>1. /\ main' = "runActors" /\ main = "submit" /\ ioThread' = [t \in Io |-> "queued"]
        /\ UNCHANGED <<ioFlag, actors, ioService, firstOut, unraised, misuse>>
    BY <1>1 DEF SubmitUnits, MainGoes, ghosts
  <2> QED
    BY <2>1 DEF PlacesOK, Places, SubmittedOK, LoweredByAnother, AllOutUnlessShared, PastWait,
                GoneIsPast, LateUseNeedsSharedFlag, Inside
<1>2. CASE RunActors
  BY <1>2 DEF RunActors, MainGoes, ghosts, PlacesOK, SubmittedOK, LoweredByAnother,
              AllOutUnlessShared, PastWait, GoneIsPast, LateUseNeedsSharedFlag, Inside
<1>3. CASE WaitStop \/ StopIo
  BY <1>3 DEF WaitStop, StopIo, MainGoes, ghosts, PlacesOK, SubmittedOK, LoweredByAnother,
              AllOutUnlessShared, PastWait, GoneIsPast, LateUseNeedsSharedFlag, Inside
<1>4. CASE WaitIo
  <2>1. CASE ioFlag
    BY <1>4, <2>1 DEF WaitIo, Waits, PlacesOK, SubmittedOK, LoweredByAnother, AllOutUnlessShared,
                      PastWait, GoneIsPast, LateUseNeedsSharedFlag, Inside
  <2>2. CASE ~ioFlag
    <3>1. /\ main = "waitIo" /\ main' = "erase"
          /\ firstOut' = (\E t, u \in Io : ioThread[t] = "ended" /\ Inside(u))
          /\ unraised' = (\E t \in Io : ioThread[t] = "queued")
          /\ UNCHANGED <<ioThread, ioFlag, actors, ioService, misuse>>
      BY <1>4, <2>2 DEF WaitIo, Waits
    <3>2. firstOut' \/ unraised' \/ \A t \in Io : ioThread[t] = "ended"
      BY <2>2, <3>1 DEF PlacesOK, Places, SubmittedOK, LoweredByAnother, Inside
    <3>3. misuse' = {}
      BY <3>1 DEF PastWait, GoneIsPast
    <3>4. LateUseNeedsSharedFlag'
      BY <3>3 DEF LateUseNeedsSharedFlag
    <3> QED
      BY <3>1, <3>2, <3>4 DEF PlacesOK, SubmittedOK, LoweredByAnother, AllOutUnlessShared,
                PastWait, GoneIsPast, Inside
  <2> QED
    BY <2>1, <2>2
<1>5. CASE EraseActors \/ ActorStopThrows \/ ExitDestroysActors \/ StopLogger
  BY <1>5 DEF EraseActors, ActorStopThrows, ExitDestroysActors, StopLogger, MainGoes, ghosts, PlacesOK,
              SubmittedOK, LoweredByAnother, AllOutUnlessShared, PastWait, GoneIsPast,
              LateUseNeedsSharedFlag, Inside
<1>6. CASE DestroyIoService \/ DestroyPool \/ PoolHangs
  BY <1>6 DEF DestroyIoService, DestroyPool, PoolHangs, MainGoes, ghosts, PlacesOK, SubmittedOK,
              LoweredByAnother, AllOutUnlessShared, PastWait, GoneIsPast, LateUseNeedsSharedFlag, Inside
<1> QED
  BY <1>1, <1>2, <1>3, <1>4, <1>5, <1>6 DEF MainStep

LEMMA ManagerStepsKeep ==
  ASSUME ManagerInv, [ManagerNext]_vars
  PROVE  ManagerInv'
<1>1. ASSUME UNCHANGED vars \/ LoggerTakes
      PROVE  ManagerInv'
  BY <1>1 DEF vars, LoggerTakes, ghosts, ManagerInv, PlacesOK, SubmittedOK, LoweredByAnother, AllOutUnlessShared,
              PastWait, GoneIsPast, LateUseNeedsSharedFlag, Inside
<1> QED
  BY <1>1, ManagerUnitStep, ManagerMainStep DEF ManagerNext

\* A handler outlives the actors only through the flag the io threads share: when another
\* unit lowered it under this one, or this one had not raised it (CManager::reset).
THEOREM LateUseOnlyByFlag == SessionSpec => []LateUseNeedsSharedFlag
<1>1. SessionInit => ManagerInv
  BY DEF SessionInit, Init, ManagerInv, PlacesOK, Places, SubmittedOK, LoweredByAnother,
         AllOutUnlessShared, PastWait, GoneIsPast, LateUseNeedsSharedFlag, Inside
<1>2. ManagerInv /\ [SessionNext]_session => ManagerInv'
  BY ManagerStepsKeep, SessionStepsManager
<1>3. ManagerInv => LateUseNeedsSharedFlag
  BY DEF ManagerInv
<1> QED
  BY <1>1, <1>2, <1>3, PTL DEF SessionSpec
-----------------------------------------------------------------------------
(* The line buffer *)

\* A set of natural numbers has a least element: the smallest of the sets of those up
\* to one of them is its own.
LEMMA LeastOf ==
  ASSUME NEW S \in SUBSET Nat, S # {}
  PROVE  \E x \in S : \A y \in S : x <= y
<1> DEFINE R == StrictSubsetOrdering(Nat)
           UpTo == {S \cap (0 .. x) : x \in S}
<1>1. IsWellFoundedOn(R, FiniteSubsetsOf(Nat))
  BY FS_StrictSubsetOrderingWellFounded
<1>2. UpTo \subseteq FiniteSubsetsOf(Nat)
  <2>1. ASSUME NEW x \in S
        PROVE  IsFiniteSet(S \cap (0 .. x))
    <3>1. IsFiniteSet(0 .. x)
      BY 0 \in Int, x \in Int, FS_Interval
    <3>2. S \cap (0 .. x) \in SUBSET (0 .. x)
      OBVIOUS
    <3> HIDE DEF R, UpTo
    <3> QED
      BY <3>1, <3>2, FS_Subset
  <2> QED
    BY <2>1 DEF FiniteSubsetsOf
<1>3. UpTo # {}
  OBVIOUS
<1>4. \E b \in UpTo : \A c \in UpTo : <<c, b>> \notin R
  <2> HIDE DEF R, UpTo
  <2> QED
    BY <1>1, <1>2, <1>3, WFMin
<1>5. PICK x \in S : \A c \in UpTo : <<c, S \cap (0 .. x)>> \notin R
  BY <1>4
<1>6. ASSUME NEW y \in S
      PROVE  x <= y
  <2>1. ~ (S \cap (0 .. y) \subseteq S \cap (0 .. x) /\ S \cap (0 .. y) # S \cap (0 .. x))
    BY <1>5 DEF StrictSubsetOrdering
  <2> QED
    BY <2>1
<1> QED
  BY <1>6

LEMMA FirstLineEnd ==
  ASSUME NEW s \in Seq(Cmd!Tokens), Cmd!LineEnds(s) # {}
  PROVE  /\ Cmd!Min(Cmd!LineEnds(s)) \in Cmd!LineEnds(s)
         /\ \A i \in Cmd!LineEnds(s) : Cmd!Min(Cmd!LineEnds(s)) <= i
<1>1. Cmd!LineEnds(s) \in SUBSET Nat
  BY DEF Cmd!LineEnds
<1>2. \E x \in Cmd!LineEnds(s) : \A y \in Cmd!LineEnds(s) : x <= y
  BY <1>1, LeastOf
<1> QED
  BY <1>2 DEF Cmd!Min

\* Rest takes the first line away, with its end, or nothing.
LEMMA RestIs ==
  ASSUME NEW s \in Seq(Cmd!Tokens)
  PROVE  /\ Cmd!Rest(s) \in Seq(Cmd!Tokens)
         /\ \/ Cmd!LineEnds(s) = {} /\ Cmd!Rest(s) = s
            \/ \E k \in Cmd!LineEnds(s) :
                 /\ k \in 1 .. Len(s) /\ Len(Cmd!Rest(s)) = Len(s) - k
                 /\ \A i \in 1 .. Len(s) - k : Cmd!Rest(s)[i] = s[i + k]
<1>1. CASE Cmd!LineEnds(s) = {}
  BY <1>1 DEF Cmd!Rest
<1>2. CASE Cmd!LineEnds(s) # {}
  <2> DEFINE k == Cmd!Min(Cmd!LineEnds(s))
  <2>1. k \in Cmd!LineEnds(s) /\ k \in 1 .. Len(s)
    BY <1>2, FirstLineEnd DEF Cmd!LineEnds
  <2>2. Cmd!Rest(s) = SubSeq(s, k + 1, Len(s))
    BY <1>2 DEF Cmd!Rest
  <2> HIDE DEF k
  <2>3. /\ SubSeq(s, k + 1, Len(s)) \in Seq(Cmd!Tokens)
        /\ Len(SubSeq(s, k + 1, Len(s))) = Len(s) - k
        /\ \A i \in 1 .. Len(s) - k : SubSeq(s, k + 1, Len(s))[i] = s[i + k]
    BY <2>1
  <2> QED
    BY <2>1, <2>2, <2>3
<1> QED
  BY <1>1, <1>2

LEMMA LineEndsFinite ==
  ASSUME NEW s \in Seq(Cmd!Tokens)
  PROVE  IsFiniteSet(Cmd!LineEnds(s)) /\ Cardinality(Cmd!LineEnds(s)) \in Nat
<1>1. IsFiniteSet(1 .. Len(s))
  BY 1 \in Int, Len(s) \in Int, FS_Interval
<1>2. Cmd!LineEnds(s) \in SUBSET (1 .. Len(s))
  BY DEF Cmd!LineEnds
<1> QED
  BY <1>1, <1>2, FS_Subset, FS_CardinalityType

\* Places moved along a sequence are as many, or fewer where some fall off.
LEMMA MovedPlaces ==
  ASSUME NEW S \in SUBSET Nat, IsFiniteSet(S), NEW d \in Int, NEW T,
         T \subseteq {i + d : i \in S}
  PROVE  IsFiniteSet(T) /\ Cardinality(T) <= Cardinality(S)
<1> DEFINE f == [i \in S |-> i + d]
           M == {i + d : i \in S}
<1>1. f \in Surjection(S, M)
  BY DEF Surjection
<1>2. IsFiniteSet(M) /\ Cardinality(M) <= Cardinality(S)
  <2> HIDE DEF f, M
  <2> QED
    BY <1>1, FS_Surjection
<1>3. T \in SUBSET M
  OBVIOUS
<1> HIDE DEF f, M
<1>4. IsFiniteSet(T) /\ Cardinality(T) <= Cardinality(M)
  BY <1>2, <1>3, FS_Subset
<1>5. Cardinality(T) \in Nat /\ Cardinality(M) \in Nat /\ Cardinality(S) \in Nat
  BY <1>2, <1>4, FS_CardinalityType
<1> QED
  BY <1>2, <1>4, <1>5

LEMMA EndsOfBoth ==
  ASSUME NEW s \in Seq(Cmd!Tokens), NEW u \in Seq(Cmd!Tokens)
  PROVE  Cardinality(Cmd!LineEnds(s \o u)) <= Cardinality(Cmd!LineEnds(s)) + Cardinality(Cmd!LineEnds(u))
<1> DEFINE A == Cmd!LineEnds(s)
           B == {i + Len(s) : i \in Cmd!LineEnds(u)}
<1>1. Cmd!LineEnds(s \o u) = A \cup B
  <2>1. Len(s \o u) = Len(s) + Len(u)
    OBVIOUS
  <2>2. ASSUME NEW i \in 1 .. Len(s) + Len(u)
        PROVE  (s \o u)[i] = IF i <= Len(s) THEN s[i] ELSE u[i - Len(s)]
    BY <2>2
  <2>3. ASSUME NEW i \in Cmd!LineEnds(s \o u)
        PROVE  i \in A \cup B
    <3>1. i \in 1 .. Len(s) + Len(u) /\ (s \o u)[i] = Cmd!LF
      BY <2>1 DEF Cmd!LineEnds
    <3>2. CASE i <= Len(s)
      BY <2>2, <3>1, <3>2 DEF Cmd!LineEnds
    <3>3. CASE i > Len(s)
      <4>1. i - Len(s) \in Cmd!LineEnds(u) /\ i = (i - Len(s)) + Len(s)
        BY <2>2, <3>1, <3>3 DEF Cmd!LineEnds
      <4> QED
        BY <4>1
    <3> QED
      BY <3>1, <3>2, <3>3
  <2>4. ASSUME NEW i \in A
        PROVE  i \in Cmd!LineEnds(s \o u)
    BY <2>1, <2>2 DEF Cmd!LineEnds
  <2>5. ASSUME NEW i \in Cmd!LineEnds(u)
        PROVE  i + Len(s) \in Cmd!LineEnds(s \o u)
    BY <2>1, <2>2 DEF Cmd!LineEnds
  <2> QED
    BY <2>3, <2>4, <2>5
<1>2. IsFiniteSet(A) /\ Cardinality(A) \in Nat
  BY LineEndsFinite
<1>3. IsFiniteSet(B) /\ Cardinality(B) <= Cardinality(Cmd!LineEnds(u))
  <2>1. Cmd!LineEnds(u) \in SUBSET Nat /\ IsFiniteSet(Cmd!LineEnds(u)) /\ Len(s) \in Int
    BY LineEndsFinite DEF Cmd!LineEnds
  <2> QED
    BY <2>1, MovedPlaces
<1>4. Cardinality(Cmd!LineEnds(u)) \in Nat
  BY LineEndsFinite
<1> HIDE DEF A, B
<1>5. Cardinality(A \cup B) = Cardinality(A) + Cardinality(B) - Cardinality(A \cap B)
  BY <1>2, <1>3, FS_Union
<1>6. Cardinality(B) \in Nat /\ Cardinality(A \cap B) \in Nat
  <2>1. IsFiniteSet(A \cap B)
    BY <1>2, FS_Subset, A \cap B \in SUBSET A
  <2> QED
    BY <1>3, <2>1, FS_CardinalityType
<1> QED
  BY <1>1, <1>2, <1>3, <1>4, <1>5, <1>6 DEF A

LEMMA EndsOfRest ==
  ASSUME NEW s \in Seq(Cmd!Tokens)
  PROVE  \/ Cardinality(Cmd!LineEnds(Cmd!Rest(s))) = 0
         \/ Cardinality(Cmd!LineEnds(Cmd!Rest(s))) <= Cardinality(Cmd!LineEnds(s)) - 1
<1>1. CASE Cmd!LineEnds(s) = {} /\ Cmd!Rest(s) = s
  BY <1>1, FS_EmptySet
<1>2. ASSUME NEW k \in Cmd!LineEnds(s),
             k \in 1 .. Len(s), Len(Cmd!Rest(s)) = Len(s) - k,
             \A i \in 1 .. Len(s) - k : Cmd!Rest(s)[i] = s[i + k]
      PROVE  Cardinality(Cmd!LineEnds(Cmd!Rest(s))) <= Cardinality(Cmd!LineEnds(s)) - 1
  <2> DEFINE S == Cmd!LineEnds(s) \ {k}
  <2>1. IsFiniteSet(S) /\ Cardinality(S) = Cardinality(Cmd!LineEnds(s)) - 1
    BY LineEndsFinite, FS_RemoveElement
  <2>2. Cmd!LineEnds(Cmd!Rest(s)) \subseteq {i + (0 - k) : i \in S}
    <3>1. ASSUME NEW i \in Cmd!LineEnds(Cmd!Rest(s))
          PROVE  i + k \in S /\ i = (i + k) + (0 - k)
      <4>1. i \in 1 .. Len(s) - k
        BY <1>2, RestIs DEF Cmd!LineEnds
      <4> QED
        BY <1>2, <4>1 DEF Cmd!LineEnds
    <3> QED
      BY <3>1
  <2>3. S \in SUBSET Nat /\ 0 - k \in Int
    BY <1>2 DEF Cmd!LineEnds
  <2> HIDE DEF S
  <2> QED
    BY <2>1, <2>2, <2>3, MovedPlaces
<1> QED
  BY <1>1, <1>2, RestIs

\* The first line ends at the first line end, and with the rest it is the whole text.
LEMMA FirstLineIs ==
  ASSUME NEW s \in Seq(Cmd!Tokens), Cmd!LineEnds(s) # {}
  PROVE  /\ Cmd!FirstLine(s) \in Seq(Cmd!Tokens)
         /\ Cmd!LineEnds(Cmd!FirstLine(s)) = {Len(Cmd!FirstLine(s))}
         /\ Cmd!FirstLine(s) \o Cmd!Rest(s) = s
<1> DEFINE k == Cmd!Min(Cmd!LineEnds(s))
<1>1. /\ k \in 1 .. Len(s) /\ s[k] = Cmd!LF
      /\ \A i \in 1 .. Len(s) : s[i] = Cmd!LF => k <= i
  BY FirstLineEnd DEF Cmd!LineEnds
<1>2. Cmd!FirstLine(s) = SubSeq(s, 1, k) /\ Cmd!Rest(s) = SubSeq(s, k + 1, Len(s))
  BY DEF Cmd!FirstLine, Cmd!Rest
<1> HIDE DEF k
<1>3. /\ SubSeq(s, 1, k) \in Seq(Cmd!Tokens) /\ Len(SubSeq(s, 1, k)) = k
      /\ \A i \in 1 .. k : SubSeq(s, 1, k)[i] = s[i]
  BY <1>1
<1>4. /\ SubSeq(s, k + 1, Len(s)) \in Seq(Cmd!Tokens) /\ Len(SubSeq(s, k + 1, Len(s))) = Len(s) - k
      /\ \A i \in 1 .. Len(s) - k : SubSeq(s, k + 1, Len(s))[i] = s[i + k]
  BY <1>1
<1>5. Cmd!LineEnds(SubSeq(s, 1, k)) = {k}
  <2>1. \A i \in 1 .. k : SubSeq(s, 1, k)[i] = Cmd!LF <=> i = k
    BY <1>1, <1>3
  <2>2. DOMAIN SubSeq(s, 1, k) = 1 .. k
    BY <1>1, <1>3
  <2> QED
    BY <1>1, <2>1, <2>2 DEF Cmd!LineEnds
<1>6. SubSeq(s, 1, k) \o SubSeq(s, k + 1, Len(s)) = s
  <2> DEFINE l == SubSeq(s, 1, k)
             r == SubSeq(s, k + 1, Len(s))
  <2>1. /\ l \in Seq(Cmd!Tokens) /\ r \in Seq(Cmd!Tokens) /\ Len(l) = k /\ Len(r) = Len(s) - k
        /\ \A i \in 1 .. k : l[i] = s[i]
        /\ \A i \in 1 .. Len(s) - k : r[i] = s[i + k]
    BY <1>3, <1>4
  <2> HIDE DEF l, r
  <2>0. /\ l \o r \in Seq(Cmd!Tokens) /\ Len(l \o r) = Len(l) + Len(r)
        /\ \A i \in 1 .. Len(l) + Len(r) : (l \o r)[i] = IF i <= Len(l) THEN l[i] ELSE r[i - Len(l)]
    BY <2>1, ConcatProperties
  <2>2. Len(l \o r) = Len(s) /\ l \o r \in Seq(Cmd!Tokens)
    BY <1>1, <2>0, <2>1
  <2>3. ASSUME NEW i \in 1 .. Len(s)
        PROVE  (l \o r)[i] = s[i]
    <3>1. CASE i <= k
      BY <1>1, <2>0, <2>1, <3>1
    <3>2. CASE i > k
      <4>1. i - k \in 1 .. Len(s) - k /\ (i - k) + k = i
        BY <1>1, <3>2
      <4>0. i \in 1 .. Len(l) + Len(r) /\ ~(i <= Len(l)) /\ i - Len(l) = i - k
        BY <1>1, <2>1, <3>2
      <4>2. (l \o r)[i] = r[i - k]
        BY <2>0, <4>0
      <4>3. r[i - k] = s[(i - k) + k]
        BY <2>1, <4>1
      <4> QED
        BY <4>1, <4>2, <4>3
    <3>3. i <= k \/ i > k
      BY <1>1
    <3> QED
      BY <3>1, <3>2, <3>3
  <2>4. l \o r = s
    BY <2>2, <2>3, SeqEqual
  <2> QED
    BY <2>4 DEF l, r
<1> QED
  BY <1>2, <1>3, <1>5, <1>6

\* What the lines are between the steps of a session.
LinesTyped == typed \in Seq(Cmd!Words \cup {"long"}) /\ Len(typed) <= MaxLines /\ taken \in 0 .. Len(typed)
Hands == [at : {"idle", "start", "emit", "buffer", "obey"}, src : {"none", "console", "client"},
          msg : Seq(Cmd!Tokens), line : Seq(Cmd!Tokens)]
HandsTyped == thread \in [Io -> Hands]

\* One read at a time: outstanding, or in the hands of the one thread about to arm it.
OneReader ==
  /\ reading => \A t \in Io : thread[t].at # "start"
  /\ \A t, u \in Io : thread[t].at = "start" /\ thread[u].at = "start" => t = u

BufferTyped == inBuffer \in Seq(Cmd!Tokens) /\ received \in Seq(Cmd!Tokens) /\ gone \in Seq(Cmd!Tokens)
CountsTyped == chunks \in 0 .. MaxChunks /\ extra \in Nat
ReadingTyped == reading \in BOOLEAN
InputTyped == ended \in BOOLEAN /\ open \in BOOLEAN
SpoiltTyped == raced \in BOOLEAN /\ mixed \in BOOLEAN
StopTyped == stopFlag \in BOOLEAN

\* What the adaptor promises as long as no two threads are in its buffer.
LinesKept == ~raced => WaitsOnlyBehindLines /\ TextKept /\ OneLineObeyed

LinesInv ==
  /\ LinesTyped /\ HandsTyped /\ OneReader /\ BufferTyped /\ CountsTyped
  /\ ReadingTyped /\ InputTyped /\ SpoiltTyped /\ LinesKept

\* The steps of the lines, those of each thread apart.
ThreadOfLines(t) ==
  \/ Cmd!ReadHandler(t) \/ Cmd!ReadFails(t) \/ Cmd!ChunkArrives(t) \/ Cmd!Start(t)
  \/ Cmd!AdaptorStep(t) \/ Cmd!ObeyLine(t)

LEMMA SessionStepsLines ==
  ASSUME [SessionNext]_session
  PROVE  UNCHANGED lines \/ Cmd!Type \/ Cmd!EndOfInput \/ \E t \in Io : ThreadOfLines(t)
<1>1. CASE ManagerStep \/ LoggerServed
  BY <1>1 DEF ManagerStep, LoggerServed
<1>2. CASE Operator
  BY <1>2 DEF Operator
<1>3. ASSUME NEW t \in Io,
             TakesLine(t) \/ ConsoleEnds(t) \/ ChunkComes(t) \/ ReadsOn(t) \/ InAdaptor(t) \/ Obeys(t)
      PROVE  ThreadOfLines(t)
  BY <1>3 DEF TakesLine, ConsoleEnds, ChunkComes, ReadsOn, InAdaptor, Obeys, ThreadOfLines
<1>4. ASSUME NEW t \in Io, OtherHandler(t) \/ Done(t) \/ Fails(t) \/ ThreadOfManager(t)
      PROVE  UNCHANGED lines
  BY <1>4 DEF OtherHandler, Done, Fails, ThreadOfManager
<1>5. ASSUME NEW t \in Io, Deaf(t)
      PROVE  UNCHANGED lines
  BY <1>5 DEF Deaf, Cmd!LineTooLong, Cmd!vars, Cmd!console, Cmd!adaptor, lines
<1>6. CASE UNCHANGED session
  BY <1>6 DEF session
<1> QED
  BY <1>1, <1>2, <1>3, <1>4, <1>5, <1>6 DEF SessionNext

\* What a thread has in hand afterwards, when only its own changes.
LEMMA HandMoves ==
  ASSUME HandsTyped, NEW t \in Io, NEW h \in Hands, thread' = [thread EXCEPT ![t] = h]
  PROVE  HandsTyped' /\ thread'[t] = h /\ \A u \in Io \ {t} : thread'[u] = thread[u]
BY DEF HandsTyped

\* The steps of the lines, one lemma for each that does more than count.
LEMMA TypeStep ==
  ASSUME LinesInv, Cmd!Type
  PROVE  LinesInv'
<1> USE DEF LinesInv
<1>1. PICK w \in Cmd!Words \cup {"long"} : typed' = Append(typed, w)
  BY DEF Cmd!Type
<1>2. /\ UNCHANGED <<ended, taken, reading, open, thread, inBuffer, chunks, extra, raced, mixed, received, gone>>
      /\ Len(typed) < MaxLines
  BY DEF Cmd!Type, Cmd!adaptor
<1>3. LinesTyped'
  BY <1>1, <1>2, SessionAssumption DEF LinesTyped, SessionAssumption
<1> QED
  BY <1>2, <1>3 DEF HandsTyped, OneReader, BufferTyped, CountsTyped, ReadingTyped, InputTyped,
                    SpoiltTyped, LinesKept, WaitsOnlyBehindLines, TextKept, OneLineObeyed

LEMMA ReadHandlerStep ==
  ASSUME LinesInv, NEW t \in Io, Cmd!ReadHandler(t)
  PROVE  LinesInv'
<1> USE DEF LinesInv
<1> DEFINE m == <<typed[taken + 1], Cmd!LF>>
           h == [at |-> "start", src |-> "console", msg |-> m, line |-> <<>>]
<1>1. /\ taken < Len(typed) /\ typed[taken + 1] # "long" /\ reading
      /\ thread' = [thread EXCEPT ![t] = h]
      /\ taken' = taken + 1 /\ reading' = FALSE
      /\ UNCHANGED <<typed, ended, open, inBuffer, chunks, extra, raced, mixed, received, gone>>
  BY DEF Cmd!ReadHandler, Cmd!LineThere, Cmd!Has, Cmd!adaptor
<1>2. typed[taken + 1] \in Cmd!Words
  BY <1>1 DEF LinesTyped
<1>3. m \in Seq(Cmd!Tokens)
  BY <1>2 DEF Cmd!Words, Cmd!Tokens, Cmd!LF
<1>4. h \in Hands /\ h.at = "start"
  BY <1>3 DEF Hands
<1> HIDE DEF m, h
<1>5. /\ HandsTyped' /\ thread'[t] = h /\ \A u \in Io \ {t} : thread'[u] = thread[u]
  BY <1>1, <1>4, HandMoves
<1>6. LinesTyped'
  BY <1>1 DEF LinesTyped
<1>7. OneReader'
  BY <1>1, <1>4, <1>5 DEF OneReader
<1>8. LinesKept'
  BY <1>1, <1>4, <1>5 DEF LinesKept, WaitsOnlyBehindLines, TextKept, OneLineObeyed
<1> QED
  BY <1>1, <1>5, <1>6, <1>7, <1>8 DEF BufferTyped, CountsTyped, ReadingTyped, InputTyped, SpoiltTyped

LEMMA ReadFailsStep ==
  ASSUME LinesInv, Cmd!EndOfInput \/ \E t \in Io : Cmd!ReadFails(t)
  PROVE  LinesInv'
<1> USE DEF LinesInv
<1>1. /\ UNCHANGED <<typed, taken, thread, inBuffer, chunks, extra, raced, mixed, received, gone>>
      /\ UNCHANGED reading \/ reading' = FALSE
      /\ UNCHANGED ended \/ ended' = TRUE
      /\ UNCHANGED open \/ open' = FALSE
  BY DEF Cmd!EndOfInput, Cmd!ReadFails, Cmd!adaptor
<1>2. ReadingTyped' /\ InputTyped'
  BY <1>1 DEF ReadingTyped, InputTyped
<1> QED
  BY <1>1, <1>2 DEF LinesTyped, HandsTyped, OneReader, BufferTyped, CountsTyped, SpoiltTyped,
                    LinesKept, WaitsOnlyBehindLines, TextKept, OneLineObeyed

LEMMA ChunkStep ==
  ASSUME LinesInv, NEW t \in Io, Cmd!ChunkArrives(t)
  PROVE  LinesInv'
<1> USE DEF LinesInv
<1>1. PICK c \in Chunks :
        thread' = [thread EXCEPT ![t] = [at |-> "emit", src |-> "client", msg |-> c, line |-> <<>>]]
  BY DEF Cmd!ChunkArrives, Cmd!Has
<1>2. /\ UNCHANGED <<typed, ended, taken, reading, open, inBuffer, extra, raced, mixed, received, gone>>
      /\ chunks < MaxChunks /\ chunks' = chunks + 1
  BY DEF Cmd!ChunkArrives, Cmd!console, Cmd!adaptor
<1> DEFINE h == [at |-> "emit", src |-> "client", msg |-> c, line |-> <<>>]
<1>3. h \in Hands /\ h.at = "emit"
  <2>1. c \in Seq(Cmd!Tokens)
    BY SessionAssumption DEF SessionAssumption
  <2> QED
    BY <2>1 DEF Hands
<1> HIDE DEF h
<1>4. HandsTyped' /\ thread'[t] = h /\ \A u \in Io \ {t} : thread'[u] = thread[u]
  BY <1>1, <1>3, HandMoves DEF h
<1>5. OneReader'
  BY <1>2, <1>3, <1>4 DEF OneReader
<1>6. LinesKept'
  BY <1>2, <1>3, <1>4 DEF LinesKept, WaitsOnlyBehindLines, TextKept, OneLineObeyed
<1>7. CountsTyped'
  BY <1>2, SessionAssumption DEF CountsTyped, SessionAssumption
<1> QED
  BY <1>2, <1>4, <1>5, <1>6, <1>7 DEF LinesTyped, BufferTyped, ReadingTyped, InputTyped, SpoiltTyped

LEMMA StartStep ==
  ASSUME LinesInv, NEW t \in Io, Cmd!Start(t)
  PROVE  LinesInv'
<1> USE DEF LinesInv
<1>1. /\ thread[t].at = "start" /\ thread' = [thread EXCEPT ![t].at = "emit"] /\ reading' = TRUE
      /\ UNCHANGED <<typed, ended, taken, open, inBuffer, chunks, extra, raced, mixed, received, gone>>
  BY DEF Cmd!Start, Cmd!ReadsAgain, Cmd!adaptor
<1>2. /\ HandsTyped' /\ thread'[t].at = "emit"
      /\ \A u \in Io \ {t} : thread'[u] = thread[u]
  BY <1>1 DEF HandsTyped, Hands
<1>3. OneReader'
  BY <1>1, <1>2 DEF OneReader
<1>4. LinesKept'
  BY <1>1, <1>2 DEF LinesKept, WaitsOnlyBehindLines, TextKept, OneLineObeyed
<1> QED
  BY <1>1, <1>2, <1>3, <1>4 DEF LinesTyped, BufferTyped, CountsTyped, ReadingTyped, InputTyped, SpoiltTyped

LEMMA CountedAlike ==
  ASSUME NEW S
  PROVE  Cmd!Cardinality(S) = Cardinality(S)
BY DEF Cmd!Cardinality, Cardinality, Cmd!IsFiniteSet, IsFiniteSet

\* Extra grows by the line ends of the message but one.
LEMMA ExtraGrows ==
  ASSUME NEW m \in Seq(Cmd!Tokens), NEW x \in Nat
  PROVE  LET y == x + Cmd!Max({Cardinality(Cmd!LineEnds(m)), 1}) - 1
         IN  y \in Nat /\ x <= y
<1>1. Cardinality(Cmd!LineEnds(m)) \in Nat
  BY LineEndsFinite
<1>2. \E z \in {Cardinality(Cmd!LineEnds(m)), 1} : \A y \in {Cardinality(Cmd!LineEnds(m)), 1} : z >= y
  BY <1>1
<1>3. /\ Cmd!Max({Cardinality(Cmd!LineEnds(m)), 1}) \in {Cardinality(Cmd!LineEnds(m)), 1}
      /\ Cmd!Max({Cardinality(Cmd!LineEnds(m)), 1}) >= 1
  BY <1>2 DEF Cmd!Max
<1> QED
  BY <1>1, <1>3

LEMMA EnterStep ==
  ASSUME LinesInv, NEW t \in Io, Cmd!EnterDoCommand(t)
  PROVE  LinesInv'
<1> USE DEF LinesInv
<1>1. /\ thread[t].at = "emit" /\ thread' = [thread EXCEPT ![t].at = "buffer"]
      /\ UNCHANGED <<typed, ended, taken, reading, open, chunks, extra>>
  BY DEF Cmd!EnterDoCommand, Cmd!console
<1>2. /\ raced' = (raced \/ \E u \in Io : thread[u].at = "buffer")
      /\ mixed' = (mixed \/ (thread[t].src = "console" /\ Cmd!Unfinished(inBuffer)))
      /\ \/ raced' /\ inBuffer' = <<>> /\ received' = <<>> /\ gone' = <<>>
         \/ ~raced' /\ UNCHANGED <<inBuffer, received, gone>>
  BY DEF Cmd!EnterDoCommand
<1>3. /\ HandsTyped' /\ thread'[t].at = "buffer"
      /\ \A u \in Io \ {t} : thread'[u] = thread[u]
  BY <1>1 DEF HandsTyped, Hands
<1>4. OneReader'
  BY <1>1, <1>3 DEF OneReader
<1>5. LinesKept'
  BY <1>1, <1>2, <1>3 DEF LinesKept, WaitsOnlyBehindLines, TextKept, OneLineObeyed
<1>6. BufferTyped' /\ SpoiltTyped'
  <2>1. <<>> \in Seq(Cmd!Tokens)
    OBVIOUS
  <2> QED
    BY <1>2, <2>1 DEF BufferTyped, SpoiltTyped
<1> QED
  BY <1>1, <1>3, <1>4, <1>5, <1>6 DEF LinesTyped, CountsTyped, ReadingTyped, InputTyped

\* A thread that leaves the buffer holds one line or none.
LEMMA LeavesBuffer ==
  ASSUME HandsTyped, NEW t \in Io, thread[t].at = "buffer",
         \/ Cmd!HoldsNone(t)
         \/ \E l \in Seq(Cmd!Tokens) : Cmd!Holds(t, l) /\ Cmd!LineEnds(l) = {Len(l)}
  PROVE  /\ HandsTyped' /\ (OneLineObeyed => OneLineObeyed') /\ thread'[t].at # "start"
         /\ \A u \in Io \ {t} : thread'[u] = thread[u]
<1>0. thread[t] \in Hands
  BY DEF HandsTyped
<1>1. ASSUME NEW h \in Hands, thread' = [thread EXCEPT ![t] = h], h.at # "start",
             h.at = "obey" => Cmd!LineEnds(h.line) = {Len(h.line)}
      PROVE  /\ HandsTyped' /\ (OneLineObeyed => OneLineObeyed') /\ thread'[t].at # "start"
             /\ \A u \in Io \ {t} : thread'[u] = thread[u]
  <2>1. HandsTyped' /\ thread'[t] = h /\ \A u \in Io \ {t} : thread'[u] = thread[u]
    BY <1>1, HandMoves
  <2> QED
    BY <1>1, <2>1 DEF OneLineObeyed
<1>2. CASE Cmd!HoldsNone(t)
  <2>1. /\ Cmd!Idle \in Hands /\ Cmd!Idle.at = "idle"
        /\ thread' = [thread EXCEPT ![t] = Cmd!Idle]
    BY <1>2 DEF Cmd!HoldsNone, Cmd!Idle, Cmd!Has, Hands
  <2> QED
    BY <1>1, <2>1
<1>3. ASSUME NEW l \in Seq(Cmd!Tokens), Cmd!Holds(t, l), Cmd!LineEnds(l) = {Len(l)}
      PROVE  /\ HandsTyped' /\ (OneLineObeyed => OneLineObeyed') /\ thread'[t].at # "start"
             /\ \A u \in Io \ {t} : thread'[u] = thread[u]
  <2> DEFINE h == [at |-> "obey", src |-> thread[t].src, msg |-> <<>>, line |-> l]
  <2>1. h \in Hands /\ h.at = "obey" /\ h.line = l
    BY <1>0 DEF Hands
  <2>2. thread' = [thread EXCEPT ![t] = h]
    BY <1>3 DEF Cmd!Holds, Cmd!Has
  <2> HIDE DEF h
  <2> QED
    BY <1>1, <1>3, <2>1, <2>2
<1> QED
  BY <1>2, <1>3

\* Texts put together, whichever two first.
LEMMA TextsJoin ==
  ASSUME NEW a \in Seq(Cmd!Tokens), NEW b \in Seq(Cmd!Tokens), NEW c \in Seq(Cmd!Tokens)
  PROVE  (a \o b) \o c = a \o (b \o c) /\ a \o b \in Seq(Cmd!Tokens)
BY ConcatAssociative, ConcatProperties

LEMMA TakeLineStep ==
  ASSUME LinesInv, NEW t \in Io, Cmd!TakeLine(t)
  PROVE  LinesInv'
<1> USE DEF LinesInv
<1> DEFINE m == thread[t].msg
           all == inBuffer \o m
<1>1. /\ thread[t].at = "buffer" /\ ~raced /\ inBuffer' = Cmd!Rest(all)
      /\ received' = received \o m
      /\ extra' = extra + Cmd!Max({Cardinality(Cmd!LineEnds(m)), 1}) - 1
      /\ UNCHANGED <<typed, ended, taken, reading, open, chunks, raced, mixed>>
  BY CountedAlike DEF Cmd!TakeLine, Cmd!console
<1>2. \/ Cmd!LineEnds(all) = {} /\ Cmd!HoldsNone(t) /\ UNCHANGED gone
      \/ Cmd!LineEnds(all) # {} /\ Cmd!Holds(t, Cmd!FirstLine(all)) /\ gone' = gone \o Cmd!FirstLine(all)
  BY DEF Cmd!TakeLine
<1>3. /\ m \in Seq(Cmd!Tokens) /\ inBuffer \in Seq(Cmd!Tokens)
      /\ received \in Seq(Cmd!Tokens) /\ gone \in Seq(Cmd!Tokens)
  BY DEF HandsTyped, Hands, BufferTyped
<1> HIDE DEF m
<1>4. all \in Seq(Cmd!Tokens)
  BY <1>3
<1>5. /\ Cardinality(Cmd!LineEnds(all)) <= Cardinality(Cmd!LineEnds(inBuffer)) + Cardinality(Cmd!LineEnds(m))
      /\ Cardinality(Cmd!LineEnds(m)) \in Nat /\ Cardinality(Cmd!LineEnds(inBuffer)) \in Nat
      /\ Cardinality(Cmd!LineEnds(all)) \in Nat
  BY <1>3, <1>4, EndsOfBoth, LineEndsFinite
<1>6. /\ Cmd!Max({Cardinality(Cmd!LineEnds(m)), 1}) \in Nat
      /\ Cmd!Max({Cardinality(Cmd!LineEnds(m)), 1}) >= 1
      /\ Cmd!Max({Cardinality(Cmd!LineEnds(m)), 1}) >= Cardinality(Cmd!LineEnds(m))
  <2>1. \E x \in {Cardinality(Cmd!LineEnds(m)), 1} : \A y \in {Cardinality(Cmd!LineEnds(m)), 1} : x >= y
    BY <1>5
  <2> QED
    BY <1>5, <2>1 DEF Cmd!Max
<1>7. gone' \o inBuffer' = gone \o all /\ gone' \in Seq(Cmd!Tokens)
  <2>1. CASE Cmd!LineEnds(all) = {}
    BY <1>1, <1>2, <1>3, <2>1 DEF Cmd!Rest
  <2>2. CASE Cmd!LineEnds(all) # {}
    <3> DEFINE l == Cmd!FirstLine(all)
               r == Cmd!Rest(all)
    <3>0. l \in Seq(Cmd!Tokens) /\ r \in Seq(Cmd!Tokens)
      BY <1>4, <2>2, FirstLineIs, RestIs
    <3>1. l \o r = all
      BY <1>4, <2>2, FirstLineIs
    <3>2. gone' = gone \o l /\ inBuffer' = r
      BY <1>1, <1>2, <2>2
    <3> HIDE DEF l, r, all
    <3>3. (gone \o l) \o r = gone \o (l \o r) /\ gone \o l \in Seq(Cmd!Tokens)
      BY <1>3, <3>0, TextsJoin
    <3> QED
      BY <3>1, <3>2, <3>3
  <2> QED
    BY <2>1, <2>2
<1>8. TextKept'
  <2>1. gone \o inBuffer = received
    BY <1>1 DEF LinesKept, TextKept
  <2>2. gone \o (inBuffer \o m) = (gone \o inBuffer) \o m
    BY <1>3, TextsJoin
  <2> QED
    BY <1>1, <1>7, <2>1, <2>2 DEF TextKept
<1>9. BufferTyped'
  <2>1. received \o m \in Seq(Cmd!Tokens)
    BY <1>3
  <2> QED
    BY <1>1, <1>4, <1>7, <2>1, RestIs DEF BufferTyped
<1>10. CountsTyped' /\ WaitsOnlyBehindLines'
  <2>1. Cardinality(Cmd!LineEnds(inBuffer)) <= extra /\ extra \in Nat /\ chunks \in 0 .. MaxChunks
    BY <1>1 DEF LinesKept, WaitsOnlyBehindLines, CountsTyped
  <2>2. Cardinality(Cmd!LineEnds(Cmd!Rest(all))) \in Nat
    BY <1>4, RestIs, LineEndsFinite
  <2>3. \/ Cardinality(Cmd!LineEnds(Cmd!Rest(all))) = 0
        \/ Cardinality(Cmd!LineEnds(Cmd!Rest(all))) <= Cardinality(Cmd!LineEnds(all)) - 1
    BY <1>4, EndsOfRest
  <2> HIDE DEF all
  <2>4. Cardinality(Cmd!LineEnds(Cmd!Rest(all))) <= extra' /\ extra' \in Nat
    BY <1>1, <1>5, <1>6, <2>1, <2>2, <2>3
  <2> QED
    BY <1>1, <2>1, <2>4 DEF CountsTyped, WaitsOnlyBehindLines
<1>11. /\ HandsTyped' /\ (OneLineObeyed => OneLineObeyed') /\ thread'[t].at # "start"
       /\ \A u \in Io \ {t} : thread'[u] = thread[u]
  <2> HIDE DEF all
  <2>1. CASE Cmd!HoldsNone(t)
    BY <1>1, <2>1, LeavesBuffer
  <2>2. CASE Cmd!LineEnds(all) # {} /\ Cmd!Holds(t, Cmd!FirstLine(all))
    <3>1. Cmd!FirstLine(all) \in Seq(Cmd!Tokens) /\ Cmd!LineEnds(Cmd!FirstLine(all)) = {Len(Cmd!FirstLine(all))}
      BY <1>4, <2>2, FirstLineIs
    <3> QED
      BY <1>1, <2>2, <3>1, LeavesBuffer
  <2> QED
    BY <1>2, <2>1, <2>2
<1>12. OneReader'
  BY <1>1, <1>11 DEF OneReader
<1>13. LinesKept'
  BY <1>1, <1>8, <1>10, <1>11 DEF LinesKept
<1> QED
  BY <1>1, <1>9, <1>10, <1>11, <1>12, <1>13 DEF LinesTyped, ReadingTyped, InputTyped, SpoiltTyped

LEMMA TakeTornStep ==
  ASSUME LinesInv, NEW t \in Io, Cmd!TakeTornLine(t)
  PROVE  LinesInv'
<1> USE DEF LinesInv
<1>1. /\ thread[t].at = "buffer" /\ raced
      /\ UNCHANGED <<typed, ended, taken, reading, open, chunks, inBuffer, extra, raced, mixed, received, gone>>
  BY DEF Cmd!TakeTornLine, Cmd!console, Cmd!adaptor
<1>2. ASSUME NEW w \in Cmd!Words
      PROVE  <<w, Cmd!LF>> \in Seq(Cmd!Tokens) /\ Cmd!LineEnds(<<w, Cmd!LF>>) = {Len(<<w, Cmd!LF>>)}
  <2>1. w # Cmd!LF /\ w \in Cmd!Tokens /\ Cmd!LF \in Cmd!Tokens
    BY DEF Cmd!Words, Cmd!Tokens, Cmd!LF
  <2> DEFINE s == <<w, Cmd!LF>>
  <2>2. s \in Seq(Cmd!Tokens) /\ Len(s) = 2 /\ DOMAIN s = 1 .. 2 /\ s[1] = w /\ s[2] = Cmd!LF
    BY <2>1
  <2>3. Cmd!LineEnds(s) = {2}
    BY <2>1, <2>2 DEF Cmd!LineEnds
  <2> QED
    BY <2>2, <2>3
<1>3. \/ Cmd!HoldsNone(t)
      \/ \E l \in Seq(Cmd!Tokens) : Cmd!Holds(t, l) /\ Cmd!LineEnds(l) = {Len(l)}
  <2>1. Cmd!HoldsNone(t) \/ \E w \in Cmd!Words : Cmd!Holds(t, <<w, Cmd!LF>>)
    BY DEF Cmd!TakeTornLine
  <2> QED
    BY <1>2, <2>1
<1>4. HandsTyped' /\ thread'[t].at # "start" /\ \A u \in Io \ {t} : thread'[u] = thread[u]
  BY <1>1, <1>3, LeavesBuffer
<1>5. OneReader'
  BY <1>1, <1>4 DEF OneReader
<1> QED
  BY <1>1, <1>4, <1>5 DEF LinesTyped, BufferTyped, CountsTyped, ReadingTyped, InputTyped, SpoiltTyped, LinesKept

LEMMA ObeyStep ==
  ASSUME LinesInv, NEW t \in Io, Cmd!ObeyLine(t)
  PROVE  LinesInv'
<1> USE DEF LinesInv
<1>1. /\ thread' = [thread EXCEPT ![t] = Cmd!Idle]
      /\ UNCHANGED <<typed, ended, taken, reading, open, chunks, inBuffer, extra, raced, mixed, received, gone>>
  BY DEF Cmd!ObeyLine, Cmd!console
<1>2. Cmd!Idle \in Hands /\ Cmd!Idle.at = "idle"
  BY DEF Cmd!Idle, Cmd!Has, Hands
<1>3. HandsTyped' /\ thread'[t].at = "idle" /\ \A u \in Io \ {t} : thread'[u] = thread[u]
  BY <1>1, <1>2, HandMoves
<1>4. OneReader'
  BY <1>1, <1>3 DEF OneReader
<1>5. LinesKept'
  BY <1>1, <1>3 DEF LinesKept, WaitsOnlyBehindLines, TextKept, OneLineObeyed
<1> QED
  BY <1>1, <1>3, <1>4, <1>5 DEF LinesTyped, BufferTyped, CountsTyped, ReadingTyped, InputTyped, SpoiltTyped

LEMMA LinesStep ==
  ASSUME LinesInv, [SessionNext]_session
  PROVE  LinesInv'
<1>1. CASE UNCHANGED lines
  BY <1>1 DEF lines, LinesInv, LinesTyped, HandsTyped, OneReader, BufferTyped, CountsTyped, ReadingTyped,
              InputTyped, SpoiltTyped, LinesKept, WaitsOnlyBehindLines, TextKept, OneLineObeyed
<1>2. ASSUME NEW t \in Io, ThreadOfLines(t)
      PROVE  LinesInv'
  BY <1>2, ReadHandlerStep, ReadFailsStep, ChunkStep, StartStep, EnterStep, TakeLineStep, TakeTornStep,
     ObeyStep DEF ThreadOfLines, Cmd!AdaptorStep
<1> QED
  BY <1>1, <1>2, TypeStep, ReadFailsStep, SessionStepsLines

\* The types of the manager; where the main thread may sleep.
MainTyped == main \in {"submit", "runActors", "waitStop", "stopIo", "waitIo", "erase", "exit",
                       "stopLogger", "destroyIo", "destroyPool", "done", "hung"}
SleepTyped ==
  /\ blocked \in {"no", "stop", "io"}
  /\ (blocked = "stop" => main = "waitStop") /\ (blocked = "io" => main = "waitIo")
ServiceTyped == actors \in {"none", "up", "erased"} /\ ioService \in {"alive", "destroyed"}
IoFlagsTyped == ioFlag \in BOOLEAN /\ ioStopped \in BOOLEAN
RecordsTyped == logRecords \in BOOLEAN
HandlersTyped == handlers \in 0 .. MaxHandlers
MisuseTyped == misuse \subseteq {"actor", "service"}

ManagerTypes ==
  /\ MainTyped /\ SleepTyped /\ ServiceTyped /\ IoFlagsTyped /\ RecordsTyped
  /\ HandlersTyped /\ MisuseTyped /\ StopTyped

LEMMA ManagerTypesStep ==
  ASSUME ManagerTypes, [ManagerNext]_vars
  PROVE  ManagerTypes'
<1> USE DEF ManagerTypes
<1>1. CASE MainStep
  <2>1. /\ UNCHANGED <<handlers, misuse, stopFlag, ioFlag>>
        /\ UNCHANGED ioStopped \/ ioStopped' = TRUE
        /\ UNCHANGED logRecords \/ logRecords' = TRUE
    BY <1>1 DEF MainStep, SubmitUnits, RunActors, WaitStop, StopIo, WaitIo, EraseActors, ActorStopThrows,
                ExitDestroysActors, StopLogger, DestroyIoService, DestroyPool, PoolHangs, Logs, ghosts
  <2>2. IoFlagsTyped' /\ RecordsTyped'
    BY <2>1 DEF IoFlagsTyped, RecordsTyped
  <2>3. MainTyped' /\ SleepTyped'
    <3>1. CASE SubmitUnits \/ RunActors \/ WaitStop \/ StopIo \/ WaitIo
      BY <3>1 DEF SubmitUnits, RunActors, WaitStop, StopIo, WaitIo, MainGoes, MainTyped, SleepTyped
    <3>2. CASE EraseActors \/ ActorStopThrows \/ ExitDestroysActors \/ StopLogger
      BY <3>2 DEF EraseActors, ActorStopThrows, ExitDestroysActors, StopLogger, MainGoes, MainTyped, SleepTyped
    <3>3. CASE DestroyIoService \/ DestroyPool \/ PoolHangs
      BY <3>3 DEF DestroyIoService, DestroyPool, PoolHangs, MainGoes, MainTyped, SleepTyped
    <3> QED
      BY <1>1, <3>1, <3>2, <3>3 DEF MainStep
  <2>4. ServiceTyped'
    BY <1>1 DEF MainStep, SubmitUnits, RunActors, WaitStop, StopIo, WaitIo, EraseActors, ActorStopThrows,
                ExitDestroysActors, StopLogger, DestroyIoService, DestroyPool, PoolHangs, ServiceTyped
  <2> QED
    BY <2>1, <2>2, <2>3, <2>4 DEF HandlersTyped, MisuseTyped, StopTyped
<1>2. ASSUME NEW t \in Io,
             UnitStep(t) \/ HandlerStarts(t) \/ HandlerEnds(t) \/ HandlerThrows(t) \/ Quit(t)
      PROVE  ManagerTypes'
  <2>1. /\ UNCHANGED <<main, actors, ioService, ioStopped>>
        /\ UNCHANGED stopFlag \/ stopFlag' = TRUE
        /\ UNCHANGED blocked \/ blocked' = "no"
        /\ UNCHANGED ioFlag \/ ioFlag' = TRUE \/ ioFlag' = FALSE
        /\ UNCHANGED logRecords \/ logRecords' = TRUE
        /\ UNCHANGED handlers \/ (handlers < MaxHandlers /\ handlers' = handlers + 1)
    BY <1>2 DEF UnitStep, UnitStarts, UnitRuns, UnitLeaves, UnitEnds, HandlerStarts, HandlerEnds,
                HandlerThrows, Quit, Woken, Logs, ghosts
  <2>2. MisuseTyped'
    BY <1>2 DEF UnitStep, UnitStarts, UnitRuns, UnitLeaves, UnitEnds, HandlerStarts, HandlerEnds,
                HandlerThrows, Quit, Touches, ghosts, MisuseTyped
  <2>3. IoFlagsTyped' /\ RecordsTyped'
    BY <2>1 DEF IoFlagsTyped, RecordsTyped
  <2>4. StopTyped'
    BY <2>1 DEF StopTyped
  <2>5. HandlersTyped'
    BY <2>1, ManagerAssumption DEF HandlersTyped, ManagerAssumption
  <2> QED
    BY <2>1, <2>2, <2>3, <2>4, <2>5 DEF MainTyped, SleepTyped, ServiceTyped
<1>3. CASE UNCHANGED vars \/ LoggerTakes
  <2>1. /\ UNCHANGED <<main, blocked, actors, ioService, ioFlag, ioStopped, handlers, misuse, stopFlag>>
        /\ UNCHANGED logRecords \/ logRecords' = FALSE
    BY <1>3 DEF vars, LoggerTakes, ghosts
  <2> QED
    BY <2>1 DEF MainTyped, SleepTyped, ServiceTyped, IoFlagsTyped, RecordsTyped, HandlersTyped,
                MisuseTyped, StopTyped
<1> QED
  BY <1>1, <1>2, <1>3 DEF ManagerNext

SessionInv == ManagerInv /\ ManagerTypes /\ LinesInv

\* Of what a session is, its types follow.
LEMMA SessionIsTyped ==
  ASSUME SessionInv
  PROVE  SessionTypeOK
<1>1. TypeOK
  <2>1. PlacesOK /\ MainTyped /\ SleepTyped /\ ServiceTyped /\ HandlersTyped /\ MisuseTyped
    BY DEF SessionInv, ManagerInv, ManagerTypes
  <2>2. {ioFlag, ioStopped, stopFlag, logRecords} \subseteq BOOLEAN
    BY DEF SessionInv, ManagerTypes, IoFlagsTyped, RecordsTyped, StopTyped
  <2> QED
    BY <2>1, <2>2 DEF TypeOK, PlacesOK, Places, MainTyped, SleepTyped, ServiceTyped, HandlersTyped, MisuseTyped
<1>2. Cmd!TypeOK
  <2>1. {ended, reading, open, stopFlag, raced, mixed} \subseteq BOOLEAN
    BY DEF SessionInv, LinesInv, ManagerTypes, ReadingTyped, InputTyped, SpoiltTyped, StopTyped
  <2>2. \A t \in Io : /\ thread[t].at \in {"idle", "start", "emit", "buffer", "obey"}
                      /\ thread[t].src \in {"none", "console", "client"}
                      /\ thread[t].msg \in Seq(Cmd!Tokens) /\ thread[t].line \in Seq(Cmd!Tokens)
    BY DEF SessionInv, LinesInv, HandsTyped, Hands
  <2> QED
    BY <2>1, <2>2 DEF Cmd!TypeOK, SessionInv, LinesInv, LinesTyped, BufferTyped, CountsTyped, OneReader
<1> QED
  BY <1>1, <1>2 DEF SessionTypeOK

\* The line buffer of the manager adaptor, as long as no two threads are in the unlocked
\* part of DoCommand at once: what it obeys is one line, whole; no text is lost; and a
\* whole line waits in it only behind others of its message, whatever the console types and
\* the clients send (CConsoleActor::ReadHandler, CManagerAdaptor::DoCommand).
THEOREM CommandLinesKept == SessionSpec => []CommandLines
<1>1. SessionInit => SessionInv
  <2> SUFFICES ASSUME SessionInit
               PROVE  SessionInv
    OBVIOUS
  <2> USE DEF SessionInit
  <2>1. ManagerInv
    BY DEF Init, ManagerInv, PlacesOK, Places, SubmittedOK, LoweredByAnother,
           AllOutUnlessShared, PastWait, GoneIsPast, LateUseNeedsSharedFlag, Inside
  <2>2. ManagerTypes
    <3>1. MainTyped /\ SleepTyped /\ ServiceTyped
      BY DEF Init, MainTyped, SleepTyped, ServiceTyped
    <3>2. IoFlagsTyped
      BY DEF Init, IoFlagsTyped
    <3>3. StopTyped
      BY DEF Init, StopTyped
    <3>4. HandlersTyped /\ MisuseTyped
      BY ManagerAssumption DEF ManagerAssumption, Init, HandlersTyped, MisuseTyped
    <3>5. RecordsTyped
      BY DEF Init, RecordsTyped
    <3> QED
      BY <3>1, <3>2, <3>3, <3>4, <3>5 DEF ManagerTypes
  <2>3. /\ typed = <<>> /\ ended = FALSE /\ taken = 0 /\ reading = TRUE /\ open = TRUE
        /\ thread = [t \in Io |-> [at |-> "idle", src |-> "none", msg |-> <<>>, line |-> <<>>]]
        /\ inBuffer = <<>> /\ chunks = 0 /\ extra = 0
        /\ raced = FALSE /\ mixed = FALSE /\ received = <<>> /\ gone = <<>>
    BY DEF Cmd!Init, Cmd!Idle, Cmd!Has
  <2>4. LinesTyped /\ BufferTyped /\ CountsTyped /\ ReadingTyped /\ InputTyped /\ SpoiltTyped
    <3>1. LinesTyped
      BY <2>3, SessionAssumption DEF SessionAssumption, LinesTyped
    <3>2. BufferTyped /\ CountsTyped
      BY <2>3, SessionAssumption DEF SessionAssumption, BufferTyped, CountsTyped
    <3>3. ReadingTyped /\ SpoiltTyped
      BY <2>3 DEF ReadingTyped, SpoiltTyped
    <3>4. InputTyped
      BY <2>3 DEF InputTyped
    <3> QED
      BY <3>1, <3>2, <3>3, <3>4
  <2>5. HandsTyped
    <3>1. [at |-> "idle", src |-> "none", msg |-> <<>>, line |-> <<>>] \in Hands
      BY DEF Hands
    <3> QED
      BY <2>3, <3>1 DEF HandsTyped
  <2>6. OneReader /\ OneLineObeyed
    BY <2>3 DEF OneReader, OneLineObeyed
  <2>7. WaitsOnlyBehindLines /\ TextKept
    <3>1. Cmd!LineEnds(<<>>) = {}
      BY DEF Cmd!LineEnds
    <3>2. <<>> \o <<>> = <<>>
      OBVIOUS
    <3> QED
      BY <2>3, <3>1, <3>2, FS_EmptySet DEF WaitsOnlyBehindLines, TextKept
  <2> QED
    BY <2>1, <2>2, <2>4, <2>5, <2>6, <2>7 DEF SessionInv, LinesInv, LinesKept
<1>2. SessionInv /\ [SessionNext]_session => SessionInv'
  BY ManagerStepsKeep, ManagerTypesStep, LinesStep, SessionStepsManager DEF SessionInv
<1>3. SessionInv => CommandLines
  BY SessionIsTyped DEF SessionInv, LinesInv, CommandLines, LinesKept
<1> QED
  BY <1>1, <1>2, <1>3, PTL DEF SessionSpec
-----------------------------------------------------------------------------
(* The wiring of actors and channels *)

EntryOK ==
  /\ stage \in {"actors", "channels", "run", "cleared"} /\ entry \in Nat \ {0}
  /\ stage = "actors" => entry <= Len(ActorEntries)
  /\ stage = "channels" => entry <= Len(ChannelEntries)

KindOK == DOMAIN kind \subseteq Ids /\ \A a \in DOMAIN kind : kind[a] \in Kinds

WiredOK ==
  /\ wired \in Seq(Range(ChannelEntries)) /\ Len(wired) <= Len(ChannelEntries)
  /\ stage = "actors" => wired = <<>>
  /\ stage = "channels" => Len(wired) < entry

OwnerOK == owner \in [ChannelIds -> Threads \cup {"none"}]

EmissionOK ==
  emission \in [Threads -> [at : {"idle", "slots", "handler", "left"}, msg : Nat, left : SUBSET Nat]]

MessagesOK ==
  /\ content \in Seq({"raw", "lf"}) /\ born \in Seq([src : Ids, all : BOOLEAN])
  /\ outcome \in Seq({"no", "done", "thrown"})
  /\ Len(born) = Len(content) /\ Len(outcome) = Len(content)

\* Only messages that were read are queued, written, passed on or carried.
QueueOK ==
  queue \in [Ids -> Seq(Nat)] /\ \A a \in Ids : \A i \in DOMAIN queue[a] : queue[a][i] \in Messages
OutOK == /\ DOMAIN out = Ids
         /\ \A a \in Ids : out[a] # <<>> => /\ out[a] = <<out[a][1], out[a][2]>>
                                            /\ out[a][1] \in Messages
GivenOK == DOMAIN given = Ids /\ \A a \in Ids : \A x \in given[a] : x[1] \in Messages
CarriedOK == \A x \in carried : x[1] \in Messages

\* An emission is of a message that was read, and its slots are channels of its source.
Emitting(t) == emission[t].at \in {"slots", "handler"}
EmittedOK ==
  \A t \in Threads : Emitting(t) =>
    /\ emission[t].msg \in Messages
    /\ emission[t].left \subseteq From(born[emission[t].msg].src)
    /\ outcome[emission[t].msg] = "no"

SoleEmitter ==
  \A t, u \in Threads : (Emitting(t) /\ Emitting(u) /\ emission[t].msg = emission[u].msg) => t = u

\* A thread in a slot holds the mutex of its channel, and so no two are in one channel.
SlotLocked ==
  \A t \in Threads : emission[t].at = "handler" =>
    emission[t].left # {} /\ owner[Slot(t).id] = t

\* Nothing is freed before the actors are cleared, and nothing is left then to enter.
FreedOK ==
  /\ freed \subseteq Ids
  /\ stage # "cleared" => freed = {}
  /\ stage = "cleared" => DOMAIN kind = {}

\* Until then both ends of a channel are there.
EndsThere ==
  \A i \in DOMAIN wired : wired[i].dst \in Ids /\ (stage # "cleared" => HasEnds(wired[i]))

ActorsBuilt ==
  \A i \in DOMAIN ActorEntries : ActorEntries[i].kind \in Kinds =>
    stage = "cleared" \/ (stage = "actors" /\ entry <= i) \/ ActorEntries[i].id \in DOMAIN kind

ChannelsBuilt ==
  \A i \in DOMAIN ChannelEntries :
    (HasEnds(ChannelEntries[i]) /\ (stage = "run" \/ (stage = "channels" /\ i < entry))) =>
      \E j \in DOMAIN wired : wired[j].id = ChannelEntries[i].id

\* A message read when all was wired has passed the channels its emission is past.
CarriedOf(m) == {x \in carried : x[1] = m}
PassedSoFar ==
  \A m \in Messages : born[m].all =>
    /\ stage \in {"run", "cleared"}
    /\ stage = "run" =>
         /\ \A t \in Threads : (Emitting(t) /\ emission[t].msg = m) =>
              CarriedOf(m) = {<<m, wired[i]>> : i \in From(born[m].src) \ emission[t].left}
         /\ outcome[m] = "done" => CarriedOf(m) = {<<m, wired[i]>> : i \in From(born[m].src)}

\* Only a terminal changes a message.
ToTerminal(m) ==
  \E i \in DOMAIN wired : /\ wired[i].src = born[m].src
                          /\ wired[i].dst \in DOMAIN kind /\ kind[wired[i].dst] = "uart"
ChangedByTerminal ==
  stage # "cleared" =>
    /\ \A m \in Messages : content[m] # "raw" => ToTerminal(m)
    /\ \A a \in Ids : /\ out[a] # <<>> /\ out[a][2] # "raw" => ToTerminal(out[a][1])
                      /\ \A x \in given[a] : x[2] # "raw" => ToTerminal(x[1])

RoutingTyped ==
  /\ EntryOK /\ KindOK /\ WiredOK /\ OwnerOK /\ EmissionOK /\ MessagesOK
  /\ QueueOK /\ OutOK /\ GivenOK /\ CarriedOK
RoutingInv ==
  /\ RoutingTyped /\ EmittedOK /\ SoleEmitter /\ SlotLocked /\ FreedOK /\ HandlerAlive
  /\ EndsThere /\ ActorsBuilt /\ ChannelsBuilt /\ PassedSoFar /\ ChangedByTerminal

\* A set of positions that is not empty has a first one.
LEMMA FirstIsIn ==
  ASSUME NEW left \in SUBSET Nat, left # {}
  PROVE  FirstOf(left) \in left
<1> DEFINE Less == {p \in Nat \X Nat : p[1] < p[2]}
<1>1. IsWellFoundedOn(Less, Nat)
  BY NatLessThanWellFounded DEF Less, OpToRel
<1>2. PICK x \in left : \A y \in left : ~(<<y, x>> \in Less)
  BY <1>1, WFMin
<1>3. ASSUME NEW y \in left
      PROVE  x <= y
  <2>1. <<y, x>> \notin Less
    BY <1>2
  <2>2. x \in Nat /\ y \in Nat
    OBVIOUS
  <2> QED
    BY <2>1, <2>2 DEF Less
<1> QED
  BY <1>3 DEF FirstOf

\* The channel a thread is about to enter, or is in, is a channel of the configuration.
LEMMA SlotIsWired ==
  ASSUME RoutingTyped, EmittedOK, NEW t \in Threads, Emitting(t), emission[t].left # {}
  PROVE  /\ FirstOf(emission[t].left) \in emission[t].left
         /\ FirstOf(emission[t].left) \in From(born[emission[t].msg].src)
         /\ Slot(t) \in Range(ChannelEntries) /\ Slot(t).id \in ChannelIds
         /\ Slot(t).src = born[emission[t].msg].src
<1>1. emission[t].left \in SUBSET Nat
  BY DEF RoutingTyped, EmissionOK
<1>2. FirstOf(emission[t].left) \in emission[t].left
  BY <1>1, FirstIsIn
<1>3. FirstOf(emission[t].left) \in From(born[emission[t].msg].src)
  BY <1>2 DEF EmittedOK
<1>4. Slot(t) \in Range(ChannelEntries) /\ Slot(t).src = born[emission[t].msg].src
  BY <1>3 DEF From, Slot, RoutingTyped, WiredOK
<1>5. ASSUME NEW c \in Range(ChannelEntries)
      PROVE  c.id \in ChannelIds
  BY DEF Range, ChannelIds
<1> QED
  BY <1>2, <1>3, <1>4, <1>5

\* Messages are only added, and what is known of one stays.
LEMMA MessagesStay ==
  ASSUME RoutingTyped, [RoutingNext]_routingVars, NEW m \in Messages
  PROVE  m \in Messages' /\ born'[m] = born[m]
<1>1. CASE UNCHANGED <<content, born>>
  BY <1>1 DEF Messages
<1>2. ASSUME NEW t \in Threads, NEW a \in Ids, ReadMessage(t, a)
      PROVE  m \in Messages' /\ born'[m] = born[m]
  BY <1>2 DEF ReadMessage, Messages, RoutingTyped, MessagesOK
<1>3. ASSUME NEW t \in Threads, SlotReturns(t)
      PROVE  m \in Messages' /\ born'[m] = born[m]
  <2>1. born' = born
    BY <1>3 DEF SlotReturns
  <2>2. DOMAIN content' = DOMAIN content
    BY <1>3 DEF SlotReturns, SendMessage, DoWrite, DoLog, outside
  <2> QED
    BY <2>1, <2>2 DEF Messages
<1>4. CASE RunActor \/ SetChannel \/ ClearActors
  BY <1>1, <1>4 DEF RunActor, SetChannel, ClearActors
<1>5. ASSUME NEW t \in Threads, EmissionEnds(t) \/ SlotSkipped(t) \/ EnterChannel(t) \/ SlotThrows(t)
      PROVE  m \in Messages' /\ born'[m] = born[m]
  BY <1>1, <1>5 DEF EmissionEnds, SlotSkipped, EnterChannel, SlotThrows
<1>6. ASSUME NEW a \in Ids, WriteDone(a)
      PROVE  m \in Messages' /\ born'[m] = born[m]
  BY <1>1, <1>6 DEF WriteDone
<1> QED
  BY <1>1, <1>2, <1>3, <1>4, <1>5, <1>6 DEF RoutingNext, routingVars

\* Channels are only added, and actors until they are cleared.
LEMMA WiringStays ==
  ASSUME RoutingTyped, [RoutingNext]_routingVars
  PROVE  /\ \A i \in DOMAIN wired : i \in DOMAIN wired' /\ wired'[i] = wired[i]
         /\ stage' # "cleared" =>
              /\ stage # "cleared"
              /\ \A a \in DOMAIN kind : a \in DOMAIN kind' /\ kind'[a] = kind[a]
<1>1. CASE UNCHANGED wiring
  BY <1>1 DEF wiring
<1>2. CASE RunActor
  <2>1. PICK made : kind' = IF made = "none" \/ ActorEntries[entry].id \in DOMAIN kind THEN kind
                             ELSE Extend(kind, ActorEntries[entry].id, made)
    BY <1>2 DEF RunActor
  <2>2. \A a \in DOMAIN kind : a \in DOMAIN kind' /\ kind'[a] = kind[a]
    BY <2>1 DEF Extend
  <2> QED
    BY <1>2, <2>2 DEF RunActor
<1>3. CASE SetChannel
  <2>1. wired' = wired \/ wired' = Append(wired, ChannelEntries[entry])
    BY <1>3 DEF SetChannel
  <2>2. \A i \in DOMAIN wired : i \in DOMAIN wired' /\ wired'[i] = wired[i]
    BY <2>1 DEF RoutingTyped, WiredOK
  <2> QED
    BY <1>3, <2>2 DEF SetChannel
<1>4. CASE ClearActors
  BY <1>4 DEF ClearActors
<1>5. ASSUME NEW t \in Threads, ThreadStep(t) \/ \E a \in Ids : ReadMessage(t, a)
      PROVE  UNCHANGED wiring
  BY <1>5 DEF ThreadStep, ReadMessage, EmissionEnds, SlotSkipped, EnterChannel, SlotReturns, SlotThrows
<1>6. ASSUME NEW a \in Ids, WriteDone(a)
      PROVE  UNCHANGED wiring
  BY <1>6 DEF WriteDone
<1> QED
  BY <1>1, <1>2, <1>3, <1>4, <1>5, <1>6 DEF RoutingNext, ThreadStep, routingVars

\* What leaves the emissions alone, and what leaves the messages alone.
LEMMA EntryStep ==
  ASSUME RoutingTyped, [RoutingNext]_routingVars
  PROVE  EntryOK'
<1> USE DEF EntryOK
<1>0. EntryOK /\ WiredOK
  BY DEF RoutingTyped
<1>1. CASE UNCHANGED <<stage, entry>>
  BY <1>0, <1>1
<1>2. Len(ActorEntries) \in Nat /\ Len(ChannelEntries) \in Nat /\ (ChannelEntries # <<>> => Len(ChannelEntries) >= 1)
  BY RoutingAssumption
<1>3. CASE RunActor
  BY <1>0, <1>2, <1>3 DEF RunActor, NextActor, AfterActors
<1>4. CASE SetChannel
  BY <1>0, <1>2, <1>4 DEF SetChannel
<1>5. CASE ClearActors
  BY <1>0, <1>5 DEF ClearActors
<1>6. ASSUME NEW t \in Threads, ThreadStep(t) \/ \E a \in Ids : ReadMessage(t, a)
      PROVE  UNCHANGED wiring
  BY <1>6 DEF ThreadStep, ReadMessage, EmissionEnds, SlotSkipped, EnterChannel, SlotReturns, SlotThrows
<1>7. ASSUME NEW a \in Ids, WriteDone(a)
      PROVE  UNCHANGED wiring
  BY <1>7 DEF WriteDone
<1> QED
  BY <1>1, <1>3, <1>4, <1>5, <1>6, <1>7 DEF RoutingNext, ThreadStep, routingVars, wiring

LEMMA KindStep ==
  ASSUME RoutingTyped, [RoutingNext]_routingVars
  PROVE  KindOK'
<1>0. EntryOK /\ KindOK
  BY DEF RoutingTyped
<1>1. CASE UNCHANGED kind
  BY <1>0, <1>1 DEF KindOK
<1>2. CASE RunActor
  <2> DEFINE e == ActorEntries[entry]
  <2>1. PICK made \in Makes(e) : kind' = IF made = "none" \/ e.id \in DOMAIN kind THEN kind
                                         ELSE Extend(kind, e.id, made)
    BY <1>2 DEF RunActor
  <2>2. entry \in DOMAIN ActorEntries
    BY <1>0, <1>2, RoutingAssumption DEF EntryOK, RunActor
  <2>3. e.id \in Ids
    BY <2>2 DEF Ids
  <2>4. made \in Kinds \cup {"none"}
    BY <2>1, <2>2, RoutingAssumption DEF Makes, Kinds
  <2> QED
    BY <1>0, <2>1, <2>3, <2>4 DEF KindOK, Extend
<1>3. CASE ClearActors
  BY <1>3 DEF ClearActors, KindOK
<1>4. CASE SetChannel \/ (\E a \in Ids : WriteDone(a))
  BY <1>1, <1>4 DEF SetChannel, WriteDone, wiring
<1>5. ASSUME NEW t \in Threads, ThreadStep(t) \/ \E a \in Ids : ReadMessage(t, a)
      PROVE  UNCHANGED wiring
  BY <1>5 DEF ThreadStep, ReadMessage, EmissionEnds, SlotSkipped, EnterChannel, SlotReturns, SlotThrows
<1> QED
  BY <1>1, <1>2, <1>3, <1>4, <1>5 DEF RoutingNext, ThreadStep, routingVars, wiring

LEMMA WiredStep ==
  ASSUME RoutingTyped, [RoutingNext]_routingVars
  PROVE  WiredOK'
<1>0. EntryOK /\ WiredOK
  BY DEF RoutingTyped
<1>1. CASE UNCHANGED wiring
  BY <1>0, <1>1 DEF WiredOK, wiring
<1>2. Len(ActorEntries) \in Nat /\ Len(ChannelEntries) \in Nat /\ Len(wired) \in Nat
  BY <1>0, RoutingAssumption DEF WiredOK
<1>3. CASE RunActor
  <2>1. wired' = <<>> /\ stage' \in {"actors", "channels", "run"} /\ (stage' = "channels" => entry' = 1)
    BY <1>0, <1>3 DEF RunActor, WiredOK, NextActor, AfterActors
  <2> QED
    BY <1>2, <2>1 DEF WiredOK
<1>4. CASE SetChannel
  <2>1. wired' = wired \/ wired' = Append(wired, ChannelEntries[entry])
    BY <1>4 DEF SetChannel
  <2>2. entry \in DOMAIN ChannelEntries /\ Len(wired) < entry /\ entry \in Nat
    BY <1>0, <1>2, <1>4, RoutingAssumption DEF EntryOK, WiredOK, SetChannel
  <2>3. ChannelEntries[entry] \in Range(ChannelEntries)
    BY <2>2 DEF Range
  <2>4. wired' \in Seq(Range(ChannelEntries)) /\ Len(wired') <= Len(wired) + 1
    BY <1>0, <1>2, <2>1, <2>3 DEF WiredOK
  <2>5. Len(wired') \in Nat /\ Len(wired) + 1 <= Len(ChannelEntries)
    BY <1>2, <2>2, <2>4, RoutingAssumption
  <2>6. (stage' = "channels" /\ entry' = entry + 1) \/ stage' = "run"
    BY <1>4 DEF SetChannel
  <2> QED
    BY <1>2, <2>2, <2>4, <2>5, <2>6 DEF WiredOK
<1>5. CASE ClearActors
  BY <1>0, <1>5 DEF ClearActors, WiredOK
<1>6. ASSUME NEW t \in Threads, ThreadStep(t) \/ \E a \in Ids : ReadMessage(t, a)
      PROVE  UNCHANGED wiring
  BY <1>6 DEF ThreadStep, ReadMessage, EmissionEnds, SlotSkipped, EnterChannel, SlotReturns, SlotThrows
<1>7. ASSUME NEW a \in Ids, WriteDone(a)
      PROVE  UNCHANGED wiring
  BY <1>7 DEF WriteDone
<1> QED
  BY <1>1, <1>3, <1>4, <1>5, <1>6, <1>7 DEF RoutingNext, ThreadStep, routingVars

\* The steps that are not a thread's leave the emissions and mutexes alone.
LEMMA OthersLeaveEmissions ==
  ASSUME [RoutingNext]_routingVars,
         ~\E t \in Threads : ThreadStep(t) \/ \E a \in Ids : ReadMessage(t, a)
  PROVE  UNCHANGED <<emission, owner, carried, born, outcome>>
<1>1. CASE RunActor \/ SetChannel \/ ClearActors
  BY <1>1 DEF RunActor, SetChannel, ClearActors
<1>2. CASE \E a \in Ids : WriteDone(a)
  BY <1>2 DEF WriteDone
<1> QED
  BY <1>1, <1>2 DEF RoutingNext, ThreadStep, routingVars

LEMMA OwnerStep ==
  ASSUME RoutingTyped, EmittedOK, SlotLocked, [RoutingNext]_routingVars
  PROVE  OwnerOK'
<1>0. OwnerOK
  BY DEF RoutingTyped
<1>1. CASE UNCHANGED owner
  BY <1>0, <1>1 DEF OwnerOK
<1>2. ASSUME NEW t \in Threads, ThreadStep(t)
      PROVE  OwnerOK'
  <2>1. CASE EmissionEnds(t) \/ SlotSkipped(t)
    BY <1>1, <2>1 DEF EmissionEnds, SlotSkipped
  <2>2. CASE EnterChannel(t)
    BY <1>0, <2>2 DEF EnterChannel, OwnerOK
  <2>3. CASE SlotReturns(t) \/ SlotThrows(t)
    BY <1>0, <2>3 DEF SlotReturns, SlotThrows, Unlocked, OwnerOK
  <2> QED
    BY <1>2, <2>1, <2>2, <2>3 DEF ThreadStep
<1>3. ASSUME NEW t \in Threads, NEW a \in Ids, ReadMessage(t, a)
      PROVE  UNCHANGED owner
  BY <1>3 DEF ReadMessage
<1> QED
  BY <1>1, <1>2, <1>3, OthersLeaveEmissions

LEMMA EmissionStep ==
  ASSUME RoutingTyped, EmittedOK, SlotLocked, [RoutingNext]_routingVars
  PROVE  EmissionOK'
<1> DEFINE E == [at : {"idle", "slots", "handler", "left"}, msg : Nat, left : SUBSET Nat]
<1>0. EmissionOK /\ WiredOK /\ MessagesOK
  BY DEF RoutingTyped
<1>1. CASE UNCHANGED emission
  BY <1>0, <1>1 DEF EmissionOK
<1>2. ASSUME NEW t \in Threads, ThreadStep(t)
      PROVE  \E e \in E : emission' = [emission EXCEPT ![t] = e]
  <2>0. emission \in [Threads -> E]
    BY <1>0 DEF EmissionOK
  <2>1. emission[t] \in E
    BY <2>0
  <2>2. CASE EmissionEnds(t) \/ SlotThrows(t)
    BY <2>2 DEF EmissionEnds, SlotThrows, Idle
  <2>3. CASE SlotSkipped(t)
    <3>1. emission' = [emission EXCEPT ![t] = [emission[t] EXCEPT !.left = Others(emission[t].left)]]
      BY <2>0, <2>3 DEF SlotSkipped
    <3>2. [emission[t] EXCEPT !.left = Others(emission[t].left)] \in E
      BY <2>1 DEF Others
    <3> QED
      BY <3>1, <3>2
  <2>4. CASE EnterChannel(t)
    <3>1. \/ emission' = [emission EXCEPT ![t] = [emission[t] EXCEPT !.left = Others(emission[t].left)]]
          \/ emission' = [emission EXCEPT ![t] = [emission[t] EXCEPT !.at = "handler"]]
      BY <2>0, <2>4 DEF EnterChannel
    <3>2. /\ [emission[t] EXCEPT !.left = Others(emission[t].left)] \in E
          /\ [emission[t] EXCEPT !.at = "handler"] \in E
      BY <2>1 DEF Others
    <3> QED
      BY <3>1, <3>2
  <2>5. CASE SlotReturns(t)
    <3>1. emission' = [emission EXCEPT ![t] =
                         [at |-> "slots", msg |-> emission[t].msg, left |-> Others(emission[t].left)]]
      BY <2>5 DEF SlotReturns
    <3>2. [at |-> "slots", msg |-> emission[t].msg, left |-> Others(emission[t].left)] \in E
      BY <2>1 DEF Others
    <3> QED
      BY <3>1, <3>2
  <2> QED
    BY <1>2, <2>2, <2>3, <2>4, <2>5 DEF ThreadStep
<1>3. ASSUME NEW t \in Threads, NEW a \in Ids, ReadMessage(t, a)
      PROVE  \E e \in E : emission' = [emission EXCEPT ![t] = e]
  <2>1. emission' = [emission EXCEPT ![t] = [at |-> "slots", msg |-> Len(content) + 1, left |-> From(a)]]
    BY <1>3 DEF ReadMessage
  <2>2. From(a) \in SUBSET Nat /\ Len(content) + 1 \in Nat
    BY <1>0 DEF From, WiredOK, MessagesOK
  <2> QED
    BY <2>1, <2>2
<1>4. ASSUME NEW t \in Threads, NEW e \in E, emission' = [emission EXCEPT ![t] = e]
      PROVE  EmissionOK'
  BY <1>0, <1>4 DEF EmissionOK
<1> QED
  BY <1>1, <1>2, <1>3, <1>4, OthersLeaveEmissions

LEMMA MessagesStep ==
  ASSUME RoutingTyped, EmittedOK, [RoutingNext]_routingVars
  PROVE  MessagesOK'
<1>0. MessagesOK /\ EmissionOK /\ KindOK
  BY DEF RoutingTyped
<1>1. CASE UNCHANGED <<content, born, outcome>>
  BY <1>0, <1>1 DEF MessagesOK
<1>2. ASSUME NEW t \in Threads, NEW a \in Ids, ReadMessage(t, a)
      PROVE  MessagesOK'
  <2>1. /\ content' = Append(content, "raw") /\ outcome' = Append(outcome, "no")
        /\ born' = Append(born, [src |-> a, all |-> stage = "run"])
    BY <1>2 DEF ReadMessage
  <2>2. (stage = "run") \in BOOLEAN
    OBVIOUS
  <2>3. PICK b \in BOOLEAN : b = (stage = "run")
    BY <2>2
  <2>4. born' = Append(born, [src |-> a, all |-> b])
    BY <2>1, <2>3
  <2>5. [src |-> a, all |-> b] \in [src : Ids, all : BOOLEAN]
    OBVIOUS
  <2> QED
    BY ONLY <1>0, <2>1, <2>4, <2>5 DEF MessagesOK
<1>3. ASSUME NEW t \in Threads, EmissionEnds(t) \/ SlotThrows(t)
      PROVE  MessagesOK'
  <2>1. PICK o \in {"done", "thrown"} : outcome' = [outcome EXCEPT ![emission[t].msg] = o]
    BY <1>3 DEF EmissionEnds, SlotThrows
  <2>2. UNCHANGED <<content, born>>
    BY <1>3 DEF EmissionEnds, SlotThrows
  <2>3. outcome \in Seq({"no", "done", "thrown"}) /\ o \in {"no", "done", "thrown"}
    BY <1>0 DEF MessagesOK
  <2>4. outcome' \in Seq({"no", "done", "thrown"}) /\ Len(outcome') = Len(outcome)
    <3>1. PICK n \in Nat : n = Len(outcome)
      BY <2>3
    <3>2. outcome \in [1 .. n -> {"no", "done", "thrown"}]
      BY <2>3, <3>1
    <3>3. outcome' \in [1 .. n -> {"no", "done", "thrown"}]
      BY <2>1, <2>3, <3>2
    <3> QED
      BY <3>1, <3>3
  <2> QED
    BY <1>0, <2>2, <2>4 DEF MessagesOK
<1>4. ASSUME NEW t \in Threads, SlotReturns(t)
      PROVE  MessagesOK'
  <2>1. UNCHANGED <<born, outcome>>
    BY <1>4 DEF SlotReturns
  <2>2. UNCHANGED content \/ content' = [content EXCEPT ![emission[t].msg] = "lf"]
    BY <1>4 DEF SlotReturns, SendMessage, DoWrite, DoLog
  <2>3. content' \in Seq({"raw", "lf"}) /\ Len(content') = Len(content)
    BY <1>0, <2>2 DEF MessagesOK
  <2> QED
    BY <1>0, <2>1, <2>3 DEF MessagesOK
<1>5. ASSUME NEW t \in Threads, SlotSkipped(t) \/ EnterChannel(t)
      PROVE  UNCHANGED <<content, born, outcome>>
  BY <1>5 DEF SlotSkipped, EnterChannel
<1>6. CASE RunActor \/ SetChannel \/ ClearActors
  BY <1>1, <1>6 DEF RunActor, SetChannel, ClearActors
<1>7. ASSUME NEW a \in Ids, WriteDone(a)
      PROVE  UNCHANGED <<content, born, outcome>>
  BY <1>7 DEF WriteDone
<1> QED
  BY <1>1, <1>2, <1>3, <1>4, <1>5, <1>6, <1>7 DEF RoutingNext, ThreadStep, routingVars

\* What goes to the outside of an actor changes in a slot and when a write ends.
LEMMA OutsideChanges ==
  ASSUME RoutingTyped, [RoutingNext]_routingVars
  PROVE  \/ UNCHANGED outside
         \/ \E t \in Threads : SlotReturns(t) /\ Slot(t).dst \in DOMAIN kind
         \/ \E a \in Ids : WriteDone(a)
<1>1. ASSUME NEW t \in Threads, ThreadStep(t) \/ \E a \in Ids : ReadMessage(t, a), ~SlotReturns(t)
      PROVE  UNCHANGED outside
  BY <1>1 DEF ThreadStep, ReadMessage, EmissionEnds, SlotSkipped, EnterChannel, SlotThrows
<1>2. CASE RunActor \/ SetChannel \/ ClearActors
  BY <1>2 DEF RunActor, SetChannel, ClearActors
<1>3. ASSUME NEW t \in Threads, SlotReturns(t), Slot(t).dst \notin DOMAIN kind
      PROVE  UNCHANGED outside
  BY <1>3 DEF SlotReturns
<1> QED
  BY <1>1, <1>2, <1>3 DEF RoutingNext, ThreadStep, routingVars

\* A slot works on the message of its emission, for the actor at the end of its channel.
LEMMA SlotWorks ==
  ASSUME RoutingTyped, NEW t \in Threads, SlotReturns(t), Slot(t).dst \in DOMAIN kind
  PROVE  \E a \in Ids : /\ a = Slot(t).dst
                        /\ \/ SendMessage(a, emission[t].msg)
                           \/ DoWrite(a, emission[t].msg) /\ kind[a] = "uart"
                           \/ DoLog(a, emission[t].msg)
<1>1. Slot(t).dst \in Ids /\ kind[Slot(t).dst] \in Kinds
  BY DEF RoutingTyped, KindOK
<1> QED
  BY <1>1 DEF SlotReturns, Kinds

LEMMA OutsideStep ==
  ASSUME RoutingTyped, EmittedOK, [RoutingNext]_routingVars
  PROVE  QueueOK' /\ OutOK' /\ GivenOK'
<1>0. QueueOK /\ OutOK /\ GivenOK /\ EmissionOK
  BY DEF RoutingTyped
<1>1. \A m : m \in Messages => m \in Messages'
  BY MessagesStay
<1>2. CASE UNCHANGED outside
  <2>1. QueueOK'
    BY <1>0, <1>1, <1>2 DEF QueueOK, outside
  <2>2. OutOK'
    BY <1>0, <1>1, <1>2 DEF OutOK, outside
  <2>3. GivenOK'
    BY <1>0, <1>1, <1>2 DEF GivenOK, outside
  <2> QED
    BY <2>1, <2>2, <2>3
<1>3. ASSUME NEW t \in Threads, SlotReturns(t), Slot(t).dst \in DOMAIN kind
      PROVE  QueueOK' /\ OutOK' /\ GivenOK'
  <2> DEFINE m == emission[t].msg
  <2>1. m \in Messages /\ m \in Nat
    BY <1>0, <1>3 DEF EmittedOK, Emitting, SlotReturns, EmissionOK
  <2>2. PICK a \in Ids : SendMessage(a, m) \/ DoWrite(a, m) \/ DoLog(a, m)
    BY <1>3, SlotWorks
  <2> HIDE DEF m
  <2>3. QueueOK'
    <3>1. queue' = queue \/ queue' = [queue EXCEPT ![a] = Append(queue[a], m)]
      BY <2>2 DEF SendMessage, DoWrite, DoLog
    <3>2. CASE queue' = queue
      BY <1>0, <1>1, <3>2 DEF QueueOK
    <3>3. CASE queue' = [queue EXCEPT ![a] = Append(queue[a], m)]
      <4>1. queue[a] \in Seq(Nat) /\ \A i \in DOMAIN queue[a] : queue[a][i] \in Messages
        BY <1>0 DEF QueueOK
      <4>2. /\ Append(queue[a], m) \in Seq(Nat)
            /\ \A i \in DOMAIN Append(queue[a], m) : Append(queue[a], m)[i] \in Messages
        BY <2>1, <4>1
      <4>3. \A b \in Ids : queue'[b] = IF b = a THEN Append(queue[a], m) ELSE queue[b]
        BY <1>0, <3>3 DEF QueueOK
      <4>4. queue' \in [Ids -> Seq(Nat)]
        BY <1>0, <3>3, <4>2 DEF QueueOK
      <4> QED
        BY <1>0, <1>1, <4>2, <4>3, <4>4 DEF QueueOK
    <3> QED
      BY <3>1, <3>2, <3>3
  <2>4. OutOK'
    <3>1. out' = out \/ out' = [out EXCEPT ![a] = <<m, content[m]>>]
      BY <2>2 DEF SendMessage, DoWrite, DoLog
    <3> QED
      BY <1>0, <1>1, <2>1, <3>1 DEF OutOK
  <2>5. GivenOK'
    <3>1. given' = given \/ \E v : given' = [given EXCEPT ![a] = given[a] \cup {<<m, v>>}]
      BY <2>2 DEF SendMessage, DoWrite, DoLog
    <3>2. CASE given' = given
      BY <1>0, <1>1, <3>2 DEF GivenOK
    <3>3. ASSUME NEW v, given' = [given EXCEPT ![a] = given[a] \cup {<<m, v>>}]
          PROVE  GivenOK'
      BY <1>0, <1>1, <2>1, <3>3 DEF GivenOK
    <3> QED
      BY <3>1, <3>2, <3>3
  <2> QED
    BY <2>3, <2>4, <2>5
<1>4. ASSUME NEW a \in Ids, WriteDone(a)
      PROVE  QueueOK' /\ OutOK' /\ GivenOK'
  <2>1. out[a] = <<out[a][1], out[a][2]>> /\ out[a][1] \in Messages
    BY <1>0, <1>4 DEF OutOK, WriteDone
  <2>2. QueueOK'
    <3>1. queue' = queue \/ (queue[a] # <<>> /\ queue' = [queue EXCEPT ![a] = Tail(queue[a])])
      BY <1>4 DEF WriteDone
    <3>2. CASE queue' = queue
      BY <1>0, <1>1, <3>2 DEF QueueOK
    <3>3. CASE queue[a] # <<>> /\ queue' = [queue EXCEPT ![a] = Tail(queue[a])]
      <4>1. queue[a] \in Seq(Nat) /\ \A i \in DOMAIN queue[a] : queue[a][i] \in Messages
        BY <1>0 DEF QueueOK
      <4>2. Tail(queue[a]) \in Seq(Nat) /\ \A i \in DOMAIN Tail(queue[a]) : Tail(queue[a])[i] \in Messages
        BY <3>3, <4>1
      <4>3. \A b \in Ids : queue'[b] = IF b = a THEN Tail(queue[a]) ELSE queue[b]
        BY <1>0, <3>3 DEF QueueOK
      <4>4. queue' \in [Ids -> Seq(Nat)]
        BY <1>0, <3>3, <4>2 DEF QueueOK
      <4> QED
        BY <1>0, <1>1, <4>2, <4>3, <4>4 DEF QueueOK
    <3> QED
      BY <3>1, <3>2, <3>3
  <2>3. OutOK'
    <3>1. \/ out' = [out EXCEPT ![a] = <<>>]
          \/ queue[a] # <<>> /\ \E v : out' = [out EXCEPT ![a] = <<Last(queue[a]), v>>]
      BY <1>4 DEF WriteDone
    <3>2. CASE out' = [out EXCEPT ![a] = <<>>]
      BY <1>0, <1>1, <3>2 DEF OutOK
    <3>3. ASSUME NEW v, queue[a] # <<>>, out' = [out EXCEPT ![a] = <<Last(queue[a]), v>>]
          PROVE  OutOK'
      <4>1. queue[a] \in Seq(Nat) /\ \A i \in DOMAIN queue[a] : queue[a][i] \in Messages
        BY <1>0 DEF QueueOK
      <4>2. Last(queue[a]) \in Messages
        BY <3>3, <4>1 DEF Last
      <4> QED
        BY <1>0, <1>1, <3>3, <4>2 DEF OutOK
    <3> QED
      BY <3>1, <3>2, <3>3
  <2>4. GivenOK'
    <3>1. given' = [given EXCEPT ![a] = given[a] \cup {out[a]}]
      BY <1>4 DEF WriteDone
    <3> QED
      BY <1>0, <1>1, <2>1, <3>1 DEF GivenOK
  <2> QED
    BY <2>2, <2>3, <2>4
<1> QED
  BY <1>2, <1>3, <1>4, OutsideChanges

LEMMA CarriedStep ==
  ASSUME RoutingTyped, EmittedOK, [RoutingNext]_routingVars
  PROVE  CarriedOK'
<1>0. CarriedOK
  BY DEF RoutingTyped
<1>1. \A m : m \in Messages => m \in Messages'
  BY MessagesStay
<1>2. CASE UNCHANGED carried
  BY <1>0, <1>1, <1>2 DEF CarriedOK
<1>3. ASSUME NEW t \in Threads, SlotReturns(t)
      PROVE  CarriedOK'
  <2>1. carried' = carried \cup {<<emission[t].msg, Slot(t)>>} /\ emission[t].msg \in Messages
    BY <1>3 DEF SlotReturns, EmittedOK, Emitting
  <2> QED
    BY <1>0, <1>1, <2>1 DEF CarriedOK
<1>4. ASSUME NEW t \in Threads, ThreadStep(t) \/ \E a \in Ids : ReadMessage(t, a), ~SlotReturns(t)
      PROVE  UNCHANGED carried
  BY <1>4 DEF ThreadStep, ReadMessage, EmissionEnds, SlotSkipped, EnterChannel, SlotThrows
<1> QED
  BY <1>2, <1>3, <1>4, OthersLeaveEmissions

LEMMA RoutingTypedStep ==
  ASSUME RoutingTyped, EmittedOK, SlotLocked, [RoutingNext]_routingVars
  PROVE  RoutingTyped'
BY EntryStep, KindStep, WiredStep, OwnerStep, EmissionStep, MessagesStep, OutsideStep, CarriedStep
   DEF RoutingTyped

\* A step of a thread changes its own emission, which only ends or goes on.
LEMMA OwnEmission ==
  ASSUME RoutingTyped, NEW t \in Threads, ThreadStep(t)
  PROVE  /\ Emitting(t) /\ UNCHANGED <<wiring, born>>
         /\ \A u \in Threads : u # t => emission'[u] = emission[u]
         /\ emission'[t].at \in {"slots", "handler"} =>
              /\ emission'[t].msg = emission[t].msg
              /\ emission'[t].left \subseteq emission[t].left
              /\ UNCHANGED outcome
<1>1. /\ emission[t] \in [at : {"idle", "slots", "handler", "left"}, msg : Nat, left : SUBSET Nat]
      /\ DOMAIN emission = Threads
  BY DEF RoutingTyped, EmissionOK
<1>2. CASE EmissionEnds(t) \/ SlotThrows(t)
  <2>1. PICK e : emission' = [emission EXCEPT ![t] = e] /\ e.at \in {"idle", "left"}
    <3>1. Idle.at = "idle" /\ [Idle EXCEPT !.at = "left"].at = "left"
      BY DEF Idle
    <3>2. \/ emission' = [emission EXCEPT ![t] = Idle]
          \/ emission' = [emission EXCEPT ![t] = [Idle EXCEPT !.at = "left"]]
      BY <1>2 DEF EmissionEnds, SlotThrows
    <3> QED
      BY <3>1, <3>2
  <2>2. emission[t].at \in {"slots", "handler"} /\ UNCHANGED <<wiring, born>>
    BY <1>2 DEF EmissionEnds, SlotThrows
  <2>3. emission'[t] = e
    BY <1>1, <2>1
  <2> QED
    BY <2>1, <2>2, <2>3 DEF Emitting
<1>3. CASE SlotSkipped(t)
  <2>1. /\ emission' = [emission EXCEPT ![t] = [emission[t] EXCEPT !.left = Others(emission[t].left)]]
        /\ emission[t].at = "slots" /\ UNCHANGED <<wiring, born, outcome>>
    BY <1>1, <1>3 DEF SlotSkipped
  <2>2. emission'[t].msg = emission[t].msg /\ emission'[t].left = Others(emission[t].left)
    BY <1>1, <2>1
  <2> QED
    BY <2>1, <2>2 DEF Others, Emitting
<1>4. CASE EnterChannel(t)
  <2>1. /\ \/ emission' = [emission EXCEPT ![t] = [emission[t] EXCEPT !.left = Others(emission[t].left)]]
           \/ emission' = [emission EXCEPT ![t] = [emission[t] EXCEPT !.at = "handler"]]
        /\ emission[t].at = "slots" /\ UNCHANGED <<wiring, born, outcome>>
    BY <1>1, <1>4 DEF EnterChannel
  <2>2. /\ emission'[t].msg = emission[t].msg
        /\ emission'[t].left \in {emission[t].left, Others(emission[t].left)}
    <3>1. CASE emission' = [emission EXCEPT ![t] = [emission[t] EXCEPT !.left = Others(emission[t].left)]]
      BY <1>1, <3>1
    <3>2. CASE emission' = [emission EXCEPT ![t] = [emission[t] EXCEPT !.at = "handler"]]
      BY <1>1, <3>2
    <3> QED
      BY <2>1, <3>1, <3>2
  <2>3. \A u \in Threads : u # t => emission'[u] = emission[u]
    BY <1>1, <2>1
  <2> QED
    BY <2>1, <2>2, <2>3 DEF Others, Emitting
<1>5. CASE SlotReturns(t)
  <2>1. /\ emission' = [emission EXCEPT ![t] =
                          [at |-> "slots", msg |-> emission[t].msg, left |-> Others(emission[t].left)]]
        /\ emission[t].at = "handler" /\ UNCHANGED <<wiring, born, outcome>>
    BY <1>5 DEF SlotReturns
  <2>2. emission'[t].msg = emission[t].msg /\ emission'[t].left = Others(emission[t].left)
    BY <1>1, <2>1
  <2> QED
    BY <2>1, <2>2 DEF Others, Emitting
<1> QED
  BY <1>2, <1>3, <1>4, <1>5 DEF ThreadStep

\* A thread that reads begins with a message that no other emits.
LEMMA NewEmission ==
  ASSUME RoutingTyped, NEW t \in Threads, NEW a \in Ids, ReadMessage(t, a)
  PROVE  /\ ~Emitting(t) /\ UNCHANGED wiring
         /\ \A u \in Threads : u # t => emission'[u] = emission[u]
         /\ emission'[t] = [at |-> "slots", msg |-> Len(content) + 1, left |-> From(a)]
         /\ Len(content) + 1 \in Messages' /\ Len(content) + 1 \notin Messages
         /\ born'[Len(content) + 1] = [src |-> a, all |-> stage = "run"]
         /\ outcome'[Len(content) + 1] = "no"
         /\ \A m \in Messages : outcome'[m] = outcome[m]
<1>1. t \in DOMAIN emission
  BY DEF RoutingTyped, EmissionOK
<1>2. /\ ~Emitting(t) /\ UNCHANGED wiring
      /\ emission' = [emission EXCEPT ![t] = [at |-> "slots", msg |-> Len(content) + 1, left |-> From(a)]]
      /\ content' = Append(content, "raw") /\ outcome' = Append(outcome, "no")
      /\ born' = Append(born, [src |-> a, all |-> stage = "run"])
  BY DEF ReadMessage, Idle, Emitting
<1>3. MessagesOK
  BY DEF RoutingTyped
<1>4. PICK n \in Nat : n = Len(content) /\ n = Len(born) /\ n = Len(outcome)
  BY <1>3 DEF MessagesOK
<1>5. Messages = 1 .. n /\ Messages' = 1 .. n + 1
  BY <1>2, <1>3, <1>4 DEF Messages, MessagesOK
<1>6. outcome'[n + 1] = "no" /\ \A m \in 1 .. n : outcome'[m] = outcome[m]
  BY <1>2, <1>3, <1>4 DEF MessagesOK
<1>7. born'[n + 1] = [src |-> a, all |-> stage = "run"]
  BY <1>2, <1>3, <1>4 DEF MessagesOK
<1>8. n + 1 \in 1 .. n + 1 /\ n + 1 \notin 1 .. n
  BY <1>4
<1>9. /\ \A u \in Threads : u # t => emission'[u] = emission[u]
      /\ emission'[t] = [at |-> "slots", msg |-> n + 1, left |-> From(a)]
  BY <1>1, <1>2, <1>4
<1>10. n + 1 \in Messages' /\ n + 1 \notin Messages /\ \A m \in Messages : outcome'[m] = outcome[m]
  BY <1>5, <1>6, <1>8
<1> QED
  BY ONLY <1>2, <1>4, <1>6, <1>7, <1>9, <1>10

\* The channels of a source only become more.
LEMMA FromGrows ==
  ASSUME RoutingTyped, [RoutingNext]_routingVars, NEW a
  PROVE  From(a) \subseteq {i \in DOMAIN wired' : wired'[i].src = a}
BY WiringStays DEF From

LEMMA EmittedStep ==
  ASSUME RoutingTyped, EmittedOK, SoleEmitter, [RoutingNext]_routingVars
  PROVE  EmittedOK'
<1> SUFFICES ASSUME NEW u \in Threads, emission'[u].at \in {"slots", "handler"}
             PROVE  \E m : /\ m = emission'[u].msg /\ m \in Messages' /\ outcome'[m] = "no"
                           /\ emission'[u].left \subseteq {i \in DOMAIN wired' : wired'[i].src = born'[m].src}
  BY DEF EmittedOK, Emitting, From
<1> DEFINE Kept == /\ emission'[u].msg = emission[u].msg /\ emission'[u].left \subseteq emission[u].left
                   /\ Emitting(u) /\ outcome'[emission[u].msg] = "no"
<1>1. ASSUME Kept
      PROVE  \E m : /\ m = emission'[u].msg /\ m \in Messages' /\ outcome'[m] = "no"
                    /\ emission'[u].left \subseteq {i \in DOMAIN wired' : wired'[i].src = born'[m].src}
  <2>1. PICK m \in Messages : m = emission[u].msg /\ emission[u].left \subseteq From(born[m].src)
    BY <1>1 DEF EmittedOK
  <2>2. m \in Messages' /\ born'[m] = born[m]
    BY <2>1, MessagesStay
  <2>3. PICK s : s = born[m].src
    OBVIOUS
  <2>4. From(s) \subseteq {i \in DOMAIN wired' : wired'[i].src = s}
    BY FromGrows
  <2> QED
    BY <1>1, <2>1, <2>2, <2>3, <2>4
<1> HIDE DEF Kept
<1>2. CASE UNCHANGED <<emission, outcome>>
  <2>1. Kept
    BY <1>2 DEF Kept, EmittedOK, Emitting
  <2> QED
    BY <1>1, <2>1
<1>3. ASSUME NEW t \in Threads, ThreadStep(t)
      PROVE  Kept
  <2>1. CASE u = t
    <3>1. Emitting(u) /\ UNCHANGED outcome /\ emission'[u].msg = emission[u].msg
          /\ emission'[u].left \subseteq emission[u].left
      BY <1>3, <2>1, OwnEmission
    <3> QED
      BY <3>1 DEF Kept, EmittedOK
  <2>2. CASE u # t
    <3>1. emission'[u] = emission[u] /\ Emitting(t)
      BY <1>3, <2>2, OwnEmission
    <3>2. Emitting(u)
      BY <3>1 DEF Emitting
    <3>3. emission[u].msg # emission[t].msg /\ outcome[emission[u].msg] = "no"
      BY <2>2, <3>1, <3>2 DEF SoleEmitter, EmittedOK
    <3>4. UNCHANGED outcome \/ \E o : outcome' = [outcome EXCEPT ![emission[t].msg] = o]
      BY <1>3 DEF ThreadStep, EmissionEnds, SlotSkipped, EnterChannel, SlotReturns, SlotThrows
    <3>5. outcome'[emission[u].msg] = "no"
      <4>1. emission[u].msg \in DOMAIN outcome
        BY <3>2 DEF EmittedOK, RoutingTyped, MessagesOK, Messages
      <4> QED
        BY <3>3, <3>4, <4>1
    <3> QED
      BY <3>1, <3>2, <3>5 DEF Kept
  <2> QED
    BY <2>1, <2>2
<1>4. ASSUME NEW t \in Threads, NEW a \in Ids, ReadMessage(t, a)
      PROVE  \E m : /\ m = emission'[u].msg /\ m \in Messages' /\ outcome'[m] = "no"
                    /\ emission'[u].left \subseteq {i \in DOMAIN wired' : wired'[i].src = born'[m].src}
  <2>1. CASE u = t
    <3>1. PICK n : n = Len(content) + 1 /\ n \in Messages' /\ outcome'[n] = "no"
                   /\ born'[n] = [src |-> a, all |-> stage = "run"]
                   /\ emission'[u] = [at |-> "slots", msg |-> n, left |-> From(a)]
      BY <1>4, <2>1, NewEmission
    <3>2. From(a) \subseteq {i \in DOMAIN wired' : wired'[i].src = a}
      BY FromGrows
    <3>3. born'[n].src = a /\ emission'[u].msg = n /\ emission'[u].left = From(a)
      BY <3>1
    <3> QED
      BY <3>1, <3>2, <3>3
  <2>2. CASE u # t
    <3>1. emission'[u] = emission[u]
      BY <1>4, <2>2, NewEmission
    <3>2. Emitting(u)
      BY <3>1 DEF Emitting
    <3>3. emission[u].msg \in Messages /\ outcome[emission[u].msg] = "no"
      BY <3>2 DEF EmittedOK
    <3>4. outcome'[emission[u].msg] = "no"
      BY <1>4, <3>3, NewEmission
    <3>5. Kept
      BY <3>1, <3>2, <3>4 DEF Kept
    <3> QED
      BY <1>1, <3>5
  <2> QED
    BY <2>1, <2>2
<1> QED
  BY <1>1, <1>2, <1>3, <1>4, OthersLeaveEmissions

LEMMA SoleStep ==
  ASSUME RoutingTyped, EmittedOK, SoleEmitter, [RoutingNext]_routingVars
  PROVE  SoleEmitter'
<1> SUFFICES ASSUME NEW u \in Threads, NEW v \in Threads,
                    emission'[u].at \in {"slots", "handler"}, emission'[v].at \in {"slots", "handler"},
                    emission'[u].msg = emission'[v].msg
             PROVE  u = v
  BY DEF SoleEmitter, Emitting
<1>1. CASE UNCHANGED emission
  BY <1>1 DEF SoleEmitter, Emitting
<1>2. ASSUME NEW t \in Threads, ThreadStep(t)
      PROVE  u = v
  <2>1. /\ Emitting(u) /\ emission'[u].msg = emission[u].msg
        /\ Emitting(v) /\ emission'[v].msg = emission[v].msg
    BY <1>2, OwnEmission DEF Emitting
  <2> QED
    BY <2>1 DEF SoleEmitter
<1>3. ASSUME NEW t \in Threads, NEW a \in Ids, ReadMessage(t, a), u # v
      PROVE  FALSE
  <2>1. PICK n : n \notin Messages /\ emission'[t].msg = n
    <3>1. emission'[t] = [at |-> "slots", msg |-> Len(content) + 1, left |-> From(a)] /\ Len(content) + 1 \notin Messages
      BY <1>3, NewEmission
    <3>2. emission'[t].msg = Len(content) + 1
      BY <3>1
    <3> QED
      BY <3>1, <3>2
  <2>2. ASSUME NEW w \in Threads, w # t, emission'[w].at \in {"slots", "handler"}
        PROVE  Emitting(w) /\ emission'[w].msg = emission[w].msg /\ emission[w].msg \in Messages
    <3>1. emission'[w] = emission[w]
      BY <1>3, <2>2, NewEmission
    <3> QED
      BY <2>2, <3>1 DEF EmittedOK, Emitting
  <2> QED
    BY <1>3, <2>1, <2>2 DEF SoleEmitter
<1> QED
  BY <1>1, <1>2, <1>3, OthersLeaveEmissions

\* Where a thread was in a slot and is still, it is in the same.
LEMMA SlotStays ==
  ASSUME RoutingTyped, EmittedOK, SlotLocked, [RoutingNext]_routingVars,
         NEW u \in Threads, emission[u].at = "handler", emission'[u] = emission[u]
  PROVE  Slot(u)' = Slot(u)
<1>1. PICK i : i = FirstOf(emission[u].left) /\ i \in DOMAIN wired
  BY SlotIsWired DEF SlotLocked, Emitting, From
<1>2. wired'[i] = wired[i]
  BY <1>1, WiringStays
<1>3. PICK j : j = FirstOf(emission'[u].left)
  OBVIOUS
<1>4. j = i
  BY <1>1, <1>3
<1> QED
  BY <1>1, <1>2, <1>3, <1>4 DEF Slot

\* A thread that is in a slot now has entered it through a channel with a destination.
LEMMA EntersSlot ==
  ASSUME RoutingTyped, NEW t \in Threads, ThreadStep(t), emission'[t].at = "handler"
  PROVE  EnterChannel(t) /\ Slot(t).dst \in DOMAIN kind
<1>1. EmissionOK
  BY DEF RoutingTyped
<1>2. Idle.at # "handler" /\ [Idle EXCEPT !.at = "left"].at # "handler"
  BY DEF Idle
<1>3. ~EmissionEnds(t) /\ ~SlotThrows(t)
  BY <1>1, <1>2 DEF EmissionEnds, SlotThrows, EmissionOK
<1>4. ~SlotSkipped(t)
  BY <1>1 DEF SlotSkipped, EmissionOK
<1>5. ASSUME SlotReturns(t)
      PROVE  FALSE
  <2>1. emission' = [emission EXCEPT ![t] =
                       [at |-> "slots", msg |-> emission[t].msg, left |-> Others(emission[t].left)]]
    BY <1>5 DEF SlotReturns
  <2> QED
    BY <1>1, <2>1 DEF EmissionOK
<1>6. ASSUME EnterChannel(t), Slot(t).dst \notin DOMAIN kind
      PROVE  FALSE
  BY <1>1, <1>6 DEF EnterChannel, EmissionOK
<1> QED
  BY <1>3, <1>4, <1>5, <1>6 DEF ThreadStep

LEMMA SlotLockedStep ==
  ASSUME RoutingTyped, EmittedOK, SlotLocked, [RoutingNext]_routingVars
  PROVE  SlotLocked'
<1> SUFFICES ASSUME NEW u \in Threads, emission'[u].at = "handler"
             PROVE  emission'[u].left # {} /\ owner'[Slot(u)'.id] = u
  BY DEF SlotLocked
<1>0. OwnerOK
  BY DEF RoutingTyped
<1>1. ASSUME emission'[u] = emission[u], owner'[Slot(u).id] = u
      PROVE  emission'[u].left # {} /\ owner'[Slot(u)'.id] = u
  BY <1>1, SlotStays DEF SlotLocked
<1>2. CASE UNCHANGED <<emission, owner>>
  BY <1>1, <1>2 DEF SlotLocked
<1>3. ASSUME NEW t \in Threads, ThreadStep(t), u # t
      PROVE  emission'[u].left # {} /\ owner'[Slot(u)'.id] = u
  <2>1. emission'[u] = emission[u] /\ Emitting(u) /\ Emitting(t)
    BY <1>3, OwnEmission DEF Emitting
  <2>2. owner[Slot(u).id] = u /\ Slot(u).id \in ChannelIds /\ u # "none"
    BY <2>1, SlotIsWired, RoutingAssumption DEF SlotLocked
  <2>3. CASE EmissionEnds(t) \/ SlotSkipped(t)
    BY <1>1, <2>1, <2>2, <2>3 DEF EmissionEnds, SlotSkipped
  <2>4. CASE EnterChannel(t)
    <3>1. UNCHANGED owner \/ (owner[Slot(t).id] = "none" /\ owner' = [owner EXCEPT ![Slot(t).id] = t])
      BY <2>4 DEF EnterChannel
    <3> QED
      BY <1>0, <1>1, <2>1, <2>2, <3>1 DEF OwnerOK
  <2>5. CASE SlotReturns(t) \/ SlotThrows(t)
    <3>1. owner[Slot(t).id] = t /\ owner' = [owner EXCEPT ![Slot(t).id] = "none"]
      BY <2>5 DEF SlotReturns, SlotThrows, SlotLocked, Unlocked
    <3> QED
      BY <1>0, <1>1, <1>3, <2>1, <2>2, <3>1 DEF OwnerOK
  <2> QED
    BY <1>3, <2>3, <2>4, <2>5 DEF ThreadStep
<1>4. CASE ThreadStep(u)
  <2>0. EmissionOK
    BY DEF RoutingTyped
  <2>1. EnterChannel(u) /\ Slot(u).dst \in DOMAIN kind
    BY <1>4, EntersSlot
  <2>2. /\ emission[u].left # {} /\ Emitting(u) /\ UNCHANGED wired
        /\ owner' = [owner EXCEPT ![Slot(u).id] = u]
        /\ emission' = [emission EXCEPT ![u] = [emission[u] EXCEPT !.at = "handler"]]
    BY <2>0, <2>1 DEF EnterChannel, Emitting, EmissionOK, wiring
  <2>3. emission'[u].left = emission[u].left
    BY <2>0, <2>2 DEF EmissionOK
  <2>4. Slot(u)' = Slot(u) /\ Slot(u).id \in ChannelIds
    BY <2>2, <2>3, SlotIsWired DEF Slot
  <2> QED
    BY <1>0, <2>2, <2>3, <2>4 DEF OwnerOK
<1>5. ASSUME NEW t \in Threads, NEW a \in Ids, ReadMessage(t, a)
      PROVE  emission'[u].left # {} /\ owner'[Slot(u)'.id] = u
  <2>1. u # t
    <3>1. emission'[t] = [at |-> "slots", msg |-> Len(content) + 1, left |-> From(a)]
      BY <1>5, NewEmission
    <3> QED
      BY <3>1
  <2>2. emission'[u] = emission[u]
    BY <1>5, <2>1, NewEmission
  <2>3. UNCHANGED owner
    BY <1>5 DEF ReadMessage
  <2> QED
    BY <1>1, <2>2, <2>3 DEF SlotLocked
<1> QED
  BY <1>2, <1>3, <1>4, <1>5, OthersLeaveEmissions

LEMMA EndsStep ==
  ASSUME RoutingTyped, EndsThere, [RoutingNext]_routingVars
  PROVE  EndsThere'
<1> SUFFICES ASSUME NEW i \in DOMAIN wired'
             PROVE  \E c : /\ c = wired'[i] /\ c.dst \in Ids
                           /\ stage' # "cleared" => c.src \in DOMAIN kind' /\ c.dst \in DOMAIN kind'
  BY DEF EndsThere, HasEnds
<1>1. ASSUME i \in DOMAIN wired
      PROVE  \E c : /\ c = wired'[i] /\ c.dst \in Ids
                    /\ stage' # "cleared" => c.src \in DOMAIN kind' /\ c.dst \in DOMAIN kind'
  BY <1>1, WiringStays DEF EndsThere, HasEnds
<1>2. CASE SetChannel
  <2>1. \/ UNCHANGED wired
        \/ HasEnds(ChannelEntries[entry]) /\ wired' = Append(wired, ChannelEntries[entry])
    BY <1>2 DEF SetChannel
  <2>2. CASE HasEnds(ChannelEntries[entry]) /\ wired' = Append(wired, ChannelEntries[entry])
    <3>1. i \in DOMAIN wired \/ wired'[i] = ChannelEntries[entry]
      BY <2>2 DEF RoutingTyped, WiredOK
    <3>2. UNCHANGED kind /\ DOMAIN kind \subseteq Ids
      BY <1>2 DEF SetChannel, RoutingTyped, KindOK
    <3> QED
      BY <1>1, <2>2, <3>1, <3>2 DEF HasEnds
  <2> QED
    BY <1>1, <2>1, <2>2
<1>3. ASSUME ~SetChannel
      PROVE  i \in DOMAIN wired
  <2>1. CASE RunActor \/ ClearActors \/ \E a \in Ids : WriteDone(a)
    BY <2>1 DEF RunActor, ClearActors, WriteDone, wiring
  <2>2. ASSUME NEW t \in Threads, ThreadStep(t) \/ \E a \in Ids : ReadMessage(t, a)
        PROVE  i \in DOMAIN wired
    BY <2>2, OwnEmission, NewEmission DEF wiring
  <2> QED
    BY <1>3, <2>1, <2>2 DEF RoutingNext, ThreadStep, routingVars, wiring
<1> QED
  BY <1>1, <1>2, <1>3

\* A slot's destination is an actor of the configuration, made as long as none is cleared.
LEMMA SlotDestination ==
  ASSUME RoutingTyped, EmittedOK, EndsThere, NEW t \in Threads, Emitting(t), emission[t].left # {}
  PROVE  Slot(t).dst \in Ids /\ (stage # "cleared" => Slot(t).dst \in DOMAIN kind)
BY SlotIsWired DEF EndsThere, HasEnds, Slot, From

LEMMA FreedStep ==
  ASSUME RoutingTyped, EmittedOK, SlotLocked, FreedOK, EndsThere, [RoutingNext]_routingVars
  PROVE  FreedOK'
<1>1. CASE RunActor \/ SetChannel
  <2>1. stage # "cleared" /\ stage' # "cleared" /\ UNCHANGED freed
    BY <1>1 DEF RunActor, SetChannel, NextActor, AfterActors
  <2> QED
    BY <2>1 DEF FreedOK
<1>2. CASE ClearActors
  BY <1>2 DEF ClearActors, FreedOK, RoutingTyped, KindOK
<1>3. CASE UNCHANGED <<stage, kind, freed>>
  BY <1>3 DEF FreedOK
<1>4. ASSUME NEW t \in Threads, ThreadStep(t)
      PROVE  FreedOK'
  <2>1. UNCHANGED <<stage, kind>>
    BY <1>4, OwnEmission DEF wiring
  <2>2. CASE SlotReturns(t)
    <3>1. Slot(t).dst \in Ids /\ (stage # "cleared" => Slot(t).dst \in DOMAIN kind)
      BY <2>2, SlotDestination DEF SlotReturns, SlotLocked, Emitting
    <3>2. freed' = Released(t, Slot(t).dst)
      BY <2>2 DEF SlotReturns
    <3> QED
      BY <2>1, <3>1, <3>2 DEF Released, FreedOK
  <2>3. CASE ~SlotReturns(t)
    BY <1>3, <1>4, <2>1, <2>3 DEF ThreadStep, EmissionEnds, SlotSkipped, EnterChannel, SlotThrows
  <2> QED
    BY <2>2, <2>3
<1>5. CASE (\E a \in Ids : WriteDone(a)) \/ \E t \in Threads : \E a \in Ids : ReadMessage(t, a)
  BY <1>3, <1>5 DEF WriteDone, ReadMessage, wiring
<1> QED
  BY <1>1, <1>2, <1>3, <1>4, <1>5 DEF RoutingNext, ThreadStep, routingVars, wiring

LEMMA AliveStep ==
  ASSUME RoutingTyped, EmittedOK, SlotLocked, FreedOK, EndsThere, HandlerAlive, [RoutingNext]_routingVars
  PROVE  HandlerAlive'
<1> SUFFICES ASSUME NEW u \in Threads, emission'[u].at = "handler"
             PROVE  Slot(u)'.dst \notin freed'
  BY DEF HandlerAlive
<1>1. ASSUME emission'[u] = emission[u]
      PROVE  emission[u].at = "handler" /\ Slot(u)' = Slot(u) /\ Slot(u).dst \notin freed
  BY <1>1, SlotStays DEF HandlerAlive
<1>2. CASE UNCHANGED <<emission, freed>>
  BY <1>1, <1>2
<1>3. CASE ClearActors
  <2>1. UNCHANGED emission /\ \A a \in freed' : Holders(a) = {}
    BY <1>3 DEF ClearActors
  <2>2. u \in Holders(Slot(u).dst)
    BY <1>1, <2>1 DEF Holders
  <2> QED
    BY <1>1, <2>1, <2>2
<1>4. ASSUME NEW t \in Threads, ThreadStep(t)
      PROVE  Slot(u)'.dst \notin freed'
  <2>1. CASE u = t
    <3>0. EmissionOK
      BY DEF RoutingTyped
    <3>1. EnterChannel(u) /\ Slot(u).dst \in DOMAIN kind
      BY <1>4, <2>1, EntersSlot
    <3>2. freed = {} /\ UNCHANGED freed
      BY <3>1 DEF FreedOK, EnterChannel
    <3> QED
      BY <3>2
  <2>2. CASE u # t
    <3>1. emission'[u] = emission[u]
      BY <1>4, <2>2, OwnEmission
    <3>2. CASE SlotReturns(t)
      <4>1. u \in Holders(Slot(u).dst)
        BY <1>1, <3>1 DEF Holders
      <4>2. freed' = Released(t, Slot(t).dst)
        BY <3>2 DEF SlotReturns
      <4>3. freed' \subseteq freed \cup {Slot(t).dst}
        BY <4>2 DEF Released
      <4>4. Slot(t).dst \in freed' => Slot(t).dst \in freed \/ Holders(Slot(t).dst) \subseteq {t}
        BY <4>2 DEF Released
      <4>5. PICK d : d = Slot(u).dst
        OBVIOUS
      <4>6. Slot(u)'.dst = d /\ d \notin freed
        BY <1>1, <3>1, <4>5
      <4>7. d \notin freed'
        BY <2>2, <4>1, <4>3, <4>4, <4>5, <4>6
      <4> QED
        BY <4>6, <4>7
    <3>3. CASE ~SlotReturns(t)
      <4>1. UNCHANGED freed
        BY <1>4, <3>3 DEF ThreadStep, EmissionEnds, SlotSkipped, EnterChannel, SlotThrows
      <4> QED
        BY <1>1, <3>1, <4>1
    <3> QED
      BY <3>2, <3>3
  <2> QED
    BY <2>1, <2>2
<1>5. ASSUME NEW t \in Threads, NEW a \in Ids, ReadMessage(t, a)
      PROVE  Slot(u)'.dst \notin freed'
  <2>1. u # t
    <3>1. emission'[t] = [at |-> "slots", msg |-> Len(content) + 1, left |-> From(a)]
      BY <1>5, NewEmission
    <3> QED
      BY <3>1
  <2>2. emission'[u] = emission[u] /\ UNCHANGED freed
    BY <1>5, <2>1, NewEmission DEF ReadMessage
  <2> QED
    BY <1>1, <2>2
<1>6. CASE RunActor \/ SetChannel \/ \E a \in Ids : WriteDone(a)
  BY <1>2, <1>6 DEF RunActor, SetChannel, WriteDone
<1> QED
  BY <1>2, <1>3, <1>4, <1>5, <1>6 DEF RoutingNext, ThreadStep, routingVars

LEMMA ActorsBuiltStep ==
  ASSUME RoutingTyped, ActorsBuilt, [RoutingNext]_routingVars
  PROVE  ActorsBuilt'
<1> SUFFICES ASSUME NEW i \in DOMAIN ActorEntries, ActorEntries[i].kind \in Kinds
             PROVE  stage' = "cleared" \/ (stage' = "actors" /\ entry' <= i) \/ ActorEntries[i].id \in DOMAIN kind'
  BY DEF ActorsBuilt
<1>1. CASE UNCHANGED <<stage, entry, kind>>
  BY <1>1 DEF ActorsBuilt
<1>2. CASE RunActor
  <2>1. /\ entry \in Nat /\ entry <= Len(ActorEntries) /\ i \in 1 .. Len(ActorEntries)
        /\ Len(ActorEntries) \in Nat
    BY <1>2, RoutingAssumption DEF RoutingTyped, EntryOK, RunActor
  <2>2. entry <= i \/ ActorEntries[i].id \in DOMAIN kind
    BY <1>2 DEF ActorsBuilt, RunActor
  <2>3. \A a \in DOMAIN kind : a \in DOMAIN kind'
    <3>1. stage' # "cleared"
      BY <1>2 DEF RunActor, NextActor, AfterActors
    <3> QED
      BY <3>1, WiringStays
  <2>4. i = entry => ActorEntries[i].id \in DOMAIN kind'
    <3>1. PICK made \in Makes(ActorEntries[entry]) :
            kind' = IF made = "none" \/ ActorEntries[entry].id \in DOMAIN kind THEN kind
                    ELSE Extend(kind, ActorEntries[entry].id, made)
      BY <1>2 DEF RunActor
    <3>2. i = entry => made # "none"
      BY <3>1 DEF Makes, Kinds
    <3> QED
      BY <3>1, <3>2 DEF Extend
  <2>5. (stage' = "actors" /\ entry' = entry + 1) \/ (stage' # "actors" /\ entry = Len(ActorEntries))
    BY <1>2, <2>1 DEF RunActor, NextActor, AfterActors
  <2> QED
    BY <2>1, <2>2, <2>3, <2>4, <2>5
<1>3. CASE SetChannel
  BY <1>3 DEF SetChannel, ActorsBuilt
<1>4. CASE ClearActors
  BY <1>4 DEF ClearActors
<1>5. ASSUME NEW t \in Threads, ThreadStep(t) \/ \E a \in Ids : ReadMessage(t, a)
      PROVE  UNCHANGED <<stage, entry, kind>>
  BY <1>5, OwnEmission, NewEmission DEF wiring
<1>6. ASSUME NEW a \in Ids, WriteDone(a)
      PROVE  UNCHANGED <<stage, entry, kind>>
  BY <1>6 DEF WriteDone, wiring
<1> QED
  BY <1>1, <1>2, <1>3, <1>4, <1>5, <1>6 DEF RoutingNext, ThreadStep, routingVars, wiring

LEMMA ChannelsBuiltStep ==
  ASSUME RoutingTyped, ChannelsBuilt, [RoutingNext]_routingVars
  PROVE  ChannelsBuilt'
<1> SUFFICES ASSUME NEW i \in DOMAIN ChannelEntries,
                    ChannelEntries[i].src \in DOMAIN kind' /\ ChannelEntries[i].dst \in DOMAIN kind',
                    stage' = "run" \/ (stage' = "channels" /\ i < entry')
             PROVE  \E j \in DOMAIN wired' : wired'[j].id = ChannelEntries[i].id
  BY DEF ChannelsBuilt, HasEnds
<1>0. /\ entry \in Nat /\ i \in 1 .. Len(ChannelEntries) /\ Len(ChannelEntries) \in Nat
      /\ stage = "channels" => entry <= Len(ChannelEntries)
  BY RoutingAssumption DEF RoutingTyped, EntryOK
<1>1. CASE UNCHANGED wiring
  BY <1>1 DEF ChannelsBuilt, HasEnds, wiring
<1>2. CASE RunActor
  <2>1. stage' = "run" \/ entry' = 1
    BY <1>2 DEF RunActor, NextActor, AfterActors
  <2>2. stage' = "run" => ChannelEntries = <<>>
    BY <1>2 DEF RunActor, NextActor, AfterActors
  <2> QED
    BY <1>0, <2>1, <2>2
<1>3. CASE SetChannel
  <2>1. UNCHANGED kind
    BY <1>3 DEF SetChannel
  <2>2. HasEnds(ChannelEntries[i])
    BY <2>1 DEF HasEnds
  <2>3. ASSUME i < entry
        PROVE  \E j \in DOMAIN wired' : wired'[j].id = ChannelEntries[i].id
    <3>1. PICK j \in DOMAIN wired : wired[j].id = ChannelEntries[i].id
      BY <1>3, <2>2, <2>3 DEF SetChannel, ChannelsBuilt
    <3> QED
      BY <3>1, WiringStays
  <2>4. ASSUME i = entry
        PROVE  \E j \in DOMAIN wired' : wired'[j].id = ChannelEntries[i].id
    <3>1. CASE \E j \in DOMAIN wired : wired[j].id = ChannelEntries[i].id
      BY <3>1, WiringStays
    <3>2. CASE \A j \in DOMAIN wired : wired[j].id # ChannelEntries[i].id
      <4>1. wired' = Append(wired, ChannelEntries[i])
        BY <1>3, <2>2, <2>4, <3>2 DEF SetChannel
      <4>2. PICK n : n = Len(wired) + 1
        OBVIOUS
      <4>3. n \in DOMAIN wired' /\ wired'[n] = ChannelEntries[i]
        BY <4>1, <4>2 DEF RoutingTyped, WiredOK
      <4> QED
        BY <4>3
    <3> QED
      BY <3>1, <3>2
  <2>5. i <= entry
    BY <1>0, <1>3 DEF SetChannel
  <2> QED
    BY <1>0, <2>3, <2>4, <2>5
<1>4. CASE ClearActors
  BY <1>4 DEF ClearActors
<1>5. ASSUME NEW t \in Threads, ThreadStep(t) \/ \E a \in Ids : ReadMessage(t, a)
      PROVE  UNCHANGED wiring
  BY <1>5, OwnEmission, NewEmission
<1>6. ASSUME NEW a \in Ids, WriteDone(a)
      PROVE  UNCHANGED wiring
  BY <1>6 DEF WriteDone
<1> QED
  BY <1>1, <1>2, <1>3, <1>4, <1>5, <1>6 DEF RoutingNext, ThreadStep, routingVars

\* A message is new only to the thread that reads it.
LEMMA OldOrRead ==
  ASSUME RoutingTyped, [RoutingNext]_routingVars, NEW m \in Messages', m \notin Messages
  PROVE  \E t \in Threads : \E a \in Ids : ReadMessage(t, a) /\ m = Len(content) + 1
<1>1. CASE UNCHANGED content
  BY <1>1 DEF Messages
<1>2. ASSUME NEW t \in Threads, NEW a \in Ids, ReadMessage(t, a)
      PROVE  m = Len(content) + 1
  BY <1>2 DEF ReadMessage, Messages, RoutingTyped, MessagesOK
<1>3. ASSUME NEW t \in Threads, SlotReturns(t)
      PROVE  FALSE
  <2>1. DOMAIN content' = DOMAIN content
    BY <1>3 DEF SlotReturns, SendMessage, DoWrite, DoLog, outside
  <2> QED
    BY <2>1 DEF Messages
<1>4. CASE RunActor \/ SetChannel \/ ClearActors
  BY <1>1, <1>4 DEF RunActor, SetChannel, ClearActors
<1>5. ASSUME NEW t \in Threads, EmissionEnds(t) \/ SlotSkipped(t) \/ EnterChannel(t) \/ SlotThrows(t)
      PROVE  UNCHANGED content
  BY <1>5 DEF EmissionEnds, SlotSkipped, EnterChannel, SlotThrows
<1>6. ASSUME NEW a \in Ids, WriteDone(a)
      PROVE  UNCHANGED content
  BY <1>6 DEF WriteDone
<1> QED
  BY <1>1, <1>2, <1>3, <1>4, <1>5, <1>6 DEF RoutingNext, routingVars

\* What a message has passed when the slots at the positions in left are to come.
LEMMA PassedBySlot ==
  ASSUME NEW W, NEW F, NEW left \in SUBSET F, NEW i \in left, NEW m, NEW C,
         {x \in C : x[1] = m} = {<<m, W[j]>> : j \in F \ left}
  PROVE  {x \in C \cup {<<m, W[i]>>} : x[1] = m} = {<<m, W[j]>> : j \in F \ (left \ {i})}
OBVIOUS

LEMMA PassedStep ==
  ASSUME RoutingTyped, EmittedOK, SoleEmitter, SlotLocked, EndsThere, PassedSoFar, [RoutingNext]_routingVars
  PROVE  PassedSoFar'
<1> SUFFICES ASSUME NEW m \in Messages', born'[m].all
             PROVE  /\ stage' \in {"run", "cleared"}
                    /\ stage' = "run" =>
                         /\ \A t \in Threads : (Emitting(t)' /\ emission'[t].msg = m) =>
                              CarriedOf(m)' = {<<m, wired'[i]>> : i \in From(born[m].src)' \ emission'[t].left}
                         /\ outcome'[m] = "done" => CarriedOf(m)' = {<<m, wired'[i]>> : i \in From(born[m].src)'}
  BY DEF PassedSoFar
<1>0. stage \in {"actors", "channels", "run", "cleared"}
  BY DEF RoutingTyped, EntryOK
<1>1. CASE m \in Messages
  <2> DEFINE F == From(born[m].src)
  <2>1. born'[m] = born[m] /\ born[m].all
    BY <1>1, MessagesStay
  <2>2. stage \in {"run", "cleared"}
    BY <1>1, <2>1 DEF PassedSoFar
  <2>3. UNCHANGED wiring \/ stage' = "cleared"
    <3>1. ~RunActor /\ ~SetChannel
      BY <2>2 DEF RunActor, SetChannel
    <3>2. ClearActors => stage' = "cleared"
      BY DEF ClearActors
    <3>3. \A a \in Ids : WriteDone(a) => UNCHANGED wiring
      BY DEF WriteDone
    <3> QED
      BY <3>1, <3>2, <3>3, OwnEmission, NewEmission DEF RoutingNext, ThreadStep, routingVars
  <2>4. stage' \in {"run", "cleared"}
    BY <2>2, <2>3 DEF wiring
  <2>5. ASSUME stage' = "run"
        PROVE  /\ \A t \in Threads : (Emitting(t)' /\ emission'[t].msg = m) =>
                    CarriedOf(m)' = {<<m, wired[i]>> : i \in F \ emission'[t].left}
               /\ outcome'[m] = "done" => CarriedOf(m)' = {<<m, wired[i]>> : i \in F}
    <3>1. stage = "run" /\ UNCHANGED wiring
      BY <2>3, <2>5 DEF wiring
    <3>2. /\ \A t \in Threads : (Emitting(t) /\ emission[t].msg = m) =>
               {x \in carried : x[1] = m} = {<<m, wired[i]>> : i \in F \ emission[t].left}
          /\ outcome[m] = "done" => {x \in carried : x[1] = m} = {<<m, wired[i]>> : i \in F}
      BY <1>1, <2>1, <3>1 DEF PassedSoFar, CarriedOf
    <3> HIDE DEF F
    <3> SUFFICES /\ \A u \in Threads : (emission'[u].at \in {"slots", "handler"} /\ emission'[u].msg = m) =>
                      {x \in carried' : x[1] = m} = {<<m, wired[i]>> : i \in F \ emission'[u].left}
                 /\ outcome'[m] = "done" => {x \in carried' : x[1] = m} = {<<m, wired[i]>> : i \in F}
      BY DEF CarriedOf, Emitting
    <3>3. CASE UNCHANGED <<emission, carried, outcome>>
      BY <3>2, <3>3 DEF Emitting
    <3>4. ASSUME NEW t \in Threads, NEW a \in Ids, ReadMessage(t, a)
          PROVE  /\ \A u \in Threads : (emission'[u].at \in {"slots", "handler"} /\ emission'[u].msg = m) =>
                      {x \in carried' : x[1] = m} = {<<m, wired[i]>> : i \in F \ emission'[u].left}
                 /\ outcome'[m] = "done" => {x \in carried' : x[1] = m} = {<<m, wired[i]>> : i \in F}
      <4>1. UNCHANGED carried /\ outcome'[m] = outcome[m]
        BY <1>1, <3>4, NewEmission DEF ReadMessage
      <4>2. emission'[t].msg # m
        <5>1. emission'[t] = [at |-> "slots", msg |-> Len(content) + 1, left |-> From(a)] /\ Len(content) + 1 \notin Messages
          BY <3>4, NewEmission
        <5>2. emission'[t].msg = Len(content) + 1
          BY <5>1
        <5> QED
          BY <1>1, <5>1, <5>2
      <4>3. \A u \in Threads : u # t => emission'[u] = emission[u]
        BY <3>4, NewEmission
      <4> QED
        BY <3>2, <4>1, <4>2, <4>3 DEF Emitting
    <3>5. ASSUME NEW t \in Threads, ThreadStep(t), emission[t].msg # m
          PROVE  /\ \A u \in Threads : (emission'[u].at \in {"slots", "handler"} /\ emission'[u].msg = m) =>
                      {x \in carried' : x[1] = m} = {<<m, wired[i]>> : i \in F \ emission'[u].left}
                 /\ outcome'[m] = "done" => {x \in carried' : x[1] = m} = {<<m, wired[i]>> : i \in F}
      <4>1. UNCHANGED outcome \/ \E o : outcome' = [outcome EXCEPT ![emission[t].msg] = o]
        BY <3>5 DEF ThreadStep, EmissionEnds, SlotSkipped, EnterChannel, SlotReturns, SlotThrows
      <4>2. outcome'[m] = outcome[m]
        <5>1. m \in DOMAIN outcome
          BY <1>1 DEF RoutingTyped, MessagesOK, Messages
        <5> QED
          BY <3>5, <4>1, <5>1
      <4>3. UNCHANGED carried \/ carried' = carried \cup {<<emission[t].msg, Slot(t)>>}
        BY <3>5 DEF ThreadStep, EmissionEnds, SlotSkipped, EnterChannel, SlotReturns, SlotThrows
      <4>4. {x \in carried' : x[1] = m} = {x \in carried : x[1] = m}
        BY <3>5, <4>3
      <4>5. \A u \in Threads : (emission'[u].at \in {"slots", "handler"} /\ emission'[u].msg = m) => emission'[u] = emission[u]
        BY <3>5, OwnEmission
      <4> QED
        BY <3>2, <4>2, <4>4, <4>5 DEF Emitting
    <3>6. ASSUME NEW t \in Threads, ThreadStep(t), emission[t].msg = m
          PROVE  /\ \A u \in Threads : (emission'[u].at \in {"slots", "handler"} /\ emission'[u].msg = m) =>
                      {x \in carried' : x[1] = m} = {<<m, wired[i]>> : i \in F \ emission'[u].left}
                 /\ outcome'[m] = "done" => {x \in carried' : x[1] = m} = {<<m, wired[i]>> : i \in F}
      <4>0. EmissionOK /\ MessagesOK
        BY DEF RoutingTyped
      <4>1. Emitting(t) /\ {x \in carried : x[1] = m} = {<<m, wired[i]>> : i \in F \ emission[t].left}
        BY <3>2, <3>6, OwnEmission
      <4>2. \A u \in Threads : (emission'[u].at \in {"slots", "handler"} /\ emission'[u].msg = m) => u = t
        <5>1. ASSUME NEW u \in Threads, u # t, emission'[u].at \in {"slots", "handler"}, emission'[u].msg = m
              PROVE  FALSE
          <6>1. emission'[u] = emission[u]
            BY <3>6, <5>1, OwnEmission
          <6> QED
            BY <3>6, <4>1, <5>1, <6>1 DEF SoleEmitter, Emitting
        <5> QED
          BY <5>1
      <4>3. outcome[m] = "no" /\ emission[t].left \subseteq F /\ m \in DOMAIN outcome
        BY <1>1, <3>6, <4>0, <4>1 DEF EmittedOK, F, MessagesOK, Messages
      <4>4. CASE EmissionEnds(t)
        <5>1. emission[t].left = {} /\ emission' = [emission EXCEPT ![t] = Idle] /\ UNCHANGED carried
          BY <4>4 DEF EmissionEnds
        <5>2. emission'[t].at = "idle"
          BY <4>0, <5>1 DEF EmissionOK, Idle
        <5> QED
          BY <4>1, <4>2, <5>1, <5>2
      <4>5. CASE SlotSkipped(t)
        BY <3>1, <4>5 DEF SlotSkipped
      <4>6. CASE EnterChannel(t)
        <5>1. Slot(t).dst \in DOMAIN kind
          BY <3>1, <4>1, <4>6, SlotDestination DEF EnterChannel
        <5>2. /\ emission' = [emission EXCEPT ![t] = [emission[t] EXCEPT !.at = "handler"]]
              /\ UNCHANGED <<carried, outcome>>
          BY <4>0, <4>6, <5>1 DEF EnterChannel, EmissionOK
        <5>3. emission'[t].left = emission[t].left
          BY <4>0, <5>2 DEF EmissionOK
        <5> QED
          BY <4>1, <4>2, <4>3, <5>2, <5>3
      <4>7. CASE SlotReturns(t)
        <5>1. /\ emission' = [emission EXCEPT ![t] =
                                [at |-> "slots", msg |-> m, left |-> Others(emission[t].left)]]
              /\ UNCHANGED outcome /\ carried' = carried \cup {<<m, Slot(t)>>}
          BY <3>6, <4>7 DEF SlotReturns
        <5>2. emission'[t].left = emission[t].left \ {FirstOf(emission[t].left)}
          BY <4>0, <5>1 DEF EmissionOK, Others
        <5>3. PICK left \in SUBSET F : left = emission[t].left
          BY <4>3
        <5>4. PICK i \in left : i = FirstOf(emission[t].left)
          BY <4>1, <4>7, <5>3, SlotIsWired DEF SlotLocked, SlotReturns
        <5>5. Slot(t) = wired[i]
          BY <5>4 DEF Slot
        <5>6. {x \in carried \cup {<<m, wired[i]>>} : x[1] = m} = {<<m, wired[j]>> : j \in F \ (left \ {i})}
          BY <4>1, <5>3, PassedBySlot
        <5> QED
          BY <4>2, <4>3, <5>1, <5>2, <5>3, <5>4, <5>5, <5>6
      <4>8. CASE SlotThrows(t)
        <5>1. emission' = [emission EXCEPT ![t] = [Idle EXCEPT !.at = "left"]]
          BY <4>8 DEF SlotThrows
        <5>2. emission'[t].at = "left"
          BY <4>0, <5>1 DEF EmissionOK, Idle
        <5>3. outcome'[m] = "thrown"
          BY <3>6, <4>3, <4>8 DEF SlotThrows
        <5> QED
          BY <4>2, <5>2, <5>3
      <4> QED
        BY <3>6, <4>4, <4>5, <4>6, <4>7, <4>8 DEF ThreadStep
    <3>7. ASSUME NEW a \in Ids, WriteDone(a)
          PROVE  UNCHANGED <<emission, carried, outcome>>
      BY <3>7 DEF WriteDone
    <3>8. ~RunActor /\ ~SetChannel /\ ~ClearActors
      BY <2>5, <3>1 DEF RunActor, SetChannel, ClearActors
    <3> QED
      BY <3>3, <3>4, <3>5, <3>6, <3>7, <3>8 DEF RoutingNext, ThreadStep, routingVars
  <2>6. stage' = "run" => UNCHANGED wired /\ From(born[m].src)' = F
    BY <2>1, <2>3 DEF wiring, From
  <2> QED
    BY <2>4, <2>5, <2>6
<1>2. CASE m \notin Messages
  <2>1. PICK t \in Threads, a \in Ids : ReadMessage(t, a) /\ m = Len(content) + 1
    BY <1>2, OldOrRead
  <2>2. /\ born'[m] = [src |-> a, all |-> stage = "run"] /\ outcome'[m] = "no" /\ UNCHANGED wiring
        /\ emission'[t] = [at |-> "slots", msg |-> m, left |-> From(a)]
        /\ \A u \in Threads : u # t => emission'[u] = emission[u]
    BY <2>1, NewEmission
  <2>3. stage = "run" /\ stage' = "run"
    <3>1. ASSUME stage # "run"
          PROVE  FALSE
      <4>1. born'[m] = [src |-> a, all |-> FALSE]
        <5>1. (stage = "run") = FALSE
          BY <3>1
        <5> QED
          BY <2>2, <5>1, Zenon
      <4>2. born'[m].all = FALSE
        BY <4>1
      <4> QED
        BY <4>2
    <3> QED
      BY <2>2, <3>1 DEF wiring
  <2>4. CarriedOf(m)' = {}
    <3>1. UNCHANGED carried
      BY <2>1 DEF ReadMessage
    <3>2. \A x \in carried : x[1] # m
      BY <1>2 DEF RoutingTyped, CarriedOK
    <3> QED
      BY <3>1, <3>2 DEF CarriedOf
  <2>5. ASSUME NEW u \in Threads, Emitting(u)', emission'[u].msg = m
        PROVE  emission'[u].left = From(born[m].src)'
    <3>1. u = t
      <4>1. ASSUME u # t
            PROVE  FALSE
        <5>1. emission[u].msg = m /\ Emitting(u)
          BY <2>2, <2>5, <4>1 DEF Emitting
        <5> QED
          BY <1>2, <5>1 DEF EmittedOK
      <4> QED
        BY <4>1
    <3>2. born'[m].src = a /\ emission'[t].left = From(a)
      BY <2>2
    <3> QED
      BY <2>2, <3>1, <3>2 DEF From, wiring
  <2> QED
    BY <2>2, <2>3, <2>4, <2>5
<1> QED
  BY <1>1, <1>2

\* A source that feeds a terminal goes on feeding it until the actors are cleared.
LEMMA TerminalStays ==
  ASSUME RoutingTyped, [RoutingNext]_routingVars, stage' # "cleared", NEW m \in Messages, ToTerminal(m)
  PROVE  ToTerminal(m)'
<1>1. PICK i \in DOMAIN wired : /\ wired[i].src = born[m].src
                                /\ wired[i].dst \in DOMAIN kind /\ kind[wired[i].dst] = "uart"
  BY DEF ToTerminal
<1>2. i \in DOMAIN wired' /\ wired'[i] = wired[i]
  BY WiringStays
<1>3. wired[i].dst \in DOMAIN kind' /\ kind'[wired[i].dst] = "uart"
  BY <1>1, WiringStays
<1>4. born'[m] = born[m]
  BY MessagesStay
<1> QED
  BY <1>1, <1>2, <1>3, <1>4 DEF ToTerminal

\* A thread in the slot of a terminal has a message of a source that feeds it.
LEMMA InTerminal ==
  ASSUME RoutingTyped, EmittedOK, SlotLocked, NEW t \in Threads, emission[t].at = "handler",
         Slot(t).dst \in DOMAIN kind, kind[Slot(t).dst] = "uart"
  PROVE  ToTerminal(emission[t].msg)
<1>1. PICK i : i = FirstOf(emission[t].left) /\ i \in From(born[emission[t].msg].src)
  BY SlotIsWired DEF SlotLocked, Emitting
<1>2. Slot(t) = wired[i]
  BY <1>1 DEF Slot
<1> QED
  BY <1>1, <1>2 DEF ToTerminal, From

LEMMA ChangedStep ==
  ASSUME RoutingTyped, EmittedOK, SlotLocked, ChangedByTerminal, [RoutingNext]_routingVars
  PROVE  ChangedByTerminal'
<1> SUFFICES ASSUME stage' # "cleared"
             PROVE  /\ \A m \in Messages' : content'[m] # "raw" => ToTerminal(m)'
                    /\ \A a \in Ids : /\ out'[a] # <<>> /\ out'[a][2] # "raw" => \E m : m = out'[a][1] /\ ToTerminal(m)'
                                      /\ \A x \in given'[a] : x[2] # "raw" => \E m : m = x[1] /\ ToTerminal(m)'
  BY DEF ChangedByTerminal, ToTerminal
<1>0. OutOK /\ GivenOK /\ QueueOK /\ MessagesOK
  BY DEF RoutingTyped
<1>1. /\ \A m \in Messages : content[m] # "raw" => ToTerminal(m)
      /\ \A a \in Ids : /\ out[a] # <<>> /\ out[a][2] # "raw" => ToTerminal(out[a][1])
                        /\ \A x \in given[a] : x[2] # "raw" => ToTerminal(x[1])
  BY WiringStays DEF ChangedByTerminal
<1>2. \A m \in Messages : ToTerminal(m) => ToTerminal(m)'
  BY TerminalStays
<1>3. ASSUME UNCHANGED content
      PROVE  \A m \in Messages' : content'[m] # "raw" => ToTerminal(m)'
  BY <1>1, <1>2, <1>3 DEF Messages
<1>4. ASSUME NEW a \in Ids, out'[a] = out[a]
      PROVE  out'[a] # <<>> /\ out'[a][2] # "raw" => \E m : m = out'[a][1] /\ ToTerminal(m)'
  BY <1>0, <1>1, <1>2, <1>4 DEF OutOK
<1>5. ASSUME NEW a \in Ids, NEW x \in given[a], x[2] # "raw"
      PROVE  \E m : m = x[1] /\ ToTerminal(m)'
  BY <1>0, <1>1, <1>2, <1>5 DEF GivenOK
<1>6. CASE UNCHANGED <<content, outside>>
  BY <1>3, <1>4, <1>5, <1>6 DEF outside
<1>7. ASSUME NEW t \in Threads, NEW a \in Ids, ReadMessage(t, a)
      PROVE  /\ UNCHANGED outside
             /\ \A m \in Messages' : content'[m] # "raw" => ToTerminal(m)'
  <2>1. content' = Append(content, "raw") /\ UNCHANGED outside
    BY <1>7 DEF ReadMessage
  <2>2. \A m \in Messages' : content'[m] # "raw" => m \in Messages /\ content'[m] = content[m]
    BY <1>0, <2>1 DEF Messages, MessagesOK
  <2> QED
    BY <1>1, <1>2, <2>1, <2>2
<1>8. ASSUME NEW t \in Threads, SlotReturns(t)
      PROVE  /\ \A m \in Messages' : content'[m] # "raw" => ToTerminal(m)'
             /\ \A a \in Ids : /\ out'[a] # <<>> /\ out'[a][2] # "raw" => \E m : m = out'[a][1] /\ ToTerminal(m)'
                               /\ \A x \in given'[a] : x[2] # "raw" => \E m : m = x[1] /\ ToTerminal(m)'
  <2>1. PICK n : n = emission[t].msg /\ n \in Messages
    BY <1>8 DEF EmittedOK, Emitting, SlotReturns
  <2>2. content[n] # "raw" => ToTerminal(n)'
    BY <1>1, <1>2, <2>1
  <2>3. CASE Slot(t).dst \notin DOMAIN kind
    BY <1>6, <1>8, <2>3 DEF SlotReturns
  <2>4. CASE Slot(t).dst \in DOMAIN kind
    <3>1. PICK b \in Ids : /\ b = Slot(t).dst
                           /\ SendMessage(b, n) \/ (DoWrite(b, n) /\ kind[b] = "uart") \/ DoLog(b, n)
      BY <1>8, <2>1, <2>4, SlotWorks
    <3>2. CASE SendMessage(b, n)
      <4>1. UNCHANGED <<content, given>> /\ (UNCHANGED out \/ out' = [out EXCEPT ![b] = <<n, content[n]>>])
        BY <3>2 DEF SendMessage
      <4>2. \A a \in Ids : out'[a] = out[a] \/ out'[a] = <<n, content[n]>>
        BY <1>0, <4>1 DEF OutOK
      <4>3. ASSUME NEW a \in Ids, out'[a] = <<n, content[n]>>, out'[a][2] # "raw"
            PROVE  \E m : m = out'[a][1] /\ ToTerminal(m)'
        <5>1. out'[a][1] = n /\ out'[a][2] = content[n]
          BY <4>3
        <5> QED
          BY <2>2, <4>3, <5>1
      <4> QED
        BY <1>3, <1>4, <1>5, <4>1, <4>2, <4>3
    <3>3. CASE DoWrite(b, n) /\ kind[b] = "uart"
      <4>1. /\ UNCHANGED out /\ content' = [content EXCEPT ![n] = "lf"]
            /\ given' = [given EXCEPT ![b] = given[b] \cup {<<n, "lf">>}]
        BY <3>3 DEF DoWrite
      <4>2. ToTerminal(n)'
        BY <1>2, <1>8, <2>1, <2>4, <3>1, <3>3, InTerminal DEF SlotReturns
      <4>3. \A m \in Messages' : m \in Messages /\ (m = n \/ content'[m] = content[m])
        BY <1>0, <4>1 DEF Messages, MessagesOK
      <4>4. \A a \in Ids : \A x \in given'[a] : x \in given[a] \/ x[1] = n
        BY <1>0, <4>1 DEF GivenOK
      <4>5. \A m \in Messages' : content'[m] # "raw" => ToTerminal(m)'
        BY <1>1, <1>2, <4>2, <4>3
      <4>6. \A a \in Ids : \A x \in given'[a] : x[2] # "raw" => \E m : m = x[1] /\ ToTerminal(m)'
        BY <1>5, <4>2, <4>4
      <4> QED
        BY <1>4, <4>1, <4>5, <4>6
    <3>4. CASE DoLog(b, n)
      <4>1. /\ UNCHANGED <<content, out>>
            /\ given' = [given EXCEPT ![b] = given[b] \cup {<<n, content[n]>>}]
        BY <3>4 DEF DoLog
      <4>2. \A a \in Ids : \A x \in given'[a] : x \in given[a] \/ x = <<n, content[n]>>
        BY <1>0, <4>1 DEF GivenOK
      <4>3. ASSUME NEW x, x = <<n, content[n]>>, x[2] # "raw"
            PROVE  \E m : m = x[1] /\ ToTerminal(m)'
        <5>1. x[1] = n /\ x[2] = content[n]
          BY <4>3
        <5> QED
          BY <2>2, <4>3, <5>1
      <4> QED
        BY <1>3, <1>4, <1>5, <4>1, <4>2, <4>3
    <3> QED
      BY <3>1, <3>2, <3>3, <3>4
  <2> QED
    BY <2>3, <2>4
<1>9. ASSUME NEW b \in Ids, WriteDone(b)
      PROVE  /\ UNCHANGED content
             /\ \A a \in Ids : /\ out'[a] # <<>> /\ out'[a][2] # "raw" => \E m : m = out'[a][1] /\ ToTerminal(m)'
                               /\ \A x \in given'[a] : x[2] # "raw" => \E m : m = x[1] /\ ToTerminal(m)'
  <2>1. /\ UNCHANGED content /\ given' = [given EXCEPT ![b] = given[b] \cup {out[b]}] /\ out[b] # <<>>
        /\ \/ out' = [out EXCEPT ![b] = <<>>]
           \/ /\ queue[b] # <<>>
              /\ \E v \in Copied(Last(queue[b])) : out' = [out EXCEPT ![b] = <<Last(queue[b]), v>>]
    BY <1>9 DEF WriteDone
  <2>2. ASSUME NEW a \in Ids, NEW x \in given'[a], x[2] # "raw"
        PROVE  \E m : m = x[1] /\ ToTerminal(m)'
    <3>1. x \in given[a] \/ x = out[b]
      BY <1>0, <2>1 DEF GivenOK
    <3>2. ASSUME x = out[b]
          PROVE  \E m : m = x[1] /\ ToTerminal(m)'
      <4>1. ToTerminal(x[1]) /\ x[1] \in Messages
        BY <1>0, <1>1, <2>1, <2>2, <3>2 DEF OutOK
      <4> QED
        BY <1>2, <4>1
    <3> QED
      BY <1>5, <2>2, <3>1, <3>2
  <2>3. ASSUME NEW a \in Ids, out'[a] # <<>>, out'[a][2] # "raw", out'[a] # out[a]
        PROVE  \E m : m = out'[a][1] /\ ToTerminal(m)'
    <3>1. PICK n, v : /\ n = Last(queue[b]) /\ v \in Copied(n) /\ queue[b] # <<>>
                      /\ out'[a] = <<n, v>>
      BY <1>0, <2>1, <2>3 DEF OutOK
    <3>2. n \in Messages
      <4>1. queue[b] \in Seq(Nat) /\ \A i \in DOMAIN queue[b] : queue[b][i] \in Messages
        BY <1>0 DEF QueueOK
      <4> QED
        BY <3>1, <4>1 DEF Last
    <3>3. out'[a][1] = n /\ v # "raw"
      BY <2>3, <3>1
    <3>4. ToTerminal(n)
      <4>1. CASE v = content[n]
        BY <1>1, <3>2, <3>3, <4>1
      <4>2. CASE v # content[n]
        <5>1. PICK t \in Threads : /\ emission[t].at = "handler" /\ emission[t].msg = n
                                   /\ Slot(t).dst \in DOMAIN kind /\ kind[Slot(t).dst] = "uart"
          BY <3>1, <4>2 DEF Copied
        <5> QED
          BY <5>1, InTerminal
      <4> QED
        BY <4>1, <4>2
    <3> QED
      BY <1>2, <3>2, <3>3, <3>4
  <2> QED
    BY <1>4, <2>1, <2>2, <2>3
<1>10. CASE RunActor \/ SetChannel \/ ClearActors
  BY <1>6, <1>10 DEF RunActor, SetChannel, ClearActors
<1>11. ASSUME NEW t \in Threads, EmissionEnds(t) \/ SlotSkipped(t) \/ EnterChannel(t) \/ SlotThrows(t)
       PROVE  UNCHANGED <<content, outside>>
  BY <1>11 DEF EmissionEnds, SlotSkipped, EnterChannel, SlotThrows
<1>12. ASSUME UNCHANGED outside
       PROVE  \A a \in Ids : /\ out'[a] # <<>> /\ out'[a][2] # "raw" => \E m : m = out'[a][1] /\ ToTerminal(m)'
                             /\ \A x \in given'[a] : x[2] # "raw" => \E m : m = x[1] /\ ToTerminal(m)'
  BY <1>4, <1>5, <1>12 DEF outside
<1> QED
  BY <1>3, <1>6, <1>7, <1>8, <1>9, <1>10, <1>11, <1>12 DEF RoutingNext, routingVars

LEMMA RoutingInvInit == RoutingInit => RoutingInv
<1> SUFFICES ASSUME RoutingInit
             PROVE  RoutingInv
  OBVIOUS
<1> USE DEF RoutingInit
<1>0. content = <<>> /\ born = <<>> /\ outcome = <<>> /\ Messages = {}
  BY DEF Messages
<1>1. EntryOK
  <2>1. ActorEntries # <<>> => Len(ActorEntries) >= 1
    BY RoutingAssumption
  <2>2. ChannelEntries # <<>> => Len(ChannelEntries) >= 1
    BY RoutingAssumption
  <2> QED
    BY <2>1, <2>2 DEF EntryOK, AfterActors
<1>2. KindOK /\ OwnerOK /\ CarriedOK
  BY DEF KindOK, OwnerOK, CarriedOK
<1>3. WiredOK
  <2>1. Len(ChannelEntries) \in Nat
    BY RoutingAssumption
  <2> QED
    BY <2>1 DEF WiredOK
<1>4. EmissionOK
  BY DEF EmissionOK, Idle
<1>5. MessagesOK
  BY DEF MessagesOK
<1>6. QueueOK /\ OutOK /\ GivenOK
  BY DEF QueueOK, OutOK, GivenOK
<1>7. \A t \in Threads : emission[t].at = "idle"
  BY DEF Idle
<1>8. EmittedOK /\ SoleEmitter /\ SlotLocked /\ HandlerAlive
  BY <1>7 DEF EmittedOK, SoleEmitter, SlotLocked, HandlerAlive, Emitting
<1>9. FreedOK
  BY DEF FreedOK, AfterActors
<1>10. EndsThere
  BY DEF EndsThere
<1>11. ActorsBuilt
  <2>1. \A i \in DOMAIN ActorEntries : i >= 1 /\ ActorEntries # <<>>
    BY RoutingAssumption
  <2> QED
    BY <2>1 DEF ActorsBuilt
<1>12. ChannelsBuilt
  <2>1. \A i \in DOMAIN ChannelEntries : i \in Nat /\ i >= 1 /\ ChannelEntries # <<>>
    BY RoutingAssumption
  <2>2. entry = 1 /\ (stage = "run" => ChannelEntries = <<>>)
    BY DEF AfterActors
  <2> QED
    BY <2>1, <2>2 DEF ChannelsBuilt
<1>13. PassedSoFar
  BY <1>0 DEF PassedSoFar
<1>14. ChangedByTerminal
  BY <1>0 DEF ChangedByTerminal
<1> QED
  BY <1>1, <1>2, <1>3, <1>4, <1>5, <1>6, <1>8, <1>9, <1>10, <1>11, <1>12, <1>13, <1>14
     DEF RoutingInv, RoutingTyped

LEMMA RoutingInvStep == RoutingInv /\ [RoutingNext]_routingVars => RoutingInv'
BY RoutingTypedStep, EmittedStep, SoleStep, SlotLockedStep, FreedStep, AliveStep, EndsStep,
   ActorsBuiltStep, ChannelsBuiltStep, PassedStep, ChangedStep DEF RoutingInv

LEMMA RoutingInvImplies == RoutingInv => WiringInvariant /\ PassedAsRead
<1> SUFFICES ASSUME RoutingInv
             PROVE  WiringInvariant /\ PassedAsRead
  OBVIOUS
<1> USE DEF RoutingInv
<1>1. RoutingTypeOK
  <2>1. stage \in {"actors", "channels", "run", "cleared"} /\ entry \in Nat
    BY DEF RoutingTyped, EntryOK
  <2>2. DOMAIN kind \subseteq Ids /\ \A a \in DOMAIN kind : kind[a] \in Kinds
    BY DEF RoutingTyped, KindOK
  <2>3. Len(wired) <= Len(ChannelEntries) /\ \A i \in DOMAIN wired : wired[i].id \in ChannelIds
    <3>1. \A c \in Range(ChannelEntries) : c.id \in ChannelIds
      BY DEF Range, ChannelIds
    <3> QED
      BY <3>1 DEF RoutingTyped, WiredOK
  <2>4. owner \in [ChannelIds -> Threads \cup {"none"}]
    BY DEF RoutingTyped, OwnerOK
  <2>5. \A t \in Threads : /\ emission[t].at \in {"idle", "slots", "handler", "left"}
                           /\ emission[t].at = "handler" => owner[Slot(t).id] = t
    BY DEF RoutingTyped, EmissionOK, SlotLocked
  <2>6. \A m \in Messages : content[m] \in {"raw", "lf"}
    BY DEF RoutingTyped, MessagesOK, Messages
  <2>7. freed \subseteq Ids
    BY DEF FreedOK
  <2> QED
    BY <2>1, <2>2, <2>3, <2>4, <2>5, <2>6, <2>7 DEF RoutingTypeOK
<1>2. BuiltAsConfigured
  <2> SUFFICES ASSUME stage = "run"
               PROVE  BuiltAsConfigured
    BY DEF BuiltAsConfigured
  <2>1. \A i \in DOMAIN ActorEntries : ActorEntries[i].kind \in Kinds => ActorEntries[i].id \in DOMAIN kind
    BY DEF ActorsBuilt
  <2>2. ASSUME NEW i \in DOMAIN wired
        PROVE  /\ wired[i] \in {ChannelEntries[j] : j \in DOMAIN ChannelEntries}
               /\ wired[i].src \in DOMAIN kind /\ wired[i].dst \in DOMAIN kind
    BY DEF EndsThere, HasEnds, RoutingTyped, WiredOK, Range
  <2>3. ASSUME NEW j \in DOMAIN ChannelEntries,
               ChannelEntries[j].src \in DOMAIN kind /\ ChannelEntries[j].dst \in DOMAIN kind
        PROVE  \E i \in DOMAIN wired : wired[i].id = ChannelEntries[j].id
    BY <2>3 DEF ChannelsBuilt, HasEnds
  <2> QED
    BY <2>1, <2>2, <2>3 DEF BuiltAsConfigured
<1>3. PassedEveryChannel
  BY DEF PassedSoFar, PassedEveryChannel, CarriedOf
<1>4. AsReadUnlessTerminal
  <2> SUFFICES ASSUME NEW a \in DOMAIN kind, NEW x \in given[a], x[2] # "raw"
               PROVE  ToTerminal(x[1])
    BY DEF AsReadUnlessTerminal, ToTerminal
  <2>1. a \in Ids /\ stage # "cleared"
    BY DEF RoutingTyped, KindOK, FreedOK
  <2> QED
    BY <2>1 DEF ChangedByTerminal
<1> QED
  BY <1>1, <1>2, <1>3, <1>4 DEF WiringInvariant, PassedAsRead

\* Whatever the configuration says and whichever of its entries fail, with any number of
\* io threads that read meanwhile: when main waits, the actors and channels are those
\* described, each channel in use has one owner, and a slot's destination is still there
\* while reset clears the actors (manager.cpp:138-233, channel.cpp:48-59).
THEOREM BuiltAndAlive == RoutingSpec => []WiringInvariant
<1>1. RoutingInv => WiringInvariant
  BY RoutingInvImplies
<1> QED
  BY <1>1, RoutingInvInit, RoutingInvStep, PTL DEF RoutingSpec

\* A message of a source whose channels were all wired has passed each of them and no
\* other when its emission ends, and leaves through a client or a log as it was read
\* unless the same source feeds a terminal, which changes it (terminal.cpp:188).
THEOREM CarriedAsRead == RoutingSpec => []PassedAsRead
<1>1. RoutingInv => PassedAsRead
  BY RoutingInvImplies
<1> QED
  BY <1>1, RoutingInvInit, RoutingInvStep, PTL DEF RoutingSpec
=============================================================================
