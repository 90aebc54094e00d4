---------------------------- MODULE LoggerProofs ----------------------------
(***************************************************************************)
(* Proofs about time stamps and the logger: what TS::TimestampAdjust and   *)
(* the order of time stamps give, for every time stamp, shift and length   *)
(* of the second; and, for any threads, scripts, sinks, multiplexers and   *)
(* delay, that no record is lost or doubled, who writes a sink, in which   *)
(* order, and to which file.                                               *)
(***************************************************************************)
EXTENDS Logger, FiniteSetTheorems, FunctionTheorems, WellFoundedInduction, TLAPS

\* Division of a number that is not negative: quotient and remainder give it back.
LEMMA DivMod ==
  ASSUME NEW a \in Nat, NEW d \in Nat \ {0}
  PROVE  /\ a \div d \in Nat
         /\ a % d \in 0 .. d - 1
         /\ a = (a \div d) * d + (a % d)
OBVIOUS

\* The quotient and the remainder of C++ do the same for every number, with a
\* remainder of the number's own sign.
LEMMA CppDivMod ==
  ASSUME NEW a \in Int
  PROVE  /\ CppDiv(a, Second) \in Int
         /\ CppMod(a, Second) \in (1 - Second) .. (Second - 1)
         /\ a = CppDiv(a, Second) * Second + CppMod(a, Second)
<1>1. CASE a >= 0
  <2>1. a \in Nat
    BY <1>1
  <2>2. /\ a \div Second \in Nat
        /\ a % Second \in 0 .. Second - 1
        /\ a = (a \div Second) * Second + (a % Second)
    BY <2>1, DivMod, SecondAssumption
  <2> QED
    BY <1>1, <2>2, SecondAssumption DEF CppDiv, CppMod
<1>2. CASE ~(a >= 0)
  <2> DEFINE b == -a
             q == b \div Second
             r == b % Second
  <2>1. b \in Nat
    BY <1>2
  <2>2. q \in Nat /\ r \in 0 .. Second - 1 /\ b = q * Second + r
    BY <2>1, DivMod, SecondAssumption
  <2>3. CppDiv(a, Second) = -q /\ CppMod(a, Second) = -r
    BY <1>2 DEF CppDiv, CppMod
  <2>4. a = -b
    OBVIOUS
  <2> HIDE DEF b, q, r
  <2>5. a = (-q) * Second + (-r)
    BY <2>2, <2>4, SecondAssumption
  <2> QED
    BY <2>2, <2>3, <2>5, SecondAssumption
<1> QED
  BY <1>1, <1>2

\* A time stamp is moved by the shift and by nothing else, and its microseconds
\* are in range again, whatever the signs of the shift and of the time.
THEOREM AdjustMovesByDelta ==
  ASSUME NEW ts \in Timestamps, NEW delta \in Int
  PROVE  /\ TimestampAdjust(ts, delta) \in Timestamps
         /\ Micros(TimestampAdjust(ts, delta)) = Micros(ts) + delta
<1> DEFINE s == ts.sec
           m == CppMod(s, Second)
           q == CppDiv(s, Second)
           mcs == m * Second + ts.usec + delta
           n == CppDiv(mcs, Second)
           part == CppMod(mcs, Second)
<1>1. s \in Int /\ ts.usec \in 0 .. Second - 1 /\ Second \in Nat \ {0}
  BY SecondAssumption DEF Timestamps
<1>2. q \in Int /\ m \in (1 - Second) .. (Second - 1) /\ s = q * Second + m
  BY <1>1, CppDivMod
<1>3. mcs \in Int
  BY <1>1, <1>2
<1>4. n \in Int /\ part \in (1 - Second) .. (Second - 1) /\ mcs = n * Second + part
  BY <1>3, CppDivMod
<1>5. TimestampAdjust(ts, delta) = IF delta = 0 THEN ts ELSE Settled(q * Second + n, part)
  BY DEF TimestampAdjust
<1>6. mcs = m * Second + ts.usec + delta
  OBVIOUS
<1>7. Micros(ts) = s * Second + ts.usec
  BY DEF Micros
<1> HIDE DEF s, m, q, mcs, n, part
<1>8. CASE delta = 0
  BY <1>8, <1>5, <1>1, <1>7
<1>9. CASE delta # 0
  <2> DEFINE res == Settled(q * Second + n, part)
  <2>1. TimestampAdjust(ts, delta) = res
    BY <1>9, <1>5
  <2>2. res = IF part < 0 THEN [sec |-> q * Second + n - 1, usec |-> part + Second]
                          ELSE [sec |-> q * Second + n, usec |-> part]
    BY <1>1, <1>2, <1>4 DEF Settled
  <2>3. res \in Timestamps
    BY <2>2, <1>1, <1>2, <1>4 DEF Timestamps
  <2>4. Micros(res) = (q * Second + n) * Second + part
    <3>1. CASE part < 0
      <4>1. Micros(res) = (q * Second + n - 1) * Second + (part + Second)
        BY <3>1, <2>2 DEF Micros
      <4> QED
        BY <4>1, <1>1, <1>2, <1>4
    <3>2. CASE ~(part < 0)
      BY <3>2, <2>2 DEF Micros
    <3> QED
      BY <3>1, <3>2
  <2>5. (q * Second + n) * Second + part = (q * Second) * Second + mcs
    BY <1>1, <1>2, <1>4
  <2>6. (q * Second) * Second + m * Second = s * Second
    BY <1>1, <1>2
  <2>7. (q * Second) * Second + mcs = s * Second + ts.usec + delta
    <3> DEFINE x == (q * Second) * Second
               y == m * Second
               z == s * Second
    <3>1. x \in Int /\ y \in Int /\ z \in Int
      BY <1>1, <1>2
    <3>2. x + y = z
      BY <2>6
    <3>3. mcs = y + ts.usec + delta
      BY <1>6
    <3> HIDE DEF x, y, z
    <3>4. PICK u \in Int : u = ts.usec
      BY <1>1
    <3>5. x + mcs = z + ts.usec + delta
      BY <3>1, <3>2, <3>3, <3>4
    <3> QED
      BY <3>5 DEF x, z
  <2> QED
    BY <2>1, <2>3, <2>4, <2>5, <2>7, <1>7
<1> QED
  BY <1>8, <1>9

\* Two time stamps with their microseconds in range are ordered as the moments they stand for.
THEOREM EarlierIsEarlier ==
  ASSUME NEW a \in Timestamps, NEW b \in Timestamps
  PROVE  Earlier(a, b) <=> Micros(a) < Micros(b)
<1>1. PICK s \in Int, u \in 0 .. Second - 1 : a.sec = s /\ a.usec = u
  BY DEF Timestamps
<1>2. PICK t \in Int, v \in 0 .. Second - 1 : b.sec = t /\ b.usec = v
  BY DEF Timestamps
<1>3. Second \in Nat \ {0}
  BY SecondAssumption
<1>4. ASSUME NEW x \in Int, NEW y \in Int, x < y
      PROVE  x * Second + Second <= y * Second
  <2>1. PICK k \in Nat : y = x + 1 + k
    BY <1>4
  <2>2. y * Second = x * Second + Second + k * Second
    BY <2>1, <1>3
  <2>3. k * Second >= 0 /\ k * Second \in Int /\ x * Second \in Int /\ y * Second \in Int
    BY <1>3
  <2> QED
    BY <2>2, <2>3, <1>3
<1>5. Earlier(a, b) <=> (s < t \/ (s = t /\ u < v))
  BY <1>1, <1>2 DEF Earlier
<1>6. (Micros(a) < Micros(b)) <=> (s * Second + u < t * Second + v)
  BY <1>1, <1>2 DEF Micros
<1>7. CASE s < t
  <2>1. s * Second + Second <= t * Second
    BY <1>4, <1>7
  <2>2. s * Second \in Int /\ t * Second \in Int
    BY <1>3
  <2> QED
    BY <1>5, <1>6, <1>7, <2>1, <2>2, <1>3
<1>8. CASE s = t
  <2>1. s * Second \in Int /\ s * Second = t * Second
    BY <1>3, <1>8
  <2> QED
    BY <1>5, <1>6, <1>8, <2>1
<1>9. CASE t < s
  <2>1. t * Second + Second <= s * Second
    BY <1>4, <1>9
  <2>2. s * Second \in Int /\ t * Second \in Int
    BY <1>3
  <2> QED
    BY <1>5, <1>6, <1>9, <2>1, <2>2, <1>3
<1> QED
  BY <1>7, <1>8, <1>9
-----------------------------------------------------------------------------
(* Sets of natural numbers and sequences *)

\* A set of natural numbers has a least element: the smallest of the sets of those up
\* to one of them is its own.
LEMMA LeastOf ==
  ASSUME NEW S \in SUBSET Nat, S # {}
  PROVE  \E x \in S : \A y \in S : x <= y
<1> DEFINE R == StrictSubsetOrdering(Nat)
           Initial == {S \cap (0 .. x) : x \in S}
<1>1. IsWellFoundedOn(R, FiniteSubsetsOf(Nat))
  BY FS_StrictSubsetOrderingWellFounded
<1>2. Initial \subseteq FiniteSubsetsOf(Nat)
  <2>1. ASSUME NEW x \in S
        PROVE  IsFiniteSet(S \cap (0 .. x))
    <3>1. IsFiniteSet(0 .. x)
      BY 0 \in Int, x \in Int, FS_Interval
    <3>2. S \cap (0 .. x) \in SUBSET (0 .. x)
      OBVIOUS
    <3> HIDE DEF R, Initial
    <3> QED
      BY <3>1, <3>2, FS_Subset
  <2> QED
    BY <2>1 DEF FiniteSubsetsOf
<1>3. Initial # {}
  OBVIOUS
<1>4. \E b \in Initial : \A c \in Initial : <<c, b>> \notin R
  <2> HIDE DEF R, Initial
  <2> QED
    BY <1>1, <1>2, <1>3, WFMin
<1>5. PICK x \in S : \A c \in Initial : <<c, S \cap (0 .. x)>> \notin R
  BY <1>4
<1>6. ASSUME NEW y \in S
      PROVE  x <= y
  <2>1. ~ (S \cap (0 .. y) \subseteq S \cap (0 .. x) /\ S \cap (0 .. y) # S \cap (0 .. x))
    BY <1>5 DEF StrictSubsetOrdering
  <2> QED
    BY <2>1
<1> QED
  BY <1>6


\* A set that holds with a number all below it is an interval.
LEMMA DownwardIsInterval ==
  ASSUME NEW L \in Nat, NEW S \in SUBSET (1 .. L),
         \A i \in S : \A j \in 1 .. L : j <= i => j \in S
  PROVE  Cardinality(S) \in 0 .. L /\ S = 1 .. Cardinality(S)
<1>1. CASE S = 1 .. L
  <2>1. Cardinality(1 .. L) = L
    BY 1 \in Int, L \in Int, FS_Interval
  <2> QED
    BY <1>1, <2>1
<1>2. CASE S # 1 .. L
  <2> DEFINE T == (1 .. L) \ S
  <2>1. T \in SUBSET Nat
    OBVIOUS
  <2>0. T # {}
    BY <1>2
  <2>2. PICK m \in T : \A y \in T : m <= y
    <3> HIDE DEF T
    <3> QED
      BY <2>0, <2>1, LeastOf
  <2>3. S = 1 .. m - 1 /\ m \in 1 .. L
    <3>1. m \in 1 .. L /\ m \notin S
      OBVIOUS
    <3>2. ASSUME NEW i \in S
          PROVE  i \in 1 .. m - 1
      <4>1. ~ (m <= i)
        BY <3>1
      <4> QED
        BY <3>1, <4>1
    <3>3. ASSUME NEW i \in 1 .. m - 1
          PROVE  i \in S
      <4>1. i \in 1 .. L /\ ~ (m <= i)
        BY <3>1
      <4> QED
        BY <2>2, <4>1
    <3> QED
      BY <3>1, <3>2, <3>3
  <2>4. Cardinality(1 .. m - 1) = m - 1
    BY 1 \in Int, m - 1 \in Int, <2>3, FS_Interval
  <2> QED
    BY <2>3, <2>4
<1> QED
  BY <1>1, <1>2

LEMMA CountOfPlaces ==
  ASSUME NEW L \in Nat, NEW S \in SUBSET (1 .. L)
  PROVE  IsFiniteSet(S) /\ Cardinality(S) \in 0 .. L
<1>1. IsFiniteSet(1 .. L) /\ Cardinality(1 .. L) = L
  BY 1 \in Int, L \in Int, FS_Interval
<1>2. IsFiniteSet(S) /\ Cardinality(S) <= L
  BY <1>1, FS_Subset
<1> QED
  BY <1>2, FS_CardinalityType

\* A sequence with one more element behind its first n, without its first n, and
\* without the one at x.
LEMMA BothIs ==
  ASSUME NEW R, NEW a \in Seq(R), NEW b \in Seq(R)
  PROVE  /\ a \o b \in Seq(R) /\ Len(a \o b) = Len(a) + Len(b)
         /\ \A i \in 1 .. Len(a) + Len(b) : (a \o b)[i] = IF i <= Len(a) THEN a[i] ELSE b[i - Len(a)]
OBVIOUS

With(q, r, n) == SubSeq(q, 1, n) \o <<r>> \o SubSeq(q, n + 1, Len(q))

LEMMA InsertedAt ==
  ASSUME NEW R, NEW q \in Seq(R), NEW r \in R, NEW n \in 0 .. Len(q)
  PROVE  /\ With(q, r, n) \in Seq(R) /\ Len(With(q, r, n)) = Len(q) + 1
         /\ \A i \in 1 .. Len(q) + 1 :
              With(q, r, n)[i] = IF i <= n THEN q[i] ELSE IF i = n + 1 THEN r ELSE q[i - 1]
<1> DEFINE a == SubSeq(q, 1, n)
           c == SubSeq(q, n + 1, Len(q))
           b == a \o <<r>>
<1>1. a \in Seq(R) /\ Len(a) = n /\ \A i \in 1 .. n : a[i] = q[i]
  OBVIOUS
<1>2. c \in Seq(R) /\ Len(c) = Len(q) - n /\ \A i \in 1 .. Len(q) - n : c[i] = q[n + i]
  OBVIOUS
<1> HIDE DEF a, c
<1>3. b \in Seq(R) /\ Len(b) = n + 1 /\ \A i \in 1 .. n + 1 : b[i] = IF i <= n THEN q[i] ELSE r
  BY <1>1
<1> HIDE DEF b
<1>4. b \o c \in Seq(R) /\ Len(b \o c) = Len(q) + 1
  <2>1. b \o c \in Seq(R) /\ Len(b \o c) = Len(b) + Len(c)
    BY <1>2, <1>3, BothIs
  <2>2. Len(b) + Len(c) = Len(q) + 1
    BY <1>2, <1>3
  <2> QED
    BY <2>1, <2>2
<1>5. \A i \in 1 .. Len(q) + 1 : (b \o c)[i] = IF i <= n + 1 THEN b[i] ELSE c[i - (n + 1)]
  BY <1>2, <1>3, BothIs
<1> DEFINE d == b \o c
<1>6. /\ d \in Seq(R) /\ Len(d) = Len(q) + 1
      /\ \A i \in 1 .. Len(q) + 1 : d[i] = IF i <= n + 1 THEN b[i] ELSE c[i - (n + 1)]
  BY <1>4, <1>5
<1> HIDE DEF d
<1>7. ASSUME NEW i \in 1 .. Len(q) + 1
      PROVE  d[i] = IF i <= n THEN q[i] ELSE IF i = n + 1 THEN r ELSE q[i - 1]
  <2>1. CASE i <= n + 1
    BY <1>3, <1>6, <2>1
  <2>2. CASE i > n + 1
    <3>1. i - (n + 1) \in 1 .. Len(q) - n /\ n + (i - (n + 1)) = i - 1
      BY <2>2
    <3>2. d[i] = c[i - (n + 1)]
      BY <1>6, <2>2
    <3>3. c[i - (n + 1)] = q[n + (i - (n + 1))]
      BY ONLY <1>2, <3>1
    <3>4. d[i] = q[i - 1]
      BY <3>1, <3>2, <3>3
    <3>5. ~(i <= n) /\ i # n + 1
      BY <2>2
    <3> QED
      BY ONLY <3>4, <3>5
  <2> QED
    BY <2>1, <2>2
<1>8. d = With(q, r, n)
  BY DEF a, b, c, d, With
<1> QED
  BY <1>6, <1>7, <1>8

LEMMA CutAt ==
  ASSUME NEW R, NEW q \in Seq(R), NEW n \in 0 .. Len(q)
  PROVE  /\ SubSeq(q, 1, n) \in Seq(R) /\ Len(SubSeq(q, 1, n)) = n
         /\ \A i \in 1 .. n : SubSeq(q, 1, n)[i] = q[i]
         /\ SubSeq(q, n + 1, Len(q)) \in Seq(R) /\ Len(SubSeq(q, n + 1, Len(q))) = Len(q) - n
         /\ \A i \in 1 .. Len(q) - n : SubSeq(q, n + 1, Len(q))[i] = q[i + n]
OBVIOUS

LEMMA RemovedAt ==
  ASSUME NEW R, NEW q \in Seq(R), NEW x \in 1 .. Len(q)
  PROVE  /\ RemoveAt(q, x) \in Seq(R) /\ Len(RemoveAt(q, x)) = Len(q) - 1
         /\ \A i \in 1 .. Len(q) - 1 : RemoveAt(q, x)[i] = IF i < x THEN q[i] ELSE q[i + 1]
<1> DEFINE a == SubSeq(q, 1, x - 1)
           c == SubSeq(q, x + 1, Len(q))
<1>1. a \in Seq(R) /\ Len(a) = x - 1 /\ \A i \in 1 .. x - 1 : a[i] = q[i]
  OBVIOUS
<1>2. c \in Seq(R) /\ Len(c) = Len(q) - x /\ \A i \in 1 .. Len(q) - x : c[i] = q[x + i]
  OBVIOUS
<1>3. RemoveAt(q, x) = a \o c
  BY DEF RemoveAt
<1> HIDE DEF a, c
<1>4. a \o c \in Seq(R) /\ Len(a \o c) = Len(q) - 1
  <2>1. a \o c \in Seq(R) /\ Len(a \o c) = Len(a) + Len(c)
    BY <1>1, <1>2, BothIs
  <2>2. Len(a) + Len(c) = Len(q) - 1
    BY <1>1, <1>2
  <2> QED
    BY <2>1, <2>2
<1>5. ASSUME NEW i \in 1 .. Len(q) - 1
      PROVE  (a \o c)[i] = IF i < x THEN q[i] ELSE q[i + 1]
  <2>1. CASE i < x
    BY <1>1, <1>2, <2>1
  <2>2. CASE ~(i < x)
    <3>1. i - (x - 1) \in 1 .. Len(q) - x /\ x + (i - (x - 1)) = i + 1
      BY <2>2
    <3>2. (a \o c)[i] = c[i - (x - 1)]
      BY <1>1, <1>2, <2>2
    <3> QED
      BY <1>2, <2>2, <3>1, <3>2
  <2> QED
    BY <2>1, <2>2
<1> QED
  BY <1>3, <1>4, <1>5
-----------------------------------------------------------------------------
(* Records in a sequence *)

LEMMA StampedIs ==
  ASSUME NEW n \in Nat
  PROVE  Stamped(n) \in Timestamps /\ Micros(Stamped(n)) = n
<1>1. n \div Second \in Nat /\ n % Second \in 0 .. Second - 1 /\ n = (n \div Second) * Second + (n % Second)
  BY DivMod, SecondAssumption
<1>2. Stamped(n).sec = n \div Second /\ Stamped(n).usec = n % Second
  BY DEF Stamped
<1>3. Stamped(n) \in Timestamps
  BY <1>1, SecondAssumption DEF Stamped, Timestamps
<1> QED
  BY <1>1, <1>2, <1>3 DEF Micros

LEMMA MicrosIsInt ==
  ASSUME NEW ts \in Timestamps
  PROVE  Micros(ts) \in Int
<1>1. ts.sec \in Int /\ ts.usec \in Int /\ Second \in Int
  BY SecondAssumption DEF Timestamps
<1> QED
  BY <1>1 DEF Micros

LEMMA RecordParts ==
  ASSUME NEW r \in Record
  PROVE  /\ r.ts \in Timestamps /\ r.at \in Nat /\ r.n \in Nat /\ r.chan \in Nat
         /\ r.cmd \in Commands
BY DEF Record

LEMMA ElementIs ==
  ASSUME NEW R, NEW q \in Seq(R), NEW i \in 1 .. Len(q)
  PROVE  q[i] \in R
OBVIOUS

Sorted(q) == \A i, j \in DOMAIN q : i <= j => Micros(q[i].ts) <= Micros(q[j].ts)

\* The records up to a moment: a number of them, the first ones of a sorted queue.
LEMMA UpToIs ==
  ASSUME NEW q \in Seq(Record), NEW ts \in Timestamps
  PROVE  /\ Cardinality(UpTo(q, ts)) \in 0 .. Len(q)
         /\ Sorted(q) => \A i \in 1 .. Len(q) :
                           i <= Cardinality(UpTo(q, ts)) <=> Micros(q[i].ts) <= Micros(ts)
<1>1. \A i \in 1 .. Len(q) : q[i].ts \in Timestamps /\ Micros(q[i].ts) \in Int
  BY MicrosIsInt, RecordParts, ElementIs
<1>2. \A i \in 1 .. Len(q) : i \in UpTo(q, ts) <=> Micros(q[i].ts) <= Micros(ts)
  <2>1. ASSUME NEW i \in 1 .. Len(q)
        PROVE  i \in UpTo(q, ts) <=> Micros(q[i].ts) <= Micros(ts)
    <3>1. Earlier(ts, q[i].ts) <=> Micros(ts) < Micros(q[i].ts)
      BY <1>1, EarlierIsEarlier
    <3>2. i \in UpTo(q, ts) <=> ~Earlier(ts, q[i].ts)
      BY DEF UpTo
    <3>3. Micros(ts) \in Int /\ Micros(q[i].ts) \in Int
      BY <1>1, MicrosIsInt
    <3> QED
      BY <3>1, <3>2, <3>3
  <2> QED
    BY <2>1
<1>3. UpTo(q, ts) \in SUBSET (1 .. Len(q)) /\ Len(q) \in Nat
  BY DEF UpTo
<1>4. Cardinality(UpTo(q, ts)) \in 0 .. Len(q)
  BY <1>3, CountOfPlaces
<1>5. ASSUME Sorted(q)
      PROVE  UpTo(q, ts) = 1 .. Cardinality(UpTo(q, ts))
  <2>1. ASSUME NEW i \in UpTo(q, ts), NEW j \in 1 .. Len(q), j <= i
        PROVE  j \in UpTo(q, ts)
    <3>1. Micros(q[j].ts) <= Micros(q[i].ts) /\ i \in 1 .. Len(q)
      BY <1>3, <1>5, <2>1 DEF Sorted
    <3>2. Micros(q[i].ts) <= Micros(ts) /\ Micros(ts) \in Int
      BY <1>2, <3>1, MicrosIsInt
    <3> QED
      BY <1>1, <1>2, <3>1, <3>2
  <2> QED
    BY <1>3, <2>1, DownwardIsInterval
<1> QED
  BY <1>2, <1>4, <1>5

\* multiset::insert keeps the records and their order, and puts the new one behind those
\* that are not later.
InsertedAs(z, q, r, n) ==
  /\ Len(z) = Len(q) + 1 /\ DOMAIN z = 1 .. Len(q) + 1
  /\ \A i \in 1 .. Len(q) + 1 :
       z[i] = IF i <= n THEN q[i] ELSE IF i = n + 1 THEN r ELSE q[i - 1]

LEMMA InsertedIs ==
  ASSUME NEW q \in Seq(Record), NEW r \in Record
  PROVE  /\ Inserted(q, r) \in Seq(Record)
         /\ \E n \in 0 .. Len(q) :
              /\ InsertedAs(Inserted(q, r), q, r, n)
              /\ Sorted(q) => \A i \in 1 .. Len(q) : i <= n <=> Micros(q[i].ts) <= Micros(r.ts)
<1> DEFINE n == Cardinality(UpTo(q, r.ts))
           z == Inserted(q, r)
<1>1. r.ts \in Timestamps
  BY RecordParts
<1>2. /\ n \in 0 .. Len(q)
      /\ Sorted(q) => \A i \in 1 .. Len(q) : i <= n <=> Micros(q[i].ts) <= Micros(r.ts)
  BY <1>1, UpToIs
<1>3. z = With(q, r, n)
  BY DEF Inserted, With
<1> HIDE DEF n, z
<1>4. /\ z \in Seq(Record) /\ Len(z) = Len(q) + 1
      /\ \A i \in 1 .. Len(q) + 1 : z[i] = IF i <= n THEN q[i] ELSE IF i = n + 1 THEN r ELSE q[i - 1]
  <2>1. n \in 0 .. Len(q)
    BY <1>2
  <2>2. /\ With(q, r, n) \in Seq(Record) /\ Len(With(q, r, n)) = Len(q) + 1
        /\ \A i \in 1 .. Len(q) + 1 :
             With(q, r, n)[i] = IF i <= n THEN q[i] ELSE IF i = n + 1 THEN r ELSE q[i - 1]
    <3> HIDE <1>3
    <3> QED
      BY ONLY <2>1, InsertedAt, q \in Seq(Record), r \in Record
  <2> QED
    BY <2>1, <2>2, <1>3
<1>5. InsertedAs(z, q, r, n)
  BY <1>4 DEF InsertedAs
<1> QED
  BY <1>2, <1>4, <1>5 DEF z

\* What the multiplexer cuts off and what it leaves.
CutAs(b, z, q, n) ==
  /\ Len(b) = n /\ DOMAIN b = 1 .. n /\ \A i \in 1 .. n : b[i] = q[i]
  /\ Len(z) = Len(q) - n /\ DOMAIN z = 1 .. Len(q) - n /\ \A i \in 1 .. Len(q) - n : z[i] = q[i + n]

LEMMA CutIs ==
  ASSUME NEW q \in Seq(Record), NEW ts \in Timestamps,
         NEW n, n = Cardinality(UpTo(q, ts))
  PROVE  /\ SubSeq(q, 1, n) \in Seq(Record) /\ Erased(q, n) \in Seq(Record) /\ n \in 0 .. Len(q)
         /\ CutAs(SubSeq(q, 1, n), Erased(q, n), q, n)
         /\ Sorted(q) => \A i \in 1 .. Len(q) : i <= n <=> Micros(q[i].ts) <= Micros(ts)
<1>1. /\ n \in 0 .. Len(q)
      /\ Sorted(q) => \A i \in 1 .. Len(q) : i <= n <=> Micros(q[i].ts) <= Micros(ts)
  BY UpToIs
<1>2. /\ SubSeq(q, 1, n) \in Seq(Record) /\ Len(SubSeq(q, 1, n)) = n
      /\ \A i \in 1 .. n : SubSeq(q, 1, n)[i] = q[i]
  BY <1>1, CutAt
<1>3. /\ SubSeq(q, n + 1, Len(q)) \in Seq(Record) /\ Len(SubSeq(q, n + 1, Len(q))) = Len(q) - n
      /\ \A i \in 1 .. Len(q) - n : SubSeq(q, n + 1, Len(q))[i] = q[i + n]
  BY <1>1, CutAt
<1> QED
  BY <1>1, <1>2, <1>3 DEF Erased, CutAs
-----------------------------------------------------------------------------
(* The types *)

Names == File \cup {NoFile, Default, "console"}
Pcs == {"idle", "wait", "stamp", "collect", "submit"}
Desk == [pc : Pcs, cut : Timestamps, batch : Seq(Record), next : Nat]
Task == [kind : {"mux"}] \cup [kind : {"write"}, sink : Sink, batch : Seq(Record)]
Job == [sink : Sink, batch : Seq(Record), i : Nat \ {0}]
Line == [rec : Record, file : Names]

ClockOK == now \in Nat
CaseOK == case \in Cases
LoggedOK == logged \in [Thread -> Nat] /\ \A t \in Thread : logged[t] <= Len(case.script[t])
StampedOK ==
  /\ stamped \in [Thread -> -1 .. MaxTime]
  /\ \A t \in Thread : stamped[t] <= now /\ (stamped[t] # -1 => logged[t] < Len(case.script[t]))
QueueOK == queue \in Seq(Record)
LockOK == lock \in Muxer \cup {"free"}
LifeOK == life \in {"running", "stopping", "stopped", "ended"}
TimerOK == timer \in BOOLEAN
ContinueOK == continue \in BOOLEAN
OverlapOK == overlap \in BOOLEAN
MuxOK == mux \in [Muxer -> Desk] /\ \A m \in Muxer : mux[m].pc = "submit" => mux[m].next >= 1
PoolOK == pool \in Seq(Task)
WritesOK == writes \in Seq(Job)
OutOK == out \in [Sink -> Seq(Line)]
FileOK == file \in [Sink -> Names]
SkippedOK == skipped \in [Sink -> SUBSET Record]

Typed ==
  /\ ClockOK /\ CaseOK /\ LoggedOK /\ StampedOK /\ QueueOK /\ LockOK /\ LifeOK
  /\ TimerOK /\ ContinueOK /\ OverlapOK /\ MuxOK /\ PoolOK /\ WritesOK /\ OutOK /\ FileOK /\ SkippedOK

LEMMA CaseParts ==
  ASSUME CaseOK
  PROVE  /\ case.sinks \in Seq(Sink) /\ \A x, y \in DOMAIN case.sinks : case.sinks[x] = case.sinks[y] => x = y
         /\ case.script \in [Thread -> Seq(Entry)]
BY LoggerAssumption DEF LoggerAssumption, CaseOK, IsInjective

LEMMA ChannelParts ==
  ASSUME NEW s \in Sink
  PROVE  Channel[s] \in Nat /\ s \notin Thread /\ "logger" \notin Thread /\ s # "logger"
BY LoggerAssumption DEF LoggerAssumption

LEMMA BoundParts == DelayMs \in Nat /\ MaxTime \in Nat /\ "free" \notin Muxer
BY LoggerAssumption DEF LoggerAssumption

LEMMA EntryParts ==
  ASSUME NEW e \in Entry
  PROVE  e.chan \in Nat \cup {Unknown} /\ e.cmd \in Commands /\ e.name \in File \cup {NoFile}
BY DEF Entry

LEMMA RecordMade ==
  ASSUME NEW src \in Thread \cup Sink \cup {"logger"}, NEW n \in Nat, NEW ts \in Timestamps,
         NEW at \in Nat, NEW chan \in Nat, NEW cmd \in Commands, NEW name \in File \cup {NoFile}
  PROVE  [src |-> src, n |-> n, ts |-> ts, at |-> at, chan |-> chan, cmd |-> cmd, name |-> name] \in Record
BY DEF Record

LEMMA NoticeIs ==
  ASSUME NEW src \in Sink \cup {"logger"}, NEW n \in Nat, NEW at \in Nat
  PROVE  /\ Notice(src, n, at) \in Record
         /\ Notice(src, n, at).src = src /\ Notice(src, n, at).n = n /\ Notice(src, n, at).at = at
         /\ Notice(src, n, at).chan = Internal /\ Notice(src, n, at).cmd = "message"
         /\ Micros(Notice(src, n, at).ts) = at
<1>1. at \in Nat
  BY BoundParts
<1>2. Stamped(at) \in Timestamps /\ Micros(Stamped(at)) = at
  BY <1>1, StampedIs
<1>3. Notice(src, n, at) \in Record
  <2>1. Internal \in Nat /\ "message" \in Commands /\ NoFile \in File \cup {NoFile}
    <3>1. Internal \in Nat
      BY DEF Internal
    <3>2. "message" \in Commands
      BY DEF Commands
    <3> QED
      BY <3>1, <3>2
  <2> QED
    BY <1>2, <2>1, RecordMade DEF Notice
<1> QED
  BY <1>2, <1>3 DEF Notice

\* What a thread pushes: the record of its next entry, or a warning in its place.
Pushes(t) ==
  LET e == case.script[t][logged[t] + 1]
  IN IF e.chan = Unknown THEN Notice("logger", 2, now)
     ELSE [src |-> t, n |-> logged[t] + 1, ts |-> Stamped(stamped[t]), at |-> now,
           chan |-> e.chan, cmd |-> e.cmd, name |-> e.name]

LEMMA PushedIs ==
  ASSUME Typed, NEW t \in Thread, stamped[t] # -1
  PROVE  /\ Pushes(t) \in Record /\ Micros(Pushes(t).ts) <= now /\ Pushes(t).at = now
         /\ logged[t] + 1 \in DOMAIN case.script[t]
         /\ LET e == case.script[t][logged[t] + 1]
            IN IF e.chan = Unknown THEN Pushes(t).src = "logger" /\ Pushes(t).cmd = "message"
               ELSE /\ Pushes(t).src = t /\ Pushes(t).n = logged[t] + 1
                    /\ Micros(Pushes(t).ts) = stamped[t]
                    /\ Pushes(t).chan = e.chan /\ Pushes(t).cmd = e.cmd /\ Pushes(t).name = e.name
<1> DEFINE e == case.script[t][logged[t] + 1]
<1>1. logged[t] \in Nat /\ logged[t] + 1 \in 1 .. Len(case.script[t]) /\ stamped[t] \in 0 .. MaxTime
      /\ stamped[t] <= now /\ now \in Nat
  BY CaseParts, BoundParts DEF Typed, LoggedOK, StampedOK, ClockOK
<1>2. case.script[t] \in Seq(Entry)
  BY CaseParts DEF Typed
<1>3. e.chan \in Nat \cup {Unknown} /\ e.cmd \in Commands /\ e.name \in File \cup {NoFile}
  BY <1>1, <1>2, ElementIs, EntryParts
<1>4. Stamped(stamped[t]) \in Timestamps /\ Micros(Stamped(stamped[t])) = stamped[t]
  BY <1>1, StampedIs
<1>5. logged[t] + 1 \in DOMAIN case.script[t]
  BY <1>1, <1>2
<1>6. CASE e.chan = Unknown
  <2>1. Pushes(t) = Notice("logger", 2, now)
    BY <1>6 DEF Pushes
  <2>2. "logger" \in Sink \cup {"logger"} /\ 2 \in Nat /\ now \in Nat
    BY <1>1, BoundParts
  <2>3. /\ Pushes(t) \in Record /\ Pushes(t).src = "logger" /\ Pushes(t).at = now
        /\ Pushes(t).cmd = "message" /\ Micros(Pushes(t).ts) = now
    <3>1. PICK a \in Nat : a = now
      BY <1>1
    <3> DEFINE w == Notice("logger", 2, a)
    <3>2. /\ w \in Record /\ w.src = "logger" /\ w.at = a
          /\ w.cmd = "message" /\ Micros(w.ts) = a
      <4>1. "logger" \in Sink \cup {"logger"} /\ 2 \in Nat
        OBVIOUS
      <4> QED
        BY ONLY <4>1, NoticeIs
    <3>3. Pushes(t) = w
      BY <2>1, <3>1
    <3> HIDE DEF w
    <3> QED
      BY <3>1, <3>2, <3>3
  <2> QED
    BY <1>1, <1>5, <1>6, <2>2, <2>3
<1>7. CASE e.chan # Unknown
  <2> DEFINE r == [src |-> t, n |-> logged[t] + 1, ts |-> Stamped(stamped[t]), at |-> now,
                   chan |-> e.chan, cmd |-> e.cmd, name |-> e.name]
  <2>1. Pushes(t) = r
    BY <1>7 DEF Pushes
  <2>2. r \in Record
    <3>1. /\ t \in Thread \cup Sink \cup {"logger"} /\ logged[t] + 1 \in Nat /\ e.chan \in Nat
          /\ now \in Nat
      BY <1>1, <1>3, <1>7
    <3> HIDE DEF e
    <3> QED
      BY ONLY <1>3, <1>4, <3>1, RecordMade
  <2>3. /\ r.src = t /\ r.n = logged[t] + 1 /\ r.ts = Stamped(stamped[t]) /\ r.at = now
        /\ r.chan = e.chan /\ r.cmd = e.cmd /\ r.name = e.name
    OBVIOUS
  <2> HIDE DEF r
  <2> QED
    BY <1>1, <1>4, <1>5, <1>7, <2>1, <2>2, <2>3
<1> QED
  BY <1>6, <1>7
-----------------------------------------------------------------------------
(* What stays true *)

\* Who holds records for the sink s: a multiplexer about to submit, a unit of the pool or
\* a Write; what it holds, and the first index it has not passed yet.
Holds(w, x, s) ==
  \/ w = "mux" /\ x \in Muxer /\ mux[x].pc = "submit"
     /\ \E z \in mux[x].next .. Len(case.sinks) : case.sinks[z] = s
  \/ w = "pool" /\ x \in DOMAIN pool /\ pool[x].kind = "write" /\ pool[x].sink = s
  \/ w = "write" /\ x \in DOMAIN writes /\ writes[x].sink = s
Held(w, x) == IF w = "mux" THEN mux[x].batch ELSE IF w = "pool" THEN pool[x].batch ELSE writes[x].batch
From(w, x) == IF w = "write" THEN writes[x].i ELSE 1

\* A record of a thread is what its script says and was stamped before it was pushed.
Good(r) ==
  /\ r \in Record /\ Micros(r.ts) <= r.at /\ r.at <= now
  /\ r.src \in Thread =>
       /\ r.n \in 1 .. logged[r.src]
       /\ r.chan = case.script[r.src][r.n].chan /\ r.cmd = case.script[r.src][r.n].cmd
       /\ r.name = case.script[r.src][r.n].name
  /\ r.src \notin Thread => r.cmd = "message"

\* The record b comes after a: by time stamp unless it is late, and by number.
Late(b) == b.at - Micros(b.ts) > DelayMs
Numbered(a, b) == (a.src = b.src /\ a.src \in Thread) => a.n < b.n
Precedes(a, b) == Micros(a.ts) <= Micros(b.ts) /\ Numbered(a, b)
Follows(b, a) == (Micros(a.ts) <= Micros(b.ts) \/ Late(b)) /\ Numbered(a, b)
InLine(q) == \A i, j \in DOMAIN q : i < j => Precedes(q[i], q[j])

\* The records that have left the queue: held for a sink, handled by it, or dropped.
Taken(r) ==
  \/ \E w, x, s : Holds(w, x, s) /\ \E i \in DOMAIN Held(w, x) : r = Held(w, x)[i]
  \/ \E s \in Sink : \E i \in DOMAIN out[s] : r = out[s][i].rec
  \/ \E s \in Sink : r \in skipped[s]

QueueInLine ==
  /\ InLine(queue)
  /\ \A j \in DOMAIN queue :
       /\ Good(queue[j])
       /\ queue[j].src \in Thread /\ stamped[queue[j].src] # -1
            => Micros(queue[j].ts) <= stamped[queue[j].src]
HeldInLine == \A w, x, s : Holds(w, x, s) => InLine(Held(w, x))
SinksUsed == \A w, x, s : Holds(w, x, s) => \E z \in 1 .. Len(case.sinks) : case.sinks[z] = s
TakenGood ==
  \A r : Taken(r) => /\ Good(r) /\ Micros(r.ts) <= now - DelayMs
                     /\ \A j \in DOMAIN queue : Follows(queue[j], r)
CutsPast == \A m \in Muxer : mux[m].pc = "collect" => Micros(mux[m].cut) <= now - DelayMs

\* One multiplexer is past the check, and the sinks are idle until it submits.
Past(m) == mux[m].pc \in {"stamp", "collect", "submit"}
Alone ==
  ~overlap => /\ \A m, o \in Muxer : Past(m) /\ Past(o) => m = o
              /\ \A m \in Muxer : mux[m].pc \in {"stamp", "collect"} =>
                   \A w, x, s : Holds(w, x, s) => w = "mux"
OneHolder == ~overlap => \A w, x, v, y, s : Holds(w, x, s) /\ Holds(v, y, s) => w = v /\ x = y
OutThenHeld ==
  ~overlap => \A w, x, s : Holds(w, x, s) =>
                \A i \in DOMAIN out[s] : \A k \in From(w, x) .. Len(Held(w, x)) :
                  Follows(Held(w, x)[k], out[s][i].rec)
OutInLine ==
  ~overlap => \A s \in Sink : \A i, j \in DOMAIN out[s] :
                i < j => Follows(out[s][j].rec, out[s][i].rec)

\* The place of the record n of a thread, for one sink.
QueueAt(x, t, n) == x \in DOMAIN queue /\ Is(queue[x], t, n)
HeldAt(w, x, y, s, t, n) == Holds(w, x, s) /\ y \in From(w, x) .. Len(Held(w, x)) /\ Is(Held(w, x)[y], t, n)
OutAt(x, s, t, n) == x \in DOMAIN out[s] /\ Is(out[s][x].rec, t, n)
At(w, x, y, s, t, n) ==
  \/ w = "queue" /\ y = 0 /\ QueueAt(x, t, n)
  \/ HeldAt(w, x, y, s, t, n)
  \/ w = "out" /\ y = 0 /\ OutAt(x, s, t, n)
  \/ w = "skip" /\ x = 0 /\ y = 0 /\ Skipped(s, t, n)
OnePlace(s, t, n) ==
  \E w, x, y : At(w, x, y, s, t, n) /\ \A v, z, u : At(v, z, u, s, t, n) => v = w /\ z = x /\ u = y
Placed == \A t \in Thread : \A n \in 1 .. logged[t] : \A s \in Concerned(t, n) : OnePlace(s, t, n)

\* The file of a sink is the one that the last change handled named.
Named(s, p, d) ==
  /\ out[s][p].rec.cmd = "change"
  /\ \A l \in p + 1 .. d : out[s][l].rec.cmd = "message"
FileKept ==
  \A s \in Sink \ Consoles : Channel[s] > Internal =>
    \A p \in DOMAIN out[s] : Named(s, p, Len(out[s])) => file[s] = out[s][p].rec.name
OwnFile ==
  \A s \in Sink \ Consoles : \A t \in Thread : \A i, j \in DOMAIN case.script[t] :
    (InFile(s, t, i, j) /\ ~overlap) =>
      \A d \in DOMAIN out[s] :
        (Is(out[s][d].rec, t, j) /\ out[s][d].file # case.script[t][i].name) =>
          \E k \in 1 .. d - 1 :
            ByAnother(s, t, i, k) /\ \A l \in k .. d - 1 : ~Is(out[s][l].rec, t, i)
DroppedByStop ==
  \A s \in Sink \ Consoles : \A t \in Thread : \A i, j \in DOMAIN case.script[t] :
    (InFile(s, t, i, j) /\ (Skipped(s, t, i) \/ Skipped(s, t, j))) =>
      \E k \in DOMAIN out[s] : ByAnother(s, t, i, k) /\ out[s][k].rec.cmd = "stop"
-----------------------------------------------------------------------------
(* Which steps change what *)

LEMMA Elsewhere ==
  ASSUME [Next]_vars
  PROVE  /\ case' = case
         /\ now' = now \/ Tick
         /\ queue' = queue \/ StopBegin \/ (\E t \in Thread : Push(t)) \/ (\E m \in Muxer : Collect(m))
              \/ (\E x \in DOMAIN writes : WriteChange(x) \/ WriteRefused(x))
         /\ lock' = lock \/ \E m \in Muxer : Collect(m) \/ Submit(m)
         /\ logged' = logged \/ \E t \in Thread : Push(t)
         /\ stamped' = stamped \/ \E t \in Thread : Stamp(t) \/ Push(t)
         /\ timer' = timer \/ TimerClock
         /\ UNCHANGED <<continue, life>> \/ StopBegin \/ StopEnd \/ PoolEnds
         /\ pool' = pool \/ TimerClock \/ StartWrite \/ \E m \in Muxer : StartMux(m) \/ Submit(m)
         /\ mux' = mux \/ \E m \in Muxer : StartMux(m) \/ Pass(m) \/ GiveUp(m) \/ Cut(m) \/ Collect(m) \/ Submit(m)
         /\ writes' = writes \/ StartWrite
              \/ \E x \in DOMAIN writes : WriteMessage(x) \/ WriteChange(x) \/ WriteStop(x) \/ WriteRefused(x) \/ WriteDone(x)
         /\ jobs' = jobs \/ (\E m \in Muxer : Submit(m)) \/ (\E x \in DOMAIN writes : WriteDone(x))
         /\ file' = file \/ \E x \in DOMAIN writes : WriteChange(x) \/ WriteStop(x)
         /\ out' = out \/ \E x \in DOMAIN writes : WriteMessage(x) \/ WriteChange(x) \/ WriteStop(x) \/ WriteRefused(x)
         /\ skipped' = skipped \/ \E x \in DOMAIN writes : WriteStop(x)
         /\ overlap' = overlap \/ \E m \in Muxer : Pass(m)
<1>1. CASE UNCHANGED vars
  BY <1>1 DEF vars
<1>2. CASE Tick
  BY <1>2 DEF Tick, producers, control, sinkState
<1>3. CASE TimerClock
  BY <1>3 DEF TimerClock, producers, sinkState
<1>4. CASE StartWrite
  BY <1>4 DEF StartWrite, producers, control
<1>5. CASE StopBegin
  BY <1>5 DEF StopBegin, producers, sinkState
<1>6. CASE StopEnd
  BY <1>6 DEF StopEnd, producers, sinkState
<1>19. CASE PoolEnds
  BY <1>19 DEF PoolEnds, producers, sinkState
<1>7. ASSUME NEW t \in Thread, Stamp(t) \/ Push(t)
      PROVE  /\ UNCHANGED <<case, now, lock, control, pool, mux, sinkState, overlap>>
             /\ UNCHANGED <<queue, logged>> \/ Push(t)
  BY <1>7 DEF Stamp, Push
<1>8. ASSUME NEW m \in Muxer, StartMux(m) \/ Pass(m) \/ GiveUp(m) \/ Cut(m)
      PROVE  /\ UNCHANGED <<now, queue, lock, producers, control, sinkState>>
             /\ pool' = pool \/ StartMux(m)
             /\ overlap' = overlap \/ Pass(m)
  BY <1>8 DEF StartMux, Pass, GiveUp, Cut
<1>9. ASSUME NEW m \in Muxer, Collect(m)
      PROVE  UNCHANGED <<now, producers, control, pool, sinkState, overlap>>
  BY <1>9 DEF Collect
<1>10. ASSUME NEW m \in Muxer, Submit(m)
       PROVE  UNCHANGED <<now, queue, producers, control, writes, file, out, skipped, overlap>>
  BY <1>10 DEF Submit
<1>11. ASSUME NEW x \in DOMAIN writes, WriteMessage(x) \/ WriteChange(x) \/ WriteStop(x) \/ WriteRefused(x)
       PROVE  /\ UNCHANGED <<now, lock, producers, control, pool, mux, jobs, overlap>>
              /\ queue' = queue \/ WriteChange(x) \/ WriteRefused(x)
              /\ file' = file \/ WriteChange(x) \/ WriteStop(x)
              /\ skipped' = skipped \/ WriteStop(x)
  BY <1>11 DEF WriteMessage, WriteChange, WriteStop, WriteRefused
<1>12. ASSUME NEW x \in DOMAIN writes, WriteDone(x)
       PROVE  UNCHANGED <<now, queue, lock, producers, control, pool, mux, file, out, skipped, overlap>>
  BY <1>12 DEF WriteDone
<1>13. CASE \E t \in Thread : Stamp(t) \/ Push(t)
  BY <1>13, <1>7 DEF control, sinkState
<1>14. CASE \E m \in Muxer : StartMux(m) \/ Pass(m) \/ GiveUp(m) \/ Cut(m)
  BY <1>14, <1>8 DEF producers, control, sinkState
<1>15. CASE \E m \in Muxer : Collect(m)
  BY <1>15, <1>9 DEF producers, control, sinkState
<1>16. CASE \E m \in Muxer : Submit(m)
  BY <1>16, <1>10 DEF producers, control
<1>17. CASE \E x \in DOMAIN writes : WriteMessage(x) \/ WriteChange(x) \/ WriteStop(x) \/ WriteRefused(x)
  BY <1>17, <1>11 DEF producers, control
<1>18. CASE \E x \in DOMAIN writes : WriteDone(x)
  BY <1>18, <1>12 DEF producers, control
<1> QED
  BY <1>1, <1>2, <1>3, <1>4, <1>5, <1>6, <1>13, <1>14, <1>15, <1>16, <1>17, <1>18, <1>19 DEF Next
-----------------------------------------------------------------------------
(* What the steps do *)

LEMMA WriteParts ==
  ASSUME WritesOK, NEW x \in DOMAIN writes
  PROVE  /\ x \in 1 .. Len(writes) /\ writes[x].sink \in Sink /\ writes[x].batch \in Seq(Record)
         /\ writes[x].i \in Nat \ {0} /\ DOMAIN writes = 1 .. Len(writes) /\ Len(writes) \in Nat
<1>1. x \in 1 .. Len(writes) /\ DOMAIN writes = 1 .. Len(writes) /\ Len(writes) \in Nat
  BY DEF WritesOK
<1>2. writes[x] \in Job
  BY <1>1, ElementIs DEF WritesOK
<1> QED
  BY <1>1, <1>2 DEF Job

LEMMA TaskParts ==
  ASSUME PoolOK, NEW i \in DOMAIN pool
  PROVE  /\ i \in 1 .. Len(pool) /\ pool[i].kind \in {"mux", "write"}
         /\ pool[i].kind = "write" => pool[i].sink \in Sink /\ pool[i].batch \in Seq(Record)
         /\ DOMAIN pool = 1 .. Len(pool) /\ Len(pool) \in Nat
<1>1. i \in 1 .. Len(pool) /\ DOMAIN pool = 1 .. Len(pool) /\ Len(pool) \in Nat
  BY DEF PoolOK
<1>2. pool[i] \in Task
  BY <1>1, ElementIs DEF PoolOK
<1> QED
  BY <1>1, <1>2 DEF Task

LEMMA DeskParts ==
  ASSUME MuxOK, NEW m \in Muxer
  PROVE  /\ mux[m] \in Desk /\ mux[m].pc \in Pcs /\ mux[m].cut \in Timestamps /\ mux[m].batch \in Seq(Record)
         /\ mux[m].next \in Nat
BY DEF MuxOK, Desk

\* The record that joins the queue: what a thread has stamped, or a notice of now.
NewRecord(r) ==
  /\ r \in Record /\ Micros(r.ts) <= now /\ r.at = now
  /\ r.src \in Thread =>
       /\ stamped[r.src] # -1 /\ Micros(r.ts) = stamped[r.src] /\ r.n = logged[r.src] + 1
       /\ logged' = [logged EXCEPT ![r.src] = @ + 1] /\ stamped' = [stamped EXCEPT ![r.src] = -1]
       /\ r.n \in DOMAIN case.script[r.src]
       /\ r.chan = case.script[r.src][r.n].chan /\ r.cmd = case.script[r.src][r.n].cmd
       /\ r.name = case.script[r.src][r.n].name
  /\ r.src \notin Thread => r.cmd = "message"

Joins(r, n) ==
  /\ n \in 0 .. Len(queue) /\ InsertedAs(queue', queue, r, n)
  /\ Sorted(queue) => \A i \in 1 .. Len(queue) : i <= n <=> Micros(queue[i].ts) <= Micros(r.ts)

LEMMA NoticeJoins ==
  ASSUME Typed, NEW src \in Sink \cup {"logger"}, NEW n \in Nat, queue' = Inserted(queue, Notice(src, n, now))
  PROVE  /\ queue' \in Seq(Record)
         /\ \E r : r.src = src /\ NewRecord(r) /\ \E k : Joins(r, k)
<1>1. PICK a \in Nat : a = now
  BY DEF Typed, ClockOK
<1> DEFINE w == Notice(src, n, a)
<1>2. /\ w \in Record /\ w.src = src /\ w.at = a /\ w.cmd = "message" /\ Micros(w.ts) = a
  BY NoticeIs
<1>3. queue' = Inserted(queue, w)
  BY <1>1
<1> HIDE DEF w
<1>4. queue \in Seq(Record)
  BY DEF Typed, QueueOK
<1>5. /\ queue' \in Seq(Record) /\ \E k : Joins(w, k)
  BY <1>2, <1>3, <1>4, InsertedIs DEF Joins
<1>6. src \notin Thread
  BY ChannelParts, LoggerAssumption DEF LoggerAssumption
<1>7. a \in Nat
  BY BoundParts
<1>8. NewRecord(w)
  BY <1>1, <1>2, <1>6, <1>7 DEF NewRecord
<1> QED
  BY <1>2, <1>5, <1>8

\* A push: one more entry of the script is logged, and its record or a notice joins.
LEMMA PushJoins ==
  ASSUME Typed, NEW t \in Thread, Push(t)
  PROVE  /\ queue' \in Seq(Record)
         /\ \E r : /\ NewRecord(r) /\ \E k : Joins(r, k)
                   /\ r.src = t \/ (r.src \notin Thread /\ case.script[t][logged[t] + 1].chan = Unknown)
         /\ stamped[t] # -1 /\ logged[t] + 1 \in DOMAIN case.script[t]
         /\ logged' = [logged EXCEPT ![t] = @ + 1] /\ stamped' = [stamped EXCEPT ![t] = -1]
<1>1. /\ stamped[t] # -1 /\ logged' = [logged EXCEPT ![t] = @ + 1]
      /\ stamped' = [stamped EXCEPT ![t] = -1]
  BY DEF Push
<1>2. queue' = Inserted(queue, Pushes(t))
  BY DEF Push, Pushes
<1>3. /\ Pushes(t) \in Record /\ Micros(Pushes(t).ts) <= now /\ Pushes(t).at = now
      /\ logged[t] + 1 \in DOMAIN case.script[t]
      /\ LET e == case.script[t][logged[t] + 1]
         IN IF e.chan = Unknown THEN Pushes(t).src = "logger" /\ Pushes(t).cmd = "message"
            ELSE /\ Pushes(t).src = t /\ Pushes(t).n = logged[t] + 1
                 /\ Micros(Pushes(t).ts) = stamped[t]
                 /\ Pushes(t).chan = e.chan /\ Pushes(t).cmd = e.cmd /\ Pushes(t).name = e.name
  BY <1>1, PushedIs
<1>4. PICK r \in Record : r = Pushes(t)
  BY <1>3
<1>5. queue \in Seq(Record)
  BY DEF Typed, QueueOK
<1>6. queue' = Inserted(queue, r)
  BY <1>2, <1>4
<1>7. queue' \in Seq(Record) /\ \E k : Joins(r, k)
  BY <1>5, <1>6, InsertedIs DEF Joins
<1>8. "logger" \notin Thread
  BY LoggerAssumption DEF LoggerAssumption
<1>9. NewRecord(r) /\ (r.src = t \/ (r.src \notin Thread /\ case.script[t][logged[t] + 1].chan = Unknown))
  <2>1. CASE case.script[t][logged[t] + 1].chan = Unknown
    BY <1>3, <1>4, <1>8, <2>1 DEF NewRecord
  <2>2. CASE case.script[t][logged[t] + 1].chan # Unknown
    BY <1>1, <1>3, <1>4, <2>2 DEF NewRecord
  <2> QED
    BY <2>1, <2>2
<1> QED
  BY <1>1, <1>3, <1>7, <1>9

LEMMA StopJoins ==
  ASSUME Typed, StopBegin
  PROVE  queue' \in Seq(Record) /\ \E r : r.src = "logger" /\ NewRecord(r) /\ \E k : Joins(r, k)
<1>1. queue' = Inserted(queue, Notice("logger", 1, now))
  BY DEF StopBegin
<1>2. "logger" \in Sink \cup {"logger"} /\ 1 \in Nat
  OBVIOUS
<1> QED
  BY ONLY Typed, <1>1, <1>2, NoticeJoins

LEMMA WriteJoins ==
  ASSUME Typed, NEW x \in DOMAIN writes, WriteChange(x) \/ WriteRefused(x)
  PROVE  queue' \in Seq(Record) /\ \E r : r.src \notin Thread /\ NewRecord(r) /\ \E k : Joins(r, k)
<1>1. queue' = Inserted(queue, Notice(writes[x].sink, Len(out[writes[x].sink]), now))
  BY DEF WriteChange, WriteRefused
<1>2. PICK s \in Sink : s = writes[x].sink
  BY WriteParts DEF Typed
<1>3. PICK n \in Nat : n = Len(out[s])
  BY DEF Typed, OutOK
<1>4. queue' = Inserted(queue, Notice(s, n, now))
  BY <1>1, <1>2, <1>3
<1>5. s \in Sink \cup {"logger"}
  OBVIOUS
<1>6. queue' \in Seq(Record) /\ \E r : r.src = s /\ NewRecord(r) /\ \E k : Joins(r, k)
  BY ONLY Typed, <1>4, <1>5, n \in Nat, NoticeJoins
<1> QED
  BY <1>6, ChannelParts

\* The multiplexer takes the records up to its cut, and holds them if a sink is there for one.
Cuts(m, b, n) ==
  /\ n \in 0 .. Len(queue) /\ b \in Seq(Record) /\ CutAs(b, queue', queue, n)
  /\ Sorted(queue) => \A i \in 1 .. Len(queue) : i <= n <=> Micros(queue[i].ts) <= Micros(mux[m].cut)
  /\ IF Ahead(1, b) = {} THEN mux' = [mux EXCEPT ![m] = Idle]
     ELSE mux' = [mux EXCEPT ![m] = [pc |-> "submit", cut |-> Stamped(0), batch |-> b, next |-> 1]]

LEMMA CollectCuts ==
  ASSUME Typed, NEW m \in Muxer, Collect(m)
  PROVE  mux[m].pc = "collect" /\ queue' \in Seq(Record) /\ \E b, n : Cuts(m, b, n)
<1>1. PICK ts \in Timestamps : ts = mux[m].cut
  BY DeskParts DEF Typed
<1>2. PICK n : n = Cardinality(UpTo(queue, ts))
  OBVIOUS
<1>3. PICK b : b = SubSeq(queue, 1, n)
  OBVIOUS
<1>4. /\ queue' = Erased(queue, n) /\ mux[m].pc = "collect"
      /\ IF Ahead(1, b) = {} THEN mux' = [mux EXCEPT ![m] = Idle]
         ELSE mux' = [mux EXCEPT ![m] = [pc |-> "submit", cut |-> Stamped(0), batch |-> b, next |-> 1]]
  BY <1>1, <1>2, <1>3 DEF Collect
<1>5. queue \in Seq(Record)
  BY DEF Typed, QueueOK
<1>6. /\ b \in Seq(Record) /\ Erased(queue, n) \in Seq(Record) /\ n \in 0 .. Len(queue)
      /\ CutAs(b, Erased(queue, n), queue, n)
      /\ Sorted(queue) => \A i \in 1 .. Len(queue) : i <= n <=> Micros(queue[i].ts) <= Micros(ts)
  BY <1>2, <1>3, <1>5, CutIs
<1>7. Cuts(m, b, n)
  BY <1>1, <1>4, <1>6 DEF Cuts
<1> QED
  BY <1>4, <1>6, <1>7

LEMMA AppendIs ==
  ASSUME NEW R, NEW q \in Seq(R), NEW e \in R
  PROVE  /\ Append(q, e) \in Seq(R) /\ Len(Append(q, e)) = Len(q) + 1
         /\ DOMAIN Append(q, e) = 1 .. Len(q) + 1 /\ Append(q, e)[Len(q) + 1] = e
         /\ \A i \in 1 .. Len(q) : Append(q, e)[i] = q[i]
OBVIOUS

LEMMA TailIs ==
  ASSUME NEW R, NEW q \in Seq(R), q # <<>>
  PROVE  /\ Tail(q) \in Seq(R) /\ Len(Tail(q)) = Len(q) - 1 /\ Len(q) >= 1
         /\ DOMAIN Tail(q) = 1 .. Len(q) - 1 /\ Head(q) = q[1] /\ q[1] \in R
         /\ \A i \in 1 .. Len(q) - 1 : Tail(q)[i] = q[i + 1]
OBVIOUS

\* The pool gets one more unit, or loses its first.
PoolGets(u) ==
  /\ Len(pool') = Len(pool) + 1 /\ DOMAIN pool' = 1 .. Len(pool) + 1
  /\ pool'[Len(pool) + 1] = u /\ \A i \in 1 .. Len(pool) : pool'[i] = pool[i]
PoolStarts ==
  /\ Len(pool) >= 1 /\ Len(pool') = Len(pool) - 1 /\ DOMAIN pool' = 1 .. Len(pool) - 1
  /\ \A i \in 1 .. Len(pool) - 1 : pool'[i] = pool[i + 1]

LEMMA TimerPool ==
  ASSUME Typed, TimerClock
  PROVE  pool' \in Seq(Task) /\ PoolGets([kind |-> "mux"])
<1>1. [kind |-> "mux"] \in Task /\ pool \in Seq(Task)
  BY DEF Task, Typed, PoolOK
<1>2. pool' = Append(pool, [kind |-> "mux"])
  BY DEF TimerClock
<1> QED
  BY <1>1, <1>2, AppendIs DEF PoolGets

LEMMA StartMuxPool ==
  ASSUME Typed, NEW m \in Muxer, StartMux(m)
  PROVE  /\ pool' \in Seq(Task) /\ PoolStarts /\ pool[1].kind = "mux"
         /\ mux[m].pc = "idle" /\ mux' = [mux EXCEPT ![m].pc = "wait"]
<1>1. pool \in Seq(Task) /\ pool # <<>> /\ pool' = Tail(pool) /\ Head(pool).kind = "mux"
  BY DEF Typed, PoolOK, StartMux
<1>2. mux[m].pc = "idle" /\ mux' = [mux EXCEPT ![m].pc = "wait"]
  BY DEF StartMux, Idle
<1> QED
  BY <1>1, <1>2, TailIs DEF PoolStarts

\* A unit of the pool becomes a Write.
LEMMA StartWritePool ==
  ASSUME Typed, StartWrite
  PROVE  /\ pool' \in Seq(Task) /\ PoolStarts /\ pool[1].kind = "write"
         /\ writes' \in Seq(Job) /\ Len(writes') = Len(writes) + 1 /\ DOMAIN writes' = 1 .. Len(writes) + 1
         /\ writes'[Len(writes) + 1] = [sink |-> pool[1].sink, batch |-> pool[1].batch, i |-> 1]
         /\ \A z \in 1 .. Len(writes) : writes'[z] = writes[z]
<1>1. pool \in Seq(Task) /\ pool # <<>> /\ pool' = Tail(pool) /\ Head(pool).kind = "write"
  BY DEF Typed, PoolOK, StartWrite
<1>2. pool' \in Seq(Task) /\ PoolStarts /\ Head(pool) = pool[1] /\ pool[1] \in Task
  BY <1>1, TailIs DEF PoolStarts
<1>3. pool[1].sink \in Sink /\ pool[1].batch \in Seq(Record)
  BY <1>1, <1>2 DEF Task
<1> DEFINE j == [sink |-> pool[1].sink, batch |-> pool[1].batch, i |-> 1]
<1>4. j \in Job
  BY <1>3 DEF Job
<1>5. writes' = Append(writes, j) /\ writes \in Seq(Job)
  BY <1>2 DEF StartWrite, Typed, WritesOK
<1> HIDE DEF j
<1>6. /\ writes' \in Seq(Job) /\ Len(writes') = Len(writes) + 1 /\ DOMAIN writes' = 1 .. Len(writes) + 1
      /\ writes'[Len(writes) + 1] = j /\ \A z \in 1 .. Len(writes) : writes'[z] = writes[z]
  BY <1>4, <1>5, AppendIs
<1> QED
  BY <1>1, <1>2, <1>6 DEF j

\* One sink of the batch is submitted: the first that is left.
Submits(m, x) ==
  /\ x \in Ahead(mux[m].next, mux[m].batch) /\ \A y \in Ahead(mux[m].next, mux[m].batch) : x <= y
  /\ x \in DOMAIN case.sinks /\ case.sinks[x] \in Sink
  /\ PoolGets([kind |-> "write", sink |-> case.sinks[x], batch |-> mux[m].batch])
  /\ IF Ahead(x + 1, mux[m].batch) = {} THEN mux' = [mux EXCEPT ![m] = Idle]
     ELSE mux' = [mux EXCEPT ![m].next = x + 1]

LEMMA SubmitPool ==
  ASSUME Typed, NEW m \in Muxer, Submit(m)
  PROVE  pool' \in Seq(Task) /\ mux[m].pc = "submit" /\ jobs' = jobs + 1 /\ \E x : Submits(m, x)
<1>1. PICK x \in Ahead(mux[m].next, mux[m].batch) :
        /\ \A y \in Ahead(mux[m].next, mux[m].batch) : x <= y
        /\ pool' = Append(pool, [kind |-> "write", sink |-> case.sinks[x], batch |-> mux[m].batch])
        /\ IF Ahead(x + 1, mux[m].batch) = {} THEN mux' = [mux EXCEPT ![m] = Idle]
           ELSE mux' = [mux EXCEPT ![m].next = x + 1]
  BY DEF Submit
<1>2. mux[m].pc = "submit" /\ mux[m].next >= 1 /\ mux[m].next \in Nat /\ mux[m].batch \in Seq(Record)
  BY DeskParts DEF Submit, Typed, MuxOK
<1>3. x \in 1 .. Len(case.sinks) /\ case.sinks \in Seq(Sink)
  BY <1>1, <1>2, CaseParts DEF Ahead, Typed
<1>4. x \in DOMAIN case.sinks /\ case.sinks[x] \in Sink
  BY <1>3, ElementIs
<1> DEFINE u == [kind |-> "write", sink |-> case.sinks[x], batch |-> mux[m].batch]
<1>5. u \in Task /\ pool \in Seq(Task)
  BY <1>2, <1>4 DEF Task, Typed, PoolOK
<1>6. pool' = Append(pool, u)
  BY <1>1
<1> HIDE DEF u
<1>7. pool' \in Seq(Task) /\ PoolGets(u)
  BY <1>5, <1>6, AppendIs DEF PoolGets
<1>8. jobs' = jobs + 1
  BY DEF Submit
<1>9. Submits(m, x)
  BY <1>1, <1>4, <1>7 DEF Submits, u
<1> QED
  BY <1>2, <1>7, <1>8, <1>9

\* A Write handles the first record that is left for its sink and goes on behind j; what it
\* passes without looking at is dropped.
Passes(x, k, j) ==
  /\ k \in writes[x].i .. Len(writes[x].batch) /\ j \in k .. Len(writes[x].batch)
  /\ writes[x].batch[k].chan = Channel[writes[x].sink]
  /\ \A l \in writes[x].i .. k - 1 : writes[x].batch[l].chan # Channel[writes[x].sink]
  /\ Len(writes') = Len(writes) /\ DOMAIN writes' = DOMAIN writes
  /\ \A z \in DOMAIN writes : /\ writes'[z].sink = writes[z].sink /\ writes'[z].batch = writes[z].batch
                              /\ writes'[z].i = IF z = x THEN j + 1 ELSE writes[z].i
Shows(x, k, f) ==
  LET s == writes[x].sink
  IN /\ \A r \in Sink \ {s} : out'[r] = out[r]
     /\ Len(out'[s]) = Len(out[s]) + 1 /\ DOMAIN out'[s] = 1 .. Len(out[s]) + 1
     /\ out'[s][Len(out[s]) + 1] = [rec |-> writes[x].batch[k], file |-> f]
     /\ \A i \in 1 .. Len(out[s]) : out'[s][i] = out[s][i]
Drops(x, k, j) ==
  LET s == writes[x].sink
  IN /\ \A r \in Sink \ {s} : skipped'[r] = skipped[r]
     /\ \A r : r \in skipped'[s] <=> \/ r \in skipped[s]
                                     \/ \E l \in k + 1 .. j : /\ writes[x].batch[l].chan = Channel[s]
                                                              /\ r = writes[x].batch[l]
Obeys(x, k, j, f) ==
  LET s == writes[x].sink
      r == writes[x].batch[k]
  IN /\ j # k => r.cmd = "stop"
     /\ \A z \in Sink \ {s} : file'[z] = file[z]
     /\ (s \notin Consoles /\ Channel[s] > Internal) =>
          /\ r.cmd = "message" => f = file[s] /\ file'[s] = file[s]
          /\ r.cmd = "change" => f = r.name /\ file'[s] = r.name

LEMMA FirstIs ==
  ASSUME NEW w, w.i \in Nat, w.batch \in Seq(Record), NEW k, First(w, k)
  PROVE  /\ k \in w.i .. Len(w.batch) /\ w.batch[k].chan = Channel[w.sink]
         /\ \A l \in w.i .. k - 1 : w.batch[l].chan # Channel[w.sink]
<1>1. k \in Mine(w) /\ \A l \in Mine(w) : k <= l
  BY DEF First
<1>2. k \in w.i .. Len(w.batch) /\ w.batch[k].chan = Channel[w.sink]
  BY <1>1 DEF Mine
<1>3. ASSUME NEW l \in w.i .. k - 1
      PROVE  w.batch[l].chan # Channel[w.sink]
  <2>1. l \in w.i .. Len(w.batch) /\ ~(k <= l)
    BY <1>2
  <2> QED
    BY <1>1, <2>1 DEF Mine
<1> QED
  BY <1>2, <1>3

LEMMA PassesIs ==
  ASSUME Typed, NEW x \in DOMAIN writes, NEW k, First(writes[x], k), NEW j \in {k, Len(writes[x].batch)}, GoesOn(x, j)
  PROVE  Passes(x, k, j) /\ writes' \in Seq(Job)
<1>1. /\ x \in 1 .. Len(writes) /\ writes[x].sink \in Sink /\ writes[x].batch \in Seq(Record)
      /\ writes[x].i \in Nat \ {0}
  BY WriteParts DEF Typed
<1>2. /\ k \in writes[x].i .. Len(writes[x].batch) /\ writes[x].batch[k].chan = Channel[writes[x].sink]
      /\ \A l \in writes[x].i .. k - 1 : writes[x].batch[l].chan # Channel[writes[x].sink]
  BY <1>1, FirstIs
<1>3. j \in k .. Len(writes[x].batch) /\ j \in Nat
  BY <1>1, <1>2
<1>4. writes \in Seq(Job)
  BY DEF Typed, WritesOK
<1>5. writes[x] \in Job
  BY <1>1, <1>4, ElementIs
<1> DEFINE w == [writes[x] EXCEPT !.i = j + 1]
<1>6. w \in Job /\ w.sink = writes[x].sink /\ w.batch = writes[x].batch /\ w.i = j + 1
  BY <1>3, <1>5 DEF Job
<1>7. writes' = [writes EXCEPT ![x] = w]
  BY DEF GoesOn
<1> HIDE DEF w
<1>8. /\ writes' \in Seq(Job) /\ Len(writes') = Len(writes) /\ DOMAIN writes' = DOMAIN writes
      /\ writes'[x] = w /\ \A z \in DOMAIN writes : z # x => writes'[z] = writes[z]
  BY <1>1, <1>4, <1>6, <1>7
<1> QED
  BY <1>1, <1>2, <1>3, <1>6, <1>8 DEF Passes

LEMMA ShowsIs ==
  ASSUME Typed, NEW x \in DOMAIN writes, NEW k \in DOMAIN writes[x].batch, NEW f \in Names, Handled(x, k, f)
  PROVE  Shows(x, k, f) /\ out' \in [Sink -> Seq(Line)]
<1>1. PICK s \in Sink : s = writes[x].sink
  BY WriteParts DEF Typed
<1>2. writes[x].batch[k] \in Record
  BY WriteParts, ElementIs DEF Typed
<1> DEFINE e == [rec |-> writes[x].batch[k], file |-> f]
<1>3. e \in Line
  BY <1>2 DEF Line
<1>4. out \in [Sink -> Seq(Line)] /\ out[s] \in Seq(Line)
  BY DEF Typed, OutOK
<1>5. out' = [out EXCEPT ![s] = Append(@, e)]
  BY <1>1 DEF Handled
<1> HIDE DEF e
<1>6. out' \in [Sink -> Seq(Line)] /\ out'[s] = Append(out[s], e) /\ \A r \in Sink \ {s} : out'[r] = out[r]
  BY <1>3, <1>4, <1>5
<1>7. /\ Len(out'[s]) = Len(out[s]) + 1 /\ DOMAIN out'[s] = 1 .. Len(out[s]) + 1
      /\ out'[s][Len(out[s]) + 1] = e
      /\ \A i \in 1 .. Len(out[s]) : out'[s][i] = out[s][i]
  BY <1>3, <1>4, <1>6, AppendIs
<1> QED
  BY <1>1, <1>6, <1>7 DEF Shows, e

LEMMA FileKnown ==
  ASSUME Typed, NEW s \in Sink
  PROVE  file[s] \in Names /\ "console" \in Names /\ NoFile \in Names
BY DEF Typed, FileOK, Names

LEMMA NameKnown ==
  ASSUME Typed, NEW x \in DOMAIN writes, NEW k \in DOMAIN writes[x].batch
  PROVE  writes[x].batch[k] \in Record /\ writes[x].batch[k].name \in Names
<1>1. writes[x].batch[k] \in Record
  BY WriteParts, ElementIs DEF Typed
<1>2. writes[x].batch[k].name \in File \cup {NoFile}
  BY <1>1 DEF Record
<1> QED
  BY <1>1, <1>2 DEF Names

\* What every command of a Write does.
WriteHandles(x) ==
  \E k, j, f : Passes(x, k, j) /\ Shows(x, k, f) /\ Drops(x, k, j) /\ Obeys(x, k, j, f)
HandledTypes ==
  writes' \in Seq(Job) /\ out' \in [Sink -> Seq(Line)] /\ file' \in [Sink -> Names]
  /\ skipped' \in [Sink -> SUBSET Record]

\* Nothing is dropped when the Write goes on behind the record.
LEMMA DropsNone ==
  ASSUME NEW x, NEW k \in Nat, skipped' = skipped
  PROVE  Drops(x, k, k)
BY DEF Drops

LEMMA MessageHandles ==
  ASSUME Typed, NEW x \in DOMAIN writes, WriteMessage(x)
  PROVE  WriteHandles(x) /\ HandledTypes
<1>1. PICK k \in DOMAIN writes[x].batch :
        /\ First(writes[x], k) /\ (writes[x].batch[k].cmd = "message" \/ writes[x].sink \in Consoles)
        /\ Handled(x, k, IF writes[x].sink \in Consoles THEN "console" ELSE file[writes[x].sink])
        /\ GoesOn(x, k)
  BY DEF WriteMessage
<1>2. file' = file /\ skipped' = skipped
  BY DEF WriteMessage
<1>3. PICK s \in Sink : s = writes[x].sink
  BY WriteParts DEF Typed
<1>4. PICK f \in Names : f = IF s \in Consoles THEN "console" ELSE file[s]
  BY FileKnown
<1>5. Shows(x, k, f) /\ out' \in [Sink -> Seq(Line)]
  BY <1>1, <1>3, <1>4, ShowsIs
<1>6. Passes(x, k, k) /\ writes' \in Seq(Job)
  BY <1>1, PassesIs
<1>7. k \in Nat
  BY WriteParts DEF Typed
<1>8. Drops(x, k, k)
  BY <1>2, <1>7, DropsNone
<1>9. Obeys(x, k, k, f)
  BY <1>1, <1>2, <1>3, <1>4 DEF Obeys
<1>10. HandledTypes
  BY <1>2, <1>5, <1>6 DEF HandledTypes, Typed, FileOK, SkippedOK
<1> QED
  BY <1>5, <1>6, <1>8, <1>9, <1>10 DEF WriteHandles

LEMMA ChangeHandles ==
  ASSUME Typed, NEW x \in DOMAIN writes, WriteChange(x)
  PROVE  WriteHandles(x) /\ HandledTypes
<1>1. PICK k \in DOMAIN writes[x].batch :
        /\ First(writes[x], k) /\ writes[x].batch[k].cmd = "change"
        /\ file' = [file EXCEPT ![writes[x].sink] = writes[x].batch[k].name]
        /\ Handled(x, k, writes[x].batch[k].name)
        /\ GoesOn(x, k)
  BY DEF WriteChange
<1>2. skipped' = skipped
  BY DEF WriteChange
<1>3. PICK s \in Sink : s = writes[x].sink
  BY WriteParts DEF Typed
<1>4. PICK f \in Names : f = writes[x].batch[k].name
  BY NameKnown
<1>5. Shows(x, k, f) /\ out' \in [Sink -> Seq(Line)]
  BY <1>1, <1>4, ShowsIs
<1>6. Passes(x, k, k) /\ writes' \in Seq(Job)
  BY <1>1, PassesIs
<1>7. k \in Nat
  BY WriteParts DEF Typed
<1>8. Drops(x, k, k)
  BY <1>2, <1>7, DropsNone
<1>9. file \in [Sink -> Names]
  BY DEF Typed, FileOK
<1>10. file' \in [Sink -> Names] /\ file'[s] = f /\ \A z \in Sink \ {s} : file'[z] = file[z]
  BY <1>1, <1>3, <1>4, <1>9
<1>11. Obeys(x, k, k, f)
  BY <1>1, <1>3, <1>4, <1>10 DEF Obeys
<1>12. HandledTypes
  BY <1>2, <1>5, <1>6, <1>10 DEF HandledTypes, Typed, SkippedOK
<1> QED
  BY <1>5, <1>6, <1>8, <1>11, <1>12 DEF WriteHandles

LEMMA RefusedHandles ==
  ASSUME Typed, NEW x \in DOMAIN writes, WriteRefused(x)
  PROVE  WriteHandles(x) /\ HandledTypes
<1>1. PICK k \in DOMAIN writes[x].batch :
        First(writes[x], k) /\ Handled(x, k, file[writes[x].sink]) /\ GoesOn(x, k)
  BY DEF WriteRefused
<1>2. file' = file /\ skipped' = skipped /\ Channel[writes[x].sink] = Internal
  BY DEF WriteRefused
<1>3. PICK s \in Sink : s = writes[x].sink
  BY WriteParts DEF Typed
<1>4. PICK f \in Names : f = file[s]
  BY FileKnown
<1>5. Shows(x, k, f) /\ out' \in [Sink -> Seq(Line)]
  BY <1>1, <1>3, <1>4, ShowsIs
<1>6. Passes(x, k, k) /\ writes' \in Seq(Job)
  BY <1>1, PassesIs
<1>7. k \in Nat
  BY WriteParts DEF Typed
<1>8. Drops(x, k, k)
  BY <1>2, <1>7, DropsNone
<1>9. Obeys(x, k, k, f)
  BY <1>2, <1>3, <1>4 DEF Obeys, Internal
<1>10. HandledTypes
  BY <1>2, <1>5, <1>6 DEF HandledTypes, Typed, FileOK, SkippedOK
<1> QED
  BY <1>5, <1>6, <1>8, <1>9, <1>10 DEF WriteHandles

LEMMA StopHandles ==
  ASSUME Typed, NEW x \in DOMAIN writes, WriteStop(x)
  PROVE  WriteHandles(x) /\ HandledTypes
<1> DEFINE b == writes[x].batch
<1>1. PICK k \in DOMAIN b :
        /\ First(writes[x], k) /\ b[k].cmd = "stop"
        /\ file' = [file EXCEPT ![writes[x].sink] = NoFile]
        /\ Handled(x, k, NoFile)
        /\ skipped' = [skipped EXCEPT ![writes[x].sink] = @ \cup {b[l] : l \in Mine(writes[x]) \ {k}}]
        /\ GoesOn(x, Len(b))
  BY DEF WriteStop
<1>2. PICK s \in Sink : s = writes[x].sink
  BY WriteParts DEF Typed
<1>3. NoFile \in Names
  BY FileKnown, <1>2
<1>4. Shows(x, k, NoFile) /\ out' \in [Sink -> Seq(Line)]
  BY <1>1, <1>3, ShowsIs
<1>5. Passes(x, k, Len(b)) /\ writes' \in Seq(Job)
  BY <1>1, PassesIs
<1>6. b \in Seq(Record) /\ writes[x].i \in Nat \ {0}
  BY WriteParts DEF Typed
<1>7. /\ k \in writes[x].i .. Len(b)
      /\ \A l \in writes[x].i .. k - 1 : b[l].chan # Channel[s]
  BY <1>2, <1>5 DEF Passes
<1>8. Mine(writes[x]) = {l \in writes[x].i .. Len(b) : b[l].chan = Channel[s]}
  BY <1>2 DEF Mine
<1> HIDE DEF b
<1>9. \A l : l \in Mine(writes[x]) \ {k} <=> l \in k + 1 .. Len(b) /\ b[l].chan = Channel[s]
  <2>1. ASSUME NEW l \in Mine(writes[x]) \ {k}
        PROVE  l \in k + 1 .. Len(b) /\ b[l].chan = Channel[s]
    <3>1. l \in writes[x].i .. Len(b) /\ b[l].chan = Channel[s] /\ l # k
      BY <1>8
    <3>2. l \notin writes[x].i .. k - 1
      BY <1>7, <3>1
    <3> QED
      BY <1>6, <1>7, <3>1, <3>2
  <2>2. ASSUME NEW l \in k + 1 .. Len(b), b[l].chan = Channel[s]
        PROVE  l \in Mine(writes[x]) \ {k}
    <3>1. l \in writes[x].i .. Len(b) /\ l # k
      BY <1>6, <1>7
    <3> QED
      BY <1>8, <2>2, <3>1
  <2> QED
    BY <2>1, <2>2
<1>10. skipped \in [Sink -> SUBSET Record]
  BY DEF Typed, SkippedOK
<1>11. skipped' = [skipped EXCEPT ![s] = @ \cup {b[l] : l \in Mine(writes[x]) \ {k}}]
  BY <1>1, <1>2
<1>12. {b[l] : l \in Mine(writes[x]) \ {k}} \subseteq Record
  <2>1. ASSUME NEW l \in Mine(writes[x]) \ {k}
        PROVE  b[l] \in Record
    <3>1. l \in 1 .. Len(b)
      BY <1>6, <1>7, <1>9
    <3> QED
      BY <1>6, <3>1, ElementIs
  <2> QED
    BY <2>1
<1>13. skipped' \in [Sink -> SUBSET Record] /\ \A r \in Sink \ {s} : skipped'[r] = skipped[r]
  BY <1>10, <1>11, <1>12
<1>14. \A r : r \in skipped'[s] <=> r \in skipped[s] \/ \E l \in k + 1 .. Len(b) : b[l].chan = Channel[s] /\ r = b[l]
  <2>1. skipped'[s] = skipped[s] \cup {b[l] : l \in Mine(writes[x]) \ {k}}
    BY <1>10, <1>11
  <2> QED
    BY <2>1, <1>9
<1>15. Drops(x, k, Len(b))
  BY <1>2, <1>13, <1>14 DEF Drops, b
<1>16. file \in [Sink -> Names]
  BY DEF Typed, FileOK
<1>17. file' \in [Sink -> Names] /\ \A z \in Sink \ {s} : file'[z] = file[z]
  BY <1>1, <1>2, <1>3, <1>16
<1>18. Obeys(x, k, Len(b), NoFile)
  BY <1>1, <1>2, <1>17 DEF Obeys, b
<1>19. HandledTypes
  BY <1>4, <1>5, <1>13, <1>17 DEF HandledTypes
<1> QED
  BY <1>4, <1>5, <1>15, <1>18, <1>19 DEF WriteHandles, b

LEMMA EveryWriteHandles ==
  ASSUME Typed, NEW x \in DOMAIN writes, WriteMessage(x) \/ WriteChange(x) \/ WriteStop(x) \/ WriteRefused(x)
  PROVE  WriteHandles(x) /\ HandledTypes
BY MessageHandles, ChangeHandles, StopHandles, RefusedHandles

\* A Write that ends leaves the others as they were.
Ends(x) ==
  /\ \A k \in writes[x].i .. Len(writes[x].batch) : writes[x].batch[k].chan # Channel[writes[x].sink]
  /\ Len(writes') = Len(writes) - 1 /\ DOMAIN writes' = 1 .. Len(writes) - 1
  /\ \A z \in 1 .. Len(writes) - 1 : writes'[z] = IF z < x THEN writes[z] ELSE writes[z + 1]

LEMMA DoneEnds ==
  ASSUME Typed, NEW x \in DOMAIN writes, WriteDone(x)
  PROVE  Ends(x) /\ writes' \in Seq(Job) /\ jobs' = jobs - 1
<1>1. Mine(writes[x]) = {} /\ writes' = RemoveAt(writes, x) /\ jobs' = jobs - 1
  BY DEF WriteDone
<1>2. x \in 1 .. Len(writes) /\ writes \in Seq(Job)
  BY WriteParts DEF Typed, WritesOK
<1>3. /\ writes' \in Seq(Job) /\ Len(writes') = Len(writes) - 1
      /\ \A z \in 1 .. Len(writes) - 1 : writes'[z] = IF z < x THEN writes[z] ELSE writes[z + 1]
  BY <1>1, <1>2, RemovedAt
<1>4. DOMAIN writes' = 1 .. Len(writes) - 1
  BY <1>3
<1>5. \A k \in writes[x].i .. Len(writes[x].batch) : writes[x].batch[k].chan # Channel[writes[x].sink]
  BY <1>1 DEF Mine
<1> QED
  BY <1>1, <1>3, <1>4, <1>5 DEF Ends
-----------------------------------------------------------------------------
(* The types stay *)

LEMMA InitTyped ==
  ASSUME Init
  PROVE  Typed
<1>1. /\ case \in Cases /\ now = 0 /\ queue = <<Notice("logger", 0, 0)>> /\ lock = "free"
      /\ logged = [t \in Thread |-> 0] /\ stamped = [t \in Thread |-> -1]
      /\ timer = TRUE /\ continue = TRUE /\ life = "running" /\ pool = <<>> /\ mux = [m \in Muxer |-> Idle]
      /\ writes = <<>> /\ file = [s \in Sink |-> StartName(s)]
      /\ out = [s \in Sink |-> <<>>] /\ skipped = [s \in Sink |-> {}] /\ overlap = FALSE
  BY DEF Init
<1>2. CaseOK
  BY <1>1 DEF CaseOK
<1>3. ClockOK
  BY <1>1, BoundParts DEF ClockOK
<1>4. LoggedOK
  <2>1. \A t \in Thread : case.script[t] \in Seq(Entry)
    BY <1>2, CaseParts
  <2> QED
    BY <1>1, <2>1 DEF LoggedOK
<1>5. StampedOK
  BY <1>1, BoundParts DEF StampedOK
<1>6. QueueOK
  <2>1. "logger" \in Sink \cup {"logger"} /\ 0 \in Nat
    BY BoundParts
  <2>2. Notice("logger", 0, 0) \in Record
    BY ONLY <2>1, NoticeIs
  <2> QED
    BY <1>1, <2>2 DEF QueueOK
<1>7. LockOK /\ LifeOK
  BY <1>1 DEF LockOK, LifeOK
<1>8. TimerOK
  BY <1>1 DEF TimerOK
<1>9. ContinueOK
  BY <1>1 DEF ContinueOK
<1>10. OverlapOK
  BY <1>1 DEF OverlapOK
<1>11. MuxOK
  <2>1. Stamped(0) \in Timestamps
    BY StampedIs
  <2>2. Idle \in Desk /\ Idle.pc = "idle"
    BY <2>1 DEF Idle, Desk, Pcs
  <2> QED
    BY <1>1, <2>2 DEF MuxOK
<1>12. PoolOK /\ WritesOK
  BY <1>1 DEF PoolOK, WritesOK
<1>13. OutOK /\ SkippedOK
  BY <1>1 DEF OutOK, SkippedOK
<1>14. FileOK
  BY <1>1 DEF FileOK, StartName, Names
<1> QED
  BY <1>2, <1>3, <1>4, <1>5, <1>6, <1>7, <1>8, <1>9, <1>10, <1>11, <1>12, <1>13, <1>14 DEF Typed

LEMMA IdleIs == Idle \in Desk /\ Idle.pc = "idle"
<1>1. Stamped(0) \in Timestamps
  BY StampedIs
<1> QED
  BY <1>1 DEF Idle, Desk, Pcs

\* The clock, and what a thread has logged and stamped.
LEMMA ClockStays ==
  ASSUME Typed, [Next]_vars
  PROVE  /\ ClockOK' /\ CaseOK' /\ case' = case /\ now' \in Nat /\ now' >= now
<1>1. case' = case /\ (now' = now \/ Tick)
  BY Elsewhere
<1>2. now \in Nat /\ MaxTime \in Nat /\ case \in Cases
  BY BoundParts DEF Typed, ClockOK, CaseOK
<1>3. CASE now' = now
  BY <1>1, <1>2, <1>3 DEF ClockOK, CaseOK
<1>4. CASE Tick
  BY <1>1, <1>2, <1>4 DEF ClockOK, CaseOK, Tick
<1> QED
  BY <1>1, <1>3, <1>4

LEMMA LoggedStays ==
  ASSUME Typed, [Next]_vars
  PROVE  LoggedOK' /\ \A t \in Thread : logged'[t] >= logged[t]
<1>1. case' = case /\ (logged' = logged \/ \E t \in Thread : Push(t))
  BY Elsewhere
<1>2. LoggedOK
  BY DEF Typed
<1>3. CASE logged' = logged
  BY <1>1, <1>2, <1>3 DEF LoggedOK
<1>4. ASSUME NEW t \in Thread, Push(t)
      PROVE  LoggedOK' /\ \A u \in Thread : logged'[u] >= logged[u]
  <2>1. logged' = [logged EXCEPT ![t] = @ + 1] /\ logged[t] + 1 \in DOMAIN case.script[t]
    BY <1>4, PushJoins
  <2>2. case.script[t] \in Seq(Entry)
    BY CaseParts DEF Typed
  <2>3. logged[t] + 1 <= Len(case.script[t])
    BY <2>1, <2>2
  <2> QED
    BY <1>1, <1>2, <2>1, <2>3 DEF LoggedOK
<1> QED
  BY <1>1, <1>3, <1>4

LEMMA StampedStays ==
  ASSUME Typed, [Next]_vars
  PROVE  StampedOK'
<1>1. /\ case' = case /\ (stamped' = stamped \/ \E t \in Thread : Stamp(t) \/ Push(t))
      /\ (logged' = logged \/ \E t \in Thread : Push(t))
  BY Elsewhere
<1>2. StampedOK /\ LoggedOK /\ ClockOK
  BY DEF Typed
<1>3. now' >= now /\ now' \in Nat /\ now \in Nat /\ MaxTime \in Nat
  BY ClockStays, BoundParts DEF Typed, ClockOK
<1>4. CASE UNCHANGED <<stamped, logged>>
  BY <1>1, <1>2, <1>3, <1>4 DEF StampedOK
<1>5. ASSUME NEW t \in Thread, Stamp(t)
      PROVE  StampedOK'
  <2>1. stamped' = [stamped EXCEPT ![t] = now] /\ logged' = logged /\ now' = now /\ logged[t] < Len(case.script[t]) /\ now <= MaxTime
    BY <1>5 DEF Stamp
  <2> QED
    BY <1>1, <1>2, <1>3, <2>1 DEF StampedOK
<1>6. ASSUME NEW t \in Thread, Push(t)
      PROVE  StampedOK'
  <2>1. stamped' = [stamped EXCEPT ![t] = -1] /\ logged' = [logged EXCEPT ![t] = @ + 1]
    BY <1>6, PushJoins
  <2> QED
    BY <1>1, <1>2, <1>3, <2>1 DEF StampedOK, LoggedOK
<1> QED
  BY <1>1, <1>4, <1>5, <1>6

LEMMA QueueStays ==
  ASSUME Typed, [Next]_vars
  PROVE  QueueOK'
<1>1. queue' = queue \/ StopBegin \/ (\E t \in Thread : Push(t)) \/ (\E m \in Muxer : Collect(m))
        \/ (\E x \in DOMAIN writes : WriteChange(x) \/ WriteRefused(x))
  BY Elsewhere
<1>2. CASE queue' = queue
  BY <1>2 DEF Typed, QueueOK
<1> QED
  BY <1>1, <1>2, StopJoins, PushJoins, CollectCuts, WriteJoins DEF QueueOK

LEMMA ControlStays ==
  ASSUME Typed, [Next]_vars
  PROVE  LockOK' /\ LifeOK' /\ TimerOK' /\ ContinueOK' /\ OverlapOK'
<1>1. LockOK'
  <2>1. lock' = lock \/ \E m \in Muxer : Collect(m) \/ Submit(m)
    BY Elsewhere
  <2>2. ASSUME NEW m \in Muxer, Collect(m)
        PROVE  LockOK'
    <3>1. lock' = lock \/ lock' = m
      BY <2>2 DEF Collect
    <3> QED
      BY <3>1 DEF LockOK, Typed
  <2>3. ASSUME NEW m \in Muxer, Submit(m)
        PROVE  LockOK'
    <3>1. lock' = lock \/ lock' = "free"
      BY <2>3 DEF Submit
    <3> QED
      BY <3>1 DEF LockOK, Typed
  <2> QED
    BY <2>1, <2>2, <2>3 DEF Typed, LockOK
<1>2. /\ UNCHANGED <<continue, life>> \/ StopBegin \/ StopEnd \/ PoolEnds
      /\ timer' = timer \/ TimerClock
      /\ overlap' = overlap \/ \E m \in Muxer : Pass(m)
  BY Elsewhere
<1>3. LifeOK'
  BY <1>2 DEF Typed, LifeOK, StopBegin, StopEnd, PoolEnds
<1>4. continue' = continue \/ continue' = FALSE
  BY <1>2 DEF StopBegin, StopEnd, PoolEnds
<1>5. continue \in BOOLEAN /\ timer \in BOOLEAN /\ overlap \in BOOLEAN
  BY DEF Typed, ContinueOK, TimerOK, OverlapOK
<1>6. ContinueOK'
  BY <1>4, <1>5 DEF ContinueOK
<1>7. timer' = timer \/ timer' = continue
  BY <1>2 DEF TimerClock
<1>8. TimerOK'
  BY <1>5, <1>7 DEF TimerOK
<1>9. ASSUME NEW m \in Muxer, Pass(m)
      PROVE  overlap' \in BOOLEAN
  BY <1>9 DEF Pass
<1>10. OverlapOK'
  BY <1>2, <1>5, <1>9 DEF OverlapOK
<1> QED
  BY <1>1, <1>3, <1>6, <1>8, <1>10

\* What a multiplexer becomes.
Becomes(m, d) ==
  /\ d \in Desk /\ mux' = [mux EXCEPT ![m] = d]
  /\ d.pc = "submit" => d.next >= 1

LEMMA PassBecomes ==
  ASSUME Typed, NEW m \in Muxer, Pass(m)
  PROVE  /\ mux[m].pc = "wait" /\ jobs = 0
         /\ \E d : Becomes(m, d) /\ (d.pc = "idle" \/ (d.pc = "stamp" /\ queue # <<>>))
<1>1. mux[m] \in Desk
  BY DeskParts DEF Typed
<1>2. PICK d : d = IF queue # <<>> THEN [mux[m] EXCEPT !.pc = "stamp"] ELSE Idle
  OBVIOUS
<1>3. mux' = [mux EXCEPT ![m] = d] /\ mux[m].pc = "wait" /\ jobs = 0
  BY <1>2 DEF Pass, SinksIdle
<1>4. d \in Desk /\ (d.pc = "idle" \/ (d.pc = "stamp" /\ queue # <<>>))
  BY <1>1, <1>2, IdleIs DEF Desk, Pcs
<1> QED
  BY <1>3, <1>4 DEF Becomes

LEMMA CutBecomes ==
  ASSUME Typed, NEW m \in Muxer, Cut(m)
  PROVE  /\ mux[m].pc = "stamp"
         /\ \E d : Becomes(m, d) /\ d.pc = "collect" /\ Micros(d.cut) = now - DelayMs
<1>1. mux[m] \in Desk
  BY DeskParts DEF Typed
<1>2. PICK a \in Nat : a = now
  BY BoundParts DEF Typed, ClockOK
<1>3. Stamped(a) \in Timestamps /\ Micros(Stamped(a)) = a /\ -DelayMs \in Int
  BY StampedIs, BoundParts
<1>4. TimestampAdjust(Stamped(a), -DelayMs) \in Timestamps /\ Micros(TimestampAdjust(Stamped(a), -DelayMs)) = a + (-DelayMs)
  BY <1>3, AdjustMovesByDelta
<1>5. PICK c \in Timestamps : c = TimestampAdjust(Stamped(a), -DelayMs)
  BY <1>4
<1>6. Micros(c) = a - DelayMs
  BY <1>4, <1>5, BoundParts
<1>7. PICK d : d = [mux[m] EXCEPT !.pc = "collect", !.cut = c]
  OBVIOUS
<1>8. mux' = [mux EXCEPT ![m].pc = "collect", ![m].cut = c] /\ mux[m].pc = "stamp"
  BY <1>2, <1>5 DEF Cut
<1>9. mux' = [mux EXCEPT ![m] = d]
  BY <1>7, <1>8 DEF Typed, MuxOK
<1>10. d \in Desk /\ d.pc = "collect" /\ d.cut = c
  BY <1>1, <1>7 DEF Desk, Pcs
<1> QED
  BY <1>2, <1>6, <1>8, <1>9, <1>10 DEF Becomes

LEMMA CollectBecomes ==
  ASSUME Typed, NEW m \in Muxer, NEW b, NEW n, Cuts(m, b, n)
  PROVE  \E d : /\ Becomes(m, d)
                /\ (d.pc = "idle" /\ Ahead(1, b) = {}) \/ (d.pc = "submit" /\ Ahead(1, b) # {} /\ d.batch = b /\ d.next = 1)
<1>1. Stamped(0) \in Timestamps
  BY StampedIs
<1>2. PICK d : d = IF Ahead(1, b) = {} THEN Idle ELSE [pc |-> "submit", cut |-> Stamped(0), batch |-> b, next |-> 1]
  OBVIOUS
<1>3. d \in Desk /\ mux' = [mux EXCEPT ![m] = d]
  BY <1>1, <1>2, IdleIs DEF Cuts, Desk, Pcs
<1>4. (d.pc = "idle" /\ Ahead(1, b) = {}) \/ (d.pc = "submit" /\ Ahead(1, b) # {} /\ d.batch = b /\ d.next = 1)
  BY <1>2, IdleIs
<1>5. d.pc = "submit" => d.next >= 1
  BY <1>4
<1>6. Becomes(m, d)
  BY <1>3, <1>5 DEF Becomes
<1> QED
  BY <1>4, <1>6

LEMMA SubmitBecomes ==
  ASSUME Typed, NEW m \in Muxer, mux[m].pc = "submit", NEW x, Submits(m, x)
  PROVE  \E d : /\ Becomes(m, d)
                /\ \/ d.pc = "idle" /\ Ahead(x + 1, mux[m].batch) = {}
                   \/ d.pc = "submit" /\ d.batch = mux[m].batch /\ d.next = x + 1
<1>1. mux[m] \in Desk /\ x \in Nat
  BY DeskParts, CaseParts DEF Typed, Submits
<1>2. PICK d : d = IF Ahead(x + 1, mux[m].batch) = {} THEN Idle ELSE [mux[m] EXCEPT !.next = x + 1]
  OBVIOUS
<1>3. d \in Desk
  BY <1>1, <1>2, IdleIs DEF Desk
<1>4. mux' = [mux EXCEPT ![m] = d]
  BY <1>2 DEF Submits, Typed, MuxOK
<1>5. \/ d.pc = "idle" /\ Ahead(x + 1, mux[m].batch) = {}
      \/ d.pc = "submit" /\ d.batch = mux[m].batch /\ d.next = x + 1
  BY <1>1, <1>2, IdleIs DEF Desk
<1>6. d.pc = "submit" => d.next >= 1
  BY <1>1, <1>5, IdleIs
<1> QED
  BY <1>3, <1>4, <1>5, <1>6 DEF Becomes

LEMMA OtherBecomes ==
  ASSUME Typed, NEW m \in Muxer, StartMux(m) \/ GiveUp(m)
  PROVE  /\ mux[m].pc \in {"idle", "wait"}
         /\ \E d : Becomes(m, d) /\ d.pc \in {"idle", "wait"}
<1>1. mux[m] \in Desk
  BY DeskParts DEF Typed
<1>2. CASE StartMux(m)
  <2>1. PICK d : d = [mux[m] EXCEPT !.pc = "wait"]
    OBVIOUS
  <2>2. d \in Desk /\ d.pc = "wait"
    BY <1>1, <2>1 DEF Desk, Pcs
  <2>3. mux' = [mux EXCEPT ![m] = d] /\ mux[m].pc = "idle"
    BY <1>2, <2>1, StartMuxPool DEF Typed, MuxOK
  <2> QED
    BY <2>2, <2>3 DEF Becomes
<1>3. CASE GiveUp(m)
  <2>1. mux' = [mux EXCEPT ![m] = Idle] /\ mux[m].pc = "wait"
    BY <1>3 DEF GiveUp
  <2> QED
    BY <2>1, IdleIs DEF Becomes
<1> QED
  BY <1>2, <1>3

LEMMA MuxStays ==
  ASSUME Typed, [Next]_vars
  PROVE  MuxOK'
<1>1. mux' = mux \/ \E m \in Muxer : StartMux(m) \/ Pass(m) \/ GiveUp(m) \/ Cut(m) \/ Collect(m) \/ Submit(m)
  BY Elsewhere
<1>2. CASE mux' = mux
  BY <1>2 DEF Typed, MuxOK
<1>3. ASSUME NEW m \in Muxer, StartMux(m) \/ Pass(m) \/ GiveUp(m) \/ Cut(m) \/ Collect(m) \/ Submit(m)
      PROVE  \E d : Becomes(m, d)
  BY <1>3, PassBecomes, CutBecomes, OtherBecomes, CollectCuts, CollectBecomes, SubmitPool, SubmitBecomes
<1>4. ASSUME NEW m \in Muxer, NEW d, Becomes(m, d)
      PROVE  MuxOK'
  BY <1>4 DEF Becomes, Typed, MuxOK
<1> QED
  BY <1>1, <1>2, <1>3, <1>4

LEMMA SinksStay ==
  ASSUME Typed, [Next]_vars
  PROVE  PoolOK' /\ WritesOK' /\ OutOK' /\ FileOK' /\ SkippedOK'
<1>1. /\ pool' = pool \/ TimerClock \/ StartWrite \/ \E m \in Muxer : StartMux(m) \/ Submit(m)
      /\ writes' = writes \/ StartWrite
              \/ \E x \in DOMAIN writes : WriteMessage(x) \/ WriteChange(x) \/ WriteStop(x) \/ WriteRefused(x) \/ WriteDone(x)
      /\ file' = file \/ \E x \in DOMAIN writes : WriteChange(x) \/ WriteStop(x)
      /\ out' = out \/ \E x \in DOMAIN writes : WriteMessage(x) \/ WriteChange(x) \/ WriteStop(x) \/ WriteRefused(x)
      /\ skipped' = skipped \/ \E x \in DOMAIN writes : WriteStop(x)
  BY Elsewhere
<1>2. PoolOK /\ WritesOK /\ OutOK /\ FileOK /\ SkippedOK
  BY DEF Typed
<1>3. ASSUME NEW x \in DOMAIN writes, WriteMessage(x) \/ WriteChange(x) \/ WriteStop(x) \/ WriteRefused(x)
      PROVE  HandledTypes
  BY <1>3, EveryWriteHandles
<1>4. PoolOK'
  BY <1>1, <1>2, TimerPool, StartWritePool, StartMuxPool, SubmitPool DEF PoolOK
<1>5. WritesOK'
  BY <1>1, <1>2, <1>3, StartWritePool, DoneEnds DEF WritesOK, HandledTypes
<1>6. OutOK'
  BY <1>1, <1>2, <1>3 DEF OutOK, HandledTypes
<1>7. FileOK'
  BY <1>1, <1>2, <1>3 DEF FileOK, HandledTypes
<1>8. SkippedOK'
  BY <1>1, <1>2, <1>3 DEF SkippedOK, HandledTypes
<1> QED
  BY <1>4, <1>5, <1>6, <1>7, <1>8

LEMMA TypesStay ==
  ASSUME Typed, [Next]_vars
  PROVE  Typed'
BY ClockStays, LoggedStays, StampedStays, QueueStays, ControlStays, MuxStays, SinksStay DEF Typed
-----------------------------------------------------------------------------
(* The counter of the sinks *)

\* A set of numbers has as many elements as the same set one lower.
LEMMA OneLower ==
  ASSUME NEW L \in Nat, NEW S \in SUBSET (1 .. L), NEW T, T = {i \in 1 .. L : i + 1 \in S}, 1 \notin S
  PROVE  Cardinality(T) = Cardinality(S)
<1> DEFINE f == [i \in T |-> i + 1]
<1>1. IsFiniteSet(T)
  BY CountOfPlaces
<1>2. f \in [T -> S]
  OBVIOUS
<1>3. \A a, b \in T : f[a] = f[b] => a = b
  OBVIOUS
<1>4. \A b \in S : \E a \in T : f[a] = b
  <2>1. ASSUME NEW b \in S
        PROVE  \E a \in T : f[a] = b
    <3>1. b - 1 \in T /\ b - 1 + 1 = b
      OBVIOUS
    <3> QED
      BY <3>1
  <2> QED
    BY <2>1
<1> HIDE DEF f
<1>5. f \in Bijection(T, S)
  BY <1>2, <1>3, <1>4 DEF Bijection, Injection, Surjection, IsInjective
<1>6. ExistsBijection(T, S)
  BY <1>5 DEF ExistsBijection
<1> QED
  BY <1>1, <1>6, FS_Bijection

Submitted == {i \in DOMAIN pool : pool[i].kind = "write"}

LEMMA SubmittedIs ==
  ASSUME Typed
  PROVE  /\ Submitted \in SUBSET (1 .. Len(pool)) /\ Len(pool) \in Nat
         /\ IsFiniteSet(Submitted) /\ Cardinality(Submitted) \in Nat
<1>1. Submitted \in SUBSET (1 .. Len(pool)) /\ Len(pool) \in Nat
  BY DEF Typed, PoolOK, Submitted
<1> QED
  BY <1>1, CountOfPlaces

\* The counter counts the Writes that are submitted and those under way.
LEMMA CounterStays ==
  ASSUME Typed, CounterIsWrites, [Next]_vars
  PROVE  CounterIsWrites'
<1>1. /\ pool' = pool \/ TimerClock \/ StartWrite \/ \E m \in Muxer : StartMux(m) \/ Submit(m)
      /\ writes' = writes \/ StartWrite
              \/ \E x \in DOMAIN writes : WriteMessage(x) \/ WriteChange(x) \/ WriteStop(x) \/ WriteRefused(x) \/ WriteDone(x)
      /\ jobs' = jobs \/ (\E m \in Muxer : Submit(m)) \/ (\E x \in DOMAIN writes : WriteDone(x))
  BY Elsewhere
<1> DEFINE N == Cardinality(Submitted)
<1>2. /\ jobs = N + Len(writes) /\ Len(writes) \in Nat /\ N \in Nat
      /\ CounterIsWrites' <=> jobs' = Cardinality(Submitted') + Len(writes')
  BY SubmittedIs DEF CounterIsWrites, Submitted, Typed, WritesOK
<1>3. /\ Submitted \in SUBSET (1 .. Len(pool)) /\ Len(pool) \in Nat /\ IsFiniteSet(Submitted)
      /\ DOMAIN pool = 1 .. Len(pool)
  BY SubmittedIs DEF Typed, PoolOK
<1>4. CASE UNCHANGED <<pool, writes, jobs>>
  BY <1>4, <1>2 DEF Submitted
<1>5. CASE TimerClock
  <2>1. UNCHANGED <<writes, jobs>>
    BY <1>5 DEF TimerClock, sinkState
  <2>2. PoolGets([kind |-> "mux"])
    BY <1>5, TimerPool
  <2>3. Submitted' = Submitted
    BY <2>2, <1>3 DEF PoolGets, Submitted
  <2> QED
    BY <1>2, <2>1, <2>3
<1>6. ASSUME NEW m \in Muxer, StartMux(m)
      PROVE  CounterIsWrites'
  <2>1. UNCHANGED <<writes, jobs>>
    BY <1>6 DEF StartMux, sinkState
  <2>2. PoolStarts /\ pool[1].kind = "mux"
    BY <1>6, StartMuxPool
  <2>3. Submitted' = {i \in 1 .. Len(pool) : i + 1 \in Submitted} /\ 1 \notin Submitted
    BY <2>2, <1>3 DEF PoolStarts, Submitted
  <2>4. Cardinality(Submitted') = N
    BY <2>3, <1>3, OneLower
  <2> QED
    BY <1>2, <2>1, <2>4
<1>7. CASE StartWrite
  <2>1. jobs' = jobs /\ Len(writes') = Len(writes) + 1
    BY <1>7, StartWritePool DEF StartWrite
  <2>2. PoolStarts /\ pool[1].kind = "write"
    BY <1>7, StartWritePool
  <2>3. Submitted' = {i \in 1 .. Len(pool) : i + 1 \in Submitted \ {1}} /\ 1 \in Submitted
    BY <2>2, <1>3 DEF PoolStarts, Submitted
  <2>4. Cardinality(Submitted') = Cardinality(Submitted \ {1})
    BY <2>3, <1>3, OneLower
  <2>5. Cardinality(Submitted \ {1}) = N - 1
    BY <2>3, <1>3, FS_RemoveElement
  <2> HIDE DEF N
  <2> QED
    BY <1>2, <2>1, <2>4, <2>5
<1>8. ASSUME NEW m \in Muxer, Submit(m)
      PROVE  CounterIsWrites'
  <2>1. jobs' = jobs + 1 /\ writes' = writes
    BY <1>8, SubmitPool DEF Submit
  <2>2. PICK x : PoolGets([kind |-> "write", sink |-> case.sinks[x], batch |-> mux[m].batch])
    BY <1>8, SubmitPool DEF Submits
  <2>3. Submitted' = Submitted \cup {Len(pool) + 1} /\ Len(pool) + 1 \notin Submitted
    BY <2>2, <1>3 DEF PoolGets, Submitted
  <2>4. Cardinality(Submitted') = N + 1
    BY <2>3, <1>3, FS_AddElement
  <2> HIDE DEF N
  <2> QED
    BY <1>2, <2>1, <2>4
<1>9. ASSUME NEW x \in DOMAIN writes, WriteMessage(x) \/ WriteChange(x) \/ WriteStop(x) \/ WriteRefused(x)
      PROVE  CounterIsWrites'
  <2>1. UNCHANGED <<pool, jobs>>
    BY <1>9 DEF WriteMessage, WriteChange, WriteStop, WriteRefused
  <2>2. Len(writes') = Len(writes)
    BY <1>9, EveryWriteHandles DEF WriteHandles, Passes
  <2> QED
    BY <1>2, <2>1, <2>2 DEF Submitted
<1>10. ASSUME NEW x \in DOMAIN writes, WriteDone(x)
       PROVE  CounterIsWrites'
  <2>1. jobs' = jobs - 1 /\ pool' = pool /\ Len(writes') = Len(writes) - 1
    BY <1>10, DoneEnds DEF WriteDone, Ends
  <2> QED
    BY <1>2, <2>1 DEF Submitted
<1> QED
  BY <1>1, <1>4, <1>5, <1>6, <1>7, <1>8, <1>9, <1>10
-----------------------------------------------------------------------------
(* How the holders move *)

LEMMA HoldsIs ==
  ASSUME NEW w, NEW x, NEW s, Holds(w, x, s)
  PROVE  /\ w \in {"mux", "pool", "write"}
         /\ w = "mux" => x \in Muxer
         /\ w = "pool" => x \in DOMAIN pool
         /\ w = "write" => x \in DOMAIN writes
BY DEF Holds

LEMMA HeldIs ==
  ASSUME Typed, NEW w, NEW x, NEW s, Holds(w, x, s)
  PROVE  Held(w, x) \in Seq(Record) /\ From(w, x) \in Nat \ {0} /\ s \in Sink
<1>1. CASE w = "mux"
  <2>1. PICK m \in Muxer : x = m /\ \E z \in mux[m].next .. Len(case.sinks) : case.sinks[z] = s /\ mux[m].pc = "submit"
    BY <1>1 DEF Holds
  <2>2. mux[m].batch \in Seq(Record) /\ mux[m].next >= 1 /\ mux[m].next \in Nat /\ case.sinks \in Seq(Sink)
    BY <2>1, DeskParts, CaseParts DEF Typed, MuxOK
  <2>3. PICK z \in 1 .. Len(case.sinks) : case.sinks[z] = s
    BY <2>1, <2>2
  <2>4. s \in Sink
    BY <2>2, <2>3, ElementIs
  <2> QED
    BY <1>1, <2>1, <2>2, <2>4 DEF Held, From
<1>2. CASE w = "pool"
  <2>1. x \in DOMAIN pool /\ pool[x].kind = "write" /\ pool[x].sink = s
    BY <1>2 DEF Holds
  <2>2. pool[x].sink \in Sink /\ pool[x].batch \in Seq(Record)
    BY <2>1, TaskParts DEF Typed
  <2> QED
    BY <1>2, <2>1, <2>2 DEF Held, From
<1>3. CASE w = "write"
  <2>1. x \in DOMAIN writes /\ writes[x].sink = s
    BY <1>3 DEF Holds
  <2> QED
    BY <1>3, <2>1, WriteParts DEF Held, From, Typed
<1> QED
  BY <1>1, <1>2, <1>3, HoldsIs

\* The holder (w, x) after a step is (v, y) of before it: units of the pool move up by p,
\* Writes from z on move up, a multiplexer m hands over to the pool, the pool to a Write.
Was(w, x, v, y, p, z, m) ==
  \/ w = "mux" /\ v = "mux" /\ x = y
  \/ w = "pool" /\ v = "pool" /\ x \in Nat /\ y = x + p
  \/ w = "write" /\ v = "write" /\ x \in Nat /\ y = IF x < z THEN x ELSE x + 1
  \/ w = "pool" /\ v = "mux" /\ x = Len(pool) + 1 /\ y = m
  \/ w = "write" /\ v = "pool" /\ x = Len(writes) + 1 /\ y = 1 /\ p = 1

\* Each holder for the sink goes on, unless nothing of its own is left, and with the same
\* records; and each was one before.
Moved(p, z, m, s) ==
  /\ \A v, y : Holds(v, y, s) =>
       \/ \E w, x : Was(w, x, v, y, p, z, m) /\ Holds(w, x, s)'
       \/ \A k \in From(v, y) .. Len(Held(v, y)) : Held(v, y)[k].chan # Channel[s]
  /\ \A w, x : Holds(w, x, s)' => \E v, y : Was(w, x, v, y, p, z, m) /\ Holds(v, y, s)
  /\ \A w, x, v, y : Was(w, x, v, y, p, z, m) /\ Holds(w, x, s)' /\ Holds(v, y, s) =>
       Held(w, x)' = Held(v, y) /\ From(w, x)' = From(v, y)
  /\ \A w, x, a, b, v, y : /\ Was(w, x, v, y, p, z, m) /\ Was(a, b, v, y, p, z, m)
                           /\ Holds(w, x, s)' /\ Holds(a, b, s)' /\ Holds(v, y, s)
       => a = w /\ b = x

SameMux == \A x, s : /\ Holds("mux", x, s)' <=> Holds("mux", x, s)
                     /\ Holds("mux", x, s) => mux'[x].batch = mux[x].batch
SamePool == \A x, s : /\ Holds("pool", x, s)' <=> Holds("pool", x, s)
                      /\ Holds("pool", x, s) => pool'[x].batch = pool[x].batch
SameWrites == \A x, s : /\ Holds("write", x, s)' <=> Holds("write", x, s)
                        /\ Holds("write", x, s) => writes'[x].batch = writes[x].batch /\ writes'[x].i = writes[x].i

LEMMA NoMuxMoves ==
  ASSUME Typed, case' = case,
         mux' = mux \/ \E m \in Muxer : \E d : Becomes(m, d) /\ mux[m].pc # "submit" /\ d.pc # "submit"
  PROVE  SameMux
<1>1. CASE mux' = mux
  BY <1>1 DEF SameMux, Holds
<1>2. ASSUME NEW m \in Muxer, NEW d, Becomes(m, d), mux[m].pc # "submit", d.pc # "submit"
      PROVE  SameMux
  <2>1. /\ mux'[m].pc # "submit" /\ \A o \in Muxer : o # m => mux'[o] = mux[o]
    BY <1>2 DEF Becomes, Typed, MuxOK
  <2> QED
    BY <1>2, <2>1 DEF SameMux, Holds
<1> QED
  BY <1>1, <1>2

LEMMA NoPoolMoves ==
  ASSUME pool' = pool \/ (Typed /\ PoolGets([kind |-> "mux"]))
  PROVE  SamePool
<1>1. CASE pool' = pool
  BY <1>1 DEF SamePool, Holds
<1>2. CASE Typed /\ PoolGets([kind |-> "mux"])
  <2>1. DOMAIN pool = 1 .. Len(pool) /\ Len(pool) \in Nat
    BY <1>2 DEF Typed, PoolOK
  <2> QED
    BY <1>2, <2>1 DEF SamePool, Holds, PoolGets
<1> QED
  BY <1>1, <1>2

LEMMA NoWriteMoves ==
  ASSUME writes' = writes
  PROVE  SameWrites
BY DEF SameWrites, Holds

\* Steps after which everyone holds what it held.
LEMMA StillMoved ==
  ASSUME Typed, SameMux, SamePool, SameWrites, NEW s
  PROVE  Moved(0, Len(writes) + 1, "none", s) /\ \A w, x : Holds(w, x, s)' <=> Holds(w, x, s)
<1> DEFINE z == Len(writes) + 1
<1>1. \A w, x : Holds(w, x, s)' <=> Holds(w, x, s)
  <2>1. ASSUME NEW w, NEW x, Holds(w, x, s)'
        PROVE  w \in {"mux", "pool", "write"}
    BY <2>1 DEF Holds
  <2> QED
    BY <2>1, HoldsIs DEF SameMux, SamePool, SameWrites
<1>2. \A w, x : Holds(w, x, s) => Held(w, x)' = Held(w, x) /\ From(w, x)' = From(w, x)
  BY HoldsIs DEF SameMux, SamePool, SameWrites, Held, From
<1>3. DOMAIN pool = 1 .. Len(pool) /\ DOMAIN writes = 1 .. Len(writes) /\ Len(pool) \in Nat /\ Len(writes) \in Nat
  BY DEF Typed, PoolOK, WritesOK
<1>4. \A w, x : Holds(w, x, s) => Was(w, x, w, x, 0, z, "none")
  BY <1>3, HoldsIs DEF Was
<1>5. ASSUME NEW w, NEW x, NEW v, NEW y, Holds(w, x, s), Holds(v, y, s), Was(w, x, v, y, 0, z, "none")
      PROVE  v = w /\ x = y
  BY <1>3, <1>5, HoldsIs DEF Was
<1> HIDE DEF z
<1>6. \A v, y : Holds(v, y, s) => \E w, x : Was(w, x, v, y, 0, z, "none") /\ Holds(w, x, s)'
  BY <1>1, <1>4
<1>7. \A w, x : Holds(w, x, s)' => \E v, y : Was(w, x, v, y, 0, z, "none") /\ Holds(v, y, s)
  BY <1>1, <1>4
<1>8. \A w, x, v, y : Was(w, x, v, y, 0, z, "none") /\ Holds(w, x, s)' /\ Holds(v, y, s) =>
       Held(w, x)' = Held(v, y) /\ From(w, x)' = From(v, y)
  BY <1>1, <1>2, <1>5
<1>9. \A w, x, a, b, v, y : /\ Was(w, x, v, y, 0, z, "none") /\ Was(a, b, v, y, 0, z, "none")
                            /\ Holds(w, x, s)' /\ Holds(a, b, s)' /\ Holds(v, y, s)
        => a = w /\ b = x
  BY <1>1, <1>5
<1> QED
  BY <1>1, <1>6, <1>7, <1>8, <1>9 DEF Moved, z

LEMMA PoolMovesUp ==
  ASSUME Typed, PoolStarts
  PROVE  \A x, s : /\ Holds("pool", x, s)' <=> x \in Nat \ {0} /\ Holds("pool", x + 1, s)
                   /\ Holds("pool", x, s)' => pool'[x].batch = pool[x + 1].batch
<1>1. DOMAIN pool = 1 .. Len(pool) /\ Len(pool) \in Nat
  BY DEF Typed, PoolOK
<1>2. ASSUME NEW x, NEW s, Holds("pool", x, s)'
      PROVE  x \in Nat \ {0} /\ Holds("pool", x + 1, s) /\ pool'[x].batch = pool[x + 1].batch
  <2>1. x \in DOMAIN pool' /\ pool'[x].kind = "write" /\ pool'[x].sink = s
    BY <1>2 DEF Holds
  <2>2. x \in 1 .. Len(pool) - 1 /\ pool'[x] = pool[x + 1]
    BY <2>1 DEF PoolStarts
  <2> QED
    BY <1>1, <2>1, <2>2 DEF Holds
<1>3. ASSUME NEW x \in Nat \ {0}, NEW s, Holds("pool", x + 1, s)
      PROVE  Holds("pool", x, s)'
  <2>1. x + 1 \in DOMAIN pool /\ pool[x + 1].kind = "write" /\ pool[x + 1].sink = s
    BY <1>3 DEF Holds
  <2>2. x \in 1 .. Len(pool) - 1
    BY <1>1, <2>1
  <2>3. x \in DOMAIN pool' /\ pool'[x] = pool[x + 1]
    BY <2>2 DEF PoolStarts
  <2> QED
    BY <2>1, <2>3 DEF Holds
<1> QED
  BY <1>2, <1>3

LEMMA StartMuxMoved ==
  ASSUME Typed, NEW m \in Muxer, StartMux(m), case' = case, NEW s
  PROVE  Moved(1, Len(writes) + 1, "none", s)
<1> DEFINE z == Len(writes) + 1
<1>1. PoolStarts /\ pool[1].kind = "mux" /\ writes' = writes
  BY StartMuxPool DEF StartMux, sinkState
<1>2. SameMux
  BY OtherBecomes, NoMuxMoves
<1>3. SameWrites
  BY <1>1, NoWriteMoves
<1>4. DOMAIN pool = 1 .. Len(pool) /\ DOMAIN writes = 1 .. Len(writes) /\ Len(pool) \in Nat /\ Len(writes) \in Nat
  BY DEF Typed, PoolOK, WritesOK
<1>5. \A x : /\ Holds("pool", x, s)' <=> x \in Nat \ {0} /\ Holds("pool", x + 1, s)
             /\ Holds("pool", x, s)' => pool'[x].batch = pool[x + 1].batch
  BY <1>1, PoolMovesUp
<1>6. ~Holds("pool", 1, s)
  BY <1>1 DEF Holds
<1>7. \A w, x : Holds(w, x, s)' => w \in {"mux", "pool", "write"}
  BY DEF Holds
<1>8. ASSUME NEW v, NEW y, Holds(v, y, s)
      PROVE  \E w, x : Was(w, x, v, y, 1, z, "none") /\ Holds(w, x, s)'
  <2>1. CASE v = "pool"
    <3>1. y \in 1 .. Len(pool) /\ y # 1
      BY <1>4, <1>6, <1>8, <2>1, HoldsIs
    <3>2. y - 1 \in Nat \ {0} /\ y - 1 + 1 = y
      BY <3>1
    <3> QED
      BY <1>5, <1>8, <2>1, <3>2 DEF Was
  <2>2. CASE v = "mux"
    BY <1>2, <1>8, <2>2 DEF Was, SameMux
  <2>3. CASE v = "write"
    <3>1. y \in 1 .. Len(writes)
      BY <1>4, <1>8, <2>3, HoldsIs
    <3> QED
      BY <1>3, <1>4, <1>8, <2>3, <3>1 DEF Was, SameWrites
  <2> QED
    BY <1>8, <2>1, <2>2, <2>3, HoldsIs
<1>9. ASSUME NEW w, NEW x, Holds(w, x, s)'
      PROVE  \E v, y : Was(w, x, v, y, 1, z, "none") /\ Holds(v, y, s)
  <2>1. CASE w = "pool"
    BY <1>5, <1>9, <2>1 DEF Was
  <2>2. CASE w = "mux"
    BY <1>2, <1>9, <2>2 DEF Was, SameMux
  <2>3. CASE w = "write"
    <3>1. Holds("write", x, s)
      BY <1>3, <1>9, <2>3 DEF SameWrites
    <3>2. x \in 1 .. Len(writes)
      BY <1>4, <3>1, HoldsIs
    <3> QED
      BY <1>4, <2>3, <3>1, <3>2 DEF Was
  <2> QED
    BY <1>7, <1>9, <2>1, <2>2, <2>3
<1>10. ASSUME NEW w, NEW x, NEW v, NEW y, Was(w, x, v, y, 1, z, "none"), Holds(w, x, s)', Holds(v, y, s)
       PROVE  /\ Held(w, x)' = Held(v, y) /\ From(w, x)' = From(v, y)
              /\ w = v /\ y = IF w = "pool" THEN x + 1 ELSE x
              /\ w = "pool" => x \in Nat
  <2>1. v = "mux" => w = "mux" /\ x = y
    <3>1. x # Len(pool) + 1 \/ w # "pool"
      BY <1>4, <1>5, <1>10, HoldsIs
    <3> QED
      BY <1>10, <3>1 DEF Was
  <2>2. v = "write" => w = "write" /\ x = y
    BY <1>3, <1>4, <1>7, <1>10, HoldsIs DEF Was, SameWrites
  <2>3. v = "pool" => w = "pool" /\ y = x + 1 /\ x \in Nat
    <3>1. ~(w = "write" /\ x = Len(writes) + 1)
      BY <1>3, <1>4, <1>10, HoldsIs DEF SameWrites
    <3> QED
      BY <1>10, <3>1 DEF Was
  <2>4. v \in {"mux", "pool", "write"}
    BY <1>10, HoldsIs
  <2>5. CASE v = "mux"
    BY <1>2, <1>10, <2>1, <2>5 DEF SameMux, Held, From
  <2>6. CASE v = "write"
    BY <1>3, <1>10, <2>2, <2>6 DEF SameWrites, Held, From
  <2>7. CASE v = "pool"
    BY <1>5, <1>10, <2>3, <2>7 DEF Held, From
  <2> QED
    BY <2>4, <2>5, <2>6, <2>7, <2>1, <2>2, <2>3
<1> HIDE DEF z
<1>11. \A w, x, a, b, v, y : /\ Was(w, x, v, y, 1, z, "none") /\ Was(a, b, v, y, 1, z, "none")
                             /\ Holds(w, x, s)' /\ Holds(a, b, s)' /\ Holds(v, y, s)
         => a = w /\ b = x
  <2>1. ASSUME NEW w, NEW x, NEW a, NEW b, NEW v, NEW y, Was(w, x, v, y, 1, z, "none"), Was(a, b, v, y, 1, z, "none"),
               Holds(w, x, s)', Holds(a, b, s)', Holds(v, y, s)
        PROVE  a = w /\ b = x
    <3>1. w = v /\ (y = IF w = "pool" THEN x + 1 ELSE x) /\ (w = "pool" => x \in Nat)
      BY <1>10, <2>1
    <3>2. a = v /\ (y = IF a = "pool" THEN b + 1 ELSE b) /\ (a = "pool" => b \in Nat)
      BY <1>10, <2>1
    <3> QED
      BY <3>1, <3>2
  <2> QED
    BY <2>1
<1> QED
  BY <1>8, <1>9, <1>10, <1>11 DEF Moved, z

LEMMA StartWriteMoved ==
  ASSUME Typed, StartWrite, case' = case, NEW s
  PROVE  Moved(1, Len(writes) + 1, "none", s)
<1> DEFINE z == Len(writes) + 1
<1>1. /\ PoolStarts /\ pool[1].kind = "write" /\ DOMAIN writes' = 1 .. Len(writes) + 1
      /\ writes'[Len(writes) + 1] = [sink |-> pool[1].sink, batch |-> pool[1].batch, i |-> 1]
      /\ \A x \in 1 .. Len(writes) : writes'[x] = writes[x]
  BY StartWritePool
<1>2. SameMux
  <2>1. mux' = mux
    BY DEF StartWrite
  <2> QED
    BY <2>1, NoMuxMoves
<1>4. DOMAIN pool = 1 .. Len(pool) /\ DOMAIN writes = 1 .. Len(writes) /\ Len(pool) \in Nat /\ Len(writes) \in Nat
  BY DEF Typed, PoolOK, WritesOK
<1>5. \A x : /\ Holds("pool", x, s)' <=> x \in Nat \ {0} /\ Holds("pool", x + 1, s)
             /\ Holds("pool", x, s)' => pool'[x].batch = pool[x + 1].batch
  BY <1>1, PoolMovesUp
<1>6. 1 \in DOMAIN pool
  BY <1>1, <1>4 DEF PoolStarts
<1>3. \A x : /\ Holds("write", x, s)' <=> Holds("write", x, s) \/ (x = Len(writes) + 1 /\ Holds("pool", 1, s))
             /\ Holds("write", x, s) => x \in 1 .. Len(writes) /\ writes'[x] = writes[x]
  BY <1>1, <1>4, <1>6 DEF Holds
<1>7. \A w, x : Holds(w, x, s)' => w \in {"mux", "pool", "write"}
  BY DEF Holds
<1>8. ASSUME NEW v, NEW y, Holds(v, y, s)
      PROVE  \E w, x : Was(w, x, v, y, 1, z, "none") /\ Holds(w, x, s)'
  <2>1. CASE v = "pool" /\ y # 1
    <3>1. y \in 1 .. Len(pool)
      BY <1>4, <1>8, <2>1, HoldsIs
    <3>2. y - 1 \in Nat \ {0} /\ y - 1 + 1 = y
      BY <3>1, <2>1
    <3> QED
      BY <1>5, <1>8, <2>1, <3>2 DEF Was
  <2>2. CASE v = "pool" /\ y = 1
    <3>0. PICK e : e = Len(writes) + 1
      OBVIOUS
    <3>1. Holds("write", e, s)'
      BY <1>3, <1>8, <2>2, <3>0
    <3>2. Was("write", e, v, y, 1, z, "none")
      BY <2>2, <3>0 DEF Was
    <3> QED
      BY <3>1, <3>2
  <2>3. CASE v = "mux"
    BY <1>2, <1>8, <2>3 DEF Was, SameMux
  <2>4. CASE v = "write"
    BY <1>3, <1>8, <2>4 DEF Was
  <2> QED
    BY <1>8, <2>1, <2>2, <2>3, <2>4, HoldsIs
<1>9. ASSUME NEW w, NEW x, Holds(w, x, s)'
      PROVE  \E v, y : Was(w, x, v, y, 1, z, "none") /\ Holds(v, y, s)
  <2>1. CASE w = "pool"
    BY <1>5, <1>9, <2>1 DEF Was
  <2>2. CASE w = "mux"
    BY <1>2, <1>9, <2>2 DEF Was, SameMux
  <2>3. CASE w = "write" /\ Holds("write", x, s)
    BY <1>3, <2>3 DEF Was
  <2>4. CASE w = "write" /\ x = Len(writes) + 1 /\ Holds("pool", 1, s)
    BY <2>4 DEF Was
  <2> QED
    BY <1>3, <1>7, <1>9, <2>1, <2>2, <2>3, <2>4
<1>10. ASSUME NEW w, NEW x, NEW v, NEW y, Was(w, x, v, y, 1, z, "none"), Holds(w, x, s)', Holds(v, y, s)
       PROVE  /\ Held(w, x)' = Held(v, y) /\ From(w, x)' = From(v, y)
              /\ IF v = "pool" THEN IF y = 1 THEN w = "write" /\ x = z ELSE w = "pool" /\ x \in Nat /\ y = x + 1
                 ELSE w = v /\ x = y
  <2>1. CASE v = "mux"
    <3>1. ~(w = "pool" /\ x = Len(pool) + 1)
      BY <1>4, <1>5, <1>10, HoldsIs
    <3>2. w = "mux" /\ x = y
      BY <1>10, <2>1, <3>1 DEF Was
    <3> QED
      BY <1>2, <1>10, <2>1, <3>2 DEF SameMux, Held, From
  <2>2. CASE v = "write"
    <3>1. w = "write" /\ x \in Nat /\ y = (IF x < z THEN x ELSE x + 1) /\ y \in 1 .. Len(writes)
      BY <1>3, <1>10, <2>2 DEF Was
    <3>2. x = y /\ writes'[x] = writes[x]
      BY <1>1, <1>4, <3>1
    <3> QED
      BY <2>2, <3>1, <3>2 DEF Held, From
  <2>3. CASE v = "pool" /\ y = 1
    <3>1. ~(w = "pool" /\ x \in Nat /\ y = x + 1)
      BY <1>5, <1>10, <2>3
    <3>2. w = "write" /\ x = z
      BY <1>10, <2>3, <3>1 DEF Was
    <3>3. Held(w, x)' = pool[1].batch /\ From(w, x)' = 1
      BY <1>1, <3>2 DEF Held, From
    <3> QED
      BY <2>3, <3>2, <3>3 DEF Held, From
  <2>4. CASE v = "pool" /\ y # 1
    <3>1. w = "pool" /\ x \in Nat /\ y = x + 1
      BY <1>10, <2>4 DEF Was
    <3> QED
      BY <1>5, <1>10, <2>4, <3>1 DEF Held, From
  <2> QED
    BY <1>10, <2>1, <2>2, <2>3, <2>4, HoldsIs
<1> HIDE DEF z
<1>11. \A w, x, a, b, v, y : /\ Was(w, x, v, y, 1, z, "none") /\ Was(a, b, v, y, 1, z, "none")
                             /\ Holds(w, x, s)' /\ Holds(a, b, s)' /\ Holds(v, y, s)
         => a = w /\ b = x
  <2>1. ASSUME NEW w, NEW x, NEW a, NEW b, NEW v, NEW y, Was(w, x, v, y, 1, z, "none"), Was(a, b, v, y, 1, z, "none"),
               Holds(w, x, s)', Holds(a, b, s)', Holds(v, y, s)
        PROVE  a = w /\ b = x
    <3>1. IF v = "pool" THEN IF y = 1 THEN w = "write" /\ x = z ELSE w = "pool" /\ x \in Nat /\ y = x + 1
          ELSE w = v /\ x = y
      BY <1>10, <2>1
    <3>2. IF v = "pool" THEN IF y = 1 THEN a = "write" /\ b = z ELSE a = "pool" /\ b \in Nat /\ y = b + 1
          ELSE a = v /\ b = y
      BY <1>10, <2>1
    <3> QED
      BY <3>1, <3>2
  <2> QED
    BY <2>1
<1> QED
  BY <1>8, <1>9, <1>10, <1>11 DEF Moved, z

LEMMA DoneMoved ==
  ASSUME Typed, NEW z \in DOMAIN writes, WriteDone(z), case' = case, NEW s
  PROVE  Moved(0, z, "none", s)
<1>1. /\ \A k \in writes[z].i .. Len(writes[z].batch) : writes[z].batch[k].chan # Channel[writes[z].sink]
      /\ DOMAIN writes' = 1 .. Len(writes) - 1
      /\ \A x \in 1 .. Len(writes) - 1 : writes'[x] = IF x < z THEN writes[x] ELSE writes[x + 1]
  BY DoneEnds DEF Ends
<1>2. SameMux /\ SamePool
  <2>1. mux' = mux /\ pool' = pool
    BY DEF WriteDone
  <2> QED
    BY <2>1, NoMuxMoves, NoPoolMoves
<1>4. DOMAIN pool = 1 .. Len(pool) /\ DOMAIN writes = 1 .. Len(writes) /\ Len(pool) \in Nat /\ Len(writes) \in Nat
  BY DEF Typed, PoolOK, WritesOK
<1> DEFINE Old(x) == IF x < z THEN x ELSE x + 1
<1>5. \A x \in 1 .. Len(writes) - 1 : Old(x) \in DOMAIN writes /\ writes'[x] = writes[Old(x)] /\ Old(x) # z
  BY <1>1, <1>4
<1>3. ASSUME NEW x, Holds("write", x, s)'
      PROVE  x \in 1 .. Len(writes) - 1 /\ Holds("write", Old(x), s) /\ writes'[x] = writes[Old(x)]
  <2>1. x \in DOMAIN writes' /\ writes'[x].sink = s
    BY <1>3 DEF Holds
  <2>2. x \in 1 .. Len(writes) - 1 /\ Old(x) \in DOMAIN writes /\ writes'[x] = writes[Old(x)]
    BY <1>1, <1>5, <2>1
  <2> HIDE DEF Old
  <2> QED
    BY <2>1, <2>2 DEF Holds
<1>6. ASSUME NEW y, Holds("write", y, s), y # z
      PROVE  \E x \in 1 .. Len(writes) - 1 : Old(x) = y /\ Holds("write", x, s)'
  <2>1. y \in 1 .. Len(writes) /\ writes[y].sink = s
    BY <1>4, <1>6 DEF Holds
  <2>2. PICK x \in 1 .. Len(writes) - 1 : Old(x) = y
    <3>1. CASE y < z
      <4>1. y \in 1 .. Len(writes) - 1 /\ Old(y) = y
        BY <1>4, <2>1, <3>1
      <4> QED
        BY <4>1
    <3>2. CASE y > z
      <4>1. y - 1 \in 1 .. Len(writes) - 1 /\ Old(y - 1) = y
        BY <1>4, <2>1, <3>2
      <4> QED
        BY <4>1
    <3> QED
      BY <1>4, <1>6, <2>1, <3>1, <3>2
  <2>3. x \in DOMAIN writes' /\ writes'[x] = writes[y]
    BY <1>1, <1>5, <2>2
  <2>4. Holds("write", x, s)'
    BY <2>1, <2>3 DEF Holds
  <2> QED
    BY <2>2, <2>4
<1>7. \A w, x : Holds(w, x, s)' => w \in {"mux", "pool", "write"}
  BY DEF Holds
<1>8. ASSUME NEW v, NEW y, Holds(v, y, s)
      PROVE  \/ \E w, x : Was(w, x, v, y, 0, z, "none") /\ Holds(w, x, s)'
             \/ \A k \in From(v, y) .. Len(Held(v, y)) : Held(v, y)[k].chan # Channel[s]
  <2>1. CASE v = "pool"
    <3>1. y \in Nat /\ y = y + 0
      BY <1>4, <1>8, <2>1, HoldsIs
    <3> QED
      BY <1>2, <1>8, <2>1, <3>1 DEF Was, SamePool
  <2>2. CASE v = "mux"
    BY <1>2, <1>8, <2>2 DEF Was, SameMux
  <2>3. CASE v = "write" /\ y = z
    BY <1>1, <1>8, <2>3 DEF Held, From, Holds
  <2>4. CASE v = "write" /\ y # z
    BY <1>6, <1>8, <2>4 DEF Was
  <2> QED
    BY <1>8, <2>1, <2>2, <2>3, <2>4, HoldsIs
<1>9. ASSUME NEW w, NEW x, Holds(w, x, s)'
      PROVE  \E v, y : Was(w, x, v, y, 0, z, "none") /\ Holds(v, y, s)
  <2>1. CASE w = "pool"
    <3>1. Holds("pool", x, s)
      BY <1>2, <1>9, <2>1 DEF SamePool
    <3>2. x \in Nat /\ x = x + 0
      BY <1>4, <3>1, HoldsIs
    <3> QED
      BY <2>1, <3>1, <3>2 DEF Was
  <2>2. CASE w = "mux"
    BY <1>2, <1>9, <2>2 DEF Was, SameMux
  <2>3. CASE w = "write"
    BY <1>3, <1>9, <2>3 DEF Was
  <2> QED
    BY <1>7, <1>9, <2>1, <2>2, <2>3
<1>10. ASSUME NEW w, NEW x, NEW v, NEW y, Was(w, x, v, y, 0, z, "none"), Holds(w, x, s)', Holds(v, y, s)
       PROVE  /\ Held(w, x)' = Held(v, y) /\ From(w, x)' = From(v, y)
              /\ w = v /\ IF v = "write" THEN x \in Nat /\ y = Old(x) ELSE x = y
  <2>1. CASE v = "mux"
    <3>1. ~(w = "pool" /\ x = Len(pool) + 1)
      BY <1>2, <1>4, <1>10, HoldsIs DEF SamePool
    <3>2. w = "mux" /\ x = y
      BY <1>10, <2>1, <3>1 DEF Was
    <3> QED
      BY <1>2, <1>10, <2>1, <3>2 DEF SameMux, Held, From
  <2>2. CASE v = "write"
    <3>1. w = "write" /\ x \in Nat /\ y = Old(x)
      BY <1>10, <2>2 DEF Was
    <3>2. writes'[x] = writes[y]
      BY <1>3, <1>10, <3>1
    <3> QED
      BY <2>2, <3>1, <3>2 DEF Held, From
  <2>3. CASE v = "pool"
    <3>1. w = "pool" /\ x \in Nat /\ y = x + 0
      BY <1>10, <2>3 DEF Was
    <3>2. x = y
      BY <3>1
    <3> QED
      BY <1>2, <1>10, <2>3, <3>1, <3>2 DEF Held, From, SamePool
  <2> QED
    BY <1>10, <2>1, <2>2, <2>3, HoldsIs
<1>11. \A w, x, a, b, v, y : /\ Was(w, x, v, y, 0, z, "none") /\ Was(a, b, v, y, 0, z, "none")
                             /\ Holds(w, x, s)' /\ Holds(a, b, s)' /\ Holds(v, y, s)
         => a = w /\ b = x
  <2>1. ASSUME NEW w, NEW x, NEW a, NEW b, NEW v, NEW y, Was(w, x, v, y, 0, z, "none"), Was(a, b, v, y, 0, z, "none"),
               Holds(w, x, s)', Holds(a, b, s)', Holds(v, y, s)
        PROVE  a = w /\ b = x
    <3>1. w = v /\ IF v = "write" THEN x \in Nat /\ y = Old(x) ELSE x = y
      BY <1>10, <2>1
    <3>2. a = v /\ IF v = "write" THEN b \in Nat /\ y = Old(b) ELSE b = y
      BY <1>10, <2>1
    <3>3. z \in Nat
      BY <1>4
    <3> QED
      BY <3>1, <3>2, <3>3
  <2> QED
    BY <2>1
<1> QED
  BY <1>8, <1>9, <1>10, <1>11 DEF Moved

\* The sinks that a multiplexer skips or leaves behind are not concerned by its batch.
LEMMA SubmitHolds ==
  ASSUME Typed, NEW m \in Muxer, Submit(m), case' = case, NEW x, Submits(m, x), NEW s
  PROVE  /\ s = case.sinks[x] => Holds("mux", m, s)
         /\ Holds("mux", m, s)' => Holds("mux", m, s) /\ s # case.sinks[x] /\ mux'[m].batch = mux[m].batch
         /\ Holds("mux", m, s) /\ s # case.sinks[x] =>
              \/ Holds("mux", m, s)'
              \/ \A k \in 1 .. Len(mux[m].batch) : mux[m].batch[k].chan # Channel[s]
         /\ \A o : o # m => /\ Holds("mux", o, s)' <=> Holds("mux", o, s)
                            /\ Holds("mux", o, s) => mux'[o].batch = mux[o].batch
<1> DEFINE b == mux[m].batch
           next == mux[m].next
<1>1. PICK d : /\ Becomes(m, d)
               /\ \/ d.pc = "idle" /\ Ahead(x + 1, b) = {}
                  \/ d.pc = "submit" /\ d.batch = b /\ d.next = x + 1
  BY SubmitPool, SubmitBecomes
<1>2. mux[m].pc = "submit"
  BY SubmitPool
<1>3. mux' = [mux EXCEPT ![m] = d] /\ mux'[m] = d /\ \A o \in Muxer \ {m} : mux'[o] = mux[o]
  BY <1>1 DEF Becomes, Typed, MuxOK
<1>4. /\ next \in Nat \ {0} /\ b \in Seq(Record) /\ case.sinks \in Seq(Sink)
      /\ \A z, y \in DOMAIN case.sinks : case.sinks[z] = case.sinks[y] => z = y
  BY <1>2, DeskParts, CaseParts DEF Typed, MuxOK
<1>5. /\ x \in next .. Len(case.sinks) /\ x \in DOMAIN case.sinks
      /\ \A y \in Ahead(next, b) : x <= y
  BY DEF Submits, Ahead
<1>6. Holds("mux", m, s) <=> \E z \in next .. Len(case.sinks) : case.sinks[z] = s
  BY <1>2 DEF Holds
<1>7. Holds("mux", m, s)' <=> d.pc = "submit" /\ \E z \in d.next .. Len(case.sinks) : case.sinks[z] = s
  BY <1>3 DEF Holds
<1>8. ASSUME NEW z \in 1 .. Len(case.sinks), z \notin Ahead(1, b), case.sinks[z] = s
      PROVE  \A k \in 1 .. Len(b) : b[k].chan # Channel[s]
  <2>1. ~Concerns(s, b)
    BY <1>8 DEF Ahead
  <2>2. DOMAIN b = 1 .. Len(b)
    BY <1>4
  <2> QED
    BY <2>1, <2>2 DEF Concerns
<1>9. s = case.sinks[x] => Holds("mux", m, s)
  BY <1>5, <1>6
<1>10. Holds("mux", m, s)' => Holds("mux", m, s) /\ s # case.sinks[x] /\ mux'[m].batch = b
  <2>1. ASSUME Holds("mux", m, s)'
        PROVE  Holds("mux", m, s) /\ s # case.sinks[x] /\ mux'[m].batch = b
    <3>1. d.next = x + 1 /\ d.batch = b
      BY <1>1, <1>7, <2>1
    <3>2. PICK z \in x + 1 .. Len(case.sinks) : case.sinks[z] = s
      BY <1>7, <2>1, <3>1
    <3>3. z \in next .. Len(case.sinks) /\ z # x /\ z \in DOMAIN case.sinks
      BY <1>4, <1>5, <3>2
    <3> QED
      BY <1>3, <1>4, <1>5, <1>6, <3>1, <3>2, <3>3
  <2> QED
    BY <2>1
<1>11. Holds("mux", m, s) /\ s # case.sinks[x] =>
         Holds("mux", m, s)' \/ \A k \in 1 .. Len(b) : b[k].chan # Channel[s]
  <2>1. ASSUME Holds("mux", m, s), s # case.sinks[x]
        PROVE  Holds("mux", m, s)' \/ \A k \in 1 .. Len(b) : b[k].chan # Channel[s]
    <3>1. PICK z \in next .. Len(case.sinks) : case.sinks[z] = s
      BY <1>6, <2>1
    <3>2. z \in 1 .. Len(case.sinks) /\ z # x
      BY <1>4, <2>1, <3>1
    <3>3. CASE z < x
      <4>1. z \notin Ahead(next, b)
        BY <1>4, <1>5, <3>1, <3>3
      <4>2. z \notin Ahead(1, b)
        BY <3>1, <4>1 DEF Ahead
      <4> QED
        BY <1>8, <3>1, <3>2, <4>2
    <3>4. CASE z > x /\ d.pc = "submit"
      <4>1. d.next = x + 1
        BY <1>1, <3>4
      <4>2. z \in x + 1 .. Len(case.sinks)
        BY <1>4, <1>5, <3>1, <3>4
      <4> QED
        BY <1>7, <3>1, <3>4, <4>1, <4>2
    <3>5. CASE z > x /\ Ahead(x + 1, b) = {}
      <4>1. z \in x + 1 .. Len(case.sinks)
        BY <1>4, <1>5, <3>1, <3>5
      <4>2. z \notin Ahead(1, b)
        BY <3>5, <4>1 DEF Ahead
      <4> QED
        BY <1>8, <3>1, <3>2, <4>2
    <3> QED
      BY <1>1, <1>4, <1>5, <3>1, <3>2, <3>3, <3>4, <3>5
  <2> QED
    BY <2>1
<1>12. \A o : o # m => /\ Holds("mux", o, s)' <=> Holds("mux", o, s)
                       /\ Holds("mux", o, s) => mux'[o].batch = mux[o].batch
  BY <1>3 DEF Holds
<1> QED
  BY <1>9, <1>10, <1>11, <1>12

LEMMA SubmitMoved ==
  ASSUME Typed, NEW m \in Muxer, Submit(m), case' = case, NEW s
  PROVE  Moved(0, Len(writes) + 1, m, s)
<1> DEFINE z == Len(writes) + 1
<1>0. PICK e : e = Len(pool) + 1
  OBVIOUS
<1>1. PICK n : Submits(m, n)
  BY SubmitPool
<1>2. /\ s = case.sinks[n] => Holds("mux", m, s)
      /\ Holds("mux", m, s)' => Holds("mux", m, s) /\ s # case.sinks[n] /\ mux'[m].batch = mux[m].batch
      /\ Holds("mux", m, s) /\ s # case.sinks[n] =>
           \/ Holds("mux", m, s)'
           \/ \A k \in 1 .. Len(mux[m].batch) : mux[m].batch[k].chan # Channel[s]
      /\ \A o : o # m => /\ Holds("mux", o, s)' <=> Holds("mux", o, s)
                         /\ Holds("mux", o, s) => mux'[o].batch = mux[o].batch
  BY <1>1, SubmitHolds
<1>3. SameWrites
  <2>1. writes' = writes
    BY DEF Submit
  <2> QED
    BY <2>1, NoWriteMoves
<1>4. DOMAIN pool = 1 .. Len(pool) /\ DOMAIN writes = 1 .. Len(writes) /\ Len(pool) \in Nat /\ Len(writes) \in Nat
  BY DEF Typed, PoolOK, WritesOK
<1>5. /\ DOMAIN pool' = 1 .. Len(pool) + 1 /\ \A i \in 1 .. Len(pool) : pool'[i] = pool[i]
      /\ pool'[e] = [kind |-> "write", sink |-> case.sinks[n], batch |-> mux[m].batch]
  BY <1>0, <1>1 DEF Submits, PoolGets
<1>6. \A x : /\ Holds("pool", x, s)' <=> Holds("pool", x, s) \/ (x = e /\ s = case.sinks[n])
             /\ Holds("pool", x, s) => x \in 1 .. Len(pool) /\ pool'[x] = pool[x]
  BY <1>0, <1>4, <1>5 DEF Holds
<1>7. \A w, x : Holds(w, x, s)' => w \in {"mux", "pool", "write"}
  BY DEF Holds
<1>8. ASSUME NEW v, NEW y, Holds(v, y, s)
      PROVE  \/ \E w, x : Was(w, x, v, y, 0, z, m) /\ Holds(w, x, s)'
             \/ \A k \in From(v, y) .. Len(Held(v, y)) : Held(v, y)[k].chan # Channel[s]
  <2>1. CASE v = "pool"
    <3>1. y \in Nat /\ y = y + 0
      BY <1>6, <1>8, <2>1
    <3> QED
      BY <1>6, <1>8, <2>1, <3>1 DEF Was
  <2>2. CASE v = "mux" /\ y = m /\ s = case.sinks[n]
    <3>1. Holds("pool", e, s)' /\ Was("pool", e, v, y, 0, z, m)
      BY <1>0, <1>6, <2>2 DEF Was
    <3> QED
      BY <3>1
  <2>3. CASE v = "mux" /\ y = m /\ s # case.sinks[n]
    <3>1. \/ Holds("mux", m, s)'
          \/ \A k \in 1 .. Len(mux[m].batch) : mux[m].batch[k].chan # Channel[s]
      BY <1>2, <1>8, <2>3
    <3>2. Was("mux", m, v, y, 0, z, m)
      BY <2>3 DEF Was
    <3>3. Held(v, y) = mux[m].batch /\ From(v, y) = 1
      BY <2>3 DEF Held, From
    <3> HIDE DEF z
    <3> QED
      BY <3>1, <3>2, <3>3
  <2>4. CASE v = "mux" /\ y # m
    BY <1>2, <1>8, <2>4 DEF Was
  <2>5. CASE v = "write"
    <3>1. y \in 1 .. Len(writes)
      BY <1>4, <1>8, <2>5, HoldsIs
    <3> QED
      BY <1>3, <1>4, <1>8, <2>5, <3>1 DEF Was, SameWrites
  <2> QED
    BY <1>8, <2>1, <2>2, <2>3, <2>4, <2>5, HoldsIs
<1>9. ASSUME NEW w, NEW x, Holds(w, x, s)'
      PROVE  \E v, y : Was(w, x, v, y, 0, z, m) /\ Holds(v, y, s)
  <2>1. CASE w = "pool" /\ Holds("pool", x, s)
    <3>1. x \in Nat /\ x = x + 0
      BY <1>6, <2>1
    <3> QED
      BY <2>1, <3>1 DEF Was
  <2>2. CASE w = "pool" /\ x = e /\ s = case.sinks[n]
    <3>1. Holds("mux", m, s) /\ Was(w, x, "mux", m, 0, z, m)
      BY <1>0, <1>2, <2>2 DEF Was
    <3> QED
      BY <3>1
  <2>3. CASE w = "mux"
    BY <1>2, <1>9, <2>3 DEF Was
  <2>4. CASE w = "write"
    <3>1. Holds("write", x, s)
      BY <1>3, <1>9, <2>4 DEF SameWrites
    <3>2. x \in 1 .. Len(writes)
      BY <1>4, <3>1, HoldsIs
    <3> QED
      BY <1>4, <2>4, <3>1, <3>2 DEF Was
  <2> QED
    BY <1>6, <1>7, <1>9, <2>1, <2>2, <2>3, <2>4
<1>10. ASSUME NEW w, NEW x, NEW v, NEW y, Was(w, x, v, y, 0, z, m), Holds(w, x, s)', Holds(v, y, s)
       PROVE  /\ Held(w, x)' = Held(v, y) /\ From(w, x)' = From(v, y)
              /\ IF v = "mux" /\ y = m /\ s = case.sinks[n] THEN w = "pool" /\ x = e ELSE w = v /\ x = y
  <2>1. CASE v = "mux" /\ w = "mux"
    <3>1. x = y
      BY <1>10, <2>1 DEF Was
    <3> QED
      BY <1>2, <1>10, <2>1, <3>1 DEF Held, From
  <2>2. CASE v = "mux" /\ w = "pool"
    <3>1. x = e /\ y = m
      BY <1>0, <1>10, <2>2 DEF Was
    <3>2. s = case.sinks[n]
      BY <1>0, <1>4, <1>6, <1>10, <2>2, <3>1
    <3> QED
      BY <1>5, <2>2, <3>1, <3>2 DEF Held, From
  <2>3. CASE v = "write"
    <3>1. w = "write" /\ x = y
      BY <1>3, <1>4, <1>10, <2>3, HoldsIs DEF Was, SameWrites
    <3> QED
      BY <1>3, <1>10, <2>3, <3>1 DEF SameWrites, Held, From
  <2>4. CASE v = "pool"
    <3>1. w = "pool" /\ x \in Nat /\ y = x + 0
      BY <1>10, <2>4 DEF Was
    <3>2. x = y
      BY <3>1
    <3> QED
      BY <1>6, <1>10, <2>4, <3>1, <3>2 DEF Held, From
  <2>5. v = "mux" => w \in {"mux", "pool"}
    BY <1>10 DEF Was
  <2> QED
    BY <1>10, <2>1, <2>2, <2>3, <2>4, <2>5, HoldsIs
<1> HIDE DEF z
<1>11. \A w, x, a, b, v, y : /\ Was(w, x, v, y, 0, z, m) /\ Was(a, b, v, y, 0, z, m)
                             /\ Holds(w, x, s)' /\ Holds(a, b, s)' /\ Holds(v, y, s)
         => a = w /\ b = x
  <2>1. ASSUME NEW w, NEW x, NEW a, NEW b, NEW v, NEW y, Was(w, x, v, y, 0, z, m), Was(a, b, v, y, 0, z, m),
               Holds(w, x, s)', Holds(a, b, s)', Holds(v, y, s)
        PROVE  a = w /\ b = x
    <3>1. IF v = "mux" /\ y = m /\ s = case.sinks[n] THEN w = "pool" /\ x = e ELSE w = v /\ x = y
      BY <1>10, <2>1
    <3>2. IF v = "mux" /\ y = m /\ s = case.sinks[n] THEN a = "pool" /\ b = e ELSE a = v /\ b = y
      BY <1>10, <2>1
    <3> QED
      BY <3>1, <3>2
  <2> QED
    BY <2>1
<1> QED
  BY <1>8, <1>9, <1>10, <1>11 DEF Moved, z

\* A new holder of what is taken from the queue.
Takes(b, s) == Ahead(1, b) # {} /\ \E z \in 1 .. Len(case.sinks) : case.sinks[z] = s

LEMMA CollectHolds ==
  ASSUME Typed, NEW m \in Muxer, Collect(m), case' = case, NEW b, NEW n, Cuts(m, b, n), NEW s
  PROVE  /\ \A w, x : Holds(w, x, s) =>
              /\ Holds(w, x, s)' /\ ~(w = "mux" /\ x = m)
              /\ Held(w, x)' = Held(w, x) /\ From(w, x)' = From(w, x)
         /\ \A w, x : Holds(w, x, s)' => Holds(w, x, s) \/ (w = "mux" /\ x = m /\ Takes(b, s))
         /\ Takes(b, s) => Holds("mux", m, s)' /\ Held("mux", m)' = b /\ From("mux", m)' = 1
         /\ (\E z \in 1 .. Len(case.sinks) : case.sinks[z] = s) /\ ~Takes(b, s) =>
              \A i \in DOMAIN b : b[i].chan # Channel[s]
<1>1. PICK d : /\ Becomes(m, d)
               /\ \/ d.pc = "idle" /\ Ahead(1, b) = {}
                  \/ d.pc = "submit" /\ Ahead(1, b) # {} /\ d.batch = b /\ d.next = 1
  BY CollectBecomes
<1>2. mux[m].pc = "collect"
  BY CollectCuts
<1>3. mux'[m] = d /\ \A o \in Muxer \ {m} : mux'[o] = mux[o]
  BY <1>1 DEF Becomes, Typed, MuxOK
<1>4. pool' = pool /\ writes' = writes
  BY DEF Collect, sinkState
<1>5. Takes(b, s) <=> d.pc = "submit" /\ \E z \in d.next .. Len(case.sinks) : case.sinks[z] = s
  BY <1>1 DEF Takes
<1>6. \A x : x # m => /\ Holds("mux", x, s)' <=> Holds("mux", x, s)
                      /\ Holds("mux", x, s) => mux'[x] = mux[x]
  BY <1>3 DEF Holds
<1>7. ~Holds("mux", m, s) /\ (Holds("mux", m, s)' <=> Takes(b, s))
  BY <1>2, <1>3, <1>5 DEF Holds
<1>8. SamePool /\ SameWrites
  BY <1>4, NoPoolMoves, NoWriteMoves
<1>9. \A w, x : Holds(w, x, s)' => w \in {"mux", "pool", "write"}
  BY DEF Holds
<1>10. ASSUME NEW w, NEW x, Holds(w, x, s)
       PROVE  /\ Holds(w, x, s)' /\ ~(w = "mux" /\ x = m)
              /\ Held(w, x)' = Held(w, x) /\ From(w, x)' = From(w, x)
  BY <1>6, <1>7, <1>8, <1>10, HoldsIs DEF SamePool, SameWrites, Held, From
<1>11. ASSUME NEW w, NEW x, Holds(w, x, s)'
       PROVE  Holds(w, x, s) \/ (w = "mux" /\ x = m /\ Takes(b, s))
  BY <1>6, <1>7, <1>8, <1>9, <1>11 DEF SamePool, SameWrites
<1>12. Takes(b, s) => Holds("mux", m, s)' /\ Held("mux", m)' = b /\ From("mux", m)' = 1
  <2>1. Takes(b, s) => mux'[m].batch = b
    BY <1>1, <1>3 DEF Takes
  <2> QED
    BY <1>7, <2>1 DEF Held, From
<1>13. (\E z \in 1 .. Len(case.sinks) : case.sinks[z] = s) /\ ~Takes(b, s) =>
         \A i \in DOMAIN b : b[i].chan # Channel[s]
  BY DEF Takes, Ahead, Concerns
<1> QED
  BY <1>10, <1>11, <1>12, <1>13

LEMMA HandleHolds ==
  ASSUME Typed, case' = case, NEW x \in DOMAIN writes, WriteMessage(x) \/ WriteChange(x) \/ WriteStop(x) \/ WriteRefused(x),
         NEW k, NEW j, Passes(x, k, j), NEW s
  PROVE  /\ \A w, y : Holds(w, y, s)' <=> Holds(w, y, s)
         /\ \A w, y : Holds(w, y, s) =>
              /\ Held(w, y)' = Held(w, y)
              /\ From(w, y)' = IF w = "write" /\ y = x THEN j + 1 ELSE From(w, y)
         /\ Holds("write", x, s) <=> s = writes[x].sink
         /\ Held("write", x) = writes[x].batch /\ From("write", x) = writes[x].i
<1>1. mux' = mux /\ pool' = pool
  BY DEF WriteMessage, WriteChange, WriteStop, WriteRefused
<1>2. SameMux /\ SamePool
  BY <1>1, NoMuxMoves, NoPoolMoves
<1>3. \A y : Holds("write", y, s)' <=> Holds("write", y, s)
  BY DEF Passes, Holds
<1>4. \A y : Holds("write", y, s) => writes'[y].batch = writes[y].batch /\ writes'[y].i = IF y = x THEN j + 1 ELSE writes[y].i
  BY DEF Passes, Holds
<1>5. \A w, y : Holds(w, y, s)' => w \in {"mux", "pool", "write"}
  BY DEF Holds
<1>6. \A w, y : Holds(w, y, s)' <=> Holds(w, y, s)
  BY <1>2, <1>3, <1>5, HoldsIs DEF SameMux, SamePool
<1>7. ASSUME NEW w, NEW y, Holds(w, y, s)
      PROVE  /\ Held(w, y)' = Held(w, y)
             /\ From(w, y)' = IF w = "write" /\ y = x THEN j + 1 ELSE From(w, y)
  BY <1>2, <1>4, <1>7, HoldsIs DEF SameMux, SamePool, Held, From
<1>8. /\ Holds("write", x, s) <=> s = writes[x].sink
      /\ Held("write", x) = writes[x].batch /\ From("write", x) = writes[x].i
  BY DEF Holds, Held, From
<1> QED
  BY <1>6, <1>7, <1>8

\* A step is one of three kinds: a Write handles a record, a multiplexer collects, or the
\* holders move.
Handles(x) == WriteMessage(x) \/ WriteChange(x) \/ WriteStop(x) \/ WriteRefused(x)
Moves == /\ \E p, z, m : \A s : Moved(p, z, m, s)
         /\ UNCHANGED <<out, skipped, file>>

LEMMA ThreeKinds ==
  ASSUME Typed, [Next]_vars
  PROVE  Moves \/ (\E x \in DOMAIN writes : Handles(x)) \/ (\E m \in Muxer : Collect(m))
<1>1. /\ case' = case
      /\ pool' = pool \/ TimerClock \/ StartWrite \/ \E m \in Muxer : StartMux(m) \/ Submit(m)
      /\ mux' = mux \/ \E m \in Muxer : StartMux(m) \/ Pass(m) \/ GiveUp(m) \/ Cut(m) \/ Collect(m) \/ Submit(m)
      /\ writes' = writes \/ StartWrite
              \/ \E x \in DOMAIN writes : WriteMessage(x) \/ WriteChange(x) \/ WriteStop(x) \/ WriteRefused(x) \/ WriteDone(x)
      /\ file' = file \/ \E x \in DOMAIN writes : WriteChange(x) \/ WriteStop(x)
      /\ out' = out \/ \E x \in DOMAIN writes : WriteMessage(x) \/ WriteChange(x) \/ WriteStop(x) \/ WriteRefused(x)
      /\ skipped' = skipped \/ \E x \in DOMAIN writes : WriteStop(x)
  BY Elsewhere
<1>2. SUFFICES ASSUME ~ \E x \in DOMAIN writes : Handles(x), ~ \E m \in Muxer : Collect(m)
               PROVE  Moves
  OBVIOUS
<1>3. UNCHANGED <<out, skipped, file>>
  BY <1>1, <1>2 DEF Handles
<1>4. SUFFICES \E p, z, m : \A s : Moved(p, z, m, s)
  BY <1>3 DEF Moves
<1>5. ASSUME NEW m \in Muxer, StartMux(m) \/ Submit(m)
      PROVE  \E p, z, q : \A s : Moved(p, z, q, s)
  BY <1>1, <1>5, StartMuxMoved, SubmitMoved
<1>6. CASE StartWrite
  BY <1>1, <1>6, StartWriteMoved
<1>7. ASSUME NEW x \in DOMAIN writes, WriteDone(x)
      PROVE  \E p, z, q : \A s : Moved(p, z, q, s)
  BY <1>1, <1>7, DoneMoved
<1>8. ASSUME writes' = writes, pool' = pool \/ TimerClock, mux' = mux \/ \E m \in Muxer : Pass(m) \/ GiveUp(m) \/ Cut(m)
      PROVE  \E p, z, q : \A s : Moved(p, z, q, s)
  <2>1. SameWrites
    BY <1>8, NoWriteMoves
  <2>2. SamePool
    BY <1>8, TimerPool, NoPoolMoves
  <2>3. ASSUME NEW m \in Muxer, Pass(m) \/ GiveUp(m) \/ Cut(m)
        PROVE  \E d : Becomes(m, d) /\ mux[m].pc # "submit" /\ d.pc # "submit"
    BY <2>3, PassBecomes, CutBecomes, OtherBecomes
  <2>4. SameMux
    BY <1>1, <1>8, <2>3, NoMuxMoves
  <2> QED
    BY <2>1, <2>2, <2>4, StillMoved
<1> QED
  BY <1>1, <1>2, <1>5, <1>6, <1>7, <1>8 DEF Handles

LEMMA QueueSteps ==
  ASSUME Typed, [Next]_vars
  PROVE  queue' = queue \/ (\E r : NewRecord(r) /\ \E k : Joins(r, k)) \/ (\E m \in Muxer : Collect(m))
<1>1. queue' = queue \/ StopBegin \/ (\E t \in Thread : Push(t)) \/ (\E m \in Muxer : Collect(m))
        \/ (\E x \in DOMAIN writes : WriteChange(x) \/ WriteRefused(x))
  BY Elsewhere
<1> QED
  BY <1>1, StopJoins, PushJoins, WriteJoins
-----------------------------------------------------------------------------
(* Records keep their order on the way *)

LEMMA GoodStays ==
  ASSUME Typed, [Next]_vars, NEW r, Good(r)
  PROVE  Good(r)'
<1>1. case' = case /\ now' >= now /\ now' \in Nat /\ now \in Nat
  BY ClockStays, BoundParts DEF Typed, ClockOK
<1>2. r \in Record /\ r.at \in Nat /\ Micros(r.ts) \in Int
  BY RecordParts, MicrosIsInt, BoundParts DEF Good
<1>3. \A t \in Thread : logged'[t] >= logged[t] /\ logged[t] \in Nat /\ logged'[t] \in Nat
  BY LoggedStays DEF Typed, LoggedOK
<1>4. r.at <= now'
  BY <1>1, <1>2 DEF Good
<1>5. r.src \in Thread => r.n \in 1 .. logged'[r.src]
  <2>1. ASSUME r.src \in Thread
        PROVE  r.n \in 1 .. logged'[r.src]
    <3>1. PICK a \in Nat, b \in Nat : a = logged[r.src] /\ b = logged'[r.src] /\ b >= a
      BY <1>3, <2>1
    <3>2. r.n \in 1 .. a
      BY <2>1, <3>1 DEF Good
    <3> QED
      BY <3>1, <3>2
  <2> QED
    BY <2>1
<1> QED
  BY <1>1, <1>2, <1>4, <1>5 DEF Good

LEMMA MicrosOfGood ==
  ASSUME Typed, NEW r, Good(r)
  PROVE  r \in Record /\ Micros(r.ts) \in Int /\ r.at \in Nat /\ Micros(r.ts) <= r.at /\ r.at <= now /\ now \in Nat
BY RecordParts, MicrosIsInt, BoundParts DEF Good, Typed, ClockOK

LEMMA NewIsGood ==
  ASSUME Typed, [Next]_vars, NEW r, NewRecord(r)
  PROVE  /\ Good(r)' /\ Micros(r.ts) \in Int
         /\ r.src \in Thread => /\ r.n = logged[r.src] + 1 /\ logged[r.src] \in Nat
                                /\ stamped'[r.src] = -1 /\ stamped[r.src] # -1
<1>1. case' = case /\ now' >= now /\ now' \in Nat /\ now \in Nat
  BY ClockStays, BoundParts DEF Typed, ClockOK
<1>2. r \in Record /\ Micros(r.ts) \in Int /\ r.at = now /\ Micros(r.ts) <= now
  BY MicrosIsInt, RecordParts DEF NewRecord
<1>3. ASSUME r.src \in Thread
      PROVE  r.n \in 1 .. logged'[r.src] /\ stamped'[r.src] = -1
  <2>1. logged \in [Thread -> Nat] /\ stamped \in [Thread -> -1 .. MaxTime]
    BY DEF Typed, LoggedOK, StampedOK
  <2> QED
    BY <1>3, <2>1 DEF NewRecord
<1>4. r.src \in Thread => logged[r.src] \in Nat
  BY DEF Typed, LoggedOK
<1> QED
  BY <1>1, <1>2, <1>3, <1>4 DEF NewRecord, Good

LEMMA LineIsSorted ==
  ASSUME NEW q \in Seq(Record), InLine(q)
  PROVE  Sorted(q)
<1>1. ASSUME NEW i \in DOMAIN q, NEW j \in DOMAIN q, i <= j
      PROVE  Micros(q[i].ts) <= Micros(q[j].ts)
  <2>1. CASE i < j
    BY <1>1, <2>1 DEF InLine, Precedes
  <2>2. CASE i = j
    <3>1. i \in 1 .. Len(q)
      OBVIOUS
    <3>2. Micros(q[i].ts) \in Int
      BY <3>1, ElementIs, RecordParts, MicrosIsInt
    <3> QED
      BY <2>2, <3>2
  <2> QED
    BY <1>1, <2>1, <2>2
<1> QED
  BY <1>1 DEF Sorted

\* A thread's stamp stays, or is the present.
LEMMA StampedLater ==
  ASSUME Typed, [Next]_vars, NEW t \in Thread, stamped'[t] # -1
  PROVE  (stamped[t] # -1 /\ stamped'[t] = stamped[t]) \/ stamped'[t] = now
<1>1. stamped' = stamped \/ \E u \in Thread : Stamp(u) \/ Push(u)
  BY Elsewhere
<1>2. stamped \in [Thread -> -1 .. MaxTime]
  BY DEF Typed, StampedOK
<1>3. ASSUME NEW u \in Thread, Stamp(u)
      PROVE  stamped' = [stamped EXCEPT ![u] = now]
  BY <1>3 DEF Stamp
<1>4. ASSUME NEW u \in Thread, Push(u)
      PROVE  stamped' = [stamped EXCEPT ![u] = -1]
  BY <1>4 DEF Push
<1> QED
  BY <1>1, <1>2, <1>3, <1>4

LEMMA QueuedStays ==
  ASSUME Typed, [Next]_vars, NEW r, Good(r),
         r.src \in Thread /\ stamped[r.src] # -1 => Micros(r.ts) <= stamped[r.src]
  PROVE  r.src \in Thread /\ stamped'[r.src] # -1 => Micros(r.ts) <= stamped'[r.src]
<1>1. Micros(r.ts) \in Int /\ r.at \in Nat /\ Micros(r.ts) <= r.at /\ r.at <= now /\ now \in Nat
  BY MicrosOfGood
<1> QED
  BY <1>1, StampedLater

\* A record joins the line of the queue behind those that are not later.
LEMMA LineJoined ==
  ASSUME Typed, QueueInLine, NEW r, NewRecord(r), NEW n, Joins(r, n)
  PROVE  InLine(queue')
<1>1. queue \in Seq(Record) /\ Len(queue) \in Nat /\ DOMAIN queue = 1 .. Len(queue) /\ n \in 0 .. Len(queue)
  BY DEF Typed, QueueOK, Joins
<1>2. \A i \in 1 .. Len(queue) : i <= n <=> Micros(queue[i].ts) <= Micros(r.ts)
  BY <1>1, LineIsSorted DEF QueueInLine, Joins
<1>3. \A i \in 1 .. Len(queue) : Good(queue[i]) /\ Micros(queue[i].ts) \in Int
  BY <1>1, MicrosOfGood DEF QueueInLine
<1>4. Micros(r.ts) \in Int
  BY RecordParts, MicrosIsInt DEF NewRecord
<1>5. DOMAIN queue' = 1 .. Len(queue) + 1
      /\ \A i \in 1 .. Len(queue) + 1 :
           queue'[i] = IF i <= n THEN queue[i] ELSE IF i = n + 1 THEN r ELSE queue[i - 1]
  BY DEF Joins, InsertedAs
<1>6. \A i, j \in 1 .. Len(queue) : i < j => Precedes(queue[i], queue[j])
  BY <1>1 DEF QueueInLine, InLine
<1>7. ASSUME NEW i \in 1 .. Len(queue), i <= n
      PROVE  Precedes(queue[i], r)
  <2>1. Micros(queue[i].ts) <= Micros(r.ts)
    BY <1>2, <1>7
  <2>2. ASSUME queue[i].src = r.src, r.src \in Thread
        PROVE  queue[i].n < r.n
    <3>1. PICK a \in Nat : a = logged[r.src]
      BY <2>2 DEF Typed, LoggedOK
    <3>2. queue[i].n \in 1 .. a /\ r.n = a + 1
      BY <1>3, <2>2, <3>1 DEF Good, NewRecord
    <3> QED
      BY <3>1, <3>2
  <2> QED
    BY <2>1, <2>2 DEF Precedes, Numbered
<1>8. ASSUME NEW i \in 1 .. Len(queue), ~(i <= n)
      PROVE  Precedes(r, queue[i])
  <2>1. Micros(queue[i].ts) > Micros(r.ts)
    BY <1>2, <1>3, <1>4, <1>8
  <2>2. ~(queue[i].src = r.src /\ r.src \in Thread)
    <3>1. ASSUME queue[i].src = r.src, r.src \in Thread
          PROVE  FALSE
      <4>1. Micros(queue[i].ts) <= stamped[r.src] /\ Micros(r.ts) = stamped[r.src]
        BY <1>1, <3>1 DEF QueueInLine, NewRecord
      <4> QED
        BY <1>3, <1>4, <2>1, <4>1
    <3> QED
      BY <3>1
  <2> QED
    BY <1>3, <1>4, <2>1, <2>2 DEF Precedes, Numbered
<1>9. ASSUME NEW i \in 1 .. Len(queue) + 1, NEW j \in 1 .. Len(queue) + 1, i < j
      PROVE  Precedes(queue'[i], queue'[j])
  <2>1. CASE j <= n
    <3>1. i \in 1 .. Len(queue) /\ j \in 1 .. Len(queue) /\ i <= n
      BY <1>1, <1>9, <2>1
    <3> QED
      BY <1>5, <1>6, <1>9, <2>1, <3>1
  <2>2. CASE j = n + 1
    <3>1. i \in 1 .. Len(queue) /\ i <= n /\ ~(j <= n)
      BY <1>1, <1>9, <2>2
    <3> QED
      BY <1>5, <1>7, <2>2, <3>1
  <2>3. CASE j > n + 1 /\ i <= n
    <3>1. i \in 1 .. Len(queue) /\ j - 1 \in 1 .. Len(queue) /\ i < j - 1 /\ ~(j <= n) /\ j # n + 1
      BY <1>1, <1>9, <2>3
    <3> QED
      BY <1>5, <1>6, <2>3, <3>1
  <2>4. CASE j > n + 1 /\ i = n + 1
    <3>1. j - 1 \in 1 .. Len(queue) /\ ~(j - 1 <= n) /\ ~(j <= n) /\ j # n + 1 /\ ~(i <= n)
      BY <1>1, <1>9, <2>4
    <3> QED
      BY <1>5, <1>8, <2>4, <3>1
  <2>5. CASE j > n + 1 /\ i > n + 1
    <3>1. /\ i - 1 \in 1 .. Len(queue) /\ j - 1 \in 1 .. Len(queue) /\ i - 1 < j - 1
          /\ ~(j <= n) /\ j # n + 1 /\ ~(i <= n) /\ i # n + 1
      BY <1>1, <1>9, <2>5
    <3> QED
      BY <1>5, <1>6, <3>1
  <2> QED
    BY <1>1, <1>9, <2>1, <2>2, <2>3, <2>4, <2>5
<1> QED
  BY <1>5, <1>9 DEF InLine

\* The queue keeps its line, and holds what it held and what is new.
LEMMA QueueLine ==
  ASSUME Typed, QueueInLine, [Next]_vars
  PROVE  /\ InLine(queue')
         /\ \A j \in DOMAIN queue' : (\E i \in DOMAIN queue : queue'[j] = queue[i]) \/ NewRecord(queue'[j])
<1>0. queue \in Seq(Record) /\ Len(queue) \in Nat /\ DOMAIN queue = 1 .. Len(queue)
  BY DEF Typed, QueueOK
<1>4. CASE queue' = queue
  BY <1>4 DEF QueueInLine
<1>5. ASSUME NEW r, NewRecord(r), NEW n, Joins(r, n)
      PROVE  /\ InLine(queue')
             /\ \A j \in DOMAIN queue' : (\E i \in DOMAIN queue : queue'[j] = queue[i]) \/ NewRecord(queue'[j])
  <2>1. InLine(queue')
    BY <1>5, LineJoined
  <2>2. n \in 0 .. Len(queue) /\ InsertedAs(queue', queue, r, n)
    BY <1>5 DEF Joins
  <2>3. ASSUME NEW j \in DOMAIN queue'
        PROVE  (\E i \in DOMAIN queue : queue'[j] = queue[i]) \/ NewRecord(queue'[j])
    <3>1. j \in 1 .. Len(queue) + 1 /\ queue'[j] = IF j <= n THEN queue[j] ELSE IF j = n + 1 THEN r ELSE queue[j - 1]
      BY <2>2, <2>3 DEF InsertedAs
    <3>2. CASE j <= n
      BY <1>0, <2>2, <3>1, <3>2
    <3>3. CASE j = n + 1
      <4>1. queue'[j] = r
        BY <2>2, <3>1, <3>3
      <4> QED
        BY <1>5, <4>1
    <3>4. CASE j > n + 1
      <4>1. j - 1 \in DOMAIN queue /\ queue'[j] = queue[j - 1]
        BY <1>0, <2>2, <3>1, <3>4
      <4> QED
        BY <4>1
    <3> QED
      BY <2>2, <3>1, <3>2, <3>3, <3>4
  <2> QED
    BY <2>1, <2>3
<1>6. ASSUME NEW m \in Muxer, Collect(m)
      PROVE  /\ InLine(queue')
             /\ \A j \in DOMAIN queue' : (\E i \in DOMAIN queue : queue'[j] = queue[i]) \/ NewRecord(queue'[j])
  <2>1. PICK b, n : n \in 0 .. Len(queue) /\ CutAs(b, queue', queue, n)
    BY <1>6, CollectCuts DEF Cuts
  <2>2. DOMAIN queue' = 1 .. Len(queue) - n /\ \A i \in 1 .. Len(queue) - n : queue'[i] = queue[i + n]
    BY <2>1 DEF CutAs
  <2>3. \A i \in 1 .. Len(queue) - n : i + n \in DOMAIN queue
    BY <1>0, <2>1
  <2>4. \A i, j \in DOMAIN queue : i < j => Precedes(queue[i], queue[j])
    BY DEF QueueInLine, InLine
  <2>5. ASSUME NEW i \in DOMAIN queue', NEW j \in DOMAIN queue', i < j
        PROVE  Precedes(queue'[i], queue'[j])
    <3>1. i + n < j + n
      BY <2>1, <2>2, <2>5
    <3> QED
      BY <2>2, <2>3, <2>4, <3>1
  <2> QED
    BY <2>2, <2>3, <2>5 DEF InLine
<1> QED
  BY <1>4, <1>5, <1>6, QueueSteps

LEMMA QueueInLineStays ==
  ASSUME Typed, QueueInLine, [Next]_vars
  PROVE  QueueInLine'
<1>1. \A i \in DOMAIN queue : /\ Good(queue[i])
                              /\ queue[i].src \in Thread /\ stamped[queue[i].src] # -1
                                   => Micros(queue[i].ts) <= stamped[queue[i].src]
  BY DEF QueueInLine
<1>2. ASSUME NEW r, NEW i \in DOMAIN queue, r = queue[i]
      PROVE  Good(r)' /\ (r.src \in Thread /\ stamped'[r.src] # -1 => Micros(r.ts) <= stamped'[r.src])
  BY <1>1, <1>2, GoodStays, QueuedStays
<1>3. ASSUME NEW j \in DOMAIN queue'
      PROVE  /\ Good(queue[j])'
             /\ queue'[j].src \in Thread /\ stamped'[queue'[j].src] # -1
                  => Micros(queue'[j].ts) <= stamped'[queue'[j].src]
  <2>1. PICK r : r = queue'[j]
    OBVIOUS
  <2>2. (\E i \in DOMAIN queue : r = queue[i]) \/ NewRecord(r)
    BY <1>3, <2>1, QueueLine
  <2>3. Good(r)' /\ (r.src \in Thread /\ stamped'[r.src] # -1 => Micros(r.ts) <= stamped'[r.src])
    BY <1>2, <2>2, NewIsGood
  <2> QED
    BY <2>1, <2>3 DEF Good
<1> QED
  BY <1>3, QueueLine DEF QueueInLine, InLine, Precedes, Numbered

\* A step back from a holder to the one before.
LEMMA MovedBack ==
  ASSUME NEW p, NEW z, NEW m, NEW s, Moved(p, z, m, s), NEW w, NEW x, Holds(w, x, s)'
  PROVE  \E v, y : /\ Was(w, x, v, y, p, z, m) /\ Holds(v, y, s)
                   /\ Held(w, x)' = Held(v, y) /\ From(w, x)' = From(v, y)
BY DEF Moved

LEMMA HeldBack ==
  ASSUME Typed, [Next]_vars, NEW w, NEW x, NEW s, Holds(w, x, s)'
  PROVE  \/ \E v, y : Holds(v, y, s) /\ Held(w, x)' = Held(v, y)
         \/ \E m \in Muxer : Collect(m) /\ \E b, n : Cuts(m, b, n) /\ Held(w, x)' = b
<1>1. case' = case
  BY Elsewhere
<1>2. CASE Moves
  BY <1>2, MovedBack DEF Moves
<1>3. ASSUME NEW a \in DOMAIN writes, Handles(a)
      PROVE  Holds(w, x, s) /\ Held(w, x)' = Held(w, x)
  <2>1. PICK k, j : Passes(a, k, j)
    BY <1>3, EveryWriteHandles DEF Handles, WriteHandles
  <2>2. WriteMessage(a) \/ WriteChange(a) \/ WriteStop(a) \/ WriteRefused(a)
    BY <1>3 DEF Handles
  <2>3. /\ \A u, y : Holds(u, y, s)' <=> Holds(u, y, s)
        /\ \A u, y : Holds(u, y, s) => Held(u, y)' = Held(u, y)
    BY <1>1, <2>1, <2>2, HandleHolds
  <2> QED
    BY <2>3
<1>4. ASSUME NEW m \in Muxer, Collect(m)
      PROVE  \/ Holds(w, x, s) /\ Held(w, x)' = Held(w, x)
             \/ \E b, n : Cuts(m, b, n) /\ Held(w, x)' = b
  <2>1. PICK b, n : Cuts(m, b, n)
    BY <1>4, CollectCuts
  <2> QED
    BY <1>1, <1>4, <2>1, CollectHolds
<1> QED
  BY <1>2, <1>3, <1>4, ThreeKinds

LEMMA HeldInLineStays ==
  ASSUME Typed, QueueInLine, HeldInLine, [Next]_vars
  PROVE  HeldInLine'
<1>1. ASSUME NEW w, NEW x, NEW s, Holds(w, x, s)'
      PROVE  InLine(Held(w, x)')
  <2>1. PICK c : c = Held(w, x)'
    OBVIOUS
  <2>2. CASE \E v, y : Holds(v, y, s) /\ c = Held(v, y)
    BY <2>1, <2>2 DEF HeldInLine
  <2>3. ASSUME NEW m, NEW n, Cuts(m, c, n)
        PROVE  InLine(c)
    <3>1. /\ n \in 0 .. Len(queue) /\ DOMAIN c = 1 .. n /\ \A i \in 1 .. n : c[i] = queue[i]
      BY <2>3 DEF Cuts, CutAs
    <3>2. DOMAIN queue = 1 .. Len(queue) /\ Len(queue) \in Nat
      BY DEF Typed, QueueOK
    <3> QED
      BY <3>1, <3>2 DEF QueueInLine, InLine
  <2> QED
    BY <1>1, <2>1, <2>2, <2>3, HeldBack
<1> QED
  BY <1>1 DEF HeldInLine, InLine, Precedes, Numbered

LEMMA CutsPastStays ==
  ASSUME Typed, CutsPast, [Next]_vars
  PROVE  CutsPast'
<1>1. mux' = mux \/ \E m \in Muxer : StartMux(m) \/ Pass(m) \/ GiveUp(m) \/ Cut(m) \/ Collect(m) \/ Submit(m)
  BY Elsewhere
<1>2. now' >= now /\ now' \in Nat /\ now \in Nat /\ DelayMs \in Nat
  BY ClockStays, BoundParts DEF Typed, ClockOK
<1>3. \A m \in Muxer : Micros(mux[m].cut) \in Int
  BY DeskParts, MicrosIsInt DEF Typed
<1>4. CASE mux' = mux
  BY <1>2, <1>3, <1>4 DEF CutsPast
<1>5. ASSUME NEW m \in Muxer, NEW d, Becomes(m, d), d.pc = "collect" => Micros(d.cut) <= now - DelayMs
      PROVE  CutsPast'
  <2>1. mux'[m] = d /\ \A o \in Muxer \ {m} : mux'[o] = mux[o]
    BY <1>5 DEF Becomes, Typed, MuxOK
  <2>2. Micros(d.cut) \in Int
    BY <1>5, MicrosIsInt DEF Becomes, Desk
  <2>3. \A o \in Muxer : mux'[o].pc = "collect" => Micros(mux'[o].cut) <= now - DelayMs /\ Micros(mux'[o].cut) \in Int
    BY <1>3, <1>5, <2>1, <2>2 DEF CutsPast
  <2>4. \A o \in Muxer : mux'[o].pc = "collect" => Micros(mux'[o].cut) <= now' - DelayMs
    BY <1>2, <2>3
  <2> QED
    BY <2>4 DEF CutsPast, Micros
<1>6. ASSUME NEW m \in Muxer, Cut(m)
      PROVE  \E d : Becomes(m, d) /\ (d.pc = "collect" => Micros(d.cut) <= now - DelayMs)
  <2>1. PICK d : Becomes(m, d) /\ Micros(d.cut) = now - DelayMs
    BY <1>6, CutBecomes
  <2> QED
    BY <1>2, <2>1
<1>7. ASSUME NEW m \in Muxer, StartMux(m) \/ Pass(m) \/ GiveUp(m) \/ Collect(m) \/ Submit(m)
      PROVE  \E d : Becomes(m, d) /\ (d.pc = "collect" => Micros(d.cut) <= now - DelayMs)
  BY <1>7, PassBecomes, OtherBecomes, CollectCuts, CollectBecomes, SubmitPool, SubmitBecomes
<1> QED
  BY <1>1, <1>4, <1>5, <1>6, <1>7

HeldFor(r, s) == \E w, x : Holds(w, x, s) /\ \E i \in DOMAIN Held(w, x) : r = Held(w, x)[i]

\* The record that a Write handles is one that it holds, and so are those it drops.
LEMMA HandledBack ==
  ASSUME Typed, NEW x \in DOMAIN writes, NEW k, NEW j, Passes(x, k, j), NEW l \in k .. j
  PROVE  /\ Holds("write", x, writes[x].sink) /\ l \in DOMAIN writes[x].batch
         /\ HeldFor(writes[x].batch[l], writes[x].sink)
<1>1. writes[x].batch \in Seq(Record) /\ writes[x].i \in Nat \ {0}
  BY WriteParts DEF Typed
<1>2. l \in DOMAIN writes[x].batch
  BY <1>1 DEF Passes
<1>3. Holds("write", x, writes[x].sink) /\ Held("write", x) = writes[x].batch
  BY DEF Holds, Held
<1> QED
  BY <1>2, <1>3 DEF HeldFor

\* What has left the queue had left it before, or a multiplexer collects it now.
LEMMA TakenBack ==
  ASSUME Typed, [Next]_vars, NEW r, Taken(r)'
  PROVE  \/ Taken(r)
         \/ \E m \in Muxer : Collect(m) /\ \E b, n : Cuts(m, b, n) /\ \E i \in 1 .. n : r = queue[i]
<1>1. ASSUME NEW w, NEW x, NEW s, Holds(w, x, s)', NEW i \in DOMAIN Held(w, x)', r = Held(w, x)'[i]
      PROVE  \/ Taken(r)
             \/ \E m \in Muxer : Collect(m) /\ \E b, n : Cuts(m, b, n) /\ \E l \in 1 .. n : r = queue[l]
  <2>1. PICK c : c = Held(w, x)'
    OBVIOUS
  <2>2. CASE \E v, y : Holds(v, y, s) /\ c = Held(v, y)
    BY <1>1, <2>1, <2>2 DEF Taken
  <2>3. ASSUME NEW m, NEW n, Cuts(m, c, n)
        PROVE  \E l \in 1 .. n : r = queue[l]
    BY <1>1, <2>1, <2>3 DEF Cuts, CutAs
  <2> QED
    BY <1>1, <2>1, <2>2, <2>3, HeldBack
<1>2. ASSUME NEW s \in Sink, NEW i \in DOMAIN out'[s], r = out'[s][i].rec
      PROVE  Taken(r)
  <2>1. out' = out \/ \E x \in DOMAIN writes : Handles(x)
    BY Elsewhere DEF Handles
  <2>2. CASE out' = out
    BY <1>2, <2>2 DEF Taken
  <2>3. ASSUME NEW x \in DOMAIN writes, Handles(x)
        PROVE  Taken(r)
    <3>1. PICK k, j, f : Passes(x, k, j) /\ Shows(x, k, f)
      BY <2>3, EveryWriteHandles DEF Handles, WriteHandles
    <3>2. DOMAIN out[s] = 1 .. Len(out[s]) /\ Len(out[s]) \in Nat
      BY DEF Typed, OutOK
    <3>3. CASE s # writes[x].sink
      BY <1>2, <3>1, <3>3 DEF Shows, Taken
    <3>4. CASE s = writes[x].sink
      <4>1. /\ i \in 1 .. Len(out[s]) + 1
            /\ out'[s][Len(out[s]) + 1] = [rec |-> writes[x].batch[k], file |-> f]
            /\ \A a \in 1 .. Len(out[s]) : out'[s][a] = out[s][a]
        BY <1>2, <3>1, <3>4 DEF Shows
      <4>2. CASE i = Len(out[s]) + 1
        <5>1. r = writes[x].batch[k]
          BY <1>2, <4>1, <4>2
        <5>2. k \in k .. j
          BY <3>1, WriteParts DEF Passes, Typed
        <5> QED
          BY <3>1, <5>1, <5>2, HandledBack DEF HeldFor, Taken
      <4>3. CASE i # Len(out[s]) + 1
        <5>1. i \in DOMAIN out[s] /\ r = out[s][i].rec
          BY <1>2, <3>2, <4>1, <4>3
        <5> QED
          BY <5>1 DEF Taken
      <4> QED
        BY <4>2, <4>3
    <3> QED
      BY <3>3, <3>4
  <2> QED
    BY <2>1, <2>2, <2>3
<1>3. ASSUME NEW s \in Sink, r \in skipped'[s]
      PROVE  Taken(r)
  <2>1. skipped' = skipped \/ \E x \in DOMAIN writes : Handles(x)
    BY Elsewhere DEF Handles
  <2>2. CASE skipped' = skipped
    BY <1>3, <2>2 DEF Taken
  <2>3. ASSUME NEW x \in DOMAIN writes, Handles(x)
        PROVE  Taken(r)
    <3>1. PICK k, j, f : Passes(x, k, j) /\ Drops(x, k, j)
      BY <2>3, EveryWriteHandles DEF Handles, WriteHandles
    <3>2. r \in skipped[s] \/ \E l \in k + 1 .. j : r = writes[x].batch[l]
      BY <1>3, <3>1 DEF Drops
    <3>3. ASSUME NEW l \in k + 1 .. j, r = writes[x].batch[l]
          PROVE  Taken(r)
      <4>1. l \in k .. j
        BY <3>1, WriteParts DEF Passes, Typed
      <4> QED
        BY <3>1, <3>3, <4>1, HandledBack DEF HeldFor, Taken
    <3> QED
      BY <3>2, <3>3 DEF Taken
  <2> QED
    BY <2>1, <2>2, <2>3
<1> QED
  BY <1>1, <1>2, <1>3 DEF Taken

\* A new record comes after whatever has left the queue.
LEMMA NewFollows ==
  ASSUME Typed, NEW a, Good(a), Micros(a.ts) <= now - DelayMs, NEW r, NewRecord(r)
  PROVE  Follows(r, a)
<1>1. Micros(a.ts) \in Int /\ now \in Nat /\ DelayMs \in Nat
  BY MicrosOfGood, BoundParts
<1>2. Micros(r.ts) \in Int /\ r.at = now
  BY RecordParts, MicrosIsInt DEF NewRecord
<1>3. Micros(a.ts) <= Micros(r.ts) \/ r.at - Micros(r.ts) > DelayMs
  BY <1>1, <1>2
<1>4. ASSUME a.src = r.src, a.src \in Thread
      PROVE  a.n < r.n
  <2>1. PICK c \in Nat : c = logged[r.src]
    BY <1>4 DEF Typed, LoggedOK
  <2>2. a.n \in 1 .. c /\ r.n = c + 1
    BY <1>4, <2>1 DEF Good, NewRecord
  <2> QED
    BY <2>2
<1> QED
  BY <1>3, <1>4 DEF Follows, Late, Numbered

LEMMA PrecedesFollows ==
  ASSUME NEW a, NEW b, Precedes(a, b)
  PROVE  Follows(b, a)
BY DEF Precedes, Follows

LEMMA TakenGoodStays ==
  ASSUME Typed, QueueInLine, TakenGood, CutsPast, [Next]_vars
  PROVE  TakenGood'
<1>1. ASSUME NEW r, Taken(r)'
      PROVE  Good(r)' /\ Micros(r.ts) <= now' - DelayMs /\ \A j \in DOMAIN queue' : Follows(queue'[j], r)
  <2>0. now' >= now /\ now' \in Nat /\ now \in Nat /\ DelayMs \in Nat
    BY ClockStays, BoundParts DEF Typed, ClockOK
  <2>1. CASE Taken(r)
    <3>1. Good(r) /\ Micros(r.ts) <= now - DelayMs /\ \A j \in DOMAIN queue : Follows(queue[j], r)
      BY <2>1 DEF TakenGood
    <3>2. Good(r)'
      BY <3>1, GoodStays
    <3>3. Micros(r.ts) <= now' - DelayMs
      BY <2>0, <3>1, MicrosOfGood
    <3>4. ASSUME NEW j \in DOMAIN queue'
          PROVE  Follows(queue'[j], r)
      BY <3>1, <3>4, QueueLine, NewFollows
    <3> QED
      BY <3>2, <3>3, <3>4
  <2>2. ASSUME NEW m \in Muxer, Collect(m), NEW b, NEW n, Cuts(m, b, n), NEW i \in 1 .. n, r = queue[i]
        PROVE  Good(r)' /\ Micros(r.ts) <= now' - DelayMs /\ \A j \in DOMAIN queue' : Follows(queue'[j], r)
    <3>1. /\ n \in 0 .. Len(queue) /\ DOMAIN queue' = 1 .. Len(queue) - n
          /\ \A j \in 1 .. Len(queue) - n : queue'[j] = queue[j + n]
      BY <2>2 DEF Cuts, CutAs
    <3>2. DOMAIN queue = 1 .. Len(queue) /\ Len(queue) \in Nat /\ queue \in Seq(Record)
      BY DEF Typed, QueueOK
    <3>3. i \in 1 .. Len(queue) /\ Good(r)
      BY <2>2, <3>1, <3>2 DEF QueueInLine
    <3>4. Micros(r.ts) <= Micros(mux[m].cut)
      BY <2>2, <3>2, <3>3, LineIsSorted DEF Cuts, QueueInLine
    <3>5. Micros(mux[m].cut) <= now - DelayMs
      BY <2>2, CollectCuts DEF CutsPast
    <3>6. Micros(mux[m].cut) \in Int /\ Micros(r.ts) \in Int
      BY <3>3, DeskParts, MicrosIsInt, MicrosOfGood DEF Typed
    <3>7. ASSUME NEW j \in DOMAIN queue'
          PROVE  Follows(queue'[j], r)
      <4>1. j + n \in DOMAIN queue /\ i < j + n /\ queue'[j] = queue[j + n]
        BY <2>2, <3>1, <3>2
      <4>2. Precedes(r, queue[j + n])
        BY <2>2, <3>2, <3>3, <4>1 DEF QueueInLine, InLine
      <4> QED
        BY <4>1, <4>2, PrecedesFollows
    <3>8. Good(r)'
      BY <3>3, GoodStays
    <3> QED
      BY <2>0, <3>4, <3>5, <3>6, <3>7, <3>8
  <2> QED
    BY <1>1, <2>1, <2>2, TakenBack
<1> QED
  BY <1>1 DEF TakenGood, Follows, Late, Numbered
-----------------------------------------------------------------------------
(* Without an overlap *)

LEMMA OverlapGrows ==
  ASSUME Typed, [Next]_vars, ~overlap'
  PROVE  ~overlap
<1>1. overlap' = overlap \/ \E m \in Muxer : Pass(m)
  BY Elsewhere
<1>2. ASSUME NEW m \in Muxer, Pass(m)
      PROVE  ~overlap
  BY <1>2 DEF Pass
<1> QED
  BY <1>1, <1>2

\* Only a Pass puts a multiplexer past the check.
LEMMA PastBack ==
  ASSUME Typed, [Next]_vars, NEW m \in Muxer
  PROVE  /\ mux'[m].pc \in {"stamp", "collect", "submit"} => Past(m) \/ Pass(m)
         /\ mux'[m].pc \in {"stamp", "collect"} => mux[m].pc \in {"stamp", "collect"} \/ Pass(m)
         /\ Pass(m) => \A o \in Muxer \ {m} : mux'[o] = mux[o]
<1>1. mux' = mux \/ \E o \in Muxer : StartMux(o) \/ Pass(o) \/ GiveUp(o) \/ Cut(o) \/ Collect(o) \/ Submit(o)
  BY Elsewhere
<1>2. \A o \in Muxer : \A d : Becomes(o, d) => mux'[o] = d /\ \A a \in Muxer \ {o} : mux'[a] = mux[a]
  BY DEF Becomes, Typed, MuxOK
<1>3. Pass(m) => \A o \in Muxer \ {m} : mux'[o] = mux[o]
  BY <1>2, PassBecomes
<1>4. CASE mux' = mux
  BY <1>3, <1>4 DEF Past
<1>5. ASSUME NEW o \in Muxer, o # m, StartMux(o) \/ Pass(o) \/ GiveUp(o) \/ Cut(o) \/ Collect(o) \/ Submit(o)
      PROVE  mux'[m] = mux[m]
  <2>1. \E d : Becomes(o, d)
    BY <1>5, PassBecomes, CutBecomes, OtherBecomes, CollectCuts, CollectBecomes, SubmitPool, SubmitBecomes
  <2> QED
    BY <1>2, <1>5, <2>1
<1>6. CASE StartMux(m) \/ GiveUp(m)
  <2>1. mux'[m].pc \in {"idle", "wait"}
    BY <1>2, <1>6, OtherBecomes
  <2> QED
    BY <1>3, <2>1
<1>7. CASE Cut(m)
  BY <1>3, <1>7, CutBecomes DEF Past
<1>8. CASE Collect(m)
  <2>1. mux[m].pc = "collect" /\ \E b, n : Cuts(m, b, n)
    BY <1>8, CollectCuts
  <2> QED
    BY <1>3, <2>1 DEF Past
<1>9. CASE Submit(m)
  <2>1. mux[m].pc = "submit"
    BY <1>9, SubmitPool
  <2>2. mux'[m].pc \in {"idle", "submit"}
    BY <1>2, <1>9, SubmitPool, SubmitBecomes
  <2> QED
    BY <1>3, <2>1, <2>2 DEF Past
<1>10. mux'[m] = mux[m] => /\ mux'[m].pc \in {"stamp", "collect", "submit"} => Past(m)
                           /\ mux'[m].pc \in {"stamp", "collect"} => mux[m].pc \in {"stamp", "collect"}
  BY DEF Past
<1> QED
  BY <1>1, <1>3, <1>4, <1>5, <1>6, <1>7, <1>8, <1>9, <1>10

\* Before a multiplexer submits nothing is held for a sink.
LEMMA NoHolder ==
  ASSUME Typed, Alone, ~overlap, NEW m \in Muxer, mux[m].pc \in {"stamp", "collect"}, NEW w, NEW x, NEW s
  PROVE  ~Holds(w, x, s)
<1>1. ASSUME Holds(w, x, s)
      PROVE  FALSE
  <2>1. w = "mux"
    BY <1>1 DEF Alone
  <2>2. x \in Muxer /\ mux[x].pc = "submit"
    BY <1>1, <2>1 DEF Holds
  <2>3. x = m
    BY <2>2 DEF Alone, Past
  <2> QED
    BY <2>2, <2>3
<1> QED
  BY <1>1

\* The check is passed when the sinks are idle.
LEMMA SinksAreIdle ==
  ASSUME Typed, CounterIsWrites, jobs = 0
  PROVE  (\A i \in DOMAIN pool : pool[i].kind # "write") /\ writes = <<>>
<1>1. jobs = Cardinality(Submitted) + Len(writes) /\ writes \in Seq(Job) /\ Len(writes) \in Nat
  BY DEF CounterIsWrites, Submitted, Typed, WritesOK
<1>2. Cardinality(Submitted) = 0 /\ Len(writes) = 0
  BY <1>1, SubmittedIs
<1>3. Submitted = {}
  BY <1>2, SubmittedIs, FS_EmptySet
<1> QED
  BY <1>1, <1>2, <1>3 DEF Submitted

LEMMA AloneStays ==
  ASSUME Typed, CounterIsWrites, Alone, [Next]_vars
  PROVE  Alone'
<1>1. SUFFICES ASSUME ~overlap'
               PROVE  /\ \A m, o \in Muxer : Past(m)' /\ Past(o)' => m = o
                      /\ \A m \in Muxer : mux'[m].pc \in {"stamp", "collect"} =>
                           \A w, x, s : Holds(w, x, s)' => w = "mux"
  BY DEF Alone
<1>2. ~overlap
  BY <1>1, OverlapGrows
<1>3. \A m \in Muxer : Past(m)' <=> mux'[m].pc \in {"stamp", "collect", "submit"}
  BY DEF Past
<1>4. ASSUME NEW m \in Muxer, Pass(m), mux'[m].pc # "idle", NEW o \in Muxer, o # m
      PROVE  ~Past(o)
  <2>1. queue # <<>>
    BY <1>4, IdleIs DEF Pass, Typed, MuxOK
  <2> QED
    BY <1>1, <1>4, <2>1 DEF Pass, Past
<1>5. ASSUME NEW m \in Muxer, NEW o \in Muxer, Past(m)', Past(o)'
      PROVE  m = o
  <2>1. CASE Past(m) /\ Past(o)
    BY <1>2, <2>1 DEF Alone
  <2>2. ASSUME NEW a \in Muxer, NEW c \in Muxer, a # c, Past(a)', Past(c)', Pass(a)
        PROVE  FALSE
    <3>1. ~Past(c) /\ mux'[c] = mux[c]
      BY <1>3, <1>4, <2>2, PastBack
    <3> QED
      BY <1>3, <2>2, <3>1 DEF Past
  <2> QED
    BY <1>3, <1>5, <2>1, <2>2, PastBack
<1>6. ASSUME NEW m \in Muxer, mux'[m].pc \in {"stamp", "collect"}, NEW w, NEW x, NEW s, Holds(w, x, s)'
      PROVE  w = "mux"
  <2>1. CASE mux[m].pc \in {"stamp", "collect"}
    <3>1. \A v, y : ~Holds(v, y, s)
      BY <1>2, <2>1, NoHolder
    <3>2. PICK o \in Muxer : Collect(o) /\ \E b, n : Cuts(o, b, n)
      BY <1>6, <3>1, HeldBack
    <3>3. mux[o].pc = "collect"
      BY <3>2, CollectCuts
    <3>4. o = m
      BY <1>2, <2>1, <3>3 DEF Alone, Past
    <3>5. PICK d : Becomes(o, d) /\ d.pc \in {"idle", "submit"}
      BY <3>2, CollectBecomes
    <3>6. mux'[m].pc \in {"idle", "submit"}
      BY <3>4, <3>5 DEF Becomes, Typed, MuxOK
    <3> QED
      BY <1>6, <3>6
  <2>2. CASE Pass(m)
    <3>1. (\A i \in DOMAIN pool : pool[i].kind # "write") /\ writes = <<>>
      BY <2>2, PassBecomes, SinksAreIdle
    <3>2. pool' = pool /\ writes' = writes
      BY <2>2 DEF Pass, sinkState
    <3>3. DOMAIN writes' = {}
      BY <3>1, <3>2
    <3> QED
      BY <1>6, <3>1, <3>2, <3>3 DEF Holds
  <2> QED
    BY <1>6, <2>1, <2>2, PastBack
<1> QED
  BY <1>5, <1>6

\* Without an overlap, a sink has one holder.
LEMMA OneHolderStays ==
  ASSUME Typed, Alone, OneHolder, [Next]_vars
  PROVE  OneHolder'
<1>1. SUFFICES ASSUME ~overlap', NEW w, NEW x, NEW v, NEW y, NEW s, Holds(w, x, s)', Holds(v, y, s)'
               PROVE  w = v /\ x = y
  BY DEF OneHolder
<1>2. ~overlap /\ case' = case
  BY <1>1, OverlapGrows, Elsewhere
<1>3. CASE Moves
  <2>1. PICK p, z, m : Moved(p, z, m, s)
    BY <1>3 DEF Moves
  <2>2. PICK a, b : Was(w, x, a, b, p, z, m) /\ Holds(a, b, s)
    BY <1>1, <2>1, MovedBack
  <2>3. PICK c, d : Was(v, y, c, d, p, z, m) /\ Holds(c, d, s)
    BY <1>1, <2>1, MovedBack
  <2>4. a = c /\ b = d
    BY <1>2, <2>2, <2>3 DEF OneHolder
  <2> QED
    BY <1>1, <2>1, <2>2, <2>3, <2>4 DEF Moved
<1>4. ASSUME NEW a \in DOMAIN writes, Handles(a)
      PROVE  w = v /\ x = y
  <2>1. PICK k, j : Passes(a, k, j)
    BY <1>4, EveryWriteHandles DEF Handles, WriteHandles
  <2>2. WriteMessage(a) \/ WriteChange(a) \/ WriteStop(a) \/ WriteRefused(a)
    BY <1>4 DEF Handles
  <2>3. \A u, e : Holds(u, e, s)' <=> Holds(u, e, s)
    BY <1>2, <2>1, <2>2, HandleHolds
  <2> QED
    BY <1>1, <1>2, <2>3 DEF OneHolder
<1>5. ASSUME NEW m \in Muxer, Collect(m)
      PROVE  w = v /\ x = y
  <2>1. PICK b, n : Cuts(m, b, n)
    BY <1>5, CollectCuts
  <2>2. \A a, c : Holds(a, c, s)' => Holds(a, c, s) \/ (a = "mux" /\ c = m)
    BY <1>2, <1>5, <2>1, CollectHolds
  <2>3. \A a, c : ~Holds(a, c, s)
    BY <1>2, <1>5, CollectCuts, NoHolder
  <2> QED
    BY <1>1, <2>2, <2>3
<1> QED
  BY <1>3, <1>4, <1>5, ThreeKinds

\* What a sink shows after a step: what it showed, and the record that is handled now.
LEMMA ShownBack ==
  ASSUME Typed, NEW x \in DOMAIN writes, NEW k, NEW f, Shows(x, k, f), NEW s \in Sink
  PROVE  /\ DOMAIN out[s] = 1 .. Len(out[s]) /\ Len(out[s]) \in Nat
         /\ DOMAIN out'[s] = IF s = writes[x].sink THEN 1 .. Len(out[s]) + 1 ELSE 1 .. Len(out[s])
         /\ \A i \in DOMAIN out[s] : i \in DOMAIN out'[s] /\ out'[s][i] = out[s][i]
         /\ \A i \in DOMAIN out'[s] :
              \/ i \in DOMAIN out[s]
              \/ /\ s = writes[x].sink /\ i = Len(out[s]) + 1
                 /\ out'[s][i] = [rec |-> writes[x].batch[k], file |-> f]
<1>1. DOMAIN out[s] = 1 .. Len(out[s]) /\ Len(out[s]) \in Nat
  BY DEF Typed, OutOK
<1>2. CASE s = writes[x].sink
  <2>1. /\ DOMAIN out'[s] = 1 .. Len(out[s]) + 1 /\ out'[s][Len(out[s]) + 1] = [rec |-> writes[x].batch[k], file |-> f]
        /\ \A i \in 1 .. Len(out[s]) : out'[s][i] = out[s][i]
    BY <1>2 DEF Shows
  <2> QED
    BY <1>1, <1>2, <2>1
<1>3. CASE s # writes[x].sink
  <2>1. out'[s] = out[s]
    BY <1>3 DEF Shows
  <2> QED
    BY <1>1, <1>3, <2>1
<1> QED
  BY <1>2, <1>3

LEMMA OutThenHeldStays ==
  ASSUME Typed, QueueInLine, HeldInLine, TakenGood, OneHolder, OutThenHeld, [Next]_vars
  PROVE  OutThenHeld'
<1>1. SUFFICES ASSUME ~overlap', NEW w, NEW x, NEW s, Holds(w, x, s)', NEW h, h = Held(w, x)',
                      NEW i \in DOMAIN out'[s], NEW k \in From(w, x)' .. Len(h)
               PROVE  Follows(h[k], out'[s][i].rec)
  BY DEF OutThenHeld, Follows, Late, Numbered
<1>2. ~overlap /\ case' = case
  BY <1>1, OverlapGrows, Elsewhere
<1>3. ASSUME NEW v, NEW y, Holds(v, y, s), Held(v, y) = h, From(v, y) = From(w, x)', out' = out
      PROVE  Follows(h[k], out'[s][i].rec)
  BY <1>1, <1>2, <1>3 DEF OutThenHeld
<1>4. CASE Moves
  <2>1. PICK p, z, m : Moved(p, z, m, s)
    BY <1>4 DEF Moves
  <2>2. PICK v, y : Holds(v, y, s) /\ Held(w, x)' = Held(v, y) /\ From(w, x)' = From(v, y)
    BY <1>1, <2>1, MovedBack
  <2> QED
    BY <1>1, <1>3, <1>4, <2>2 DEF Moves
<1>5. ASSUME NEW a \in DOMAIN writes, Handles(a)
      PROVE  Follows(h[k], out'[s][i].rec)
  <2>1. PICK e, j, f : Passes(a, e, j) /\ Shows(a, e, f)
    BY <1>5, EveryWriteHandles DEF Handles, WriteHandles
  <2>2. WriteMessage(a) \/ WriteChange(a) \/ WriteStop(a) \/ WriteRefused(a)
    BY <1>5 DEF Handles
  <2>0. /\ \A u, y : Holds(u, y, s)' <=> Holds(u, y, s)
        /\ \A u, y : Holds(u, y, s) =>
             /\ Held(u, y)' = Held(u, y)
             /\ From(u, y)' = IF u = "write" /\ y = a THEN j + 1 ELSE From(u, y)
        /\ Holds("write", a, s) <=> s = writes[a].sink
        /\ Held("write", a) = writes[a].batch /\ From("write", a) = writes[a].i
    BY <1>2, <2>1, <2>2, HandleHolds
  <2>3. /\ Holds(w, x, s) /\ Held(w, x) = h
        /\ From(w, x)' = IF w = "write" /\ x = a THEN j + 1 ELSE From(w, x)
        /\ Holds("write", a, s) <=> s = writes[a].sink
        /\ Held("write", a) = writes[a].batch /\ From("write", a) = writes[a].i
    BY <1>1, <2>0
  <2>4. h \in Seq(Record) /\ From(w, x) \in Nat \ {0} /\ s \in Sink
    BY <2>3, HeldIs
  <2>5. /\ writes[a].batch \in Seq(Record) /\ writes[a].i \in Nat \ {0}
        /\ e \in writes[a].i .. Len(writes[a].batch) /\ j \in e .. Len(writes[a].batch)
    BY <2>1, WriteParts DEF Passes, Typed
  <2>6. k \in From(w, x) .. Len(h)
    BY <1>1, <2>3, <2>4, <2>5
  <2>7. CASE i \in DOMAIN out[s]
    <3>1. out'[s][i] = out[s][i]
      BY <2>1, <2>4, <2>7, ShownBack
    <3> QED
      BY <1>2, <2>3, <2>6, <2>7, <3>1 DEF OutThenHeld
  <2>8. CASE i \notin DOMAIN out[s]
    <3>0. s = writes[a].sink /\ out'[s][i] = [rec |-> writes[a].batch[e], file |-> f]
      BY <1>1, <2>1, <2>4, <2>8, ShownBack
    <3>1. s = writes[a].sink /\ out'[s][i].rec = writes[a].batch[e]
      BY <3>0
    <3>2. w = "write" /\ x = a
      BY <1>2, <2>3, <3>1 DEF OneHolder
    <3>3. h = writes[a].batch /\ k \in j + 1 .. Len(h)
      BY <1>1, <2>3, <3>2
    <3>4. e \in DOMAIN h /\ k \in DOMAIN h /\ e < k
      BY <2>4, <2>5, <3>3
    <3>5. InLine(h)
      BY <2>3 DEF HeldInLine
    <3>6. Precedes(h[e], h[k])
      BY <3>4, <3>5 DEF InLine
    <3> QED
      BY <3>1, <3>3, <3>6, PrecedesFollows
  <2> QED
    BY <2>7, <2>8
<1>6. ASSUME NEW m \in Muxer, Collect(m)
      PROVE  Follows(h[k], out'[s][i].rec)
  <2>1. PICK b, n : Cuts(m, b, n)
    BY <1>6, CollectCuts
  <2>2. out' = out
    BY <1>6 DEF Collect, sinkState
  <2>3. \/ Holds(w, x, s) /\ Held(w, x) = h /\ From(w, x)' = From(w, x)
        \/ Takes(b, s) /\ h = b /\ From(w, x)' = 1
    BY <1>1, <1>2, <1>6, <2>1, CollectHolds
  <2>4. CASE Holds(w, x, s) /\ Held(w, x) = h /\ From(w, x)' = From(w, x)
    BY <1>3, <2>2, <2>4
  <2>5. CASE Takes(b, s) /\ h = b /\ From(w, x)' = 1
    <3>1. n \in 0 .. Len(queue) /\ Len(b) = n /\ \A l \in 1 .. n : b[l] = queue[l]
      BY <2>1 DEF Cuts, CutAs
    <3>2. DOMAIN queue = 1 .. Len(queue) /\ Len(queue) \in Nat
      BY DEF Typed, QueueOK
    <3>3. k \in DOMAIN queue /\ h[k] = queue[k]
      BY <1>1, <2>5, <3>1, <3>2
    <3>4. s \in Sink
      <4>1. PICK q \in 1 .. Len(case.sinks) : case.sinks[q] = s
        BY <2>5 DEF Takes
      <4> QED
        BY <4>1, CaseParts, ElementIs DEF Typed
    <3>5. Taken(out[s][i].rec)
      BY <1>1, <2>2, <3>4 DEF Taken
    <3> QED
      BY <2>2, <3>3, <3>5 DEF TakenGood
  <2> QED
    BY <2>3, <2>4, <2>5
<1> QED
  BY <1>4, <1>5, <1>6, ThreeKinds

LEMMA OutInLineStays ==
  ASSUME Typed, OutThenHeld, OutInLine, [Next]_vars
  PROVE  OutInLine'
<1>1. SUFFICES ASSUME ~overlap', NEW s \in Sink, NEW i \in DOMAIN out'[s], NEW d \in DOMAIN out'[s], i < d
               PROVE  Follows(out'[s][d].rec, out'[s][i].rec)
  BY DEF OutInLine, Follows, Late, Numbered
<1>2. ~overlap /\ case' = case
  BY <1>1, OverlapGrows, Elsewhere
<1>3. CASE out' = out
  BY <1>1, <1>2, <1>3 DEF OutInLine
<1>4. ASSUME NEW a \in DOMAIN writes, Handles(a)
      PROVE  Follows(out'[s][d].rec, out'[s][i].rec)
  <2>1. PICK e, j, f : Passes(a, e, j) /\ Shows(a, e, f)
    BY <1>4, EveryWriteHandles DEF Handles, WriteHandles
  <2>2. /\ DOMAIN out[s] = 1 .. Len(out[s]) /\ Len(out[s]) \in Nat
        /\ \A l \in DOMAIN out[s] : out'[s][l] = out[s][l]
        /\ \A l \in DOMAIN out'[s] :
             \/ l \in DOMAIN out[s]
             \/ s = writes[a].sink /\ l = Len(out[s]) + 1 /\ out'[s][l] = [rec |-> writes[a].batch[e], file |-> f]
    BY <2>1, ShownBack
  <2>3. i \in DOMAIN out[s]
    BY <1>1, <2>2
  <2>4. CASE d \in DOMAIN out[s]
    BY <1>1, <1>2, <2>2, <2>3, <2>4 DEF OutInLine
  <2>5. CASE d \notin DOMAIN out[s]
    <3>0. s = writes[a].sink /\ out'[s][d] = [rec |-> writes[a].batch[e], file |-> f]
      BY <1>1, <2>2, <2>5
    <3>1. s = writes[a].sink /\ out'[s][d].rec = writes[a].batch[e]
      BY <3>0
    <3>2. Holds("write", a, s) /\ Held("write", a) = writes[a].batch /\ From("write", a) = writes[a].i
      BY <3>1 DEF Holds, Held, From
    <3>3. e \in From("write", a) .. Len(Held("write", a))
      BY <2>1, <3>2 DEF Passes
    <3>4. Follows(Held("write", a)[e], out[s][i].rec)
      BY <1>2, <2>3, <3>2, <3>3 DEF OutThenHeld
    <3> QED
      BY <2>2, <2>3, <3>1, <3>2, <3>4
  <2> QED
    BY <2>4, <2>5
<1> QED
  BY <1>3, <1>4, Elsewhere DEF Handles
-----------------------------------------------------------------------------
(* Every record has one place *)

LEMMA SinkKnown ==
  ASSUME Typed, NEW t, NEW n, NEW s \in Concerned(t, n)
  PROVE  /\ s \in Sink /\ \E z \in 1 .. Len(case.sinks) : case.sinks[z] = s
         /\ n \in DOMAIN case.script[t] /\ case.script[t][n].chan = Channel[s]
<1>1. s \in Range(case.sinks) /\ n \in DOMAIN case.script[t] /\ Channel[s] = case.script[t][n].chan
  BY DEF Concerned
<1>2. case.sinks \in Seq(Sink)
  BY CaseParts DEF Typed
<1>3. PICK z \in 1 .. Len(case.sinks) : case.sinks[z] = s
  BY <1>1, <1>2 DEF Range
<1>4. s \in Sink
  BY <1>2, <1>3, ElementIs
<1> QED
  BY <1>1, <1>3, <1>4

LEMMA GoodConcerns ==
  ASSUME Typed, NEW r, Good(r), NEW t \in Thread, NEW n, Is(r, t, n), NEW s \in Concerned(t, n)
  PROVE  r.chan = Channel[s]
BY SinkKnown DEF Good, Is

\* Whatever has a place is a record that was pushed.
LEMMA HeldGood ==
  ASSUME Typed, TakenGood, NEW w, NEW x, NEW s, Holds(w, x, s), NEW y \in From(w, x) .. Len(Held(w, x))
  PROVE  Good(Held(w, x)[y]) /\ y \in Nat \ {0} /\ y \in DOMAIN Held(w, x)
<1>1. Held(w, x) \in Seq(Record) /\ From(w, x) \in Nat \ {0}
  BY HeldIs
<1>2. y \in DOMAIN Held(w, x) /\ y \in Nat \ {0}
  BY <1>1
<1>3. Taken(Held(w, x)[y])
  BY <1>2 DEF Taken
<1> QED
  BY <1>2, <1>3 DEF TakenGood

LEMMA PlacedIsLogged ==
  ASSUME Typed, QueueInLine, TakenGood, NEW s \in Sink, NEW t \in Thread, NEW n, NEW w, NEW x, NEW y, At(w, x, y, s, t, n)
  PROVE  n \in 1 .. logged[t]
<1>1. \A r : Good(r) /\ Is(r, t, n) => n \in 1 .. logged[t]
  BY DEF Good, Is
<1>2. CASE QueueAt(x, t, n)
  BY <1>1, <1>2 DEF QueueAt, QueueInLine
<1>3. CASE HeldAt(w, x, y, s, t, n)
  BY <1>1, <1>3, HeldGood DEF HeldAt
<1>4. CASE OutAt(x, s, t, n)
  <2>1. Taken(out[s][x].rec)
    BY <1>4 DEF OutAt, Taken
  <2> QED
    BY <1>1, <1>4, <2>1 DEF OutAt, TakenGood
<1>5. CASE Skipped(s, t, n)
  <2>1. PICK r \in skipped[s] : Is(r, t, n)
    BY <1>5 DEF Skipped, Is
  <2>2. Taken(r)
    BY <2>1 DEF Taken
  <2> QED
    BY <1>1, <2>1, <2>2 DEF TakenGood
<1> QED
  BY <1>2, <1>3, <1>4, <1>5 DEF At

\* A record that is in the queue moves up when another joins before it.
Up(k, y) == IF y <= k THEN y ELSE y + 1
QueueUp(k, t, n) ==
  /\ \A y : QueueAt(y, t, n) => QueueAt(Up(k, y), t, n)'
  /\ \A y : QueueAt(y, t, n)' => \E x : QueueAt(x, t, n) /\ y = Up(k, x)

LEMMA QueueMovesUp ==
  ASSUME Typed, [Next]_vars, ~ \E m \in Muxer : Collect(m), NEW t \in Thread, NEW n \in 1 .. logged[t]
  PROVE  \E k : QueueUp(k, t, n)
<1>1. queue \in Seq(Record) /\ Len(queue) \in Nat /\ DOMAIN queue = 1 .. Len(queue)
  BY DEF Typed, QueueOK
<1>2. CASE queue' = queue
  <2>1. \A y \in DOMAIN queue : Up(Len(queue), y) = y
    BY <1>1 DEF Up
  <2> QED
    BY <1>2, <2>1 DEF QueueUp, QueueAt
<1>3. ASSUME NEW r, NewRecord(r), NEW k, Joins(r, k)
      PROVE  QueueUp(k, t, n)
  <2>1. /\ k \in 0 .. Len(queue) /\ DOMAIN queue' = 1 .. Len(queue) + 1
        /\ \A i \in 1 .. Len(queue) + 1 :
             queue'[i] = IF i <= k THEN queue[i] ELSE IF i = k + 1 THEN r ELSE queue[i - 1]
    BY <1>3 DEF Joins, InsertedAs
  <2>2. ~Is(r, t, n)
    <3>1. PICK a \in Nat : a = logged[t]
      BY DEF Typed, LoggedOK
    <3>2. r.src = t => r.n = a + 1
      BY <1>3, <3>1 DEF NewRecord
    <3> QED
      BY <3>1, <3>2 DEF Is
  <2>3. ASSUME NEW y, QueueAt(y, t, n)
        PROVE  QueueAt(Up(k, y), t, n)'
    <3>1. y \in 1 .. Len(queue) /\ Is(queue[y], t, n)
      BY <1>1, <2>3 DEF QueueAt
    <3>2. PICK e \in 1 .. Len(queue) + 1 : e = Up(k, y) /\ queue'[e] = queue[y]
      <4>1. CASE y <= k
        BY <1>1, <2>1, <3>1, <4>1 DEF Up
      <4>2. CASE ~(y <= k)
        <5>1. y + 1 \in 1 .. Len(queue) + 1 /\ ~(y + 1 <= k) /\ y + 1 # k + 1 /\ (y + 1) - 1 = y
          BY <1>1, <2>1, <3>1, <4>2
        <5>2. queue'[y + 1] = queue[y]
          BY <2>1, <5>1
        <5> QED
          BY <4>2, <5>1, <5>2 DEF Up
      <4> QED
        BY <4>1, <4>2
    <3> QED
      BY <2>1, <3>1, <3>2 DEF QueueAt, Is, Up
  <2>4. ASSUME NEW y, QueueAt(y, t, n)'
        PROVE  \E x : QueueAt(x, t, n) /\ y = Up(k, x)
    <3>1. y \in 1 .. Len(queue) + 1 /\ Is(queue'[y], t, n)
      BY <2>1, <2>4 DEF QueueAt, Is
    <3>2. y # k + 1
      <4>1. y = k + 1 => queue'[y] = r
        BY <2>1, <3>1
      <4> QED
        BY <2>2, <3>1, <4>1
    <3>3. CASE y <= k
      BY <1>1, <2>1, <3>1, <3>3 DEF QueueAt, Up
    <3>4. CASE ~(y <= k)
      <4>1. y - 1 \in DOMAIN queue /\ queue'[y] = queue[y - 1] /\ ~(y - 1 <= k) /\ y = (y - 1) + 1
        BY <1>1, <2>1, <3>1, <3>2, <3>4
      <4>2. QueueAt(y - 1, t, n) /\ y = Up(k, y - 1)
        BY <3>1, <4>1 DEF QueueAt, Up
      <4> QED
        BY <4>2
    <3> QED
      BY <3>3, <3>4
  <2> QED
    BY <2>3, <2>4 DEF QueueUp
<1> QED
  BY <1>2, <1>3, QueueSteps

\* The holders move: a record stays where it is, with its holder or up the queue.
LEMMA MovesPlace ==
  ASSUME Typed, TakenGood, Moves, case' = case, NEW t \in Thread, NEW n, NEW s \in Concerned(t, n),
         NEW k, QueueUp(k, t, n), OnePlace(s, t, n)
  PROVE  OnePlace(s, t, n)'
<1>1. UNCHANGED <<out, skipped>>
  BY DEF Moves
<1>2. PICK p, q, m : Moved(p, q, m, s)
  BY DEF Moves
<1> DEFINE Goes(w, x, y, v, e, u) ==
             \/ w = "queue" /\ v = "queue" /\ e = Up(k, x) /\ u = y
             \/ Was(v, e, w, x, p, q, m) /\ u = y
             \/ w \in {"out", "skip"} /\ v = w /\ e = x /\ u = y
<1>3. ASSUME NEW w, NEW x, NEW y, At(w, x, y, s, t, n)
      PROVE  \E v, e, u : Goes(w, x, y, v, e, u) /\ At(v, e, u, s, t, n)'
  <2>1. CASE w = "queue" /\ y = 0 /\ QueueAt(x, t, n)
    BY <2>1 DEF QueueUp, At
  <2>2. CASE HeldAt(w, x, y, s, t, n)
    <3>1. Holds(w, x, s) /\ y \in From(w, x) .. Len(Held(w, x)) /\ Is(Held(w, x)[y], t, n)
      BY <2>2 DEF HeldAt
    <3>2. Held(w, x)[y].chan = Channel[s]
      BY <3>1, HeldGood, GoodConcerns
    <3>3. PICK v, e : Was(v, e, w, x, p, q, m) /\ Holds(v, e, s)'
      BY <1>2, <3>1, <3>2 DEF Moved
    <3>4. Held(v, e)' = Held(w, x) /\ From(v, e)' = From(w, x)
      BY <1>2, <3>1, <3>3 DEF Moved
    <3>5. HeldAt(v, e, y, s, t, n)'
      BY <3>1, <3>3, <3>4 DEF HeldAt, Is
    <3> QED
      BY <3>3, <3>5 DEF At
  <2>3. CASE w = "out" /\ y = 0 /\ OutAt(x, s, t, n)
    BY <1>1, <2>3 DEF OutAt, Is, At
  <2>4. CASE w = "skip" /\ x = 0 /\ y = 0 /\ Skipped(s, t, n)
    BY <1>1, <2>4 DEF Skipped, At
  <2> QED
    BY <1>3, <2>1, <2>2, <2>3, <2>4 DEF At
<1>4. ASSUME NEW v, NEW e, NEW u, At(v, e, u, s, t, n)'
      PROVE  \E w, x, y : Goes(w, x, y, v, e, u) /\ At(w, x, y, s, t, n)
  <2>1. CASE v = "queue" /\ u = 0 /\ QueueAt(e, t, n)'
    BY <2>1 DEF QueueUp, At
  <2>2. CASE HeldAt(v, e, u, s, t, n)'
    <3>1. Holds(v, e, s)' /\ u \in From(v, e)' .. Len(Held(v, e)') /\ Is(Held(v, e)'[u], t, n)
      BY <2>2 DEF HeldAt, Is
    <3>2. PICK w, x : /\ Was(v, e, w, x, p, q, m) /\ Holds(w, x, s)
                      /\ Held(v, e)' = Held(w, x) /\ From(v, e)' = From(w, x)
      BY <1>2, <3>1, MovedBack
    <3>3. HeldAt(w, x, u, s, t, n)
      BY <3>1, <3>2 DEF HeldAt
    <3> QED
      BY <3>2, <3>3 DEF At
  <2>3. CASE v = "out" /\ u = 0 /\ OutAt(e, s, t, n)'
    BY <1>1, <2>3 DEF OutAt, Is, At
  <2>4. CASE v = "skip" /\ e = 0 /\ u = 0 /\ Skipped(s, t, n)'
    BY <1>1, <2>4 DEF Skipped, At
  <2> QED
    BY <1>4, <2>1, <2>2, <2>3, <2>4 DEF At
<1>5. ASSUME NEW w, NEW x, NEW y, NEW v, NEW e, NEW u, NEW a, NEW b, NEW c, At(w, x, y, s, t, n),
             Goes(w, x, y, v, e, u), At(v, e, u, s, t, n)', Goes(w, x, y, a, b, c), At(a, b, c, s, t, n)'
      PROVE  a = v /\ b = e /\ c = u
  <2>1. CASE w \in {"queue", "out", "skip"}
    BY <1>5, <2>1 DEF Was
  <2>2. CASE w \notin {"queue", "out", "skip"}
    <3>1. Was(v, e, w, x, p, q, m) /\ Was(a, b, w, x, p, q, m) /\ u = y /\ c = y
      BY <1>5, <2>2
    <3>2. Holds(w, x, s) /\ v \notin {"queue", "out", "skip"} /\ a \notin {"queue", "out", "skip"}
      BY <1>5, <2>2, <3>1 DEF At, HeldAt, Was
    <3>3. Holds(v, e, s)' /\ Holds(a, b, s)'
      BY <1>5, <3>2 DEF At, HeldAt
    <3>4. a = v /\ b = e
      BY <1>2, <3>1, <3>2, <3>3 DEF Moved
    <3> QED
      BY <3>1, <3>4
  <2> QED
    BY <2>1, <2>2
<1> HIDE DEF Goes
<1> QED
  BY <1>3, <1>4, <1>5 DEF OnePlace

\* A Write handles a record: that goes out, and what is passed behind it is dropped.
LEMMA HandlesPlace ==
  ASSUME Typed, TakenGood, case' = case, NEW a \in DOMAIN writes, Handles(a), NEW t \in Thread, NEW n,
         NEW s \in Concerned(t, n), NEW k, QueueUp(k, t, n), OnePlace(s, t, n)
  PROVE  OnePlace(s, t, n)'
<1>1. PICK h, j, f : Passes(a, h, j) /\ Shows(a, h, f) /\ Drops(a, h, j)
  BY EveryWriteHandles DEF Handles, WriteHandles
<1>2. s \in Sink
  BY SinkKnown
<1>3. /\ \A w, y : Holds(w, y, s)' <=> Holds(w, y, s)
      /\ \A w, y : Holds(w, y, s) =>
           /\ Held(w, y)' = Held(w, y)
           /\ From(w, y)' = IF w = "write" /\ y = a THEN j + 1 ELSE From(w, y)
      /\ Holds("write", a, s) <=> s = writes[a].sink
      /\ Held("write", a) = writes[a].batch /\ From("write", a) = writes[a].i
  BY <1>1, HandleHolds DEF Handles
<1>4. PICK c \in Seq(Record) : c = writes[a].batch
  BY WriteParts DEF Typed
<1>5. /\ writes[a].i \in Nat \ {0} /\ h \in writes[a].i .. Len(c) /\ j \in h .. Len(c)
      /\ \A l \in writes[a].i .. h - 1 : c[l].chan # Channel[writes[a].sink]
  BY <1>1, <1>4, WriteParts DEF Passes, Typed
<1>6. /\ DOMAIN out[s] = 1 .. Len(out[s]) /\ Len(out[s]) \in Nat
      /\ DOMAIN out'[s] = IF s = writes[a].sink THEN 1 .. Len(out[s]) + 1 ELSE 1 .. Len(out[s])
      /\ \A i \in DOMAIN out[s] : i \in DOMAIN out'[s] /\ out'[s][i] = out[s][i]
      /\ \A i \in DOMAIN out'[s] :
           \/ i \in DOMAIN out[s]
           \/ s = writes[a].sink /\ i = Len(out[s]) + 1 /\ out'[s][i] = [rec |-> c[h], file |-> f]
  BY <1>1, <1>2, <1>4, ShownBack
<1>7. /\ s # writes[a].sink => skipped'[s] = skipped[s]
      /\ s = writes[a].sink =>
           \A r : r \in skipped'[s] <=> r \in skipped[s] \/ \E l \in h + 1 .. j : c[l].chan = Channel[s] /\ r = c[l]
  BY <1>1, <1>2, <1>4 DEF Drops
<1> DEFINE Mine1(w, x) == w = "write" /\ x = a
           Goes(w, x, y, v, e, u) ==
             \/ w = "queue" /\ v = "queue" /\ e = Up(k, x) /\ u = y
             \/ w \in {"mux", "pool", "write"} /\ ~(Mine1(w, x) /\ y <= j) /\ v = w /\ e = x /\ u = y
             \/ Mine1(w, x) /\ y = h /\ v = "out" /\ e = Len(out[s]) + 1 /\ u = 0
             \/ Mine1(w, x) /\ y \in h + 1 .. j /\ v = "skip" /\ e = 0 /\ u = 0
             \/ w \in {"out", "skip"} /\ v = w /\ e = x /\ u = y
<1>8. ASSUME NEW w, NEW x, NEW y, At(w, x, y, s, t, n)
      PROVE  \E v, e, u : Goes(w, x, y, v, e, u) /\ At(v, e, u, s, t, n)'
  <2>1. CASE w = "queue" /\ y = 0 /\ QueueAt(x, t, n)
    BY <2>1 DEF QueueUp, At
  <2>2. CASE HeldAt(w, x, y, s, t, n)
    <3>1. Holds(w, x, s) /\ y \in From(w, x) .. Len(Held(w, x)) /\ Is(Held(w, x)[y], t, n)
      BY <2>2 DEF HeldAt
    <3>2. /\ Held(w, x)[y].chan = Channel[s] /\ y \in Nat \ {0} /\ Held(w, x) \in Seq(Record)
          /\ From(w, x) \in Nat \ {0} /\ w \in {"mux", "pool", "write"}
      BY <3>1, HeldGood, GoodConcerns, HeldIs, HoldsIs
    <3>3. CASE ~(Mine1(w, x) /\ y <= j)
      <4>1. Holds(w, x, s)' /\ Held(w, x)' = Held(w, x) /\ From(w, x)' = IF Mine1(w, x) THEN j + 1 ELSE From(w, x)
        BY <1>3, <3>1
      <4>2. y \in From(w, x)' .. Len(Held(w, x)')
        BY <1>5, <3>1, <3>2, <3>3, <4>1
      <4>3. HeldAt(w, x, y, s, t, n)'
        BY <3>1, <4>1, <4>2 DEF HeldAt, Is
      <4>4. Goes(w, x, y, w, x, y)
        BY <3>2, <3>3
      <4> QED
        BY <4>3, <4>4 DEF At
    <3>4. CASE Mine1(w, x) /\ y <= j
      <4>1. s = writes[a].sink /\ Held(w, x) = c /\ y \in writes[a].i .. Len(c)
        BY <1>3, <1>4, <3>1, <3>4
      <4>2. y >= h
        <5>1. y \notin writes[a].i .. h - 1
          BY <1>5, <3>2, <4>1
        <5> QED
          BY <1>5, <3>2, <4>1, <5>1
      <4>3. CASE y = h
        <5>1. /\ Len(out[s]) + 1 \in DOMAIN out'[s] /\ Len(out[s]) + 1 \notin DOMAIN out[s]
          BY <1>6, <4>1
        <5>2. out'[s][Len(out[s]) + 1].rec = c[h]
          BY <1>6, <5>1
        <5>3. PICK e : e = Len(out[s]) + 1
          OBVIOUS
        <5>4. At("out", e, 0, s, t, n)'
          BY <3>1, <4>1, <4>3, <5>1, <5>2, <5>3 DEF At, OutAt, Is
        <5> QED
          BY <3>4, <4>3, <5>3, <5>4
      <4>4. CASE y # h
        <5>1. y \in h + 1 .. j
          BY <1>5, <3>2, <3>4, <4>2, <4>4
        <5>2. c[y] \in skipped'[s]
          BY <1>7, <3>2, <4>1, <5>1
        <5>3. At("skip", 0, 0, s, t, n)'
          BY <3>1, <4>1, <5>2 DEF At, Skipped, Is
        <5> QED
          BY <3>4, <5>1, <5>3
      <4> QED
        BY <4>3, <4>4
    <3> QED
      BY <3>3, <3>4
  <2>3. CASE w = "out" /\ y = 0 /\ OutAt(x, s, t, n)
    <3>1. OutAt(x, s, t, n)'
      BY <1>6, <2>3 DEF OutAt, Is
    <3>2. At(w, x, y, s, t, n)'
      BY <2>3, <3>1 DEF At
    <3> QED
      BY <2>3, <3>2
  <2>4. CASE w = "skip" /\ x = 0 /\ y = 0 /\ Skipped(s, t, n)
    <3>1. \A r : r \in skipped[s] => r \in skipped'[s]
      BY <1>7
    <3>2. At(w, x, y, s, t, n)'
      BY <2>4, <3>1 DEF At, Skipped
    <3> QED
      BY <2>4, <3>2
  <2> QED
    BY <1>8, <2>1, <2>2, <2>3, <2>4 DEF At
<1>9. ASSUME NEW v, NEW e, NEW u, At(v, e, u, s, t, n)'
      PROVE  \E w, x, y : Goes(w, x, y, v, e, u) /\ At(w, x, y, s, t, n)
  <2>0. s = writes[a].sink => \A l \in h .. j : Is(c[l], t, n) => At("write", a, l, s, t, n)
    <3>1. ASSUME s = writes[a].sink, NEW l \in h .. j, Is(c[l], t, n)
          PROVE  At("write", a, l, s, t, n)
      <4>1. l \in From("write", a) .. Len(Held("write", a))
        BY <1>3, <1>4, <1>5
      <4> QED
        BY <1>3, <1>4, <3>1, <4>1 DEF At, HeldAt
    <3> QED
      BY <3>1
  <2>1. CASE v = "queue" /\ u = 0 /\ QueueAt(e, t, n)'
    BY <2>1 DEF QueueUp, At
  <2>2. CASE HeldAt(v, e, u, s, t, n)'
    <3>1. Holds(v, e, s)' /\ u \in From(v, e)' .. Len(Held(v, e)') /\ Is(Held(v, e)'[u], t, n)
      BY <2>2 DEF HeldAt, Is
    <3>2. /\ Holds(v, e, s) /\ Held(v, e)' = Held(v, e)
          /\ From(v, e)' = IF Mine1(v, e) THEN j + 1 ELSE From(v, e)
      BY <1>3, <3>1
    <3>3. From(v, e) \in Nat \ {0} /\ Held(v, e) \in Seq(Record) /\ v \in {"mux", "pool", "write"}
      BY <3>2, HeldIs, HoldsIs
    <3>4. Mine1(v, e) => From(v, e) = writes[a].i
      BY <1>3
    <3>5. u \in From(v, e) .. Len(Held(v, e)) /\ ~(Mine1(v, e) /\ u <= j)
      BY <1>5, <3>1, <3>2, <3>3, <3>4
    <3>6. At(v, e, u, s, t, n)
      BY <3>1, <3>2, <3>5 DEF At, HeldAt
    <3> QED
      BY <3>3, <3>5, <3>6
  <2>3. CASE v = "out" /\ u = 0 /\ OutAt(e, s, t, n)'
    <3>1. e \in DOMAIN out'[s] /\ Is(out'[s][e].rec, t, n)
      BY <2>3 DEF OutAt, Is
    <3>2. CASE e \in DOMAIN out[s]
      <4>1. At(v, e, u, s, t, n)
        BY <1>6, <2>3, <3>1, <3>2 DEF At, OutAt
      <4> QED
        BY <2>3, <4>1
    <3>3. CASE e \notin DOMAIN out[s]
      <4>1. s = writes[a].sink /\ e = Len(out[s]) + 1 /\ out'[s][e] = [rec |-> c[h], file |-> f]
        BY <1>6, <3>1, <3>3
      <4>2. Is(c[h], t, n) /\ h \in h .. j
        BY <1>5, <3>1, <4>1
      <4>3. At("write", a, h, s, t, n)
        BY <2>0, <4>1, <4>2
      <4>4. Goes("write", a, h, v, e, u)
        BY <2>3, <4>1
      <4> QED
        BY <4>3, <4>4
    <3> QED
      BY <3>2, <3>3
  <2>4. CASE v = "skip" /\ e = 0 /\ u = 0 /\ Skipped(s, t, n)'
    <3>1. PICK r \in skipped'[s] : Is(r, t, n)
      BY <2>4 DEF Skipped, Is
    <3>2. CASE r \in skipped[s]
      <4>1. At(v, e, u, s, t, n)
        BY <2>4, <3>1, <3>2 DEF At, Skipped, Is
      <4> QED
        BY <2>4, <4>1
    <3>3. CASE r \notin skipped[s]
      <4>1. PICK l \in h + 1 .. j : r = c[l]
        BY <1>7, <3>1, <3>3
      <4>2. s = writes[a].sink
        BY <1>7, <3>1, <3>3
      <4>3. l \in h .. j
        BY <1>5
      <4>4. At("write", a, l, s, t, n)
        BY <2>0, <3>1, <4>1, <4>2, <4>3
      <4>5. Goes("write", a, l, v, e, u)
        BY <2>4
      <4> QED
        BY <4>4, <4>5
    <3> QED
      BY <3>2, <3>3
  <2> QED
    BY <1>9, <2>1, <2>2, <2>3, <2>4 DEF At
<1>10. ASSUME NEW w, NEW x, NEW y, NEW v, NEW e, NEW u, NEW q, NEW b, NEW d,
              Goes(w, x, y, v, e, u), Goes(w, x, y, q, b, d)
       PROVE  q = v /\ b = e /\ d = u
  <2>1. h \in Nat /\ j \in Nat /\ h <= j
    BY <1>5
  <2>2. CASE Mine1(w, x)
    <3>1. ~(y <= j) => y # h /\ y \notin h + 1 .. j
      BY <2>1
    <3>2. y = h => y \notin h + 1 .. j
      BY <2>1
    <3> QED
      BY <1>10, <2>2, <3>1, <3>2
  <2>3. CASE ~Mine1(w, x)
    BY <1>10, <2>3
  <2> QED
    BY <2>2, <2>3
<1> HIDE DEF Goes
<1> QED
  BY <1>8, <1>9, <1>10 DEF OnePlace

\* A multiplexer collects: the records before its cut go to it, the others down the queue.
LEMMA CollectPlace ==
  ASSUME Typed, QueueInLine, case' = case, NEW m \in Muxer, Collect(m), NEW t \in Thread, NEW n,
         NEW s \in Concerned(t, n), OnePlace(s, t, n)
  PROVE  OnePlace(s, t, n)'
<1>1. PICK c, l : Cuts(m, c, l)
  BY CollectCuts
<1>2. /\ l \in 0 .. Len(queue) /\ c \in Seq(Record) /\ Len(c) = l /\ DOMAIN c = 1 .. l
      /\ \A i \in 1 .. l : c[i] = queue[i]
      /\ DOMAIN queue' = 1 .. Len(queue) - l /\ \A i \in 1 .. Len(queue) - l : queue'[i] = queue[i + l]
  BY <1>1 DEF Cuts, CutAs
<1>3. DOMAIN queue = 1 .. Len(queue) /\ Len(queue) \in Nat
  BY DEF Typed, QueueOK
<1>4. UNCHANGED <<out, skipped>>
  BY DEF Collect, sinkState
<1>5. \E z \in 1 .. Len(case.sinks) : case.sinks[z] = s
  BY SinkKnown
<1>6. /\ \A w, x : Holds(w, x, s) =>
           /\ Holds(w, x, s)' /\ ~(w = "mux" /\ x = m)
           /\ Held(w, x)' = Held(w, x) /\ From(w, x)' = From(w, x)
      /\ \A w, x : Holds(w, x, s)' => Holds(w, x, s) \/ (w = "mux" /\ x = m /\ Takes(c, s))
      /\ Takes(c, s) => Holds("mux", m, s)' /\ Held("mux", m)' = c /\ From("mux", m)' = 1
      /\ ~Takes(c, s) => \A i \in DOMAIN c : c[i].chan # Channel[s]
  BY <1>1, <1>5, CollectHolds
<1> DEFINE Goes(w, x, y, v, e, u) ==
             \/ w = "queue" /\ x \in 1 .. l /\ v = "mux" /\ e = m /\ u = x
             \/ w = "queue" /\ x \in l + 1 .. Len(queue) /\ v = "queue" /\ e = x - l /\ u = 0
             \/ w # "queue" /\ v = w /\ e = x /\ u = y
<1>7. ASSUME NEW w, NEW x, NEW y, At(w, x, y, s, t, n)
      PROVE  \E v, e, u : Goes(w, x, y, v, e, u) /\ At(v, e, u, s, t, n)'
  <2>1. CASE w = "queue" /\ y = 0 /\ QueueAt(x, t, n)
    <3>1. x \in 1 .. Len(queue) /\ Is(queue[x], t, n) /\ Good(queue[x])
      BY <1>3, <2>1 DEF QueueAt, QueueInLine
    <3>2. CASE x <= l
      <4>1. x \in 1 .. l /\ c[x] = queue[x]
        BY <1>2, <3>1, <3>2
      <4>2. Takes(c, s)
        BY <1>2, <1>6, <3>1, <4>1, GoodConcerns
      <4>3. Holds("mux", m, s)' /\ x \in From("mux", m)' .. Len(Held("mux", m)') /\ Is(Held("mux", m)'[x], t, n)
        BY <1>2, <1>6, <3>1, <4>1, <4>2
      <4>4. At("mux", m, x, s, t, n)'
        BY <4>3 DEF At, HeldAt, Is
      <4> QED
        BY <2>1, <4>1, <4>4
    <3>3. CASE ~(x <= l)
      <4>0. x - l \in 1 .. Len(queue) - l /\ (x - l) + l = x /\ x \in l + 1 .. Len(queue)
        BY <1>2, <1>3, <3>1, <3>3
      <4>1. x - l \in DOMAIN queue' /\ queue'[x - l] = queue[x] /\ x \in l + 1 .. Len(queue)
        BY <1>2, <4>0
      <4>2. PICK e : e = x - l
        OBVIOUS
      <4>3. At("queue", e, 0, s, t, n)'
        BY <3>1, <4>1, <4>2 DEF At, QueueAt, Is
      <4> QED
        BY <2>1, <4>1, <4>2, <4>3
    <3> QED
      BY <3>2, <3>3
  <2>2. CASE HeldAt(w, x, y, s, t, n)
    <3>1. /\ Holds(w, x, s)' /\ Held(w, x)' = Held(w, x) /\ From(w, x)' = From(w, x)
          /\ w \in {"mux", "pool", "write"}
      BY <1>6, <2>2, HoldsIs DEF HeldAt
    <3>2. HeldAt(w, x, y, s, t, n)'
      BY <2>2, <3>1 DEF HeldAt, Is
    <3>3. At(w, x, y, s, t, n)'
      BY <3>2 DEF At
    <3> QED
      BY <3>1, <3>3
  <2>3. CASE w = "out" /\ y = 0 /\ OutAt(x, s, t, n)
    <3>1. At(w, x, y, s, t, n)'
      BY <1>4, <2>3 DEF At, OutAt, Is
    <3> QED
      BY <2>3, <3>1
  <2>4. CASE w = "skip" /\ x = 0 /\ y = 0 /\ Skipped(s, t, n)
    <3>1. At(w, x, y, s, t, n)'
      BY <1>4, <2>4 DEF At, Skipped
    <3> QED
      BY <2>4, <3>1
  <2> QED
    BY <1>7, <2>1, <2>2, <2>3, <2>4 DEF At
<1>8. ASSUME NEW v, NEW e, NEW u, At(v, e, u, s, t, n)'
      PROVE  \E w, x, y : Goes(w, x, y, v, e, u) /\ At(w, x, y, s, t, n)
  <2>1. CASE v = "queue" /\ u = 0 /\ QueueAt(e, t, n)'
    <3>1. e \in DOMAIN queue' /\ Is(queue'[e], t, n)
      BY <2>1 DEF QueueAt, Is
    <3>2. e + l \in l + 1 .. Len(queue) /\ e + l \in DOMAIN queue /\ queue'[e] = queue[e + l] /\ e = (e + l) - l
      BY <1>2, <1>3, <3>1
    <3>3. At("queue", e + l, 0, s, t, n)
      BY <3>1, <3>2 DEF At, QueueAt
    <3> QED
      BY <2>1, <3>2, <3>3
  <2>2. CASE HeldAt(v, e, u, s, t, n)'
    <3>1. Holds(v, e, s)' /\ u \in From(v, e)' .. Len(Held(v, e)') /\ Is(Held(v, e)'[u], t, n)
      BY <2>2 DEF HeldAt, Is
    <3>2. CASE Holds(v, e, s)
      <4>1. Held(v, e)' = Held(v, e) /\ From(v, e)' = From(v, e) /\ v # "queue"
        BY <1>6, <3>2, HoldsIs
      <4>2. At(v, e, u, s, t, n)
        BY <3>1, <3>2, <4>1 DEF At, HeldAt
      <4> QED
        BY <4>1, <4>2
    <3>3. CASE v = "mux" /\ e = m /\ Takes(c, s)
      <4>1. u \in 1 .. l /\ Is(c[u], t, n)
        BY <1>2, <1>6, <3>1, <3>3
      <4>2. u \in DOMAIN queue /\ Is(queue[u], t, n)
        BY <1>2, <1>3, <4>1
      <4>3. At("queue", u, 0, s, t, n)
        BY <4>2 DEF At, QueueAt
      <4> QED
        BY <3>3, <4>1, <4>3
    <3> QED
      BY <1>6, <3>1, <3>2, <3>3
  <2>3. CASE v = "out" /\ u = 0 /\ OutAt(e, s, t, n)'
    <3>1. At(v, e, u, s, t, n)
      BY <1>4, <2>3 DEF At, OutAt, Is
    <3> QED
      BY <2>3, <3>1
  <2>4. CASE v = "skip" /\ e = 0 /\ u = 0 /\ Skipped(s, t, n)'
    <3>1. At(v, e, u, s, t, n)
      BY <1>4, <2>4 DEF At, Skipped
    <3> QED
      BY <2>4, <3>1
  <2> QED
    BY <1>8, <2>1, <2>2, <2>3, <2>4 DEF At
<1>9. ASSUME NEW w, NEW x, NEW y, NEW v, NEW e, NEW u, NEW q, NEW b, NEW d,
             Goes(w, x, y, v, e, u), Goes(w, x, y, q, b, d)
      PROVE  q = v /\ b = e /\ d = u
  <2>1. x \in 1 .. l => x \notin l + 1 .. Len(queue)
    BY <1>2
  <2> QED
    BY <1>9, <2>1
<1> HIDE DEF Goes
<1> QED
  BY <1>7, <1>8, <1>9 DEF OnePlace

\* A push gives the new record of a thread its place: the queue.
LEMMA PushPlace ==
  ASSUME Typed, QueueInLine, TakenGood, [Next]_vars, NEW t \in Thread, Push(t), NEW n, n = logged[t] + 1,
         NEW s \in Concerned(t, n)
  PROVE  OnePlace(s, t, n)'
<1>1. s \in Sink /\ case.script[t][n].chan = Channel[s] /\ Channel[s] \in Nat
  BY SinkKnown, ChannelParts
<1>2. PICK r : NewRecord(r) /\ (\E k : Joins(r, k)) /\ r.src = t
  <2>1. Channel[s] # Unknown
    BY <1>1 DEF Unknown
  <2> QED
    BY <1>1, <2>1, PushJoins
<1>3. PICK k : Joins(r, k)
  BY <1>2
<1>4. Is(r, t, n)
  BY <1>2 DEF NewRecord, Is
<1>5. \A w, x, y : ~At(w, x, y, s, t, n)
  <2>1. n \notin 1 .. logged[t]
    BY DEF Typed, LoggedOK
  <2> QED
    BY <1>1, <2>1, PlacedIsLogged
<1>6. queue \in Seq(Record) /\ Len(queue) \in Nat /\ DOMAIN queue = 1 .. Len(queue)
  BY DEF Typed, QueueOK
<1>7. /\ k \in 0 .. Len(queue) /\ DOMAIN queue' = 1 .. Len(queue) + 1
      /\ \A i \in 1 .. Len(queue) + 1 :
           queue'[i] = IF i <= k THEN queue[i] ELSE IF i = k + 1 THEN r ELSE queue[i - 1]
  BY <1>3 DEF Joins, InsertedAs
<1>8. PICK e : e = k + 1
  OBVIOUS
<1>9. e \in DOMAIN queue' /\ queue'[e] = r
  BY <1>6, <1>7, <1>8
<1>10. At("queue", e, 0, s, t, n)'
  BY <1>4, <1>9 DEF At, QueueAt, Is
<1>11. ASSUME NEW v, NEW z, NEW u, At(v, z, u, s, t, n)'
       PROVE  v = "queue" /\ z = e /\ u = 0
  <2>1. UNCHANGED <<case, pool, mux, writes, out, skipped>>
    BY DEF Push, sinkState, Elsewhere
  <2>2. CASE v = "queue" /\ u = 0 /\ QueueAt(z, t, n)'
    <3>1. z \in 1 .. Len(queue) + 1 /\ Is(queue'[z], t, n)
      BY <1>7, <2>2 DEF QueueAt, Is
    <3>2. \A i \in DOMAIN queue : ~Is(queue[i], t, n)
      BY <1>5 DEF At, QueueAt
    <3>3. ~(z <= k)
      <4>1. z <= k => z \in DOMAIN queue /\ queue'[z] = queue[z]
        BY <1>6, <1>7, <3>1
      <4> QED
        BY <3>1, <3>2, <4>1
    <3>4. z = k + 1
      <4>1. z # k + 1 => z - 1 \in DOMAIN queue /\ queue'[z] = queue[z - 1]
        BY <1>6, <1>7, <3>1, <3>3
      <4> QED
        BY <3>1, <3>2, <4>1
    <3> QED
      BY <1>8, <2>2, <3>4
  <2>3. CASE HeldAt(v, z, u, s, t, n)'
    <3>1. HeldAt(v, z, u, s, t, n)
      BY <2>1, <2>3 DEF HeldAt, Holds, Held, From, Is
    <3> QED
      BY <1>5, <3>1 DEF At
  <2>4. CASE v = "out" /\ u = 0 /\ OutAt(z, s, t, n)'
    <3>1. OutAt(z, s, t, n)
      BY <2>1, <2>4 DEF OutAt, Is
    <3> QED
      BY <1>5, <2>4, <3>1 DEF At
  <2>5. CASE v = "skip" /\ z = 0 /\ u = 0 /\ Skipped(s, t, n)'
    <3>1. Skipped(s, t, n)
      BY <2>1, <2>5 DEF Skipped
    <3> QED
      BY <1>5, <2>5, <3>1 DEF At
  <2> QED
    BY <1>11, <2>2, <2>3, <2>4, <2>5 DEF At
<1> QED
  BY <1>10, <1>11 DEF OnePlace

LEMMA PlacedStays ==
  ASSUME Typed, QueueInLine, TakenGood, Placed, [Next]_vars
  PROVE  Placed'
<1>1. case' = case /\ (logged' = logged \/ \E t \in Thread : Push(t))
  BY Elsewhere
<1>2. \A t \in Thread : logged[t] \in Nat
  BY DEF Typed, LoggedOK
<1>3. ASSUME NEW t \in Thread, NEW n \in 1 .. logged[t], NEW s \in Concerned(t, n)
      PROVE  OnePlace(s, t, n)'
  <2>1. OnePlace(s, t, n)
    BY <1>3 DEF Placed
  <2>2. ASSUME NEW m \in Muxer, Collect(m)
        PROVE  OnePlace(s, t, n)'
    BY <1>1, <2>1, <2>2, CollectPlace
  <2>3. CASE ~ \E m \in Muxer : Collect(m)
    <3>1. PICK k : QueueUp(k, t, n)
      BY <2>3, QueueMovesUp
    <3>2. CASE Moves
      BY <1>1, <2>1, <3>1, <3>2, MovesPlace
    <3>3. ASSUME NEW x \in DOMAIN writes, Handles(x)
          PROVE  OnePlace(s, t, n)'
      BY <1>1, <2>1, <3>1, <3>3, HandlesPlace
    <3> QED
      BY <2>3, <3>2, <3>3, ThreeKinds
  <2> QED
    BY <2>2, <2>3
<1>4. ASSUME NEW t \in Thread, NEW n \in 1 .. logged'[t], NEW s \in Concerned(t, n)
      PROVE  OnePlace(s, t, n)'
  <2>1. CASE n \in 1 .. logged[t]
    BY <1>3, <2>1
  <2>2. CASE n \notin 1 .. logged[t]
    <3>1. PICK u \in Thread : Push(u)
      BY <1>1, <1>4, <2>2
    <3>2. logged' = [logged EXCEPT ![u] = @ + 1] /\ logged \in [Thread -> Nat]
      BY <3>1, PushJoins DEF Typed, LoggedOK
    <3>3. u = t /\ n = logged[t] + 1
      BY <1>2, <1>4, <2>2, <3>2
    <3> QED
      BY <3>1, <3>3, PushPlace
  <2> QED
    BY <2>1, <2>2
<1>5. \A t \in Thread : \A n : Concerned(t, n)' = Concerned(t, n)
  BY <1>1 DEF Concerned
<1> QED
  BY <1>4, <1>5 DEF Placed

\* One place is what Accounted counts.
LEMMA PlaceFound ==
  ASSUME Typed, NEW s \in Sink, NEW t \in Thread, NEW n
  PROVE  /\ InQueue(t, n) <=> \E x : QueueAt(x, t, n)
         /\ InBatch(s, t, n) <=> \E w, x, y : HeldAt(w, x, y, s, t, n)
<1>1. InQueue(t, n) <=> \E x : QueueAt(x, t, n)
  BY DEF InQueue, Has, QueueAt, Is
<1>2. ASSUME NEW w, NEW x, NEW y, HeldAt(w, x, y, s, t, n)
      PROVE  InBatch(s, t, n)
  <2>1. Holds(w, x, s) /\ y \in From(w, x) .. Len(Held(w, x)) /\ Is(Held(w, x)[y], t, n)
    BY <1>2 DEF HeldAt
  <2>2. Held(w, x) \in Seq(Record) /\ From(w, x) \in Nat \ {0}
    BY <2>1, HeldIs
  <2>3. y \in DOMAIN Held(w, x)
    BY <2>1, <2>2
  <2>4. CASE w = "mux"
    BY <2>1, <2>3, <2>4 DEF InBatch, Has, Holds, Held, Is
  <2>5. CASE w = "pool"
    BY <2>1, <2>3, <2>5 DEF InBatch, Has, Holds, Held, Is
  <2>6. CASE w = "write"
    <3>1. PICK c \in Seq(Record) : c = writes[x].batch
      BY <2>2, <2>6 DEF Held
    <3>2. PICK i \in Nat \ {0} : i = writes[x].i
      BY <2>2, <2>6 DEF From
    <3>3. y \in i .. Len(c) /\ Is(c[y], t, n)
      BY <2>1, <2>6, <3>1, <3>2 DEF Held, From
    <3>4. Has(SubSeq(c, i, Len(c)), t, n)
      <4>1. PICK z : z = y - (i - 1)
        OBVIOUS
      <4>2. z \in DOMAIN SubSeq(c, i, Len(c)) /\ SubSeq(c, i, Len(c))[z] = c[y]
        BY <3>3, <4>1
      <4> QED
        BY <3>3, <4>2 DEF Has, Is
    <3>5. x \in DOMAIN writes /\ writes[x].sink = s
      BY <2>1, <2>6 DEF Holds
    <3> QED
      BY <3>1, <3>2, <3>4, <3>5 DEF InBatch
  <2> QED
    BY <2>1, <2>4, <2>5, <2>6, HoldsIs
<1>3. ASSUME InBatch(s, t, n)
      PROVE  \E w, x, y : HeldAt(w, x, y, s, t, n)
  <2>1. ASSUME NEW m \in Muxer, mux[m].pc = "submit", Has(mux[m].batch, t, n),
               \E x \in mux[m].next .. Len(case.sinks) : case.sinks[x] = s
        PROVE  \E y : HeldAt("mux", m, y, s, t, n)
    <3>1. PICK y \in DOMAIN mux[m].batch : Is(mux[m].batch[y], t, n)
      BY <2>1 DEF Has, Is
    <3>2. mux[m].batch \in Seq(Record)
      BY DeskParts DEF Typed
    <3>3. y \in 1 .. Len(mux[m].batch)
      BY <3>1, <3>2
    <3> QED
      BY <2>1, <3>1, <3>3 DEF HeldAt, Holds, Held, From
  <2>2. ASSUME NEW i \in DOMAIN pool, pool[i].kind = "write", pool[i].sink = s, Has(pool[i].batch, t, n)
        PROVE  \E y : HeldAt("pool", i, y, s, t, n)
    <3>1. PICK y \in DOMAIN pool[i].batch : Is(pool[i].batch[y], t, n)
      BY <2>2 DEF Has, Is
    <3>2. pool[i].batch \in Seq(Record)
      BY <2>2, TaskParts DEF Typed
    <3>3. y \in 1 .. Len(pool[i].batch)
      BY <3>1, <3>2
    <3> QED
      BY <2>2, <3>1, <3>3 DEF HeldAt, Holds, Held, From
  <2>3. ASSUME NEW x \in DOMAIN writes, writes[x].sink = s,
               Has(SubSeq(writes[x].batch, writes[x].i, Len(writes[x].batch)), t, n)
        PROVE  \E y : HeldAt("write", x, y, s, t, n)
    <3>1. PICK c \in Seq(Record) : c = writes[x].batch
      BY WriteParts DEF Typed
    <3>2. PICK i \in Nat \ {0} : i = writes[x].i
      BY WriteParts DEF Typed
    <3>3. PICK z \in DOMAIN SubSeq(c, i, Len(c)) : Is(SubSeq(c, i, Len(c))[z], t, n)
      BY <2>3, <3>1, <3>2 DEF Has, Is
    <3>4. z + (i - 1) \in i .. Len(c) /\ SubSeq(c, i, Len(c))[z] = c[z + (i - 1)]
      BY <3>3
    <3> QED
      BY <2>3, <3>1, <3>2, <3>3, <3>4 DEF HeldAt, Holds, Held, From
  <2> QED
    BY <1>3, <2>1, <2>2, <2>3 DEF InBatch
<1> QED
  BY <1>1, <1>2, <1>3

LEMMA PlacedAccounted ==
  ASSUME Typed, Placed
  PROVE  Accounted
<1>1. SUFFICES ASSUME NEW t \in Thread, NEW n \in Numbers, n <= logged[t], NEW s \in Concerned(t, n)
               PROVE  (IF InQueue(t, n) THEN 1 ELSE 0) + (IF InBatch(s, t, n) THEN 1 ELSE 0)
                        + TimesDone(s, t, n) + (IF Skipped(s, t, n) THEN 1 ELSE 0) = 1
  <2>1. ASSUME NEW k \in Pushed
        PROVE  /\ k[1] \in Thread /\ k[2] \in Numbers /\ k[2] <= logged[k[1]]
    BY DEF Pushed
  <2> QED
    BY <2>1 DEF Accounted
<1>2. s \in Sink /\ n \in DOMAIN case.script[t]
  BY SinkKnown
<1>3. n \in 1 .. logged[t]
  <2>1. case.script[t] \in Seq(Entry) /\ logged[t] \in Nat
    BY CaseParts DEF Typed, LoggedOK
  <2> QED
    BY <1>1, <1>2, <2>1
<1>4. PICK w, x, y : At(w, x, y, s, t, n) /\ \A v, z, u : At(v, z, u, s, t, n) => v = w /\ z = x /\ u = y
  BY <1>3 DEF Placed, OnePlace
<1>5. InQueue(t, n) <=> w = "queue"
  BY <1>2, <1>4, PlaceFound, HoldsIs DEF At, HeldAt
<1>6. InBatch(s, t, n) <=> w \in {"mux", "pool", "write"}
  BY <1>2, <1>4, PlaceFound, HoldsIs DEF At, HeldAt
<1>7. Skipped(s, t, n) <=> w = "skip"
  BY <1>4, HoldsIs DEF At, HeldAt
<1>8. w \in {"queue", "mux", "pool", "write", "out", "skip"}
  BY <1>4, HoldsIs DEF At, HeldAt
<1>9. TimesDone(s, t, n) = IF w = "out" THEN 1 ELSE 0
  <2> DEFINE D == {i \in DOMAIN out[s] : out[s][i].rec.src = t /\ out[s][i].rec.n = n}
  <2>1. \A i : i \in D <=> OutAt(i, s, t, n)
    BY DEF OutAt, Is
  <2>2. \A i : OutAt(i, s, t, n) => At("out", i, 0, s, t, n)
    BY DEF At
  <2>3. w = "out" => OutAt(x, s, t, n)
    BY <1>4, HoldsIs DEF At, HeldAt
  <2>4. D = IF w = "out" THEN {x} ELSE {}
    BY <1>4, <2>1, <2>2, <2>3
  <2>5. Cardinality(D) = IF w = "out" THEN 1 ELSE 0
    BY <2>4, FS_EmptySet, FS_Singleton
  <2> QED
    BY <2>5 DEF TimesDone
<1> QED
  BY <1>5, <1>6, <1>7, <1>8, <1>9
-----------------------------------------------------------------------------
(* The files of the clients *)

\* The sinks that records are held for are those of the case.
LEMMA SinksUsedStays ==
  ASSUME Typed, SinksUsed, [Next]_vars
  PROVE  SinksUsed'
<1>1. case' = case
  BY Elsewhere
<1>2. ASSUME NEW w, NEW x, NEW s, Holds(w, x, s)'
      PROVE  (\E v, y : Holds(v, y, s)) \/ (\E z \in 1 .. Len(case.sinks) : case.sinks[z] = s)
  <2>1. CASE Moves
    BY <1>2, <2>1, MovedBack DEF Moves
  <2>2. ASSUME NEW a \in DOMAIN writes, Handles(a)
        PROVE  Holds(w, x, s)
    <3>1. PICK k, j : Passes(a, k, j)
      BY <2>2, EveryWriteHandles DEF Handles, WriteHandles
    <3>2. WriteMessage(a) \/ WriteChange(a) \/ WriteStop(a) \/ WriteRefused(a)
      BY <2>2 DEF Handles
    <3>3. \A u, y : Holds(u, y, s)' <=> Holds(u, y, s)
      BY <1>1, <3>1, <3>2, HandleHolds
    <3> QED
      BY <1>2, <3>3
  <2>3. ASSUME NEW m \in Muxer, Collect(m)
        PROVE  Holds(w, x, s) \/ (\E z \in 1 .. Len(case.sinks) : case.sinks[z] = s)
    <3>1. PICK b, n : Cuts(m, b, n)
      BY <2>3, CollectCuts
    <3>2. \A u, y : Holds(u, y, s)' => Holds(u, y, s) \/ (u = "mux" /\ y = m /\ Takes(b, s))
      BY <1>1, <2>3, <3>1, CollectHolds
    <3> QED
      BY <1>2, <3>2 DEF Takes
  <2> QED
    BY <2>1, <2>2, <2>3, ThreeKinds
<1>3. ASSUME NEW w, NEW x, NEW s, Holds(w, x, s)'
      PROVE  \E z \in 1 .. Len(case.sinks) : case.sinks[z] = s
  BY <1>2, <1>3 DEF SinksUsed
<1> QED
  BY <1>1, <1>3 DEF SinksUsed

LEMMA FileKeptStays ==
  ASSUME Typed, FileKept, [Next]_vars
  PROVE  FileKept'
<1>1. CASE UNCHANGED <<out, file>>
  BY <1>1 DEF FileKept, Named
<1>2. ASSUME NEW a \in DOMAIN writes, Handles(a)
      PROVE  FileKept'
  <2>1. PICK h, j, f : Shows(a, h, f) /\ Obeys(a, h, j, f)
    BY <1>2, EveryWriteHandles DEF Handles, WriteHandles
  <2>2. SUFFICES ASSUME NEW s \in Sink \ Consoles, Channel[s] > Internal, NEW p \in DOMAIN out'[s],
                        out'[s][p].rec.cmd = "change",
                        \A l \in p + 1 .. Len(out'[s]) : out'[s][l].rec.cmd = "message"
                 PROVE  file'[s] = out'[s][p].rec.name
    BY DEF FileKept, Named
  <2>3. CASE s # writes[a].sink
    <3>1. out'[s] = out[s] /\ file'[s] = file[s]
      BY <2>1, <2>3 DEF Shows, Obeys
    <3> QED
      BY <2>2, <3>1 DEF FileKept, Named
  <2>4. CASE s = writes[a].sink
    <3>1. PICK r : r = writes[a].batch[h]
      OBVIOUS
    <3>2. /\ DOMAIN out[s] = 1 .. Len(out[s]) /\ Len(out[s]) \in Nat
          /\ DOMAIN out'[s] = 1 .. Len(out[s]) + 1 /\ Len(out'[s]) = Len(out[s]) + 1
          /\ \A l \in DOMAIN out[s] : out'[s][l] = out[s][l]
      <4>1. s \in Sink /\ Shows(a, h, f)
        BY <2>1
      <4>2. /\ Len(out'[s]) = Len(out[s]) + 1
            /\ DOMAIN out'[s] = 1 .. Len(out[s]) + 1
            /\ \A l \in 1 .. Len(out[s]) : out'[s][l] = out[s][l]
        BY <2>4, <4>1 DEF Shows
      <4>3. DOMAIN out[s] = 1 .. Len(out[s]) /\ Len(out[s]) \in Nat
        BY <4>1 DEF Typed, OutOK
      <4> QED
        BY <4>2, <4>3
    <3>3. out'[s][Len(out[s]) + 1] = [rec |-> r, file |-> f]
      BY <2>1, <2>4, <3>1 DEF Shows
    <3>4. out'[s][Len(out[s]) + 1].rec = r
      BY <3>3
    <3>5. /\ r.cmd = "message" => file'[s] = file[s]
          /\ r.cmd = "change" => file'[s] = r.name
      BY <2>1, <2>2, <2>4, <3>1 DEF Obeys
    <3>6. CASE p = Len(out[s]) + 1
      BY <2>2, <3>4, <3>5, <3>6
    <3>7. CASE p # Len(out[s]) + 1
      <4>1. p \in DOMAIN out[s] /\ Len(out[s]) + 1 \in p + 1 .. Len(out'[s])
        BY <2>2, <3>2, <3>7
      <4>2. file'[s] = file[s]
        BY <2>2, <3>4, <3>5, <4>1
      <4>3. \A l \in p + 1 .. Len(out[s]) : l \in DOMAIN out[s] /\ l \in p + 1 .. Len(out'[s])
        BY <3>2, <4>1
      <4>4. Named(s, p, Len(out[s]))
        BY <2>2, <3>2, <4>1, <4>3 DEF Named
      <4> QED
        BY <2>2, <3>2, <4>1, <4>2, <4>4 DEF FileKept
    <3> QED
      BY <3>6, <3>7
  <2> QED
    BY <2>3, <2>4
<1>3. UNCHANGED <<out, file>> \/ \E a \in DOMAIN writes : Handles(a)
  BY Elsewhere DEF Handles
<1> QED
  BY <1>1, <1>2, <1>3

\* Between the two records that InFile names the client logs messages, for the same sink.
LEMMA InFileIs ==
  ASSUME Typed, NEW s, NEW t \in Thread, NEW i \in DOMAIN case.script[t], NEW j \in DOMAIN case.script[t],
         InFile(s, t, i, j)
  PROVE  /\ i \in Nat \ {0} /\ j \in Nat \ {0} /\ i < j /\ Channel[s] > Internal
         /\ case.script[t][i].cmd = "change" /\ case.script[t][j].cmd = "message"
         /\ case.script[t][i].chan = Channel[s] /\ case.script[t][j].chan = Channel[s]
<1>1. case.script[t] \in Seq(Entry)
  BY CaseParts DEF Typed
<1>2. i \in Nat \ {0} /\ j \in Nat \ {0}
  BY <1>1
<1> QED
  BY <1>2 DEF InFile

LEMMA BetweenInFile ==
  ASSUME Typed, NEW s, NEW t \in Thread, NEW i \in DOMAIN case.script[t], NEW j \in DOMAIN case.script[t],
         InFile(s, t, i, j), NEW n, i <= n, n <= j, n \in Nat
  PROVE  case.script[t][n].cmd = IF n = i THEN "change" ELSE "message"
<1>1. i \in Nat \ {0} /\ j \in Nat \ {0} /\ case.script[t][i].cmd = "change"
  BY InFileIs
<1>2. n # i => n \in i + 1 .. j
  BY <1>1
<1> QED
  BY <1>1, <1>2 DEF InFile

LEMMA DroppedByStopStays ==
  ASSUME Typed, TakenGood, HeldInLine, DroppedByStop, [Next]_vars
  PROVE  DroppedByStop'
<1>1. case' = case
  BY Elsewhere
<1>2. SUFFICES ASSUME NEW s \in Sink \ Consoles, NEW t \in Thread,
                      NEW i \in DOMAIN case.script[t], NEW j \in DOMAIN case.script[t], InFile(s, t, i, j),
                      NEW r \in skipped'[s], Is(r, t, i) \/ Is(r, t, j)
               PROVE  \E k \in DOMAIN out'[s] :
                        /\ out'[s][k].rec.cmd # "message" /\ (out'[s][k].rec.src # t \/ out'[s][k].rec.n < i)
                        /\ out'[s][k].rec.cmd = "stop"
  BY <1>1 DEF DroppedByStop, Skipped, InFile, ByAnother, Is
<1>3. CASE r \in skipped[s]
  <2>1. PICK k \in DOMAIN out[s] : ByAnother(s, t, i, k) /\ out[s][k].rec.cmd = "stop"
    BY <1>2, <1>3 DEF DroppedByStop, Skipped, Is
  <2>2. k \in DOMAIN out'[s] /\ out'[s][k] = out[s][k]
    <3>1. CASE out' = out
      BY <3>1
    <3>2. ASSUME NEW a \in DOMAIN writes, Handles(a)
          PROVE  k \in DOMAIN out'[s] /\ out'[s][k] = out[s][k]
      <4>1. PICK h, f : Shows(a, h, f)
        BY <3>2, EveryWriteHandles DEF Handles, WriteHandles
      <4> QED
        BY <4>1, ShownBack
    <3> QED
      BY <3>1, <3>2, Elsewhere DEF Handles
  <2> QED
    BY <2>1, <2>2 DEF ByAnother
<1>4. CASE r \notin skipped[s]
  <2>1. PICK a \in DOMAIN writes : Handles(a)
    <3>1. skipped' = skipped \/ \E a \in DOMAIN writes : Handles(a)
      BY Elsewhere DEF Handles
    <3> QED
      BY <1>2, <1>4, <3>1
  <2>2. PICK h, q, f : Passes(a, h, q) /\ Shows(a, h, f) /\ Drops(a, h, q) /\ Obeys(a, h, q, f)
    BY <2>1, EveryWriteHandles DEF Handles, WriteHandles
  <2>3. PICK c \in Seq(Record) : c = writes[a].batch
    BY WriteParts DEF Typed
  <2>4. s = writes[a].sink /\ \E l \in h + 1 .. q : r = c[l]
    BY <1>2, <1>4, <2>2, <2>3 DEF Drops
  <2>5. PICK l \in h + 1 .. q : r = c[l]
    BY <2>4
  <2>6. writes[a].i \in Nat \ {0} /\ h \in writes[a].i .. Len(c) /\ q \in h .. Len(c)
    BY <2>2, <2>3, WriteParts DEF Passes, Typed
  <2>7. h \in DOMAIN c /\ l \in DOMAIN c /\ h < l /\ q # h
    BY <2>6
  <2>8. c[h].cmd = "stop"
    BY <2>2, <2>3, <2>7 DEF Obeys
  <2>9. Holds("write", a, s) /\ Held("write", a) = c /\ From("write", a) = writes[a].i
    BY <2>3, <2>4 DEF Holds, Held, From
  <2>10. Good(c[h])
    <3>1. h \in From("write", a) .. Len(Held("write", a))
      BY <2>6, <2>9
    <3> QED
      BY <2>9, <3>1, HeldGood
  <2>11. Precedes(c[h], c[l])
    BY <2>7, <2>9 DEF HeldInLine, InLine
  <2>12. c[h].src # t \/ c[h].n < i
    <3>1. SUFFICES ASSUME c[h].src = t
                   PROVE  c[h].n < i
      OBVIOUS
    <3>2. c[h].n < r.n /\ c[h].n \in 1 .. logged[t] /\ case.script[t][c[h].n].cmd = "stop" /\ r.src = t
      BY <1>2, <2>5, <2>8, <2>10, <2>11, <3>1 DEF Precedes, Numbered, Good, Is
    <3>3. logged[t] \in Nat
      BY DEF Typed, LoggedOK
    <3>4. PICK n \in Nat : n = c[h].n
      BY <3>2, <3>3
    <3>5. r.n = i \/ r.n = j
      BY <1>2 DEF Is
    <3>6. i \in Nat \ {0} /\ j \in Nat \ {0} /\ i < j
      BY <1>2, InFileIs
    <3>7. ~(i <= n /\ n <= j)
      BY <1>2, <3>2, <3>4, BetweenInFile
    <3> QED
      BY <3>2, <3>4, <3>5, <3>6, <3>7
  <2>13. /\ Len(out[s]) + 1 \in DOMAIN out'[s]
         /\ out'[s][Len(out[s]) + 1] = [rec |-> c[h], file |-> f]
    <3>1. DOMAIN out'[s] = 1 .. Len(out[s]) + 1 /\ Len(out[s]) \in Nat
      BY <2>2, <2>4, ShownBack
    <3> QED
      BY <2>2, <2>3, <2>4, <3>1 DEF Shows
  <2>14. out'[s][Len(out[s]) + 1].rec = c[h]
    BY <2>13
  <2> QED
    BY <2>8, <2>12, <2>13, <2>14
<1> QED
  BY <1>3, <1>4

\* The record j of a client is handled: its record i has been, or it was dropped.
LEMMA NamedBefore ==
  ASSUME Typed, TakenGood, HeldInLine, SinksUsed, OneHolder, Placed, ~overlap,
         NEW a \in DOMAIN writes, NEW s, s = writes[a].sink, NEW t \in Thread,
         NEW i \in DOMAIN case.script[t], NEW j \in DOMAIN case.script[t], InFile(s, t, i, j),
         NEW h \in writes[a].i .. Len(writes[a].batch), Is(writes[a].batch[h], t, j),
         \A l \in writes[a].i .. h - 1 : writes[a].batch[l].chan # Channel[s]
  PROVE  /\ OnePlace(s, t, i)
         /\ \A w, x, y : At(w, x, y, s, t, i) => w \in {"out", "skip"}
<1>1. /\ i \in Nat \ {0} /\ j \in Nat \ {0} /\ i < j
      /\ case.script[t][i].chan = Channel[s] /\ case.script[t][j].chan = Channel[s]
  <2>1. i \in Nat \ {0} /\ j \in Nat \ {0} /\ i < j
    BY ONLY Typed, InFile(s, t, i, j), t \in Thread, i \in DOMAIN case.script[t], j \in DOMAIN case.script[t], InFileIs
  <2>2. case.script[t][i].chan = Channel[s] /\ case.script[t][j].chan = Channel[s]
    BY InFileIs
  <2> QED
    BY <2>1, <2>2
<1>2. Holds("write", a, s) /\ Held("write", a) = writes[a].batch /\ From("write", a) = writes[a].i
  BY DEF Holds, Held, From
<1>3. PICK c \in Seq(Record) : c = writes[a].batch
  BY WriteParts DEF Typed
<1>4. PICK e \in Nat \ {0} : e = writes[a].i
  BY WriteParts DEF Typed
<1>5. h \in e .. Len(c) /\ Is(c[h], t, j) /\ \A l \in e .. h - 1 : c[l].chan # Channel[s]
  BY <1>3, <1>4
<1>6. Good(c[h]) /\ h \in DOMAIN c
  BY <1>2, <1>3, <1>4, <1>5, HeldGood
<1>7. j \in 1 .. logged[t] /\ logged[t] \in Nat
  BY <1>5, <1>6 DEF Good, Is, Typed, LoggedOK
<1>8. i \in 1 .. logged[t]
  BY <1>1, <1>7
<1>9. PICK z \in 1 .. Len(case.sinks) : case.sinks[z] = s
  BY <1>2 DEF SinksUsed
<1>10. s \in Concerned(t, i)
  <2>1. s \in Range(case.sinks)
    BY <1>9, CaseParts DEF Range, Typed
  <2> QED
    BY <1>1, <2>1 DEF Concerned
<1>11. OnePlace(s, t, i)
  BY <1>8, <1>10 DEF Placed
<1>12. Taken(c[h])
  BY <1>2, <1>3, <1>6 DEF Taken
<1>13. ASSUME NEW x, QueueAt(x, t, i)
       PROVE  FALSE
  <2>1. x \in DOMAIN queue /\ queue[x].src = t /\ queue[x].n = i
    BY <1>13 DEF QueueAt, Is
  <2>2. Numbered(c[h], queue[x])
    BY <1>12, <2>1 DEF TakenGood, Follows
  <2>3. c[h].n < queue[x].n
    BY <1>5, <2>1, <2>2 DEF Numbered, Is
  <2> QED
    BY <1>1, <1>5, <2>1, <2>3 DEF Is
<1>14. ASSUME NEW w, NEW x, NEW y, HeldAt(w, x, y, s, t, i)
       PROVE  FALSE
  <2>1. Holds(w, x, s) /\ y \in From(w, x) .. Len(Held(w, x)) /\ Is(Held(w, x)[y], t, i)
    BY <1>14 DEF HeldAt
  <2>2. w = "write" /\ x = a
    BY <1>2, <2>1 DEF OneHolder
  <2>3. y \in e .. Len(c) /\ Is(c[y], t, i)
    BY <1>2, <1>3, <1>4, <2>1, <2>2
  <2>4. Good(c[y]) /\ y \in DOMAIN c
    BY <1>2, <1>3, <1>4, <2>3, HeldGood
  <2>5. c[y].chan = Channel[s]
    BY <1>10, <2>3, <2>4, GoodConcerns
  <2>6. y \notin e .. h - 1
    BY <1>5, <2>5
  <2>7. y # h
    BY <1>1, <1>5, <2>3 DEF Is
  <2>8. h < y
    BY <1>5, <2>3, <2>6, <2>7
  <2>9. Precedes(c[h], c[y])
    BY <1>2, <1>3, <1>6, <2>4, <2>8 DEF HeldInLine, InLine
  <2>10. c[h].n < c[y].n
    BY <1>5, <2>3, <2>9 DEF Precedes, Numbered, Is
  <2> QED
    BY <1>1, <1>5, <2>3, <2>10 DEF Is
<1>15. \A w, x, y : At(w, x, y, s, t, i) => w \in {"out", "skip"}
  BY <1>13, <1>14 DEF At
<1> QED
  BY <1>11, <1>15

\* The message j goes to another file than the client named: another one is behind it.
LEMMA OtherFile ==
  ASSUME Typed, TakenGood, HeldInLine, SinksUsed, OneHolder, OutThenHeld, OutInLine, Placed, FileKept,
         DroppedByStop, ~overlap,
         NEW a \in DOMAIN writes, NEW s \in Sink \ Consoles, s = writes[a].sink, NEW t \in Thread,
         NEW i \in DOMAIN case.script[t], NEW j \in DOMAIN case.script[t], InFile(s, t, i, j),
         NEW h \in writes[a].i .. Len(writes[a].batch), Is(writes[a].batch[h], t, j),
         \A l \in writes[a].i .. h - 1 : writes[a].batch[l].chan # Channel[s],
         file[s] # case.script[t][i].name
  PROVE  \E k \in DOMAIN out[s] : /\ ByAnother(s, t, i, k)
                                  /\ \A l \in DOMAIN out[s] : k <= l => ~Is(out[s][l].rec, t, i)
<1>1. /\ i \in Nat \ {0} /\ j \in Nat \ {0} /\ i < j /\ Channel[s] > Internal
      /\ case.script[t][i].cmd = "change" /\ case.script[t][j].cmd = "message"
  <2>1. i \in Nat \ {0} /\ j \in Nat \ {0} /\ i < j
    BY ONLY Typed, InFile(s, t, i, j), t \in Thread, i \in DOMAIN case.script[t], j \in DOMAIN case.script[t], InFileIs
  <2>2. case.script[t][i].cmd = "change" /\ case.script[t][j].cmd = "message"
    BY InFileIs
  <2>3. Channel[s] > Internal
    BY ONLY Typed, InFile(s, t, i, j), t \in Thread, i \in DOMAIN case.script[t], j \in DOMAIN case.script[t], InFileIs
  <2> QED
    BY <2>1, <2>2, <2>3
<1>2. OnePlace(s, t, i) /\ \A w, x, y : At(w, x, y, s, t, i) => w \in {"out", "skip"}
  BY NamedBefore
<1>3. PICK w, x, y : At(w, x, y, s, t, i) /\ \A v, z, u : At(v, z, u, s, t, i) => v = w /\ z = x /\ u = y
  BY <1>2 DEF OnePlace
<1>4. DOMAIN out[s] = 1 .. Len(out[s]) /\ Len(out[s]) \in Nat
  BY DEF Typed, OutOK
<1>5. CASE w = "skip"
  <2>1. Skipped(s, t, i)
    BY <1>3, <1>5, HoldsIs DEF At, HeldAt
  <2>2. PICK k \in DOMAIN out[s] : ByAnother(s, t, i, k)
    BY <2>1 DEF DroppedByStop
  <2>3. ASSUME NEW l \in DOMAIN out[s]
        PROVE  ~Is(out[s][l].rec, t, i)
    <3>1. Is(out[s][l].rec, t, i) => At("out", l, 0, s, t, i)
      BY DEF At, OutAt
    <3> QED
      BY <1>3, <1>5, <3>1
  <2> QED
    BY <2>2, <2>3
<1>6. CASE w = "out"
  <2>1. x \in DOMAIN out[s] /\ Is(out[s][x].rec, t, i)
    BY <1>3, <1>6, HoldsIs DEF At, HeldAt, OutAt
  <2>2. \A l \in DOMAIN out[s] : Good(out[s][l].rec)
    BY DEF Taken, TakenGood
  <2>3. out[s][x].rec.cmd = "change" /\ out[s][x].rec.name = case.script[t][i].name
    <3>1. Good(out[s][x].rec)
      BY <2>1, <2>2
    <3> QED
      BY ONLY <1>1, <2>1, <3>1, t \in Thread DEF Good, Is
  <2>4. ~Named(s, x, Len(out[s]))
    BY <1>1, <2>1, <2>3 DEF FileKept
  <2>5. PICK k \in x + 1 .. Len(out[s]) : out[s][k].rec.cmd # "message"
    BY <2>3, <2>4 DEF Named
  <2>6. k \in DOMAIN out[s] /\ x < k
    BY <1>4, <2>1
  <2>7. out[s][k].rec.src # t \/ out[s][k].rec.n < i
    <3>1. SUFFICES ASSUME out[s][k].rec.src = t
                   PROVE  out[s][k].rec.n < i
      OBVIOUS
    <3>2. Follows(out[s][k].rec, out[s][x].rec)
      BY <2>1, <2>6 DEF OutInLine
    <3>3. i < out[s][k].rec.n
      BY <2>1, <3>1, <3>2 DEF Follows, Numbered, Is
    <3>4. Holds("write", a, s) /\ Held("write", a) = writes[a].batch /\ From("write", a) = writes[a].i
      BY DEF Holds, Held, From
    <3>5. Follows(writes[a].batch[h], out[s][k].rec)
      BY <2>6, <3>4 DEF OutThenHeld
    <3>6. out[s][k].rec.n < j
      BY <3>1, <3>5 DEF Follows, Numbered, Is
    <3>7. /\ out[s][k].rec.n \in 1 .. logged[t] /\ logged[t] \in Nat
          /\ case.script[t][out[s][k].rec.n].cmd = out[s][k].rec.cmd
      BY <2>2, <2>6, <3>1 DEF Good, Typed, LoggedOK
    <3>a. out[s][k].rec.n \in Nat
      BY ONLY <3>7
    <3>8. PICK n \in Nat : n = out[s][k].rec.n
      BY ONLY <3>a
    <3>9. i <= n /\ n <= j /\ n # i
      BY <1>1, <3>3, <3>6, <3>8
    <3>10. case.script[t][n].cmd = "message"
      BY <3>9, BetweenInFile
    <3> QED
      BY <2>5, <3>7, <3>8, <3>10
  <2>8. ASSUME NEW l \in DOMAIN out[s], k <= l
        PROVE  ~Is(out[s][l].rec, t, i)
    <3>1. l # x
      BY <1>4, <2>6, <2>8
    <3>2. Is(out[s][l].rec, t, i) => At("out", l, 0, s, t, i)
      BY DEF At, OutAt
    <3> QED
      BY <1>3, <3>1, <3>2
  <2>9. ByAnother(s, t, i, k)
    BY <2>5, <2>7 DEF ByAnother
  <2> QED
    BY <2>6, <2>8, <2>9
<1> QED
  BY <1>2, <1>3, <1>5, <1>6

LEMMA OwnFileStays ==
  ASSUME Typed, TakenGood, HeldInLine, SinksUsed, OneHolder, OutThenHeld, OutInLine, Placed, FileKept,
         DroppedByStop, OwnFile, [Next]_vars
  PROVE  OwnFile'
<1>1. case' = case
  BY Elsewhere
<1>2. SUFFICES ASSUME NEW s \in Sink \ Consoles, NEW t \in Thread,
                      NEW i \in DOMAIN case.script[t], NEW j \in DOMAIN case.script[t], InFile(s, t, i, j), ~overlap',
                      NEW d \in DOMAIN out'[s], Is(out'[s][d].rec, t, j), out'[s][d].file # case.script[t][i].name
               PROVE  \E k \in 1 .. d - 1 :
                        /\ out'[s][k].rec.cmd # "message" /\ (out'[s][k].rec.src # t \/ out'[s][k].rec.n < i)
                        /\ \A l \in k .. d - 1 : ~Is(out'[s][l].rec, t, i)
  BY <1>1 DEF OwnFile, InFile, ByAnother, Is
<1>3. ~overlap
  BY <1>2, OverlapGrows
<1>4. DOMAIN out[s] = 1 .. Len(out[s]) /\ Len(out[s]) \in Nat
  BY DEF Typed, OutOK
<1>5. ASSUME d \in DOMAIN out[s], \A l \in DOMAIN out[s] : out'[s][l] = out[s][l]
      PROVE  \E k \in 1 .. d - 1 :
               /\ out'[s][k].rec.cmd # "message" /\ (out'[s][k].rec.src # t \/ out'[s][k].rec.n < i)
               /\ \A l \in k .. d - 1 : ~Is(out'[s][l].rec, t, i)
  <2>1. PICK k \in 1 .. d - 1 : ByAnother(s, t, i, k) /\ \A l \in k .. d - 1 : ~Is(out[s][l].rec, t, i)
    BY <1>2, <1>3, <1>5 DEF OwnFile
  <2>2. k \in DOMAIN out[s] /\ \A l \in k .. d - 1 : l \in DOMAIN out[s]
    BY <1>4, <1>5
  <2> QED
    BY <1>5, <2>1, <2>2 DEF ByAnother
<1>6. CASE out' = out
  BY <1>2, <1>5, <1>6
<1>7. ASSUME NEW a \in DOMAIN writes, Handles(a)
      PROVE  \E k \in 1 .. d - 1 :
               /\ out'[s][k].rec.cmd # "message" /\ (out'[s][k].rec.src # t \/ out'[s][k].rec.n < i)
               /\ \A l \in k .. d - 1 : ~Is(out'[s][l].rec, t, i)
  <2>1. PICK h, q, f : Passes(a, h, q) /\ Shows(a, h, f) /\ Obeys(a, h, q, f)
    BY <1>7, EveryWriteHandles DEF Handles, WriteHandles
  <2>2. /\ \A l \in DOMAIN out[s] : out'[s][l] = out[s][l]
        /\ \A l \in DOMAIN out'[s] :
             \/ l \in DOMAIN out[s]
             \/ s = writes[a].sink /\ l = Len(out[s]) + 1 /\ out'[s][l] = [rec |-> writes[a].batch[h], file |-> f]
    BY <2>1, ShownBack
  <2>3. CASE d \in DOMAIN out[s]
    BY <1>5, <2>2, <2>3
  <2>4. CASE d \notin DOMAIN out[s]
    <3>1. s = writes[a].sink /\ d = Len(out[s]) + 1 /\ out'[s][d] = [rec |-> writes[a].batch[h], file |-> f]
      BY <1>2, <2>2, <2>4
    <3>2. Is(writes[a].batch[h], t, j) /\ f # case.script[t][i].name
      BY <1>2, <3>1
    <3>3. /\ h \in writes[a].i .. Len(writes[a].batch)
          /\ \A l \in writes[a].i .. h - 1 : writes[a].batch[l].chan # Channel[s]
      BY <2>1, <3>1 DEF Passes
    <3>4. Holds("write", a, s) /\ Held("write", a) = writes[a].batch /\ From("write", a) = writes[a].i
      BY <3>1 DEF Holds, Held, From
    <3>5. Good(writes[a].batch[h])
      BY <3>3, <3>4, HeldGood
    <3>6. Channel[s] > Internal /\ case.script[t][j].cmd = "message"
      BY <1>2, InFileIs
    <3>7. writes[a].batch[h].cmd = "message"
      BY <3>2, <3>5, <3>6 DEF Good, Is
    <3>8. f = file[s]
      BY <2>1, <3>1, <3>6, <3>7 DEF Obeys
    <3>9. PICK k \in DOMAIN out[s] : /\ ByAnother(s, t, i, k)
                                     /\ \A l \in DOMAIN out[s] : k <= l => ~Is(out[s][l].rec, t, i)
      BY <1>2, <1>3, <3>1, <3>2, <3>3, <3>8, OtherFile
    <3>10. k \in 1 .. d - 1 /\ \A l \in k .. d - 1 : l \in DOMAIN out[s] /\ k <= l
      BY <1>4, <3>1
    <3> QED
      BY <2>2, <3>9, <3>10 DEF ByAnother
  <2> QED
    BY <2>3, <2>4
<1> QED
  BY <1>6, <1>7, Elsewhere DEF Handles
-----------------------------------------------------------------------------
(* The theorems *)

IInv ==
  /\ Typed /\ CounterIsWrites
  /\ QueueInLine /\ HeldInLine /\ TakenGood /\ CutsPast /\ SinksUsed
  /\ Alone /\ OneHolder /\ OutThenHeld /\ OutInLine
  /\ Placed /\ FileKept /\ DroppedByStop /\ OwnFile

\* At the start the logger holds nothing but its first notice.
LEMMA InitIInv ==
  ASSUME Init
  PROVE  IInv
<1>1. Typed
  BY InitTyped
<1>2. /\ now = 0 /\ queue = <<Notice("logger", 0, 0)>>
      /\ logged = [t \in Thread |-> 0] /\ stamped = [t \in Thread |-> -1]
      /\ pool = <<>> /\ mux = [m \in Muxer |-> Idle] /\ writes = <<>> /\ jobs = 0
      /\ out = [s \in Sink |-> <<>>] /\ skipped = [s \in Sink |-> {}]
  BY DEF Init
<1>3. \A m \in Muxer : mux[m].pc = "idle"
  BY <1>2, IdleIs
<1>4. DOMAIN pool = {} /\ DOMAIN writes = {} /\ Len(writes) = 0
  BY <1>2
<1>5. \A w, x, s : ~Holds(w, x, s)
  BY <1>3, <1>4 DEF Holds
<1>6. \A s \in Sink : DOMAIN out[s] = {} /\ skipped[s] = {}
  BY <1>2
<1>7. \A r : ~Taken(r)
  BY <1>5, <1>6 DEF Taken
<1>8. CounterIsWrites
  <2>1. {i \in DOMAIN pool : pool[i].kind = "write"} = {}
    BY <1>4
  <2>2. Cardinality({i \in DOMAIN pool : pool[i].kind = "write"}) = 0
    BY <2>1, FS_EmptySet
  <2> QED
    BY <1>2, <1>4, <2>2 DEF CounterIsWrites
<1>9. QueueInLine
  <2>1. "logger" \in Sink \cup {"logger"} /\ 0 \in Nat
    BY BoundParts
  <2>2. PICK r : r = Notice("logger", 0, 0)
    OBVIOUS
  <2>3. r \in Record /\ r.src = "logger" /\ r.at = 0 /\ r.cmd = "message" /\ Micros(r.ts) = 0
    BY ONLY <2>1, <2>2, NoticeIs
  <2>4. "logger" \notin Thread
    BY LoggerAssumption DEF LoggerAssumption
  <2>5. Good(r)
    BY <1>2, <2>3, <2>4 DEF Good
  <2>6. DOMAIN queue = {1} /\ queue[1] = r
    BY <1>2, <2>2
  <2>7. \A j \in DOMAIN queue : queue[j] = r /\ j = 1
    BY <2>6
  <2>8. InLine(queue)
    BY <2>7 DEF InLine
  <2> QED
    BY <2>3, <2>4, <2>5, <2>7, <2>8 DEF QueueInLine
<1>10. HeldInLine /\ SinksUsed /\ OneHolder /\ OutThenHeld
  BY <1>5 DEF HeldInLine, SinksUsed, OneHolder, OutThenHeld
<1>11. TakenGood
  BY <1>7 DEF TakenGood
<1>12. CutsPast /\ Alone
  BY <1>3 DEF CutsPast, Alone, Past
<1>13. OutInLine /\ FileKept
  BY <1>6 DEF OutInLine, FileKept
<1>14. DroppedByStop /\ OwnFile
  BY <1>6 DEF DroppedByStop, OwnFile, Skipped
<1>15. Placed
  BY <1>2 DEF Placed
<1> QED
  BY <1>1, <1>8, <1>9, <1>10, <1>11, <1>12, <1>13, <1>14, <1>15 DEF IInv

LEMMA IInvStays ==
  ASSUME IInv, [Next]_vars
  PROVE  IInv'
<1>1. /\ Typed /\ CounterIsWrites
      /\ QueueInLine /\ HeldInLine /\ TakenGood /\ CutsPast /\ SinksUsed
      /\ Alone /\ OneHolder /\ OutThenHeld /\ OutInLine
      /\ Placed /\ FileKept /\ DroppedByStop /\ OwnFile
  BY DEF IInv
<1>2. Typed' /\ CounterIsWrites'
  BY <1>1, TypesStay, CounterStays
<1>3. QueueInLine' /\ HeldInLine'
  BY <1>1, QueueInLineStays, HeldInLineStays
<1>4. TakenGood' /\ CutsPast' /\ SinksUsed'
  BY <1>1, TakenGoodStays, CutsPastStays, SinksUsedStays
<1>5. Alone' /\ OneHolder'
  BY <1>1, AloneStays, OneHolderStays
<1>6. OutThenHeld' /\ OutInLine'
  BY <1>1, OutThenHeldStays, OutInLineStays
<1>7. Placed' /\ FileKept'
  BY <1>1, PlacedStays, FileKeptStays
<1>8. DroppedByStop' /\ OwnFile'
  BY <1>1, DroppedByStopStays, OwnFileStays
<1> QED
  BY <1>2, <1>3, <1>4, <1>5, <1>6, <1>7, <1>8 DEF IInv

LEMMA Invariant == Spec => []IInv
<1>1. Init => IInv
  BY InitIInv
<1>2. IInv /\ [Next]_vars => IInv'
  BY IInvStays
<1> QED
  BY <1>1, <1>2, PTL DEF Spec

LEMMA TypedIsTypeOK ==
  ASSUME Typed, CounterIsWrites
  PROVE  TypeOK
<1>1. now \in Nat /\ queue \in Seq(Record) /\ lock \in Muxer \cup {"free"}
  BY DEF Typed, ClockOK, QueueOK, LockOK
<1>2. \A t \in Thread : logged[t] \in 0 .. Len(case.script[t]) /\ stamped[t] \in -1 .. MaxTime
  <2>1. ASSUME NEW t \in Thread
        PROVE  logged[t] \in Nat /\ logged[t] <= Len(case.script[t]) /\ Len(case.script[t]) \in Nat
    BY CaseParts DEF Typed, LoggedOK
  <2> QED
    BY <2>1 DEF Typed, StampedOK
<1>3. timer \in BOOLEAN
  BY DEF Typed, TimerOK
<1>4. continue \in BOOLEAN
  BY DEF Typed, ContinueOK
<1>5. overlap \in BOOLEAN
  BY DEF Typed, OverlapOK
<1>6. life \in {"running", "stopping", "stopped", "ended"}
  BY DEF Typed, LifeOK
<1>7. \A m \in Muxer : mux[m].pc \in {"idle", "wait", "stamp", "collect", "submit"}
  BY DeskParts DEF Typed, Pcs
<1>8. \A x \in DOMAIN writes : writes[x].sink \in Sink /\ writes[x].batch \in Seq(Record)
  BY WriteParts DEF Typed
<1>9. \A s \in Sink : skipped[s] \subseteq Record
  BY DEF Typed, SkippedOK
<1>10. jobs \in Nat
  <2>1. Cardinality(Submitted) \in Nat /\ Len(writes) \in Nat
    BY SubmittedIs DEF Typed, WritesOK
  <2> QED
    BY <2>1 DEF CounterIsWrites, Submitted
<1> QED
  BY <1>1, <1>2, <1>3, <1>4, <1>5, <1>6, <1>7, <1>8, <1>9, <1>10 DEF TypeOK

\* The multiplexer, the pool and the Writes neither lose nor double a record: until a Write
\* handles it, a record that was pushed is for each sink of its channel in one place, and
\* m_jobCounter counts the Writes (CLogger::LogMultiplexer, CSink::IncrementJobCounter).
THEOREM EveryRecordAccounted == Spec => []LoggerInvariant
<1>1. ASSUME IInv
      PROVE  LoggerInvariant
  <2>1. Typed /\ CounterIsWrites /\ Placed
    BY <1>1 DEF IInv
  <2> QED
    BY <2>1, TypedIsTypeOK, PlacedAccounted DEF LoggerInvariant
<1> QED
  BY <1>1, Invariant, PTL

\* A sink handles its records in the order of their time stamps, but for one that was pushed
\* later after its stamp than the output delay; unless two multiplexers have been past
\* WaitJobFinishAllSinks at once (CLogger::LogMultiplexer, CLogger::PushLogPackage).
THEOREM SinksKeepOrder == Spec => []InOrderUnlessLate
<1>1. ASSUME IInv
      PROVE  InOrderUnlessLate
  <2>1. SUFFICES ASSUME ~overlap, NEW s \in Sink, NEW i \in DOMAIN out[s], NEW j \in DOMAIN out[s], i < j
                 PROVE  \/ ~(Micros(out[s][i].rec.ts) > Micros(out[s][j].rec.ts))
                        \/ out[s][j].rec.at - Micros(out[s][j].rec.ts) > DelayMs
    BY DEF InOrderUnlessLate
  <2>2. Typed /\ TakenGood /\ OutInLine
    BY <1>1 DEF IInv
  <2>3. Good(out[s][i].rec) /\ Good(out[s][j].rec)
    BY <2>2 DEF TakenGood, Taken
  <2>4. Micros(out[s][i].rec.ts) \in Int /\ Micros(out[s][j].rec.ts) \in Int
    BY <2>2, <2>3, MicrosOfGood
  <2>5. Follows(out[s][j].rec, out[s][i].rec)
    BY <2>1, <2>2 DEF OutInLine
  <2> QED
    BY <2>4, <2>5 DEF Follows, Late
<1> QED
  BY <1>1, Invariant, PTL

\* Two Writes are never at the same sink, whose stream and file name have no lock, unless two
\* multiplexers have been past WaitJobFinishAllSinks at once (CFileSink::Write).
THEOREM OneWriter == Spec => []OneWriterUnlessOverlap
<1>1. ASSUME IInv
      PROVE  OneWriterUnlessOverlap
  <2>1. OneHolder
    BY <1>1 DEF IInv
  <2>2. ASSUME NEW x \in DOMAIN writes, NEW y \in DOMAIN writes, x # y, writes[x].sink = writes[y].sink
        PROVE  overlap
    <3>1. Holds("write", x, writes[x].sink) /\ Holds("write", y, writes[x].sink)
      BY <2>2 DEF Holds
    <3> QED
      BY <2>1, <2>2, <3>1 DEF OneHolder
  <2> QED
    BY <2>2 DEF OneWriterUnlessOverlap
<1> QED
  BY <1>1, Invariant, PTL

\* What a client logs goes to the file it named, however late it is handled, unless another
\* client of the channel, or an earlier one of the same thread, changed or closed the file in
\* between; and only the stop of such a one drops it (CFileSink::Write).
THEOREM FilesOfClients == Spec => []OwnFileUnlessClosed
<1>1. ASSUME IInv
      PROVE  OwnFileUnlessClosed
  <2>1. OwnFile /\ DroppedByStop
    BY <1>1 DEF IInv
  <2>2. SUFFICES ASSUME NEW s \in Sink \ Consoles, NEW t \in Thread,
                        NEW i \in DOMAIN case.script[t], NEW j \in DOMAIN case.script[t],
                        InFile(s, t, i, j), ~overlap
                 PROVE  /\ \A d \in DOMAIN out[s] :
                             (Is(out[s][d].rec, t, j) /\ out[s][d].file # case.script[t][i].name) =>
                               \E k \in 1 .. d - 1 :
                                 ByAnother(s, t, i, k) /\ \A l \in k .. d - 1 : ~Is(out[s][l].rec, t, i)
                        /\ (Skipped(s, t, i) \/ Skipped(s, t, j)) =>
                             \E k \in DOMAIN out[s] : ByAnother(s, t, i, k) /\ out[s][k].rec.cmd = "stop"
    BY DEF OwnFileUnlessClosed
  <2>3. \A d \in DOMAIN out[s] :
          (Is(out[s][d].rec, t, j) /\ out[s][d].file # case.script[t][i].name) =>
            \E k \in 1 .. d - 1 :
              ByAnother(s, t, i, k) /\ \A l \in k .. d - 1 : ~Is(out[s][l].rec, t, i)
    BY <2>1, <2>2 DEF OwnFile
  <2>4. (Skipped(s, t, i) \/ Skipped(s, t, j)) =>
          \E k \in DOMAIN out[s] : ByAnother(s, t, i, k) /\ out[s][k].rec.cmd = "stop"
    BY <2>1, <2>2 DEF DroppedByStop
  <2> QED
    BY <2>3, <2>4
<1> QED
  BY <1>1, Invariant, PTL
=============================================================================
