---------------------------- MODULE StreamProofs ----------------------------
(***************************************************************************)
(* Proofs about what is read from a stream of bytes, however it is cut on  *)
(* the way.  FrameReader: the packets, or the bytes, a client passes on are *)
(* those of its peer, for any packets and buffers.  FlapCodec: what the    *)
(* builder of the log protocol accepts has sizes that fit their fields and *)
(* is read back as it was, for texts of every length.  LogAdaptor: the     *)
(* records of every channel are the lines of the stream, or the packets,   *)
(* filtered as the channel is configured, for any channels, texts and chunks. *)
(***************************************************************************)
EXTENDS FrameReader, LogAdaptor, SequenceTheorems, WellFoundedInduction, TLAPS

\* A set of naturals that is not empty has a least one.
LEMMA LeastNatural ==
  ASSUME NEW T \in SUBSET Nat, T # {}
  PROVE  \E x \in T : \A y \in T : x <= y
<1> DEFINE Less == {p \in Nat \X Nat : p[1] < p[2]}
<1>1. IsWellFoundedOn(Less, Nat)
  BY NatLessThanWellFounded DEF Less, OpToRel
<1>2. PICK x \in T : \A y \in T : ~(<<y, x>> \in Less)
  BY <1>1, WFMin
<1>3. ASSUME NEW y \in T
      PROVE  x <= y
  <2>1. <<y, x>> \notin Less
    BY <1>2
  <2>2. x \in Nat /\ y \in Nat
    OBVIOUS
  <2> QED
    BY <2>1, <2>2 DEF Less
<1> QED
  BY <1>3

\* What holds of 1, and of every number after one it holds of, holds up to n.
LEMMA UpTo ==
  ASSUME NEW n \in Nat, NEW T, n # 0 => 1 \in T, \A k \in 1 .. n - 1 : k \in T => k + 1 \in T
  PROVE  1 .. n \subseteq T
<1> DEFINE Bad == (1 .. n) \ T
<1>1. ASSUME Bad # {}
      PROVE  FALSE
  <2>1. PICK m \in Bad : \A k \in Bad : m <= k
    <3>1. Bad \in SUBSET Nat
      OBVIOUS
    <3> HIDE DEF Bad
    <3> QED
      BY <1>1, <3>1, LeastNatural
  <2>2. m \in 1 .. n /\ m \notin T /\ m # 1
    BY <2>1
  <2>3. m - 1 \in 1 .. n - 1 /\ m - 1 \in 1 .. n /\ ~(m <= m - 1) /\ (m - 1) + 1 = m
    BY <2>2
  <2>4. m - 1 \notin Bad
    BY <2>1, <2>3
  <2> QED
    BY <2>2, <2>3, <2>4
<1> QED
  BY <1>1

\* Joined: f[i] is the first i elements of s, joined to one sequence.
Joined(f, s, n) == f = [i \in 1 .. n |-> IF i = 1 THEN s[i] ELSE f[i - 1] \o s[i]]

LEMMA JoinedExists ==
  ASSUME NEW S, NEW s \in Seq(Seq(S))
  PROVE  \E f \in [1 .. Len(s) -> Seq(S)] : Joined(f, s, Len(s))
<1>0. PICK n \in Nat : n = Len(s) /\ s \in [1 .. n -> Seq(S)]
  OBVIOUS
<1> DEFINE Fits(f, k) == \A i \in 1 .. k : f[i] = IF i = 1 THEN s[i] ELSE f[i - 1] \o s[i]
           T == {k \in 1 .. n : \E f \in [1 .. k -> Seq(S)] : Fits(f, k)}
<1>1. ASSUME n # 0
      PROVE  1 \in T
  <2> DEFINE f == [i \in 1 .. 1 |-> s[1]]
  <2>1. s[1] \in Seq(S) /\ 1 \in 1 .. n
    BY <1>0, <1>1
  <2>2. f \in [1 .. 1 -> Seq(S)] /\ \A i \in 1 .. 1 : i = 1 /\ f[i] = s[1]
    BY <2>1
  <2> HIDE DEF f
  <2> QED
    BY <2>1, <2>2
<1>2. ASSUME NEW k \in 1 .. n - 1, k \in T
      PROVE  k + 1 \in T
  <2>1. PICK f \in [1 .. k -> Seq(S)] : Fits(f, k)
    BY <1>2
  <2>2. k + 1 \in 1 .. n /\ s[k + 1] \in Seq(S) /\ f[k] \in Seq(S)
    BY <1>0
  <2>3. PICK c \in Seq(S) : c = f[k] \o s[k + 1]
    BY <2>2, ConcatProperties
  <2> DEFINE g == [i \in 1 .. k + 1 |-> IF i <= k THEN f[i] ELSE c]
  <2>4. g \in [1 .. k + 1 -> Seq(S)]
    OBVIOUS
  <2>5. ASSUME NEW i \in 1 .. k + 1
        PROVE  g[i] = IF i = 1 THEN s[i] ELSE g[i - 1] \o s[i]
    <3>1. CASE i <= k
      <4>1. i \in 1 .. k /\ g[i] = f[i] /\ (i # 1 => i - 1 \in 1 .. k + 1 /\ g[i - 1] = f[i - 1])
        BY <3>1
      <4> HIDE DEF g
      <4> QED
        BY <2>1, <4>1
    <3>2. CASE i = k + 1
      <4>1. g[i - 1] = f[k] /\ i # 1 /\ g[i] = c
        BY <3>2
      <4> HIDE DEF g
      <4> QED
        BY <2>3, <3>2, <4>1
    <3> QED
      BY <3>1, <3>2
  <2> HIDE DEF g
  <2> QED
    BY <2>2, <2>4, <2>5
<1>3. 1 .. n \subseteq T
  <2> HIDE DEF T
  <2> QED
    BY <1>1, <1>2, UpTo
<1>4. CASE n = 0
  <2> DEFINE e == [i \in 1 .. 0 |-> <<>>]
  <2>1. e \in [1 .. 0 -> Seq(S)]
    OBVIOUS
  <2>2. Joined(e, s, 0)
    BY DEF Joined
  <2> HIDE DEF e
  <2> QED
    BY <1>0, <1>4, <2>1, <2>2
<1>5. CASE n # 0
  <2>1. n \in T
    <3>1. n \in 1 .. n
      BY <1>5
    <3> HIDE DEF T
    <3> QED
      BY <1>3, <3>1
  <2>2. PICK f \in [1 .. n -> Seq(S)] : Fits(f, n)
    BY <2>1
  <2>3. f = [i \in 1 .. n |-> IF i = 1 THEN s[i] ELSE f[i - 1] \o s[i]]
    BY <2>2
  <2> QED
    BY <1>0, <2>3 DEF Joined
<1> QED
  BY <1>4, <1>5

LEMMA JoinedOnce ==
  ASSUME NEW n \in Nat, NEW s, NEW f, NEW g, Joined(f, s, n), Joined(g, s, n)
  PROVE  f = g
<1> DEFINE T == {i \in 1 .. n : f[i] = g[i]}
<1>1. n # 0 => 1 \in T
  BY DEF Joined
<1>2. ASSUME NEW k \in 1 .. n - 1, k \in T
      PROVE  k + 1 \in T
  <2>1. k + 1 \in 1 .. n /\ k + 1 # 1 /\ (k + 1) - 1 = k
    OBVIOUS
  <2>2. f[k + 1] = f[k] \o s[k + 1] /\ g[k + 1] = g[k] \o s[k + 1]
    BY <2>1 DEF Joined
  <2> QED
    BY <1>2, <2>1, <2>2
<1>3. 1 .. n \subseteq T
  <2> HIDE DEF T
  <2> QED
    BY <1>1, <1>2, UpTo
<1>4. \A i \in 1 .. n : f[i] = g[i]
  BY <1>3
<1> QED
  BY <1>4 DEF Joined

LEMMA FlattenIs ==
  ASSUME NEW s, Len(s) \in Nat \ {0}, NEW f, Joined(f, s, Len(s))
  PROVE  FlattenSeq(s) = f[Len(s)]
<1> DEFINE fl == CHOOSE g : g = [i \in 1 .. Len(s) |-> IF i = 1 THEN s[i] ELSE g[i - 1] \o s[i]]
<1>1. f = [i \in 1 .. Len(s) |-> IF i = 1 THEN s[i] ELSE f[i - 1] \o s[i]]
  BY DEF Joined
<1>2. fl = [i \in 1 .. Len(s) |-> IF i = 1 THEN s[i] ELSE fl[i - 1] \o s[i]]
  BY <1>1
<1>3. FlattenSeq(s) = fl[Len(s)]
  BY DEF FlattenSeq
<1> HIDE DEF fl
<1>4. Joined(fl, s, Len(s))
  BY <1>2 DEF Joined
<1> QED
  BY <1>3, <1>4, JoinedOnce

\* What is appended to a sequence of messages is appended to their bytes.
LEMMA FlattenAppend ==
  ASSUME NEW S, NEW s \in Seq(Seq(S)), NEW c \in Seq(S)
  PROVE  FlattenSeq(s) \in Seq(S) /\ FlattenSeq(Append(s, c)) = FlattenSeq(s) \o c
<1>0. PICK n \in Nat : n = Len(s)
  OBVIOUS
<1>1. PICK t \in Seq(Seq(S)) : t = Append(s, c)
  BY AppendProperties
<1>2. Len(t) = n + 1 /\ (\A i \in 1 .. n : t[i] = s[i]) /\ t[n + 1] = c
  BY <1>0, <1>1
<1>3. PICK f \in [1 .. n -> Seq(S)] : Joined(f, s, n)
  BY <1>0, JoinedExists
<1>4. PICK g \in [1 .. n + 1 -> Seq(S)] : Joined(g, t, n + 1)
  BY <1>2, JoinedExists
<1>5. FlattenSeq(t) = g[n + 1]
  BY <1>2, <1>4, FlattenIs
<1>6. CASE n = 0
  <2>1. s = <<>> /\ FlattenSeq(s) = <<>>
    BY <1>0, <1>6, EmptySeq DEF FlattenSeq
  <2>2. g[1] = c
    BY <1>2, <1>4, <1>6 DEF Joined
  <2>3. <<>> \in Seq(S) /\ <<>> \o c = c
    OBVIOUS
  <2>4. FlattenSeq(t) = c
    BY <1>5, <1>6, <2>2
  <2>5. FlattenSeq(s) \in Seq(S) /\ FlattenSeq(s) \o c = c
    BY <2>1, <2>3
  <2> QED
    BY <1>1, <2>4, <2>5
<1>7. CASE n # 0
  <2> DEFINE T == {i \in 1 .. n : f[i] = g[i]}
  <2>1. 1 \in T
    BY <1>2, <1>3, <1>4, <1>7 DEF Joined
  <2>2. ASSUME NEW k \in 1 .. n - 1, k \in T
        PROVE  k + 1 \in T
    <3>1. k + 1 \in 1 .. n /\ k + 1 \in 1 .. n + 1 /\ k + 1 # 1 /\ (k + 1) - 1 = k
      OBVIOUS
    <3>2. f[k + 1] = f[k] \o s[k + 1] /\ g[k + 1] = g[k] \o t[k + 1]
      BY <1>3, <1>4, <3>1 DEF Joined
    <3> QED
      BY <1>2, <2>2, <3>1, <3>2
  <2>3. 1 .. n \subseteq T
    <3> HIDE DEF T
    <3> QED
      BY <2>1, <2>2, UpTo
  <2>4. f[n] = g[n]
    BY <1>7, <2>3
  <2>5. n + 1 \in 1 .. n + 1 /\ n + 1 # 1 /\ (n + 1) - 1 = n
    BY <1>7
  <2>6. g[n + 1] = g[n] \o t[n + 1]
    BY <1>4, <2>5 DEF Joined
  <2>7. FlattenSeq(s) = f[n]
    <3>1. Len(s) \in Nat \ {0} /\ Joined(f, s, Len(s))
      BY <1>0, <1>3, <1>7
    <3> QED
      BY <1>0, <3>1, FlattenIs
  <2>8. f[n] \in Seq(S)
    <3>1. n \in 1 .. n
      BY <1>7
    <3> QED
      BY <3>1
  <2> QED
    BY <1>1, <1>2, <1>5, <2>4, <2>6, <2>7, <2>8
<1> QED
  BY <1>6, <1>7
-----------------------------------------------------------------------------
(* The readers of a client's bytes *)

\* The packet that is being read, and the bytes of the stream that are in the buffer.
Current == Len(passed) + 1
Holds(n) == n <= Len(buffer) /\ \A i \in 1 .. n : buffer[i] = Starts[Current] + i

PeerOK ==
  /\ protocol \in Protocols /\ body \in [1 .. Packets -> Bodies]
  /\ marked \in [1 .. Packets -> BOOLEAN] /\ Total < SizeT
BytesOK == peerSent \in 0 .. Total /\ taken \in 0 .. peerSent /\ closed \in BOOLEAN
BufferOK == buffer \in Seq(0 .. Total) /\ passed \in Seq(Seq(0 .. Total))
SizesOK ==
  /\ headerRead \in Nat /\ (headerRead <= Header \/ headerRead <= FirstBuffer)
  /\ bodySize \in Bodies \cup {0} /\ bodyRead \in 0 .. bodySize
AskedOK ==
  asked \in [handler : {"header", "data", "gone"}, op : {"some", "all"}, at : Nat, want : 0 .. SizeT - 1]

\* A header is being read: what is missing of it, or more in the very first read.
HeaderPhase ==
  (Framed /\ asked.handler = "header" /\ ~Overread) =>
    /\ headerRead < Header /\ taken = Starts[Current] + headerRead /\ Holds(headerRead)
    /\ asked.at = headerRead /\ asked.want >= 1 /\ headerRead + asked.want <= Len(buffer)
    /\ Len(buffer) >= Header
    /\ Len(buffer) = Header \/ (protocol = "etf" /\ passed = <<>>)
    /\ \/ asked.op = "all" /\ headerRead + asked.want <= Header
       \/ asked.op = "some" /\ passed = <<>> /\ asked.want = FirstBuffer /\ headerRead = 0

\* More than a header was read: no packet is ever passed on.
OverreadPhase ==
  Overread =>
    /\ passed = <<>> /\ asked.handler # "data"
    /\ asked.handler = "header" => asked.op = "all" /\ Total - taken < asked.want

\* A header was read and its body is asked for.
BodyPhase ==
  (Framed /\ asked.handler = "data") =>
    /\ Current <= Packets /\ headerRead = Header /\ taken = Starts[Current] + Header /\ Holds(Header)
    /\ Len(buffer) = Header + bodySize /\ bodySize = body[Current] /\ bodyRead = 0
    /\ asked.op = "all" /\ asked.at = Header /\ asked.want = bodySize
    /\ \A p \in 1 .. Current : marked[p]

\* A client without frames asks for whatever comes next.
ChunkPhase ==
  (~Framed /\ asked.handler # "gone") =>
    /\ asked.op = "some" /\ asked.at = 0 /\ asked.want = FirstBuffer /\ Len(buffer) = FirstBuffer
    /\ asked.handler = "header" => passed = <<>> /\ taken = 0

GoneAsksNothing == asked.handler = "gone" => asked = NoRead

ReaderInv ==
  /\ PeerOK /\ BytesOK /\ BufferOK /\ SizesOK /\ AskedOK
  /\ HeaderPhase /\ OverreadPhase /\ BodyPhase /\ ChunkPhase /\ GoneAsksNothing
  /\ PacketsAsSent /\ ChunksAsSent

\* Sums: where packets begin whose sizes are h and those of b.
Sums(f, h, b, n) == f = [p \in 1 .. n + 1 |-> IF p = 1 THEN 0 ELSE f[p - 1] + h + b[p - 1]]

LEMMA SumsExist ==
  ASSUME NEW n \in Nat, NEW h \in Nat, NEW b \in [1 .. n -> Nat]
  PROVE  \E f \in [1 .. n + 1 -> Nat] : Sums(f, h, b, n)
<1> DEFINE Fits(f, k) == \A p \in 1 .. k : f[p] = IF p = 1 THEN 0 ELSE f[p - 1] + h + b[p - 1]
           T == {k \in 1 .. n + 1 : \E f \in [1 .. k -> Nat] : Fits(f, k)}
<1>1. 1 \in T
  <2> DEFINE f == [p \in 1 .. 1 |-> 0]
  <2>1. f \in [1 .. 1 -> Nat] /\ \A p \in 1 .. 1 : p = 1 /\ f[p] = 0
    OBVIOUS
  <2> HIDE DEF f
  <2> QED
    BY <2>1
<1>2. ASSUME NEW k \in 1 .. n, k \in T
      PROVE  k + 1 \in T
  <2>1. PICK f \in [1 .. k -> Nat] : Fits(f, k)
    BY <1>2
  <2> DEFINE g == [p \in 1 .. k + 1 |-> IF p <= k THEN f[p] ELSE f[k] + h + b[k]]
  <2>2. g \in [1 .. k + 1 -> Nat]
    OBVIOUS
  <2>3. ASSUME NEW p \in 1 .. k + 1
        PROVE  g[p] = IF p = 1 THEN 0 ELSE g[p - 1] + h + b[p - 1]
    <3>1. CASE p <= k
      <4>1. p \in 1 .. k /\ g[p] = f[p] /\ (p # 1 => p - 1 \in 1 .. k + 1 /\ g[p - 1] = f[p - 1])
        BY <3>1
      <4> QED
        BY <2>1, <4>1
    <3>2. CASE p = k + 1
      <4>1. g[p - 1] = f[k] /\ p # 1 /\ p - 1 = k /\ g[p] = f[k] + h + b[k]
        BY <3>2
      <4> QED
        BY <4>1
    <3> QED
      BY <3>1, <3>2
  <2>4. k + 1 \in 1 .. n + 1
    OBVIOUS
  <2> HIDE DEF g
  <2> QED
    BY <2>2, <2>3, <2>4
<1>3. 1 .. n + 1 \subseteq T
  <2>1. n + 1 \in Nat /\ (n + 1) - 1 = n
    OBVIOUS
  <2> HIDE DEF T
  <2>2. \A k \in 1 .. (n + 1) - 1 : k \in T => k + 1 \in T
    BY <1>2, <2>1
  <2> QED
    BY <1>1, <2>1, <2>2, UpTo
<1>4. PICK f \in [1 .. n + 1 -> Nat] : Fits(f, n + 1)
  <2>1. n + 1 \in 1 .. n + 1
    OBVIOUS
  <2>2. n + 1 \in T
    <3> HIDE DEF T
    <3> QED
      BY <1>3, <2>1
  <2> QED
    BY <2>2
<1>5. f = [p \in 1 .. n + 1 |-> IF p = 1 THEN 0 ELSE f[p - 1] + h + b[p - 1]]
  BY <1>4
<1> QED
  BY <1>5 DEF Sums

LEMMA SumsOnce ==
  ASSUME NEW n \in Nat, NEW h, NEW b, NEW f, NEW g, Sums(f, h, b, n), Sums(g, h, b, n)
  PROVE  f = g
<1> DEFINE T == {p \in 1 .. n + 1 : f[p] = g[p]}
<1>1. 1 \in T
  BY DEF Sums
<1>2. ASSUME NEW k \in 1 .. n, k \in T
      PROVE  k + 1 \in T
  <2>1. k + 1 \in 1 .. n + 1 /\ k + 1 # 1 /\ (k + 1) - 1 = k
    OBVIOUS
  <2>2. f[k + 1] = f[k] + h + b[k] /\ g[k + 1] = g[k] + h + b[k]
    BY <2>1 DEF Sums
  <2> QED
    BY <1>2, <2>1, <2>2
<1>3. 1 .. n + 1 \subseteq T
  <2>1. n + 1 \in Nat /\ (n + 1) - 1 = n
    OBVIOUS
  <2> HIDE DEF T
  <2>2. \A k \in 1 .. (n + 1) - 1 : k \in T => k + 1 \in T
    BY <1>2, <2>1
  <2> QED
    BY <1>1, <2>1, <2>2, UpTo
<1>4. \A p \in 1 .. n + 1 : f[p] = g[p]
  BY <1>3
<1> QED
  BY <1>4 DEF Sums

LEMMA HeaderSizes ==
  ASSUME PeerOK
  PROVE  /\ Header \in Nat /\ (Framed => Header >= 6) /\ FirstBuffer \in Nat \ {0} /\ Packets \in Nat \ {0}
         /\ body \in [1 .. Packets -> Nat] /\ SizeT \in Nat
         /\ protocol = "oscar" => Header = 6 /\ FirstBuffer = 6
         /\ protocol = "etf" => Header = 12 /\ FirstBuffer >= 12
         /\ ~Framed => Header = 0 /\ FirstBuffer < SizeT
         /\ Framed <=> protocol \in {"oscar", "etf"}
<1>1. protocol \in {"oscar", "etf", "stream", "telnet"} /\ InBuffer[protocol] \in 1 .. SizeT - 1
  BY FrameReaderAssumption DEF PeerOK
<1>2. body \in [1 .. Packets -> Nat] /\ SizeT \in Nat /\ Packets \in Nat \ {0}
  BY FrameReaderAssumption DEF PeerOK
<1>3. protocol = "etf" => InBuffer[protocol] >= 12
  BY FrameReaderAssumption DEF PeerOK
<1> QED
  BY <1>1, <1>2, <1>3 DEF Header, OscarHeader, FirstBuffer, Framed

\* Packets begin one after the other.
LEMMA StartsAre ==
  ASSUME PeerOK
  PROVE  /\ Starts \in [1 .. Packets + 1 -> Nat] /\ Starts[1] = 0
         /\ \A p \in 1 .. Packets : Starts[p + 1] = Starts[p] + Header + body[p]
<1>1. PICK n \in Nat : n = Packets
  BY HeaderSizes
<1>2. PICK h \in Nat : h = Header
  BY HeaderSizes
<1>3. PICK b \in [1 .. n -> Nat] : b = body
  BY <1>1, HeaderSizes
<1>4. PICK f \in [1 .. n + 1 -> Nat] : Sums(f, h, b, n)
  BY SumsExist
<1>5. Starts = CHOOSE g : g = [p \in 1 .. Packets + 1 |-> IF p = 1 THEN 0 ELSE g[p - 1] + Header + body[p - 1]]
  BY DEF Starts
<1>6. f = [p \in 1 .. Packets + 1 |-> IF p = 1 THEN 0 ELSE f[p - 1] + Header + body[p - 1]]
  BY <1>1, <1>2, <1>3, <1>4 DEF Sums
<1>7. Starts = [p \in 1 .. Packets + 1 |-> IF p = 1 THEN 0 ELSE Starts[p - 1] + Header + body[p - 1]]
  BY <1>5, <1>6
<1>8. Sums(Starts, h, b, n)
  BY <1>1, <1>2, <1>3, <1>7 DEF Sums
<1>9. Starts = f
  BY <1>4, <1>8, SumsOnce
<1>10. ASSUME NEW p \in 1 .. n
       PROVE  f[p + 1] = f[p] + h + b[p]
  <2>1. p + 1 \in 1 .. n + 1 /\ p + 1 # 1 /\ (p + 1) - 1 = p
    OBVIOUS
  <2> QED
    BY <1>4, <2>1 DEF Sums
<1>11. f[1] = 0
  BY <1>4 DEF Sums
<1> QED
  BY <1>1, <1>2, <1>3, <1>9, <1>10, <1>11

\* A packet ends before every later one begins.
LEMMA StartsOrdered ==
  ASSUME PeerOK, NEW p \in 1 .. Packets, NEW q \in 1 .. Packets + 1, p < q
  PROVE  Starts[p] + Header + body[p] <= Starts[q]
<1> DEFINE T == {k \in 1 .. Packets + 1 : p < k => Starts[p] + Header + body[p] <= Starts[k]}
<1>0. /\ Header \in Nat /\ body \in [1 .. Packets -> Nat] /\ Packets \in Nat
      /\ Starts \in [1 .. Packets + 1 -> Nat]
      /\ \A k \in 1 .. Packets : Starts[k + 1] = Starts[k] + Header + body[k]
  BY HeaderSizes, StartsAre
<1>1. 1 \in T
  BY <1>0
<1>2. ASSUME NEW k \in 1 .. Packets, k \in T
      PROVE  k + 1 \in T
  <2>1. k + 1 \in 1 .. Packets + 1 /\ k \in 1 .. Packets + 1 /\ body[k] \in Nat /\ Starts[k] \in Nat
    BY <1>0
  <2>2. Starts[k + 1] = Starts[k] + Header + body[k]
    BY <1>0
  <2>3. CASE p < k
    <3>1. Starts[p] + Header + body[p] <= Starts[k] /\ Starts[p] \in Nat /\ body[p] \in Nat
      BY <1>0, <1>2, <2>3
    <3>2. Header \in Nat /\ Starts[k] \in Nat /\ body[k] \in Nat
      BY <1>0, <2>1
    <3>3. Starts[p] + Header + body[p] <= Starts[k] + Header + body[k]
      BY ONLY <3>1, <3>2
    <3> QED
      BY <2>1, <2>2, <3>3
  <2>4. CASE p = k
    BY <1>0, <2>1, <2>2, <2>4
  <2>5. CASE ~(p < k) /\ p # k
    <3>1. p \in Int /\ ~(p < k + 1)
      BY <1>0, <2>5
    <3> QED
      BY <2>1, <3>1
  <2> QED
    BY <2>3, <2>4, <2>5
<1>3. 1 .. Packets + 1 \subseteq T
  <2>1. Packets + 1 \in Nat /\ (Packets + 1) - 1 = Packets
    BY <1>0
  <2> HIDE DEF T
  <2>2. \A k \in 1 .. (Packets + 1) - 1 : k \in T => k + 1 \in T
    BY <1>2, <2>1
  <2> QED
    BY <1>1, <2>1, <2>2, UpTo
<1> QED
  BY <1>3

\* The peer's packets do not change under way.
LEMMA PeerStays ==
  ASSUME PeerOK, UNCHANGED peer
  PROVE  /\ PeerOK' /\ Header' = Header /\ FirstBuffer' = FirstBuffer /\ Framed' = Framed
         /\ Starts' = Starts /\ Total' = Total
<1>1. protocol' = protocol /\ body' = body /\ marked' = marked
  BY DEF peer
<1>2. Header' = Header /\ FirstBuffer' = FirstBuffer /\ Framed' = Framed
  BY <1>1 DEF Header, FirstBuffer, Framed
<1>3. Starts' = Starts
  <2>1. Starts = CHOOSE g : g = [p \in 1 .. Packets + 1 |-> IF p = 1 THEN 0 ELSE g[p - 1] + Header + body[p - 1]]
    BY DEF Starts
  <2>2. Starts' = CHOOSE g : g = [p \in 1 .. Packets + 1 |-> IF p = 1 THEN 0 ELSE g[p - 1] + Header' + body'[p - 1]]
    BY DEF Starts
  <2> QED
    BY <1>1, <1>2, <2>1, <2>2
<1>4. Total' = Total
  BY <1>3 DEF Total
<1> QED
  BY <1>1, <1>2, <1>3, <1>4 DEF PeerOK

\* The stream ends where the last packet does.
LEMMA PacketsInTotal ==
  ASSUME PeerOK
  PROVE  /\ Total \in Nat /\ SizeT \in Nat /\ Total < SizeT
         /\ \A p \in 1 .. Packets : Starts[p] \in Nat /\ body[p] \in Nat /\ Starts[p] + Header + body[p] <= Total
<1>0. /\ Header \in Nat /\ body \in [1 .. Packets -> Nat] /\ Packets \in Nat /\ SizeT \in Nat
      /\ Starts \in [1 .. Packets + 1 -> Nat] /\ Packets + 1 \in 1 .. Packets + 1
  BY HeaderSizes, StartsAre
<1>1. Total \in Nat /\ Total = Starts[Packets + 1]
  BY <1>0 DEF Total
<1>2. ASSUME NEW p \in 1 .. Packets
      PROVE  Starts[p] \in Nat /\ body[p] \in Nat /\ Starts[p] + Header + body[p] <= Total
  <2>1. p < Packets + 1 /\ p \in 1 .. Packets + 1
    BY <1>0
  <2>2. Starts[p] + Header + body[p] <= Starts[Packets + 1]
    BY <1>0, <2>1, StartsOrdered
  <2> QED
    BY <1>0, <1>1, <2>1, <2>2
<1> QED
  BY <1>0, <1>1, <1>2 DEF PeerOK

\* Packets with a header begin at different places.
LEMMA StartsDiffer ==
  ASSUME PeerOK, Framed, NEW p \in 1 .. Packets, NEW q \in 1 .. Packets, Starts[p] = Starts[q]
  PROVE  p = q
<1>0. Packets \in Nat /\ Header \in Nat /\ Header >= 6
  BY HeaderSizes
<1>1. \A r \in 1 .. Packets : Starts[r] \in Nat /\ body[r] \in Nat /\ r \in 1 .. Packets + 1
  BY <1>0, PacketsInTotal
<1>2. ASSUME NEW r \in 1 .. Packets, NEW s \in 1 .. Packets, r < s
      PROVE  Starts[r] # Starts[s]
  <2>1. Starts[r] + Header + body[r] <= Starts[s]
    BY <1>1, <1>2, StartsOrdered
  <2>2. Starts[r] \in Nat /\ body[r] \in Nat /\ Starts[s] \in Nat
    BY <1>1
  <2> QED
    BY ONLY <1>0, <2>1, <2>2
<1>3. p < q \/ q < p \/ p = q
  BY <1>0
<1> QED
  BY <1>2, <1>3

\* The first byte of a packet tells its mark.
LEMMA MarkOf ==
  ASSUME PeerOK, Framed, NEW c \in 1 .. Packets, NEW b, b[1] = Starts[c] + 1
  PROVE  MarkSeen(b) = {marked[c]}
<1> DEFINE at == {p \in 1 .. Packets : Starts[p] + 1 = b[1]}
<1>1. ASSUME NEW p \in at
      PROVE  p = c
  <2>1. Starts[p] = Starts[c] /\ p \in 1 .. Packets
    BY PacketsInTotal
  <2> QED
    BY <2>1, StartsDiffer
<1>2. at = {c}
  BY <1>1
<1> QED
  BY <1>2 DEF MarkSeen

\* Its header tells the size of its body.
LEMMA SizeOf ==
  ASSUME PeerOK, Framed, NEW S, NEW b \in Seq(S), NEW c \in 1 .. Packets,
         Header <= Len(b), \A i \in 1 .. Header : b[i] = Starts[c] + i
  PROVE  SizesRead(b) = {body[c]}
<1>0. Header \in Nat /\ Header >= 6 /\ body \in [1 .. Packets -> Nat] /\ \A p \in 1 .. Packets : Starts[p] \in Nat
  BY HeaderSizes, PacketsInTotal
<1>1. ASSUME NEW p \in 1 .. Packets
      PROVE  SubSeq(Packet(p), 1, Header) = [i \in 1 .. Header |-> Starts[p] + i]
  <2>1. PICK n \in Nat : n = Header + body[p] /\ Header <= n
    BY <1>0
  <2>2. Packet(p) = [i \in 1 .. n |-> Starts[p] + i]
    BY <2>1 DEF Packet
  <2>3. Packet(p) \in Seq(Nat) /\ Len(Packet(p)) = n
    BY <1>0, <2>2
  <2> QED
    BY <1>0, <2>1, <2>2, <2>3
<1>2. SubSeq(b, 1, Header) = [i \in 1 .. Header |-> Starts[c] + i]
  BY <1>0
<1> DEFINE at == {p \in 1 .. Packets : SubSeq(b, 1, Header) = SubSeq(Packet(p), 1, Header)}
<1>3. ASSUME NEW p \in at
      PROVE  p = c
  <2>1. p \in 1 .. Packets /\ [i \in 1 .. Header |-> Starts[c] + i] = [i \in 1 .. Header |-> Starts[p] + i]
    BY <1>1, <1>2
  <2>2. 1 \in 1 .. Header
    BY <1>0
  <2>3. Starts[c] + 1 = Starts[p] + 1
    BY <2>1, <2>2
  <2> QED
    BY <1>0, <2>1, <2>3, StartsDiffer
<1>4. c \in at
  BY <1>1, <1>2
<1>5. at = {c}
  BY <1>3, <1>4
<1> QED
  BY <1>5 DEF SizesRead

LEMMA MinOfTwo ==
  ASSUME NEW a \in Int, NEW b \in Int
  PROVE  Min({a, b}) = IF a <= b THEN a ELSE b
BY DEF Min

\* How many bytes arrive.
LEMMA Arrived ==
  ASSUME BytesOK, AskedOK, PeerOK
  PROVE  /\ \A k \in Arriving : /\ k \in Nat /\ taken + k <= peerSent /\ k <= asked.want
                                /\ asked.op = "all" => k = asked.want
                                /\ asked.op = "some" => k >= 1
         /\ asked.op = "all" => (Arriving = {} <=> peerSent - taken < asked.want)
         /\ asked.op = "some" /\ asked.want >= 1 => (Arriving = {} <=> peerSent = taken)
<1>1. PICK there \in Nat : there = peerSent - taken
  BY PacketsInTotal DEF BytesOK
<1>2. PICK want \in Nat : want = asked.want
  BY PacketsInTotal DEF AskedOK
<1>3. asked.op \in {"some", "all"} /\ taken \in Nat /\ peerSent \in Nat
  BY PacketsInTotal DEF AskedOK, BytesOK
<1>4. asked.op = "some" => Arriving = 1 .. (IF want <= there THEN want ELSE there)
  BY <1>1, <1>2, MinOfTwo DEF Arriving
<1>5. asked.op = "all" => Arriving = IF there >= want THEN {want} ELSE {}
  BY <1>1, <1>2 DEF Arriving
<1>6. CASE asked.op = "all"
  <2>1. there >= want <=> ~(there < want)
    OBVIOUS
  <2>2. CASE there >= want
    <3>1. Arriving = {want} /\ taken + want <= peerSent
      BY <1>1, <1>3, <1>5, <1>6, <2>2
    <3> QED
      BY <1>1, <1>2, <1>6, <2>1, <2>2, <3>1
  <2>3. CASE there < want
    <3>1. Arriving = {}
      BY <1>5, <1>6, <2>1, <2>3
    <3> QED
      BY <1>1, <1>2, <1>6, <2>3, <3>1
  <2> QED
    BY <2>1, <2>2, <2>3
<1>7. CASE asked.op = "some"
  <2>1. PICK n \in Nat : n = (IF want <= there THEN want ELSE there) /\ n <= want /\ n <= there
    OBVIOUS
  <2>2. Arriving = 1 .. n
    BY <1>4, <1>7, <2>1
  <2>3. \A k \in Arriving : k \in Nat /\ taken + k <= peerSent /\ k <= want /\ k >= 1
    BY <1>1, <1>3, <2>1, <2>2
  <2>4. want >= 1 => (Arriving = {} <=> there = 0)
    BY <2>1, <2>2
  <2>5. there = 0 <=> peerSent = taken
    BY <1>1, <1>3
  <2> QED
    BY <1>2, <1>7, <2>3, <2>4, <2>5
<1> QED
  BY <1>3, <1>6, <1>7

\* Where they go.
LEMMA FilledIs ==
  ASSUME PeerOK, BytesOK, BufferOK, AskedOK, NEW k \in Nat, taken + k <= peerSent
  PROVE  /\ Filled(k) \in Seq(0 .. Total) /\ Len(Filled(k)) = Len(buffer)
         /\ \A i \in 1 .. Len(buffer) :
              /\ i <= asked.at => Filled(k)[i] = buffer[i]
              /\ i > asked.at /\ i <= asked.at + k => Filled(k)[i] = taken + i - asked.at
<1>0. taken \in Nat /\ peerSent \in Nat /\ Total \in Nat /\ peerSent <= Total /\ asked.at \in Nat
  BY PacketsInTotal DEF BytesOK, AskedOK
<1>1. PICK n \in Nat : n = Len(buffer) /\ buffer \in [1 .. n -> 0 .. Total]
  <2>1. buffer \in Seq(0 .. Total)
    BY DEF BufferOK
  <2> QED
    BY ONLY <2>1, LenProperties
<1>2. PICK at \in Nat : at = asked.at
  BY <1>0
<1> DEFINE b == [i \in 1 .. n |-> IF i \in at + 1 .. at + k THEN taken + i - at ELSE buffer[i]]
<1>3. Filled(k) = b
  BY <1>1, <1>2 DEF Filled
<1>4. b \in [1 .. n -> 0 .. Total]
  BY <1>0, <1>1
<1>5. b \in Seq(0 .. Total) /\ Len(b) = n
  BY <1>4
<1> QED
  BY <1>0, <1>1, <1>2, <1>3, <1>5

LEMMA ZerosAre ==
  ASSUME NEW n \in Nat, NEW t \in Nat
  PROVE  Zeros(n) \in Seq(0 .. t) /\ Len(Zeros(n)) = n
<1>1. Zeros(n) \in [1 .. n -> 0 .. t]
  BY DEF Zeros
<1> QED
  BY <1>1

LEMMA ResizedIs ==
  ASSUME NEW t \in Nat, NEW b \in Seq(0 .. t), NEW n \in Nat
  PROVE  /\ Resized(b, n) \in Seq(0 .. t) /\ Len(Resized(b, n)) = n
         /\ \A i \in 1 .. n : i <= Len(b) => Resized(b, n)[i] = b[i]
<1>1. Resized(b, n) \in [1 .. n -> 0 .. t]
  BY DEF Resized
<1> QED
  BY <1>1 DEF Resized

LEMMA CurrentIs ==
  ASSUME PeerOK, BufferOK, PacketsAsSent
  PROVE  Len(passed) \in Nat /\ Current \in Nat /\ Current = Len(passed) + 1 /\ (Framed => Current \in 1 .. Packets + 1)
<1>1. Len(passed) \in Nat /\ Packets \in Nat
  BY HeaderSizes DEF BufferOK
<1>2. Framed => Len(passed) <= Packets
  BY DEF PacketsAsSent
<1> QED
  BY <1>1, <1>2 DEF Current

\* What a read of a header brings is the next bytes of the packet that is read.
LEMMA HeaderBytes ==
  ASSUME ReaderInv, Framed, asked.handler = "header", NEW k \in Arriving
  PROVE  /\ ~Overread /\ k \in Nat /\ k >= 1 /\ taken + k <= peerSent /\ Current \in 1 .. Packets
         /\ Filled(k) \in Seq(0 .. Total) /\ Len(Filled(k)) = Len(buffer)
         /\ headerRead + k <= Len(buffer) /\ \A i \in 1 .. headerRead + k : Filled(k)[i] = Starts[Current] + i
         /\ MarkSeen(Filled(k)) = {marked[Current]}
         /\ headerRead + k >= Header => SizesRead(Filled(k)) = {body[Current]}
<1>1. PeerOK /\ BytesOK /\ BufferOK /\ AskedOK /\ PacketsAsSent /\ HeaderPhase /\ OverreadPhase /\ SizesOK
  BY DEF ReaderInv
<1>2. /\ k \in Nat /\ taken + k <= peerSent /\ k <= asked.want
      /\ asked.op = "all" => k = asked.want
      /\ asked.op = "some" => k >= 1
      /\ asked.op = "all" => ~(peerSent - taken < asked.want)
  BY <1>1, Arrived
<1>3. /\ Header \in Nat /\ Header >= 6 /\ Packets \in Nat /\ Total \in Nat /\ headerRead \in Nat
      /\ taken \in Nat /\ peerSent \in Nat /\ peerSent <= Total /\ asked.want \in Nat /\ asked.op \in {"some", "all"}
  BY <1>1, HeaderSizes, PacketsInTotal DEF BytesOK, AskedOK, SizesOK
<1>4. ~Overread
  <2>1. ASSUME Overread
        PROVE  FALSE
    <3>1. asked.op = "all" /\ Total - taken < asked.want
      BY <1>1, <2>1 DEF OverreadPhase
    <3> QED
      BY <1>2, <1>3, <3>1
  <2> QED
    BY <2>1
<1>5. /\ headerRead < Header /\ taken = Starts[Current] + headerRead /\ Holds(headerRead)
      /\ asked.at = headerRead /\ asked.want >= 1 /\ headerRead + asked.want <= Len(buffer)
      /\ Len(buffer) >= Header
  BY <1>1, <1>4 DEF HeaderPhase
<1>6. k >= 1
  BY <1>2, <1>3, <1>5
<1>7. Current \in 1 .. Packets
  <2>1. Current \in 1 .. Packets + 1
    BY <1>1, CurrentIs
  <2>2. CASE Current = Packets + 1
    <3>1. taken = Total + headerRead
      BY <1>5, <2>2 DEF Total
    <3> QED
      BY <1>2, <1>3, <1>6, <3>1
  <2> QED
    BY <1>3, <2>1, <2>2
<1>8. /\ Filled(k) \in Seq(0 .. Total) /\ Len(Filled(k)) = Len(buffer)
      /\ \A i \in 1 .. Len(buffer) :
           /\ i <= headerRead => Filled(k)[i] = buffer[i]
           /\ i > headerRead /\ i <= headerRead + k => Filled(k)[i] = taken + i - headerRead
  BY <1>1, <1>2, <1>5, FilledIs
<1>9. Len(buffer) \in Nat /\ Starts[Current] \in Nat /\ headerRead + k <= Len(buffer)
  <2>1. Len(buffer) \in Nat
    BY <1>1 DEF BufferOK
  <2>2. Starts[Current] \in Nat
    BY <1>1, <1>7, PacketsInTotal
  <2> QED
    BY <1>2, <1>3, <1>5, <2>1, <2>2
<1>10. ASSUME NEW i \in 1 .. headerRead + k
       PROVE  Filled(k)[i] = Starts[Current] + i
  <2>1. i \in 1 .. Len(buffer) /\ i \in Nat /\ i <= headerRead + k
    BY <1>2, <1>3, <1>9
  <2>2. CASE i <= headerRead
    <3>1. i \in 1 .. headerRead
      BY <1>3, <2>1, <2>2
    <3>2. buffer[i] = Starts[Current] + i
      BY <1>5, <3>1 DEF Holds
    <3> QED
      BY <1>8, <2>1, <2>2, <3>2
  <2>3. CASE i > headerRead
    <3>1. Filled(k)[i] = taken + i - headerRead
      BY <1>8, <2>1, <2>3
    <3> QED
      BY <1>3, <1>5, <1>9, <2>1, <3>1
  <2> QED
    BY <1>3, <2>1, <2>2, <2>3
<1>11. MarkSeen(Filled(k)) = {marked[Current]}
  <2>1. 1 \in 1 .. headerRead + k
    BY <1>2, <1>3, <1>6
  <2>2. Filled(k)[1] = Starts[Current] + 1
    BY <1>10, <2>1
  <2> QED
    BY <1>1, <1>7, <2>2, MarkOf
<1>12. ASSUME headerRead + k >= Header
       PROVE  SizesRead(Filled(k)) = {body[Current]}
  <2>1. PICK n \in Nat : n = Header
    BY <1>3
  <2>2. \A i \in 1 .. n : i \in 1 .. headerRead + k
    BY <1>2, <1>3, <1>12, <2>1
  <2>3. \A i \in 1 .. Header : Filled(k)[i] = Starts[Current] + i
    BY <1>10, <2>1, <2>2
  <2>4. Header <= Len(Filled(k))
    BY <1>5, <1>8
  <2> QED
    BY <1>1, <1>7, <1>8, <2>3, <2>4, SizeOf
<1> QED
  BY <1>2, <1>4, <1>6, <1>7, <1>8, <1>9, <1>10, <1>11, <1>12

LEMMA SmallMod ==
  ASSUME NEW m \in Nat, NEW w \in Nat, w < m
  PROVE  w % m = w
OBVIOUS

\* A difference of sizes that is negative wraps.
LEMMA WrapMod ==
  ASSUME NEW m \in Nat, NEW w \in Int, w < 0, w >= - m
  PROVE  w % m = w + m
<1>1. m > 0
  OBVIOUS
<1> QED
  BY <1>1

LEMMA GoneIs ==
  ASSUME PeerOK, ReadsNoMore, UNCHANGED peer
  PROVE  AskedOK' /\ GoneAsksNothing' /\ asked'.handler = "gone"
<1>1. SizeT \in Nat /\ 0 < SizeT
  BY PacketsInTotal
<1>2. 0 % SizeT = 0
  BY <1>1, SmallMod
<1>3. asked' = [handler |-> "gone", op |-> "all", at |-> 0, want |-> 0]
  BY <1>2 DEF ReadsNoMore, NoRead, Read
<1>4. 0 \in 0 .. SizeT - 1
  BY <1>1
<1>5. NoRead' = NoRead
  BY DEF NoRead, Read
<1> QED
  BY <1>3, <1>4, <1>5 DEF AskedOK, GoneAsksNothing, ReadsNoMore

\* A packet is passed on and the next one begins.
LEMMA Delivered ==
  ASSUME PeerOK, BufferOK, PacketsAsSent, Framed, UNCHANGED peer, NEW c \in 1 .. Packets, c = Current,
         NEW b \in Seq(0 .. Total), Deliver(b), taken' = Starts[c] + Header + body[c],
         \A p \in 1 .. c : marked[p],
         \/ b = Packet(c)
         \/ protocol = "etf" /\ c = 1 /\ body[1] = 0 /\ SubSeq(b, 1, Header) = Packet(1)
  PROVE  /\ BufferOK' /\ AskedOK' /\ HeaderPhase' /\ OverreadPhase' /\ BodyPhase' /\ ChunkPhase'
         /\ GoneAsksNothing' /\ PacketsAsSent' /\ ChunksAsSent' /\ headerRead' = 0
<1>1. /\ Header' = Header /\ FirstBuffer' = FirstBuffer /\ Framed' = Framed
      /\ Starts' = Starts /\ Total' = Total
      /\ protocol' = protocol /\ body' = body /\ marked' = marked
  BY PeerStays DEF peer
<1>2. /\ Header \in Nat /\ Header >= 6 /\ Packets \in Nat /\ Total \in Nat /\ SizeT \in Nat /\ Header < SizeT
      /\ Starts[c] \in Nat /\ body[c] \in Nat /\ Starts[c + 1] = Starts[c] + Header + body[c]
  <2>1. Starts[c] + Header + body[c] <= Total /\ Starts[c] \in Nat /\ body[c] \in Nat /\ Total < SizeT
    BY PacketsInTotal
  <2>2. Header \in Nat /\ Header >= 6 /\ Packets \in Nat /\ Total \in Nat /\ SizeT \in Nat
    BY HeaderSizes, PacketsInTotal
  <2>3. Starts[c + 1] = Starts[c] + Header + body[c]
    BY StartsAre
  <2> QED
    BY <2>1, <2>2, <2>3
<1>3. /\ passed' = Append(passed, b) /\ buffer' = Zeros(Header) /\ headerRead' = 0
      /\ asked' = [handler |-> "header", op |-> "all", at |-> 0, want |-> 6]
  <2>1. 6 % SizeT = 6
    <3>1. 6 \in Nat /\ 6 < SizeT /\ SizeT \in Nat
      BY <1>2
    <3> QED
      BY ONLY <3>1, SmallMod
  <2> QED
    BY <2>1 DEF Deliver, Read, OscarHeader
<1>4. Len(passed) \in Nat /\ c = Len(passed) + 1 /\ passed \in Seq(Seq(0 .. Total))
  BY CurrentIs DEF BufferOK
<1>5. /\ passed' \in Seq(Seq(0 .. Total)) /\ Len(passed') = c /\ passed'[c] = b
      /\ \A i \in 1 .. c : i # c => passed'[i] = passed[i]
  BY <1>3, <1>4
<1>6. buffer' \in Seq(0 .. Total) /\ Len(buffer') = Header
  BY <1>2, <1>3, ZerosAre
<1>7. BufferOK'
  BY <1>1, <1>5, <1>6 DEF BufferOK
<1>8. AskedOK' /\ GoneAsksNothing'
  <2>1. 6 \in 0 .. SizeT - 1
    BY <1>2
  <2>2. AskedOK'
    BY <1>3, <2>1 DEF AskedOK
  <2>3. asked'.handler = "header"
    BY <1>3
  <2> QED
    BY <2>2, <2>3 DEF GoneAsksNothing
<1>9. HeaderPhase'
  <2>1. Current' = c + 1
    BY <1>5 DEF Current
  <2>2. (c + 1) \in Nat /\ Starts'[Current'] = Starts[c + 1] /\ taken' = Starts[c + 1] + 0
    BY <1>1, <1>2, <2>1
  <2>3. Holds(0)'
    BY <1>2, <1>6 DEF Holds
  <2>4. asked'.at = 0 /\ asked'.want = 6 /\ asked'.op = "all" /\ 0 + 6 <= Header
    BY <1>2, <1>3
  <2> QED
    BY <1>1, <1>2, <1>3, <1>6, <2>2, <2>3, <2>4 DEF HeaderPhase
<1>10. OverreadPhase'
  <2>1. ~Overread'
    BY <1>1, <1>2, <1>3 DEF Overread
  <2> QED
    BY <2>1 DEF OverreadPhase
<1>11. BodyPhase' /\ ChunkPhase' /\ ChunksAsSent'
  <2>1. asked'.handler = "header" /\ Framed'
    BY <1>1, <1>3
  <2> QED
    BY <2>1 DEF BodyPhase, ChunkPhase, ChunksAsSent
<1>12. PacketsAsSent'
  <2>1. c \in Nat /\ c <= Packets /\ DOMAIN passed' = 1 .. c /\ DOMAIN passed = 1 .. Len(passed)
    BY <1>2, <1>4, <1>5
  <2>2. \A p : Packet(p)' = Packet(p)
    BY <1>1 DEF Packet
  <2>3. ASSUME NEW i \in 1 .. c
        PROVE  /\ \A p \in 1 .. i : marked[p]
               /\ \/ passed'[i] = Packet(i)
                  \/ protocol = "etf" /\ i = 1 /\ body[1] = 0 /\ SubSeq(passed'[1], 1, Header) = Packet(1)
    <3>1. CASE i = c
      BY <1>5, <3>1
    <3>2. CASE i # c
      <4>1. i \in 1 .. Len(passed) /\ i \in 1 .. c
        BY <1>4, <3>2
      <4>2. passed'[i] = passed[i]
        BY <1>5, <3>2, <4>1
      <4> QED
        BY <2>1, <4>1, <4>2 DEF PacketsAsSent
    <3> QED
      BY <3>1, <3>2
  <2>4. Packet(1)' = Packet(1) /\ \A i \in 1 .. c : Packet(i)' = Packet(i)
    BY <2>2
  <2> QED
    BY <1>1, <1>5, <2>1, <2>3, <2>4 DEF PacketsAsSent
<1> QED
  BY <1>3, <1>7, <1>8, <1>9, <1>10, <1>11, <1>12

\* What a read of a header leads to.
LEMMA HeaderOutcome ==
  ASSUME ReaderInv, HeaderArrives
  PROVE  \E k \in Nat, n \in Nat, t \in Nat, c \in 1 .. Packets : \E b \in Seq(0 .. t) :
           /\ Framed /\ ~Overread /\ k >= 1 /\ t = Total /\ n = Header /\ c = Current
           /\ taken' = taken + k /\ taken + k <= peerSent /\ UNCHANGED <<peer, peerSent, closed>>
           /\ k <= asked.want
           /\ Len(b) = Len(buffer) /\ headerRead + k <= Len(buffer)
           /\ \A i \in 1 .. headerRead + k : b[i] = Starts[c] + i
           /\ \/ /\ ReadsNoMore /\ buffer' = b /\ UNCHANGED <<headerRead, bodyRead, bodySize, passed>>
              \/ /\ headerRead + k # n /\ headerRead' = headerRead + k /\ buffer' = b
                 /\ asked' = Read("header", "all", headerRead + k, n - (headerRead + k))
                 /\ UNCHANGED <<bodyRead, bodySize, passed>>
              \/ /\ marked[c] /\ headerRead + k = n /\ bodyRead' = 0 /\ bodySize' = body[c]
                 /\ \/ protocol = "etf" /\ body[c] = 0 /\ Deliver(b)
                    \/ /\ headerRead' = n /\ buffer' = Resized(b, n + body[c])
                       /\ asked' = Read("data", "all", n, body[c]) /\ UNCHANGED passed
<1>1. PICK k \in Arriving :
        LET b == Filled(k) have == headerRead + k IN
        /\ taken' = taken + k
        /\ \E ok \in MarkSeen(b) :
             \/ /\ ~ok /\ ReadsNoMore
                /\ buffer' = b /\ UNCHANGED <<headerRead, bodyRead, bodySize, passed>>
             \/ /\ ok /\ have # Header
                /\ headerRead' = have /\ buffer' = b /\ asked' = HeaderRest(have)
                /\ UNCHANGED <<bodyRead, bodySize, passed>>
             \/ /\ ok /\ have = Header
                /\ bodyRead' = 0
                /\ \E size \in SizesRead(b) :
                     /\ bodySize' = size
                     /\ IF protocol = "etf" /\ size = 0 THEN Deliver(b)
                        ELSE /\ headerRead' = have
                             /\ buffer' = Resized(b, Header + size)
                             /\ asked' = BodyOf(size)
                             /\ UNCHANGED passed
  BY DEF HeaderArrives
<1>2. Framed /\ asked.handler = "header" /\ UNCHANGED <<peer, peerSent, closed>>
  BY DEF HeaderArrives
<1>3. PeerOK /\ BytesOK /\ AskedOK
  BY DEF ReaderInv
<1>4. PICK n \in Nat : n = Header
  BY <1>3, HeaderSizes
<1>5. PICK t \in Nat : t = Total
  BY <1>3, PacketsInTotal
<1>6. /\ ~Overread /\ k \in Nat /\ k >= 1 /\ taken + k <= peerSent /\ Current \in 1 .. Packets
      /\ Filled(k) \in Seq(0 .. Total) /\ Len(Filled(k)) = Len(buffer)
      /\ headerRead + k <= Len(buffer) /\ \A i \in 1 .. headerRead + k : Filled(k)[i] = Starts[Current] + i
      /\ MarkSeen(Filled(k)) = {marked[Current]}
      /\ headerRead + k >= Header => SizesRead(Filled(k)) = {body[Current]}
  BY <1>2, HeaderBytes
<1>7. k <= asked.want
  BY <1>3, Arrived
<1>8. PICK c \in 1 .. Packets : c = Current
  BY <1>6
<1>9. PICK b \in Seq(0 .. t) : b = Filled(k)
  BY <1>5, <1>6
<1>10. \/ /\ ReadsNoMore /\ buffer' = b /\ UNCHANGED <<headerRead, bodyRead, bodySize, passed>>
       \/ /\ headerRead + k # n /\ headerRead' = headerRead + k /\ buffer' = b
          /\ asked' = Read("header", "all", headerRead + k, n - (headerRead + k))
          /\ UNCHANGED <<bodyRead, bodySize, passed>>
       \/ /\ marked[c] /\ headerRead + k = n /\ bodyRead' = 0 /\ bodySize' = body[c]
          /\ \/ protocol = "etf" /\ body[c] = 0 /\ Deliver(b)
             \/ /\ headerRead' = n /\ buffer' = Resized(b, n + body[c])
                /\ asked' = Read("data", "all", n, body[c]) /\ UNCHANGED passed
  <2>1. PICK ok \in {marked[c]} :
          \/ /\ ~ok /\ ReadsNoMore
             /\ buffer' = b /\ UNCHANGED <<headerRead, bodyRead, bodySize, passed>>
          \/ /\ ok /\ headerRead + k # n
             /\ headerRead' = headerRead + k /\ buffer' = b /\ asked' = HeaderRest(headerRead + k)
             /\ UNCHANGED <<bodyRead, bodySize, passed>>
          \/ /\ ok /\ headerRead + k = n
             /\ bodyRead' = 0
             /\ \E size \in SizesRead(b) :
                  /\ bodySize' = size
                  /\ IF protocol = "etf" /\ size = 0 THEN Deliver(b)
                     ELSE /\ headerRead' = headerRead + k
                          /\ buffer' = Resized(b, n + size)
                          /\ asked' = BodyOf(size)
                          /\ UNCHANGED passed
    BY <1>1, <1>4, <1>6, <1>8, <1>9
  <2>2. CASE ~ok /\ ReadsNoMore /\ buffer' = b /\ UNCHANGED <<headerRead, bodyRead, bodySize, passed>>
    BY <2>2
  <2>3. CASE /\ ok /\ headerRead + k # n
             /\ headerRead' = headerRead + k /\ buffer' = b /\ asked' = HeaderRest(headerRead + k)
             /\ UNCHANGED <<bodyRead, bodySize, passed>>
    BY <1>4, <2>3 DEF HeaderRest
  <2>4. CASE /\ ok /\ headerRead + k = n
             /\ bodyRead' = 0
             /\ \E size \in SizesRead(b) :
                  /\ bodySize' = size
                  /\ IF protocol = "etf" /\ size = 0 THEN Deliver(b)
                     ELSE /\ headerRead' = headerRead + k
                          /\ buffer' = Resized(b, n + size)
                          /\ asked' = BodyOf(size)
                          /\ UNCHANGED passed
    <3>1. SizesRead(b) = {body[c]}
      BY <1>4, <1>6, <1>8, <1>9, <2>4
    <3>2. marked[c]
      BY <2>1, <2>4
    <3> QED
      BY <1>4, <2>4, <3>1, <3>2 DEF BodyOf
  <2> QED
    BY <2>1, <2>2, <2>3, <2>4
<1> QED
  <2>1. \A i \in 1 .. headerRead + k : b[i] = Starts[c] + i
    BY <1>6, <1>8, <1>9
  <2>2. /\ Framed /\ ~Overread /\ k >= 1 /\ t = Total /\ n = Header /\ c = Current
        /\ taken' = taken + k /\ taken + k <= peerSent /\ UNCHANGED <<peer, peerSent, closed>>
        /\ k <= asked.want
        /\ Len(b) = Len(buffer) /\ headerRead + k <= Len(buffer)
    BY <1>1, <1>2, <1>4, <1>5, <1>6, <1>7, <1>8, <1>9
  <2> QED
    BY <1>6, <1>10, <2>1, <2>2

LEMMA HeaderStep ==
  ASSUME ReaderInv, HeaderArrives
  PROVE  ReaderInv'
<1>1. PICK k \in Nat, n \in Nat, t \in Nat, c \in 1 .. Packets : \E bb \in Seq(0 .. t) :
           /\ Framed /\ ~Overread /\ k >= 1 /\ t = Total /\ n = Header /\ c = Current
           /\ taken' = taken + k /\ taken + k <= peerSent /\ UNCHANGED <<peer, peerSent, closed>>
           /\ k <= asked.want
           /\ Len(bb) = Len(buffer) /\ headerRead + k <= Len(buffer)
           /\ \A i \in 1 .. headerRead + k : bb[i] = Starts[c] + i
           /\ \/ /\ ReadsNoMore /\ buffer' = bb /\ UNCHANGED <<headerRead, bodyRead, bodySize, passed>>
              \/ /\ headerRead + k # n /\ headerRead' = headerRead + k /\ buffer' = bb
                 /\ asked' = Read("header", "all", headerRead + k, n - (headerRead + k))
                 /\ UNCHANGED <<bodyRead, bodySize, passed>>
              \/ /\ marked[c] /\ headerRead + k = n /\ bodyRead' = 0 /\ bodySize' = body[c]
                 /\ \/ protocol = "etf" /\ body[c] = 0 /\ Deliver(bb)
                    \/ /\ headerRead' = n /\ buffer' = Resized(bb, n + body[c])
                       /\ asked' = Read("data", "all", n, body[c]) /\ UNCHANGED passed
  BY HeaderOutcome
<1>2. PICK b \in Seq(0 .. t) :
           /\ Framed /\ ~Overread /\ k >= 1 /\ t = Total /\ n = Header /\ c = Current
           /\ taken' = taken + k /\ taken + k <= peerSent /\ UNCHANGED <<peer, peerSent, closed>>
           /\ k <= asked.want
           /\ Len(b) = Len(buffer) /\ headerRead + k <= Len(buffer)
           /\ \A i \in 1 .. headerRead + k : b[i] = Starts[c] + i
           /\ \/ /\ ReadsNoMore /\ buffer' = b /\ UNCHANGED <<headerRead, bodyRead, bodySize, passed>>
              \/ /\ headerRead + k # n /\ headerRead' = headerRead + k /\ buffer' = b
                 /\ asked' = Read("header", "all", headerRead + k, n - (headerRead + k))
                 /\ UNCHANGED <<bodyRead, bodySize, passed>>
              \/ /\ marked[c] /\ headerRead + k = n /\ bodyRead' = 0 /\ bodySize' = body[c]
                 /\ \/ protocol = "etf" /\ body[c] = 0 /\ Deliver(b)
                    \/ /\ headerRead' = n /\ buffer' = Resized(b, n + body[c])
                       /\ asked' = Read("data", "all", n, body[c]) /\ UNCHANGED passed
  BY <1>1
<1>3. /\ PeerOK /\ BytesOK /\ BufferOK /\ SizesOK /\ AskedOK
      /\ HeaderPhase /\ OverreadPhase /\ BodyPhase /\ ChunkPhase /\ GoneAsksNothing
      /\ PacketsAsSent /\ ChunksAsSent
  BY DEF ReaderInv
<1>4. /\ PeerOK' /\ Header' = Header /\ FirstBuffer' = FirstBuffer /\ Framed' = Framed
      /\ Starts' = Starts /\ Total' = Total
      /\ protocol' = protocol /\ body' = body /\ marked' = marked
  BY <1>2, <1>3, PeerStays DEF peer
<1>5. BytesOK'
  BY <1>2, <1>3, <1>4 DEF BytesOK
<1>6. /\ n >= 6 /\ Packets \in Nat /\ SizeT \in Nat /\ t < SizeT /\ n < SizeT
      /\ Starts[c] \in Nat /\ body[c] \in Nat /\ Starts[c] + n + body[c] <= t
      /\ taken \in Nat /\ peerSent \in Nat /\ peerSent <= t /\ headerRead \in Nat
      /\ FirstBuffer \in Nat
  <2>1. n >= 6 /\ Packets \in Nat /\ SizeT \in Nat /\ t < SizeT /\ FirstBuffer \in Nat
    BY <1>2, <1>3, HeaderSizes, PacketsInTotal
  <2>2. Starts[c] \in Nat /\ body[c] \in Nat /\ Starts[c] + n + body[c] <= t
    BY <1>2, <1>3, PacketsInTotal
  <2>3. taken \in Nat /\ peerSent \in Nat /\ peerSent <= t /\ headerRead \in Nat
    BY <1>2, <1>3 DEF BytesOK, SizesOK
  <2> QED
    BY <2>1, <2>2, <2>3
<1>7. /\ headerRead < n /\ taken = Starts[c] + headerRead
      /\ headerRead + asked.want <= Len(buffer) /\ Len(buffer) >= n
      /\ Len(buffer) = n \/ (protocol = "etf" /\ passed = <<>>)
      /\ \/ asked.op = "all" /\ headerRead + asked.want <= n
         \/ asked.op = "some" /\ passed = <<>> /\ asked.want = FirstBuffer /\ headerRead = 0
  <2>1. asked.handler = "header"
    BY DEF HeaderArrives
  <2> QED
    BY <1>2, <1>3, <2>1 DEF HeaderPhase
<1>8. /\ Len(passed) \in Nat /\ c = Len(passed) + 1 /\ passed \in Seq(Seq(0 .. t))
      /\ \A p \in 1 .. Len(passed) : marked[p]
  <2>1. Len(passed) \in Nat /\ c = Len(passed) + 1 /\ passed \in Seq(Seq(0 .. t))
    BY <1>2, <1>3, CurrentIs DEF BufferOK
  <2>2. ASSUME Len(passed) # 0
        PROVE  \A p \in 1 .. Len(passed) : marked[p]
    <3>1. Len(passed) \in DOMAIN passed
      BY <2>1, <2>2
    <3> QED
      BY <1>2, <1>3, <3>1 DEF PacketsAsSent
  <2> QED
    BY <2>1, <2>2
<1>9. ASSUME UNCHANGED passed
      PROVE  PacketsAsSent' /\ ChunksAsSent' /\ Current' = c
  <2>1. \A p \in 1 .. Packets : Packet(p)' = Packet(p)
    BY <1>4 DEF Packet
  <2>2. Packet(1)' = Packet(1)
    BY <1>4 DEF Packet
  <2>3. PacketsAsSent'
    <3>1. DOMAIN passed = 1 .. Len(passed) /\ Len(passed) <= Packets
      BY <1>2, <1>3, <1>8 DEF PacketsAsSent
    <3>2. \A i \in DOMAIN passed : Packet(i)' = Packet(i)
      BY <1>6, <1>8, <2>1, <3>1
    <3> QED
      BY <1>2, <1>3, <1>4, <1>9, <2>2, <3>2 DEF PacketsAsSent
  <2> QED
    BY <1>2, <1>4, <1>9, <2>3 DEF ChunksAsSent, Current
<1>10. CASE ReadsNoMore /\ buffer' = b /\ UNCHANGED <<headerRead, bodyRead, bodySize, passed>>
  <2>1. AskedOK' /\ GoneAsksNothing' /\ asked'.handler = "gone"
    BY <1>2, <1>3, <1>10, GoneIs
  <2>2. BufferOK'
    BY <1>2, <1>4, <1>8, <1>10 DEF BufferOK
  <2>3. SizesOK' /\ ~Overread'
    BY <1>2, <1>3, <1>4, <1>10 DEF SizesOK, Overread
  <2>4. HeaderPhase' /\ OverreadPhase' /\ BodyPhase' /\ ChunkPhase'
    BY <2>1, <2>3 DEF HeaderPhase, OverreadPhase, BodyPhase, ChunkPhase
  <2> QED
    BY <1>4, <1>5, <1>9, <1>10, <2>1, <2>2, <2>3, <2>4 DEF ReaderInv
<1>11. CASE /\ headerRead + k # n /\ headerRead' = headerRead + k /\ buffer' = b
            /\ asked' = Read("header", "all", headerRead + k, n - (headerRead + k))
            /\ UNCHANGED <<bodyRead, bodySize, passed>>
  <2>1. PICK have \in Nat : have = headerRead + k
    BY <1>6
  <2>2. BufferOK'
    BY <1>2, <1>4, <1>8, <1>11 DEF BufferOK
  <2>3. taken' = Starts[c] + have /\ have <= Len(buffer) /\ taken' <= t /\ taken' \in Nat
    <3>1. taken' = Starts[c] + have
      <4>1. k \in Nat /\ headerRead \in Nat /\ Starts[c] \in Nat
        BY <1>6
      <4> QED
        BY ONLY <1>2, <1>7, <2>1, <4>1
    <3>2. have <= Len(buffer)
      BY <1>2, <1>6, <2>1
    <3>3. taken' <= t /\ taken' \in Nat
      BY <1>2, <1>6
    <3> QED
      BY <3>1, <3>2, <3>3
  <2>4. have < n => have <= n
    BY <2>1
  <2>5. have > n => protocol = "etf" /\ passed = <<>> /\ have <= FirstBuffer /\ c = 1 /\ taken' = have
    <3>1. ASSUME have > n
          PROVE  protocol = "etf" /\ passed = <<>>
      BY <1>7, <2>3, <3>1
    <3>2. ASSUME have > n
          PROVE  have <= FirstBuffer
      <4>1. asked.want \in Nat
        BY <1>3 DEF AskedOK
      <4>2. have <= headerRead + asked.want
        BY <1>2, <1>6, <2>1, <4>1
      <4>3. ~(headerRead + asked.want <= n)
        BY <1>6, <3>2, <4>1, <4>2
      <4> QED
        BY <1>6, <1>7, <4>2, <4>3
    <3>3. Starts[1] = 0
      BY <1>3, StartsAre
    <3> QED
      BY <1>8, <2>1, <2>3, <3>1, <3>2, <3>3
  <2>6. SizesOK'
    <3>1. have <= n \/ have <= FirstBuffer
      BY <2>1, <2>5
    <3>2. headerRead' = have
      BY <1>11, <2>1
    <3>3. headerRead' \in Nat /\ (headerRead' <= Header' \/ headerRead' <= FirstBuffer')
      BY <1>2, <1>4, <2>1, <3>1, <3>2
    <3>4. bodySize \in Bodies \cup {0} /\ bodyRead \in 0 .. bodySize
      BY <1>3 DEF SizesOK
    <3>5. bodySize' = bodySize /\ bodyRead' = bodyRead
      BY <1>11
    <3> QED
      BY <3>3, <3>4, <3>5 DEF SizesOK
  <2>7. PICK want \in 0 .. SizeT - 1 : /\ want = (n - have) % SizeT
                                       /\ have < n => want = n - have
                                       /\ have > n => want = SizeT + n - have
    <3>1. CASE have < n
      <4>1. n - have \in Nat /\ n - have < SizeT
        BY <1>6, <2>1, <3>1
      <4>2. (n - have) % SizeT = n - have
        BY ONLY <1>6, <4>1, SmallMod
      <4> QED
        BY <1>6, <3>1, <4>1, <4>2
    <3>2. CASE have > n
      <4>1. n - have \in Int /\ n - have < 0 /\ n - have >= - SizeT
        BY <1>6, <2>1, <2>3, <2>5, <3>2
      <4>2. (n - have) % SizeT = (n - have) + SizeT
        BY ONLY <1>6, <4>1, WrapMod
      <4>3. (n - have) + SizeT \in 0 .. SizeT - 1 /\ (n - have) + SizeT = SizeT + n - have
        BY <1>6, <2>1, <4>1
      <4> QED
        BY <3>2, <4>2, <4>3
    <3> QED
      BY <1>11, <2>1, <3>1, <3>2
  <2>8. asked' = [handler |-> "header", op |-> "all", at |-> have, want |-> want]
    BY <1>11, <2>1, <2>7 DEF Read
  <2>9. AskedOK' /\ GoneAsksNothing'
    BY <2>1, <2>7, <2>8 DEF AskedOK, GoneAsksNothing
  <2>10. asked'.handler = "header" /\ asked'.op = "all" /\ asked'.at = have /\ asked'.want = want
    BY <2>8
  <2>11. Current' = c /\ buffer' = b /\ headerRead' = have /\ passed' = passed
    BY <1>9, <1>11, <2>1
  <2>12. ASSUME have < n
         PROVE  HeaderPhase' /\ OverreadPhase'
    <3>1. Holds(have)'
      <4>1. \A i \in 1 .. have : b[i] = Starts'[Current'] + i
        BY <1>2, <1>4, <2>1, <2>11
      <4> QED
        BY <1>2, <2>3, <2>11, <4>1 DEF Holds
    <3>2. want >= 1 /\ have + want = n /\ Len(buffer') = Len(buffer) /\ have + want <= Len(buffer)
      <4>1. want >= 1 /\ have + want = n
        BY <1>6, <2>1, <2>7, <2>12
      <4>2. Len(buffer') = Len(buffer) /\ Len(buffer) >= n
        BY <1>2, <1>7, <2>11
      <4> QED
        BY <4>1, <4>2
    <3>3. taken' = Starts'[Current'] + headerRead' /\ headerRead' < Header'
      BY <1>2, <1>4, <2>3, <2>11, <2>12
    <3>4. ~Overread'
      BY <1>2, <1>4, <2>1, <2>11, <2>12 DEF Overread
    <3>5. Len(buffer') >= Header' /\ (Len(buffer') = Header' \/ (protocol' = "etf" /\ passed' = <<>>))
      BY <1>2, <1>4, <1>7, <2>11, <3>2
    <3>6. headerRead' + asked'.want <= Len(buffer') /\ headerRead' + asked'.want <= Header'
      BY <1>2, <1>4, <2>10, <2>11, <3>2
    <3>7. Holds(headerRead)'
      BY <2>11, <3>1 DEF Holds
    <3> QED
      BY <2>10, <2>11, <3>2, <3>3, <3>4, <3>5, <3>6, <3>7 DEF HeaderPhase, OverreadPhase
  <2>13. ASSUME have > n
         PROVE  HeaderPhase' /\ OverreadPhase'
    <3>1. Overread'
      BY <1>2, <1>4, <2>5, <2>11, <2>13 DEF Overread
    <3>2. Total' - taken' < want
      BY <1>2, <1>4, <1>6, <2>1, <2>5, <2>7, <2>13
    <3>3. passed' = <<>>
      BY <2>5, <2>11, <2>13
    <3> QED
      BY <2>10, <3>1, <3>2, <3>3 DEF HeaderPhase, OverreadPhase
  <2>14. have < n \/ have > n
    BY <1>11, <2>1
  <2>15. BodyPhase' /\ ChunkPhase'
    BY <1>2, <1>4, <2>10 DEF BodyPhase, ChunkPhase
  <2> QED
    BY <1>4, <1>5, <1>9, <1>11, <2>2, <2>6, <2>9, <2>12, <2>13, <2>14, <2>15 DEF ReaderInv
<1>12. ASSUME marked[c] /\ headerRead + k = n /\ bodyRead' = 0 /\ bodySize' = body[c]
       PROVE  /\ \A p \in 1 .. c : marked[p]
              /\ taken' = Starts[c] + n /\ bodySize' \in Bodies \cup {0} /\ bodyRead' \in 0 .. bodySize'
  <2>1. body[c] \in Bodies
    BY <1>3 DEF PeerOK
  <2>2. \A p \in 1 .. c : marked[p]
    BY <1>8, <1>12
  <2>3. taken' = Starts[c] + n
    <3>1. PICK s \in Nat, h \in Nat : s = Starts[c] /\ h = headerRead
      BY <1>6
    <3>2. taken' = taken + k /\ taken = s + h /\ h + k = n
      BY <1>2, <1>7, <1>12, <3>1
    <3>3. taken' = s + n
      BY <3>2
    <3> QED
      BY <3>1, <3>3
  <2> QED
    BY <1>6, <1>12, <2>1, <2>2, <2>3
<1>13. CASE /\ marked[c] /\ headerRead + k = n /\ bodyRead' = 0 /\ bodySize' = body[c]
            /\ protocol = "etf" /\ body[c] = 0 /\ Deliver(b)
  <2>1. \/ b = Packet(c)
        \/ protocol = "etf" /\ c = 1 /\ body[1] = 0 /\ SubSeq(b, 1, Header) = Packet(1)
    <3>1. Packet(c) = [i \in 1 .. n |-> Starts[c] + i]
      BY <1>2, <1>6, <1>13 DEF Packet
    <3>2. SubSeq(b, 1, n) = [i \in 1 .. n |-> Starts[c] + i] /\ Len(b) >= n
      BY <1>2, <1>7, <1>13
    <3>3. CASE Len(buffer) = n
      <4>1. b = SubSeq(b, 1, n)
        BY <1>2, <3>3
      <4> QED
        BY <3>1, <3>2, <4>1
    <3>4. CASE protocol = "etf" /\ passed = <<>>
      <4>1. c = 1
        BY <1>8, <3>4
      <4> QED
        BY <1>2, <1>13, <3>1, <3>2, <4>1
    <3> QED
      BY <1>7, <3>3, <3>4
  <2>2. taken' = Starts[c] + Header + body[c]
    BY <1>2, <1>6, <1>12, <1>13
  <2>3. /\ BufferOK' /\ AskedOK' /\ HeaderPhase' /\ OverreadPhase' /\ BodyPhase' /\ ChunkPhase'
        /\ GoneAsksNothing' /\ PacketsAsSent' /\ ChunksAsSent' /\ headerRead' = 0
    <3>1. b \in Seq(0 .. Total)
      BY <1>2
    <3> QED
      BY <1>2, <1>3, <1>12, <1>13, <2>1, <2>2, <3>1, Delivered
  <2>4. SizesOK'
    BY <1>2, <1>4, <1>12, <1>13, <2>3 DEF SizesOK
  <2> QED
    BY <1>4, <1>5, <2>3, <2>4 DEF ReaderInv
<1>14. CASE /\ marked[c] /\ headerRead + k = n /\ bodyRead' = 0 /\ bodySize' = body[c]
            /\ headerRead' = n /\ buffer' = Resized(b, n + body[c])
            /\ asked' = Read("data", "all", n, body[c]) /\ UNCHANGED passed
  <2>1. PICK size \in Nat : size = body[c]
    BY <1>6
  <2>2. /\ buffer' \in Seq(0 .. t) /\ Len(buffer') = n + size
        /\ \A i \in 1 .. n + size : i <= Len(b) => buffer'[i] = b[i]
    <3>1. n + size \in Nat /\ buffer' = Resized(b, n + size)
      BY <1>14, <2>1
    <3> QED
      BY ONLY <3>1, ResizedIs, t \in Nat, b \in Seq(0 .. t)
  <2>3. asked' = [handler |-> "data", op |-> "all", at |-> n, want |-> size]
    <3>1. size < SizeT
      BY <1>6, <2>1
    <3>2. size % SizeT = size
      BY ONLY <1>6, <2>1, <3>1, SmallMod
    <3> QED
      BY <1>14, <2>1, <3>2 DEF Read
  <2>4. AskedOK' /\ GoneAsksNothing'
    <3>1. size \in 0 .. SizeT - 1
      BY <1>6, <2>1
    <3> QED
      BY <2>3, <3>1 DEF AskedOK, GoneAsksNothing
  <2>5. BufferOK'
    BY <1>2, <1>4, <1>8, <1>14, <2>2 DEF BufferOK
  <2>6. SizesOK' /\ ~Overread'
    BY <1>2, <1>4, <1>12, <1>14 DEF SizesOK, Overread
  <2>7. HeaderPhase' /\ OverreadPhase' /\ ChunkPhase'
    BY <1>2, <1>4, <2>3, <2>6 DEF HeaderPhase, OverreadPhase, ChunkPhase
  <2>8. Current' = c
    BY <1>9, <1>14
  <2>9. Holds(Header)'
    <3>1. ASSUME NEW i \in 1 .. n
          PROVE  buffer'[i] = Starts[c] + i
      <4>1. i <= Len(b) /\ headerRead + k = n
        BY <1>2, <1>14
      <4>2. i \in 1 .. n + size /\ i \in 1 .. headerRead + k
        BY ONLY <4>1, i \in 1 .. n, n \in Nat, size \in Nat
      <4>3. b[i] = Starts[c] + i
        BY <1>2, <4>2
      <4> QED
        BY <1>2, <2>2, <4>1, <4>2, <4>3
    <3> QED
      BY <1>2, <1>4, <2>1, <2>2, <2>8, <3>1 DEF Holds
  <2>10. BodyPhase'
    <3>1. asked'.op = "all" /\ asked'.at = n /\ asked'.want = size
      BY <2>3
    <3> QED
      BY <1>2, <1>4, <1>6, <1>12, <1>14, <2>1, <2>2, <2>8, <2>9, <3>1 DEF BodyPhase
  <2> QED
    BY <1>4, <1>5, <1>9, <1>14, <2>4, <2>5, <2>6, <2>7, <2>10 DEF ReaderInv
<1> QED
  BY <1>2, <1>10, <1>11, <1>13, <1>14

\* The bytes of a body, after which a packet is whole.
LEMMA DataStep ==
  ASSUME ReaderInv, DataArrives
  PROVE  ReaderInv'
<1>1. /\ PeerOK /\ BytesOK /\ BufferOK /\ SizesOK /\ AskedOK /\ BodyPhase /\ PacketsAsSent
      /\ Framed /\ asked.handler = "data"
  BY DEF ReaderInv, DataArrives
<1>2. PICK k \in Arriving :
        /\ taken' = taken + k /\ bodyRead' = bodyRead + k
        /\ IF bodyRead + k < bodySize
           THEN /\ asked' = Read("data", "all", bodyRead + k, bodySize - (bodyRead + k))
                /\ buffer' = Filled(k) /\ UNCHANGED <<headerRead, passed>>
           ELSE Deliver(Filled(k))
  BY DEF DataArrives
<1>3. UNCHANGED <<peer, peerSent, closed, bodySize>>
  BY DEF DataArrives
<1>4. PICK c \in Nat : c = Current /\ c \in 1 .. Packets
  <2>1. Current \in 1 .. Packets + 1 /\ Current <= Packets /\ Packets \in Nat
    BY <1>1, CurrentIs, HeaderSizes DEF BodyPhase
  <2> QED
    BY <2>1
<1>5. PICK n \in Nat : n = Header /\ n >= 6
  BY <1>1, HeaderSizes
<1>6. PICK size \in Nat : size = body[c]
  BY <1>1, <1>4, PacketsInTotal
<1>7. /\ headerRead = n /\ taken = Starts[c] + n /\ Holds(n) /\ Len(buffer) = n + size /\ bodySize = size
      /\ bodyRead = 0 /\ asked.op = "all" /\ asked.at = n /\ asked.want = size
      /\ \A p \in 1 .. c : marked[p]
  BY <1>1, <1>4, <1>5, <1>6 DEF BodyPhase
<1>8. k = size /\ taken + k <= peerSent
  BY <1>1, <1>7, Arrived
<1>9. PICK s \in Nat : s = Starts[c]
  BY <1>1, <1>4, PacketsInTotal
<1>10. taken' = s + n + size /\ bodyRead' = size
  <2>1. taken' = taken + size /\ taken = s + n /\ bodyRead' = 0 + size
    BY <1>2, <1>7, <1>8, <1>9
  <2> QED
    BY ONLY <2>1, s \in Nat, n \in Nat, size \in Nat
<1>11. PICK t \in Nat : t = Total
  BY <1>1, PacketsInTotal
<1>12. PICK b \in Seq(0 .. t) :
         /\ b = Filled(k) /\ Len(b) = n + size
         /\ \A i \in 1 .. n + size : /\ i <= n => b[i] = buffer[i]
                                     /\ i > n /\ i <= n + size => b[i] = taken + i - n
  BY <1>1, <1>7, <1>8, <1>11, FilledIs
<1>13. b = Packet(c)
  <2>1. Packet(c) = [i \in 1 .. n + size |-> s + i]
    BY <1>5, <1>6, <1>9 DEF Packet
  <2>2. ASSUME NEW i \in 1 .. n + size
        PROVE  b[i] = s + i
    <3>1. CASE i <= n
      <4>1. i \in 1 .. n
        BY <3>1
      <4>2. buffer[i] = Starts[Current] + i
        BY <1>7, <4>1 DEF Holds
      <4> QED
        BY <1>4, <1>9, <1>12, <3>1, <4>2
    <3>2. CASE i > n
      <4>1. b[i] = taken + i - n /\ taken = s + n
        BY <1>7, <1>9, <1>12, <3>2
      <4> QED
        BY <4>1
    <3> QED
      BY <3>1, <3>2
  <2>3. b = [i \in 1 .. n + size |-> b[i]]
    BY <1>12
  <2> QED
    BY <2>1, <2>2, <2>3
<1>14. Deliver(b)
  BY <1>2, <1>7, <1>8, <1>12
<1>15. /\ BufferOK' /\ AskedOK' /\ HeaderPhase' /\ OverreadPhase' /\ BodyPhase' /\ ChunkPhase'
       /\ GoneAsksNothing' /\ PacketsAsSent' /\ ChunksAsSent' /\ headerRead' = 0
  <2>1. b \in Seq(0 .. Total) /\ taken' = Starts[c] + Header + body[c] /\ UNCHANGED peer
    BY <1>3, <1>5, <1>6, <1>9, <1>10, <1>11
  <2> QED
    BY <1>1, <1>4, <1>7, <1>13, <1>14, <2>1, Delivered
<1>16. PeerOK' /\ Header' = Header /\ FirstBuffer' = FirstBuffer /\ Total' = Total
  BY <1>1, <1>3, PeerStays
<1>17. BytesOK'
  <2>1. taken' = taken + k /\ taken \in Nat /\ peerSent \in Nat /\ peerSent <= Total /\ taken' \in Nat
    BY <1>1, <1>2, <1>9, <1>10, <1>11 DEF BytesOK
  <2> QED
    BY <1>1, <1>3, <1>8, <1>16, <2>1 DEF BytesOK
<1>18. SizesOK'
  <2>1. bodySize' = size /\ size \in Bodies \cup {0}
    BY <1>1, <1>3, <1>7 DEF SizesOK
  <2>2. headerRead' \in Nat /\ headerRead' <= Header'
    BY <1>5, <1>15, <1>16
  <2> QED
    BY <1>10, <2>1, <2>2 DEF SizesOK
<1> QED
  BY <1>15, <1>16, <1>17, <1>18 DEF ReaderInv
-----------------------------------------------------------------------------
(* Clients without frames *)

\* What a read of a client without frames brings is the next bytes of its stream.
LEMMA ChunkBytes ==
  ASSUME ReaderInv, ~Framed, asked.handler # "gone", NEW k \in Arriving
  PROVE  /\ k \in Nat /\ k >= 1 /\ k <= FirstBuffer /\ taken + k <= peerSent
         /\ Filled(k) \in Seq(0 .. Total) /\ Len(Filled(k)) = FirstBuffer
         /\ Resized(Filled(k), k) \in Seq(0 .. Total)
         /\ Resized(Filled(k), k) = [i \in 1 .. k |-> taken + i]
<1>1. PeerOK /\ BytesOK /\ BufferOK /\ AskedOK /\ ChunkPhase
  BY DEF ReaderInv
<1>2. asked.op = "some" /\ asked.at = 0 /\ asked.want = FirstBuffer /\ Len(buffer) = FirstBuffer
  BY <1>1 DEF ChunkPhase
<1>3. k \in Nat /\ k >= 1 /\ k <= FirstBuffer /\ taken + k <= peerSent
  BY <1>1, <1>2, Arrived
<1>4. PICK t \in Nat, w \in Nat : t = Total /\ w = FirstBuffer
  BY <1>1, HeaderSizes, PacketsInTotal
<1>5. PICK from \in Nat : from = taken
  BY <1>1, <1>4 DEF BytesOK
<1>6. PICK b \in Seq(0 .. t) :
        b = Filled(k) /\ Len(b) = w /\ \A i \in 1 .. w : i > 0 /\ i <= 0 + k => b[i] = from + i - 0
  BY <1>1, <1>2, <1>3, <1>4, <1>5, FilledIs
<1>7. /\ Resized(b, k) \in Seq(0 .. t) /\ Len(Resized(b, k)) = k
      /\ \A i \in 1 .. k : i <= Len(b) => Resized(b, k)[i] = b[i]
  BY <1>3, ResizedIs
<1>8. Resized(b, k) = [i \in 1 .. k |-> from + i]
  <2>1. ASSUME NEW i \in 1 .. k
        PROVE  Resized(b, k)[i] = from + i
    <3>1. i \in 1 .. w /\ i <= Len(b) /\ i > 0 /\ i <= 0 + k
      BY <1>3, <1>4, <1>6
    <3>2. b[i] = from + i - 0
      BY <1>6, <3>1
    <3> QED
      BY <1>7, <3>1, <3>2
  <2>2. Resized(b, k) = [i \in 1 .. k |-> Resized(b, k)[i]]
    BY <1>7
  <2> QED
    BY <2>1, <2>2
<1> QED
  BY <1>3, <1>4, <1>5, <1>6, <1>7, <1>8

\* A chunk is passed on, or left out; either way the next is asked for.
LEMMA ChunkTaken ==
  ASSUME PeerOK, BytesOK, BufferOK, SizesOK, ~Framed, UNCHANGED <<peer, peerSent, closed, headerRead, bodyRead, bodySize>>,
         NEW k \in Nat, taken' = taken + k, taken + k <= peerSent,
         asked' = Read("data", "some", 0, FirstBuffer),
         buffer' \in Seq(0 .. Total), Len(buffer') = FirstBuffer, passed' \in Seq(Seq(0 .. Total)), ChunksAsSent'
  PROVE  ReaderInv'
<1>1. PeerOK' /\ Header' = Header /\ FirstBuffer' = FirstBuffer /\ Total' = Total /\ ~Framed' /\ protocol' = protocol
  BY PeerStays DEF peer
<1>2. SizeT \in Nat /\ FirstBuffer \in Nat \ {0} /\ FirstBuffer < SizeT
  BY HeaderSizes
<1>3. asked' = [handler |-> "data", op |-> "some", at |-> 0, want |-> FirstBuffer]
  <2>1. FirstBuffer \in Nat
    BY <1>2
  <2>2. FirstBuffer % SizeT = FirstBuffer
    BY ONLY <1>2, <2>1, SmallMod
  <2> QED
    BY <2>2 DEF Read
<1>4. AskedOK' /\ GoneAsksNothing'
  <2>1. FirstBuffer \in 0 .. SizeT - 1
    BY <1>2
  <2> QED
    BY <1>3, <2>1 DEF AskedOK, GoneAsksNothing
<1>5. BytesOK'
  <2>1. taken \in Nat /\ peerSent \in Nat /\ Total \in Nat
    BY PacketsInTotal DEF BytesOK
  <2> QED
    BY <1>1, <2>1 DEF BytesOK
<1>6. BufferOK' /\ SizesOK'
  BY <1>1 DEF BufferOK, SizesOK
<1>7. ChunkPhase'
  BY <1>1, <1>3 DEF ChunkPhase
<1>8. ~Overread'
  BY <1>1 DEF Overread, Framed
<1> QED
  BY <1>1, <1>4, <1>5, <1>6, <1>7, <1>8
     DEF ReaderInv, HeaderPhase, OverreadPhase, BodyPhase, PacketsAsSent

LEMMA JoinRuns ==
  ASSUME NEW l \in Nat, NEW t \in Nat, NEW k \in Nat, l <= t
  PROVE  [i \in 1 .. t - l |-> l + i] \o [i \in 1 .. k |-> t + i] = [i \in 1 .. t + k - l |-> l + i]
<1>1. PICK n \in Nat : n = t - l
  OBVIOUS
<1> DEFINE a == [i \in 1 .. n |-> l + i]
           b == [i \in 1 .. k |-> t + i]
           c == [i \in 1 .. n + k |-> l + i]
<1>2. a \in Seq(Nat) /\ Len(a) = n /\ b \in Seq(Nat) /\ Len(b) = k /\ c \in Seq(Nat) /\ Len(c) = n + k
  OBVIOUS
<1>3. a \o b \in Seq(Nat) /\ Len(a \o b) = n + k
  BY <1>2
<1>4. ASSUME NEW i \in 1 .. n + k
      PROVE  (a \o b)[i] = c[i]
  <2>1. CASE i <= n
    <3>1. (a \o b)[i] = a[i]
      BY <1>2, <2>1
    <3> QED
      BY <2>1, <3>1
  <2>2. CASE i > n
    <3>1. (a \o b)[i] = b[i - n]
      BY <1>2, <2>2
    <3>2. i - n \in 1 .. k
      BY <2>2
    <3>3. b[i - n] = t + (i - n) /\ c[i] = l + i
      BY <3>2
    <3> QED
      BY <1>1, <3>1, <3>3
  <2> QED
    BY <2>1, <2>2
<1>5. a \o b = c
  <2> HIDE DEF a, b, c
  <2>1. Len(a \o b) = Len(c) /\ \A i \in 1 .. Len(a \o b) : (a \o b)[i] = c[i]
    BY <1>2, <1>3, <1>4
  <2> QED
    BY ONLY <1>2, <1>3, <2>1, SeqEqual
<1>6. t + k - l = n + k
  BY <1>1
<1> QED
  BY <1>1, <1>5, <1>6

LEMMA ChunkDelivered ==
  ASSUME ReaderInv, ~Framed, asked.handler # "gone", NEW k \in Arriving,
         taken' = taken + k, DeliverChunk(Filled(k), k),
         UNCHANGED <<peer, peerSent, closed, headerRead, bodyRead, bodySize>>
  PROVE  ReaderInv'
<1>1. PeerOK /\ BytesOK /\ BufferOK /\ SizesOK /\ ChunksAsSent
  BY DEF ReaderInv
<1>2. /\ k \in Nat /\ k <= FirstBuffer /\ taken + k <= peerSent
      /\ Resized(Filled(k), k) \in Seq(0 .. Total)
      /\ Resized(Filled(k), k) = [i \in 1 .. k |-> taken + i]
  BY ChunkBytes
<1>3. PICK t \in Nat, w \in Nat, from \in Nat : t = Total /\ w = FirstBuffer /\ from = taken
  BY <1>1, HeaderSizes, PacketsInTotal DEF BytesOK
<1>4. PICK ch \in Seq(0 .. t) : ch = Resized(Filled(k), k) /\ ch = [i \in 1 .. k |-> from + i]
  BY <1>2, <1>3
<1>5. PICK s \in Seq(Seq(0 .. t)) : s = passed
  BY <1>1, <1>3 DEF BufferOK
<1>6. passed' = Append(s, ch) /\ passed' \in Seq(Seq(0 .. t))
  <2>1. passed' = Append(s, ch)
    BY <1>4, <1>5 DEF DeliverChunk
  <2> QED
    BY <2>1, AppendProperties
<1>7. FlattenSeq(Append(s, ch)) = FlattenSeq(s) \o ch
  BY FlattenAppend
<1>8. PICK left \in 0 .. FirstBuffer :
        /\ left <= from /\ FlattenSeq(s) = [i \in 1 .. from - left |-> left + i]
        /\ left # 0 => protocol = "telnet" /\ \E p \in 1 .. Packets : Starts[p] = 0 /\ marked[p]
  BY <1>1, <1>3, <1>5 DEF ChunksAsSent
<1>9. PICK l \in Nat : l = left
  BY <1>3
<1>10. FlattenSeq(Append(s, ch)) = [i \in 1 .. from + k - l |-> l + i]
  <2>1. l <= from
    BY <1>8, <1>9
  <2>2. [i \in 1 .. from - l |-> l + i] \o [i \in 1 .. k |-> from + i] = [i \in 1 .. from + k - l |-> l + i]
    BY <1>2, <2>1, JoinRuns
  <2>3. FlattenSeq(s) = [i \in 1 .. from - l |-> l + i]
    BY <1>8, <1>9
  <2> QED
    BY <1>4, <1>7, <2>2, <2>3
<1>11. k \in Nat /\ taken' = from + k /\ FlattenSeq(passed)' = [i \in 1 .. (from + k) - l |-> l + i] /\ l <= from + k
  BY <1>2, <1>3, <1>6, <1>8, <1>9, <1>10
<1>12. Header' = Header /\ FirstBuffer' = FirstBuffer /\ Total' = Total /\ Framed' = Framed /\ Starts' = Starts
       /\ protocol' = protocol /\ marked' = marked
  BY <1>1, PeerStays DEF peer
<1>13. ChunksAsSent'
  BY <1>8, <1>9, <1>11, <1>12 DEF ChunksAsSent
<1>14. buffer' \in Seq(0 .. Total) /\ Len(buffer') = FirstBuffer /\ asked' = Read("data", "some", 0, FirstBuffer)
  <2>1. buffer' = Zeros(w) /\ asked' = Read("data", "some", 0, FirstBuffer)
    BY <1>3 DEF DeliverChunk
  <2>2. Zeros(w) \in Seq(0 .. t) /\ Len(Zeros(w)) = w
    BY ONLY w \in Nat, t \in Nat, ZerosAre
  <2> QED
    BY <1>3, <2>1, <2>2
<1> QED
  BY <1>1, <1>2, <1>3, <1>6, <1>13, <1>14, ChunkTaken

LEMMA ChunkStep ==
  ASSUME ReaderInv, ChunkArrives
  PROVE  ReaderInv'
<1>1. ~Framed /\ asked.handler # "gone" /\ UNCHANGED <<peer, peerSent, closed, headerRead, bodyRead, bodySize>>
  BY DEF ChunkArrives
<1>2. PICK k \in Arriving : taken' = taken + k /\ DeliverChunk(Filled(k), k)
  BY DEF ChunkArrives
<1> QED
  BY <1>1, <1>2, ChunkDelivered

\* The first chunk of a telnet client may be left out.
LEMMA FirstChunkStep ==
  ASSUME ReaderInv, FirstChunkArrives
  PROVE  ReaderInv'
<1>1. ~Framed /\ asked.handler = "header" /\ UNCHANGED <<peer, peerSent, closed, headerRead, bodyRead, bodySize>>
  BY DEF FirstChunkArrives
<1>2. PICK k \in Arriving :
        LET b == Filled(k) IN
        /\ taken' = taken + k
        /\ \E control \in MarkSeen(b) :
             IF protocol = "telnet" /\ control
             THEN /\ buffer' = b /\ asked' = Read("data", "some", 0, Len(b))
                  /\ UNCHANGED passed
             ELSE DeliverChunk(b, k)
  BY DEF FirstChunkArrives
<1>3. CASE DeliverChunk(Filled(k), k)
  BY <1>1, <1>2, <1>3, ChunkDelivered
<1>4. CASE /\ protocol = "telnet" /\ TRUE \in MarkSeen(Filled(k))
           /\ buffer' = Filled(k) /\ asked' = Read("data", "some", 0, Len(Filled(k)))
           /\ UNCHANGED passed
  <2>1. PeerOK /\ BytesOK /\ BufferOK /\ SizesOK /\ AskedOK /\ ChunkPhase
    BY DEF ReaderInv
  <2>2. /\ k \in Nat /\ k >= 1 /\ k <= FirstBuffer /\ taken + k <= peerSent
        /\ Filled(k) \in Seq(0 .. Total) /\ Len(Filled(k)) = FirstBuffer
    BY <1>1, ChunkBytes
  <2>3. passed = <<>> /\ taken = 0 /\ asked.at = 0 /\ Len(buffer) = FirstBuffer
    BY <1>1, <2>1 DEF ChunkPhase
  <2>4. PICK w \in Nat, b \in Seq(0 .. Total) : w = FirstBuffer /\ b = Filled(k)
    BY <2>1, <2>2, HeaderSizes
  <2>5. b[1] = 1
    <3>1. /\ \A i \in 1 .. w : i > 0 /\ i <= 0 + k => b[i] = 0 + i - 0
      BY <2>1, <2>2, <2>3, <2>4, FilledIs
    <3>2. 1 \in 1 .. w /\ 1 <= 0 + k
      BY <2>2, <2>4
    <3> QED
      BY <3>1, <3>2
  <2>6. \E p \in 1 .. Packets : Starts[p] = 0 /\ marked[p]
    <3> DEFINE at == {p \in 1 .. Packets : Starts[p] + 1 = b[1]}
    <3>1. 1 \in 1 .. Packets /\ Starts[1] = 0
      BY <2>1, HeaderSizes, StartsAre
    <3>2. 1 \in at
      BY <2>5, <3>1
    <3>3. MarkSeen(b) = {marked[p] : p \in at}
      BY <3>2 DEF MarkSeen
    <3>4. PICK p \in at : marked[p]
      BY <1>4, <2>4, <3>3
    <3>5. p \in 1 .. Packets /\ Starts[p] \in Nat /\ Starts[p] + 1 = 1
      BY <2>1, <2>5, PacketsInTotal
    <3> QED
      BY <3>4, <3>5
  <2>7. Header' = Header /\ FirstBuffer' = FirstBuffer /\ Total' = Total /\ Framed' = Framed /\ Starts' = Starts
        /\ protocol' = protocol /\ marked' = marked
    BY <1>1, <2>1, PeerStays DEF peer
  <2>8. ChunksAsSent'
    <3>1. PICK l \in Nat : l = k
      BY <2>2
    <3>2. passed' = <<>> /\ taken' = l
      BY <1>2, <1>4, <2>3, <3>1
    <3>3. FlattenSeq(<<>>) = <<>>
      BY DEF FlattenSeq
    <3>4. <<>> = [i \in 1 .. l - l |-> l + i]
      OBVIOUS
    <3>5. FlattenSeq(passed)' = [i \in 1 .. taken' - l |-> l + i]
      BY <3>2, <3>3, <3>4
    <3>6. l \in 0 .. FirstBuffer' /\ l <= taken'
      BY <2>2, <2>4, <2>7, <3>1, <3>2
    <3> QED
      BY <1>4, <2>6, <2>7, <3>5, <3>6 DEF ChunksAsSent
  <2>9. passed' \in Seq(Seq(0 .. Total))
    BY <1>4, <2>1 DEF BufferOK
  <2> QED
    BY <1>1, <1>2, <1>4, <2>1, <2>2, <2>8, <2>9, ChunkTaken
<1> QED
  BY <1>2, <1>3, <1>4
-----------------------------------------------------------------------------
(* The peer, and the end of the stream *)

\* What depends neither on what the peer has sent nor on what was read.
LEMMA Untouched ==
  ASSUME PeerOK, UNCHANGED <<peer, buffer, headerRead, bodyRead, bodySize, passed>>
  PROVE  /\ (BufferOK => BufferOK') /\ (SizesOK => SizesOK') /\ (PacketsAsSent => PacketsAsSent')
         /\ Overread' = Overread /\ Current' = Current /\ \A n \in Nat : Holds(n) => Holds(n)'
<1>1. /\ Header' = Header /\ FirstBuffer' = FirstBuffer /\ Framed' = Framed
      /\ Starts' = Starts /\ Total' = Total
      /\ protocol' = protocol /\ body' = body /\ marked' = marked
  BY PeerStays DEF peer
<1>2. BufferOK => BufferOK'
  BY <1>1 DEF BufferOK
<1>3. SizesOK => SizesOK'
  BY <1>1 DEF SizesOK
<1>4. PacketsAsSent => PacketsAsSent'
  <2>1. Packet(1)' = Packet(1) /\ \A i \in DOMAIN passed : Packet(i)' = Packet(i)
    BY <1>1 DEF Packet
  <2> QED
    BY <1>1, <2>1 DEF PacketsAsSent
<1>5. Overread' = Overread /\ Current' = Current
  BY <1>1 DEF Overread, Current
<1>6. \A n \in Nat : Holds(n) => Holds(n)'
  BY <1>1, <1>5 DEF Holds
<1> QED
  BY <1>2, <1>3, <1>4, <1>5, <1>6

LEMMA PeerStep ==
  ASSUME ReaderInv, PeerSends \/ PeerCloses \/ UNCHANGED readerVars
  PROVE  ReaderInv'
<1>1. /\ PeerOK /\ BytesOK /\ BufferOK /\ SizesOK /\ AskedOK
      /\ HeaderPhase /\ OverreadPhase /\ BodyPhase /\ ChunkPhase /\ GoneAsksNothing
      /\ PacketsAsSent /\ ChunksAsSent
  BY DEF ReaderInv
<1>2. UNCHANGED <<peer, taken, buffer, headerRead, bodyRead, bodySize, asked, passed>>
  BY DEF PeerSends, PeerCloses, readerVars, peer
<1>3. /\ PeerOK' /\ Header' = Header /\ FirstBuffer' = FirstBuffer /\ Framed' = Framed
      /\ Starts' = Starts /\ Total' = Total
      /\ protocol' = protocol /\ body' = body /\ marked' = marked
  BY <1>1, <1>2, PeerStays DEF peer
<1>4. BufferOK' /\ SizesOK' /\ PacketsAsSent' /\ Overread' = Overread /\ Current' = Current
      /\ \A n \in Nat : Holds(n) => Holds(n)'
  BY <1>1, <1>2, Untouched
<1>5. BytesOK'
  <2>1. Total \in Nat /\ taken \in Nat /\ taken' = taken /\ taken <= peerSent /\ peerSent \in 0 .. Total
    BY <1>1, <1>2, PacketsInTotal DEF BytesOK
  <2>2. peerSent' \in 0 .. Total /\ peerSent <= peerSent' /\ closed' \in BOOLEAN
    <3>1. closed \in BOOLEAN
      BY <1>1 DEF BytesOK
    <3>2. CASE PeerSends
      <4>1. PICK n \in peerSent + 1 .. Total : peerSent' = n
        BY <3>2 DEF PeerSends
      <4>2. closed' = closed
        BY <3>2 DEF PeerSends
      <4> QED
        BY <2>1, <3>1, <4>1, <4>2
    <3>3. CASE PeerCloses
      BY <2>1, <3>3 DEF PeerCloses
    <3>4. CASE UNCHANGED readerVars
      BY <2>1, <3>1, <3>4 DEF readerVars
    <3> QED
      BY <3>2, <3>3, <3>4
  <2> QED
    BY <1>3, <2>1, <2>2 DEF BytesOK
<1>6. AskedOK' /\ GoneAsksNothing' /\ ChunkPhase' /\ ChunksAsSent' /\ OverreadPhase'
  <2>1. AskedOK' /\ GoneAsksNothing'
    BY <1>1, <1>2 DEF AskedOK, GoneAsksNothing, NoRead, Read
  <2>2. ChunkPhase'
    BY <1>1, <1>2, <1>3 DEF ChunkPhase
  <2>3. ChunksAsSent'
    BY <1>1, <1>2, <1>3 DEF ChunksAsSent
  <2>4. OverreadPhase'
    BY <1>1, <1>2, <1>3, <1>4 DEF OverreadPhase
  <2> QED
    BY <2>1, <2>2, <2>3, <2>4
<1>7. HeaderPhase'
  <2>1. headerRead \in Nat /\ (Holds(headerRead) => Holds(headerRead)')
    <3>1. PICK n \in Nat : n = headerRead
      BY <1>1 DEF SizesOK
    <3>2. headerRead' = n
      BY <1>2, <3>1
    <3>3. Holds(n) => Holds(n)'
      BY <1>4
    <3> QED
      BY <3>1, <3>2, <3>3 DEF Holds
  <2> QED
    BY <1>1, <1>2, <1>3, <1>4, <2>1 DEF HeaderPhase
<1>8. BodyPhase'
  <2>1. Holds(Header) => Holds(Header)'
    <3>1. PICK n \in Nat : n = Header
      BY <1>1, HeaderSizes
    <3>2. Header' = n
      BY <1>3, <3>1
    <3>3. Holds(n) => Holds(n)'
      BY <1>4
    <3> QED
      BY <3>1, <3>2, <3>3 DEF Holds
  <2> QED
    BY <1>1, <1>2, <1>3, <1>4, <2>1 DEF BodyPhase
<1> QED
  BY <1>3, <1>4, <1>5, <1>6, <1>7, <1>8 DEF ReaderInv

LEMMA FailStep ==
  ASSUME ReaderInv, ReadFails
  PROVE  ReaderInv'
<1>1. /\ PeerOK /\ BytesOK /\ BufferOK /\ SizesOK /\ AskedOK
      /\ OverreadPhase /\ ChunkPhase /\ GoneAsksNothing
      /\ PacketsAsSent /\ ChunksAsSent
  BY DEF ReaderInv
<1>2. /\ UNCHANGED <<peer, peerSent, closed, buffer, headerRead, bodyRead, bodySize, passed>>
      /\ ReadsNoMore /\ taken' = peerSent /\ Arriving = {} /\ asked # NoRead
  BY DEF ReadFails
<1>3. /\ PeerOK' /\ Header' = Header /\ FirstBuffer' = FirstBuffer /\ Framed' = Framed
      /\ Starts' = Starts /\ Total' = Total
      /\ protocol' = protocol /\ body' = body /\ marked' = marked
  BY <1>1, <1>2, PeerStays DEF peer
<1>4. BufferOK' /\ SizesOK' /\ PacketsAsSent' /\ Overread' = Overread
  BY <1>1, <1>2, Untouched
<1>5. BytesOK'
  <2>1. Total \in Nat /\ peerSent \in 0 .. Total /\ closed \in BOOLEAN
    BY <1>1, PacketsInTotal DEF BytesOK
  <2> QED
    BY <1>2, <1>3, <2>1 DEF BytesOK
<1>6. AskedOK' /\ GoneAsksNothing' /\ asked'.handler = "gone"
  BY <1>1, <1>2, GoneIs
<1>7. ChunksAsSent'
  <2>1. CASE Framed
    BY <1>3, <2>1 DEF ChunksAsSent
  <2>2. CASE ~Framed
    <3>1. asked.handler # "gone"
      BY <1>1, <1>2 DEF GoneAsksNothing
    <3>2. asked.op = "some" /\ asked.want = FirstBuffer /\ FirstBuffer >= 1
      BY <1>1, <2>2, <3>1, HeaderSizes DEF ChunkPhase
    <3>3. peerSent = taken
      BY <1>1, <1>2, <3>2, Arrived
    <3> QED
      BY <1>1, <1>2, <1>3, <3>3 DEF ChunksAsSent
  <2> QED
    BY <2>1, <2>2
<1>8. HeaderPhase' /\ BodyPhase' /\ ChunkPhase'
  BY <1>6 DEF HeaderPhase, BodyPhase, ChunkPhase
<1>9. OverreadPhase'
  BY <1>1, <1>2, <1>4, <1>6 DEF OverreadPhase
<1> QED
  BY <1>3, <1>4, <1>5, <1>6, <1>7, <1>8, <1>9 DEF ReaderInv

LEMMA InitReader == ReaderInit => ReaderInv
<1> SUFFICES ASSUME ReaderInit
             PROVE  ReaderInv
  OBVIOUS
<1>1. PeerOK
  BY DEF ReaderInit, PeerOK
<1>2. /\ Header \in Nat /\ FirstBuffer \in Nat \ {0} /\ Packets \in Nat \ {0}
      /\ (Framed => Header >= 6) /\ (protocol = "oscar" => FirstBuffer = Header)
      /\ (protocol = "etf" => Header <= FirstBuffer) /\ (Framed => protocol \in {"oscar", "etf"})
      /\ Total \in Nat /\ SizeT \in Nat /\ Total < SizeT
  BY <1>1, HeaderSizes, PacketsInTotal
<1>3. FirstBuffer < SizeT
  <2>1. CASE protocol = "oscar"
    <3>1. 1 \in 1 .. Packets
      BY <1>2
    <3>2. Starts[1] \in Nat /\ body[1] \in Nat /\ Starts[1] + Header + body[1] <= Total
      BY <1>1, <3>1, PacketsInTotal
    <3> QED
      BY <1>2, <2>1, <3>2
  <2>2. CASE protocol # "oscar"
    <3>1. InBuffer[protocol] \in 1 .. SizeT - 1
      BY <1>1, FrameReaderAssumption DEF PeerOK
    <3> QED
      BY <1>2, <2>2, <3>1 DEF FirstBuffer
  <2> QED
    BY <2>1, <2>2
<1>4. PICK w \in Nat : w = FirstBuffer /\ w >= 1 /\ w < SizeT
  BY <1>2, <1>3
<1>5. asked = [handler |-> "header", op |-> "some", at |-> 0, want |-> w]
  <2>1. w % SizeT = w
    BY ONLY <1>2, <1>4, SmallMod, w \in Nat
  <2> QED
    BY <1>4, <2>1 DEF ReaderInit, Read
<1>6. buffer \in Seq(0 .. Total) /\ Len(buffer) = w
  BY <1>2, <1>4, ZerosAre DEF ReaderInit
<1>7. passed = <<>> /\ taken = 0 /\ peerSent = 0 /\ closed = FALSE /\ headerRead = 0 /\ bodyRead = 0 /\ bodySize = 0
  BY DEF ReaderInit
<1>8. BytesOK /\ BufferOK /\ SizesOK
  <2>1. BytesOK
    <3>1. 0 \in 0 .. Total /\ 0 \in 0 .. 0 /\ FALSE \in BOOLEAN
      BY <1>2
    <3>2. peerSent \in 0 .. Total
      BY <1>7, <3>1
    <3>3. taken \in 0 .. peerSent
      BY <1>7, <3>1
    <3> QED
      BY <1>7, <3>1, <3>2, <3>3 DEF BytesOK
  <2>2. BufferOK
    <3>1. <<>> \in Seq(Seq(0 .. Total))
      OBVIOUS
    <3> QED
      BY <1>6, <1>7, <3>1 DEF BufferOK
  <2>3. SizesOK
    BY <1>2, <1>7 DEF SizesOK
  <2> QED
    BY <2>1, <2>2, <2>3
<1>9. AskedOK /\ GoneAsksNothing
  <2>1. w \in 0 .. SizeT - 1
    BY <1>2, <1>4
  <2> QED
    BY <1>5, <2>1 DEF AskedOK, GoneAsksNothing
<1>10. ~Overread
  BY <1>2, <1>7 DEF Overread
<1>11. HeaderPhase
  <2>1. Current = 1 /\ Starts[1] = 0 /\ Holds(0)
    BY <1>1, <1>4, <1>6, <1>7, StartsAre DEF Current, Holds
  <2>2. asked.at = 0 /\ asked.want = w /\ asked.op = "some" /\ 0 + w <= Len(buffer)
    BY <1>5, <1>6
  <2>3. Framed => 0 < Header /\ w >= Header /\ (w = Header \/ protocol = "etf")
    BY <1>2, <1>4
  <2> QED
    BY <1>4, <1>6, <1>7, <2>1, <2>2, <2>3 DEF HeaderPhase
<1>12. OverreadPhase /\ BodyPhase
  BY <1>5, <1>10 DEF OverreadPhase, BodyPhase
<1>13. ChunkPhase
  BY <1>4, <1>5, <1>6, <1>7 DEF ChunkPhase
<1>14. PacketsAsSent
  BY <1>2, <1>7 DEF PacketsAsSent
<1>15. ChunksAsSent
  <2>1. FlattenSeq(<<>>) = <<>>
    BY DEF FlattenSeq
  <2>2. <<>> = [i \in 1 .. 0 - 0 |-> 0 + i]
    OBVIOUS
  <2>3. 0 \in 0 .. FirstBuffer
    BY <1>2
  <2>4. 0 <= taken /\ FlattenSeq(passed) = [i \in 1 .. taken - 0 |-> 0 + i]
    BY <1>7, <2>1, <2>2
  <2> QED
    BY <2>3, <2>4 DEF ChunksAsSent
<1> QED
  BY <1>1, <1>8, <1>9, <1>11, <1>12, <1>13, <1>14, <1>15 DEF ReaderInv

LEMMA ReaderStep == ReaderInv /\ [ReaderNext]_readerVars => ReaderInv'
BY HeaderStep, DataStep, FirstChunkStep, ChunkStep, FailStep, PeerStep DEF ReaderNext

LEMMA ReaderSafe == ReaderInv => FramingInvariant
<1> SUFFICES ASSUME ReaderInv
             PROVE  FramingInvariant
  OBVIOUS
<1>1. /\ PeerOK /\ BytesOK /\ BufferOK /\ SizesOK /\ AskedOK
      /\ HeaderPhase /\ OverreadPhase /\ BodyPhase /\ ChunkPhase /\ GoneAsksNothing
      /\ PacketsAsSent /\ ChunksAsSent
  BY DEF ReaderInv
<1>2. Header \in Nat /\ FirstBuffer \in Nat /\ Len(buffer) \in Nat /\ SizeT \in Nat /\ 0 < SizeT
  BY <1>1, HeaderSizes, PacketsInTotal DEF BufferOK
<1>3. headerRead \in 0 .. Max({Header, FirstBuffer})
  <2>1. Max({Header, FirstBuffer}) = IF Header <= FirstBuffer THEN FirstBuffer ELSE Header
    BY <1>2 DEF Max
  <2> QED
    BY <1>1, <1>2, <2>1 DEF SizesOK
<1>4. ReaderTypeOK
  BY <1>1, <1>3 DEF ReaderTypeOK, PeerOK, BytesOK, BufferOK, SizesOK, AskedOK
<1>5. ReadsFitBuffer
  <2>1. asked.handler \in {"header", "data", "gone"}
    BY <1>1 DEF AskedOK
  <2>2. CASE asked.handler = "gone"
    <3>1. 0 % SizeT = 0
      BY <1>2, SmallMod
    <3>2. asked.at = 0 /\ asked.want = 0
      BY <1>1, <2>2, <3>1 DEF GoneAsksNothing, NoRead, Read
    <3> QED
      BY <1>2, <3>2 DEF ReadsFitBuffer
  <2>3. CASE asked.handler # "gone" /\ ~Framed
    BY <1>1, <1>2, <2>3 DEF ChunkPhase, ReadsFitBuffer
  <2>4. CASE asked.handler = "header" /\ Framed
    BY <1>1, <2>4 DEF HeaderPhase, ReadsFitBuffer
  <2>5. CASE asked.handler = "data" /\ Framed
    BY <1>1, <2>5 DEF BodyPhase, ReadsFitBuffer
  <2> QED
    BY <2>1, <2>2, <2>3, <2>4, <2>5
<1> QED
  BY <1>1, <1>4, <1>5 DEF FramingInvariant

\* Framing, for every class of client, buffer size and list of packets: what is passed on
\* is the packets, or the bytes, of the peer, and no read is armed beyond the buffer, but
\* for a first ETF read larger than a header.
THEOREM FramesAreKept == ReaderSpec => []FramingInvariant
BY InitReader, ReaderStep, ReaderSafe, PTL DEF ReaderSpec
-----------------------------------------------------------------------------
(* The packets of the log protocol *)

\* What WriteNextMessage builds from: texts are sequences of bytes.
Package(p) == p.command \in Commands /\ \A f \in {"tag", "message"} : Len(p[f]) \in Nat

LEMMA DataSizeNat ==
  ASSUME NEW p, Package(p), NEW f
  PROVE  DataSize(f, p) \in Nat
  BY DEF Package, DataSize

LEMMA TlvParts ==
  ASSUME NEW field, NEW p
  PROVE  Tlv(field, p).bytes = DataSize(field, p) /\ Tlv(field, p).data = p[field]
  BY DEF Tlv

LEMMA SixNaturals ==
  ASSUME NEW a \in Nat, NEW b \in Nat, NEW c \in Nat, NEW d \in Nat, NEW e \in Nat, NEW f \in Nat
  PROVE  LET s == a + b + c + d + e + f
         IN s \in Nat /\ a <= s /\ b <= s /\ c <= s /\ d <= s /\ e <= s /\ f <= s
  OBVIOUS

\* Each term of a sum is at most the sum.
LEMMA TermBounded ==
  ASSUME NEW k \in 0 .. 6, NEW size \in [1 .. k -> Nat], NEW j \in 1 .. k
  PROVE  Sum(k, size) \in Nat /\ size[j] <= Sum(k, size)
<1> DEFINE term == [i \in 1 .. 6 |-> IF i <= k THEN size[i] ELSE 0]
<1>1. Sum(k, size) = term[1] + term[2] + term[3] + term[4] + term[5] + term[6]
  BY DEF Sum
<1>2. term \in [1 .. 6 -> Nat] /\ size[j] = term[j] /\ j \in 1 .. 6
  OBVIOUS
<1> HIDE DEF term
<1>3. term[1] \in Nat /\ term[2] \in Nat /\ term[3] \in Nat /\ term[4] \in Nat /\ term[5] \in Nat /\ term[6] \in Nat
  BY <1>2
<1>4. PICK a, b, c, d, e, f \in Nat :
        a = term[1] /\ b = term[2] /\ c = term[3] /\ d = term[4] /\ e = term[5] /\ f = term[6]
  BY <1>3
<1>5. Sum(k, size) = a + b + c + d + e + f
  BY <1>1, <1>4
<1>6. /\ Sum(k, size) \in Nat
      /\ a <= Sum(k, size) /\ b <= Sum(k, size) /\ c <= Sum(k, size)
      /\ d <= Sum(k, size) /\ e <= Sum(k, size) /\ f <= Sum(k, size)
  BY <1>5, SixNaturals
<1>7. \A i \in 1 .. 6 : i = 1 \/ i = 2 \/ i = 3 \/ i = 4 \/ i = 5 \/ i = 6
  OBVIOUS
<1>8. \A i \in 1 .. 6 : term[i] <= Sum(k, size)
  BY <1>4, <1>6, <1>7
<1> QED
  BY <1>2, <1>6, <1>8

LEMMA FieldsLen ==
  ASSUME NEW c \in Commands
  PROVE  Len(Fields[c]) \in 3 .. 6
  BY DEF Commands, Fields

LEMMA FieldsDistinct ==
  ASSUME NEW c \in Commands, NEW j \in 1 .. Len(Fields[c]), NEW k \in 1 .. Len(Fields[c]),
         Fields[c][j] = Fields[c][k]
  PROVE  j = k
<1>1. CASE c = "eMessage"
  <2>1. Fields[c] = <<"tag", "severity", "message", "lchannel", "sec", "usec">>
    BY <1>1 DEF Fields
  <2> QED
    BY <2>1
<1>2. CASE c = "eChangeFile"
  <2>1. Fields[c] = <<"message", "tag", "lchannel", "sec", "usec">>
    BY <1>2 DEF Fields
  <2> QED
    BY <2>1
<1>3. CASE c = "eStop"
  <2>1. Fields[c] = <<"lchannel", "sec", "usec">>
    BY <1>3 DEF Fields
  <2> QED
    BY <2>1
<1> QED
  BY <1>1, <1>2, <1>3 DEF Commands

\* No size field is cut: each is the size of the data it stands for, the header of the
\* TLV included, and that of the packet is the size of its SNAC.
THEOREM SizesFit ==
  ASSUME NEW p, Package(p), Accepted(p)
  PROVE  /\ Build(p).size = SnacSize(p)
         /\ \A i \in 1 .. Len(Fields[p.command]) :
              LET t == Build(p).tlvs[i]
              IN t.size = t.bytes /\ TlvSize(t) = TlvHeader + t.bytes
<1> DEFINE n == Len(Fields[p.command])
           size == [i \in 1 .. n |-> TlvHeader + DataSize(Fields[p.command][i], p)]
<1>1. n \in 3 .. 6
  BY FieldsLen DEF Package
<1>2. size \in [1 .. n -> Nat]
  BY DataSizeNat DEF TlvHeader
<1>3. SnacSize(p) = SnacHeader + Sum(n, size)
  BY DEF SnacSize
<1>3a. \A i \in 1 .. n : size[i] = TlvHeader + DataSize(Fields[p.command][i], p)
  OBVIOUS
<1>4. Sum(n, size) \in Nat /\ \A i \in 1 .. n : size[i] <= Sum(n, size)
  <2> HIDE DEF n, size
  <2>1. n \in 0 .. 6 /\ 1 \in 1 .. n
    BY <1>1
  <2> QED
    BY <2>1, <1>2, TermBounded
<1>5. SnacSize(p) \in 0 .. Word - 1
  BY <1>3, <1>4, WordAssumption DEF Accepted, SnacHeader
<1>6. Build(p).size = SnacSize(p)
  BY <1>5, WordAssumption DEF Build
<1>7. ASSUME NEW i \in 1 .. n
      PROVE  LET t == Build(p).tlvs[i]
             IN t.size = t.bytes /\ TlvSize(t) = TlvHeader + t.bytes
  <2> DEFINE d == DataSize(Fields[p.command][i], p)
  <2>1. Build(p).tlvs[i] = Tlv(Fields[p.command][i], p)
    BY DEF Build, Stored
  <2>2. d \in Nat /\ TlvHeader + d <= Sum(n, size)
    BY <1>4, <1>3a, DataSizeNat
  <2> HIDE DEF d, n, size
  <2>3. d \in 0 .. Word - 1 /\ TlvHeader + d \in 0 .. Word - 1
    BY <2>2, <1>3, <1>4, <1>5, WordAssumption DEF SnacHeader, TlvHeader
  <2>4. d % Word = d /\ (TlvHeader + d) % Word = TlvHeader + d
    BY <2>3, WordAssumption
  <2> QED
    BY <2>1, <2>4 DEF Tlv, TlvSize, d
<1> QED
  BY <1>6, <1>7

\* What the builder accepts the adaptor gets back, member for member, and its iterator
\* ends exactly at the end of the packet.
THEOREM AcceptedIsReadBack ==
  ASSUME NEW p, Package(p), Accepted(p)
  PROVE  RoundTrip(p)
<1> DEFINE packet == Build(p)
           n == Len(Fields[p.command])
<1>1. n \in 3 .. 6 /\ Len(packet.tlvs) = n
  BY FieldsLen DEF Package, Build, Stored
<1>2. \A i \in 1 .. n : TlvSize(packet.tlvs[i]) = TlvHeader + packet.tlvs[i].bytes
  BY SizesFit
<1>3. \A i \in 1 .. n : packet.tlvs[i] = Tlv(Fields[p.command][i], p)
  BY DEF Build, Stored
<1>4. Place(packet, n) = packet.size - SnacHeader
  <2> DEFINE walked == [i \in 1 .. n |-> TlvSize(packet.tlvs[i])]
             size == [i \in 1 .. n |-> TlvHeader + DataSize(Fields[p.command][i], p)]
  <2>1. walked = size
    <3>1. \A i \in 1 .. n : packet.tlvs[i].bytes = DataSize(Fields[p.command][i], p)
      BY <1>3, TlvParts
    <3> HIDE DEF n, packet
    <3> QED
      BY <3>1, <1>2
  <2>2. packet.size = SnacHeader + Sum(n, size)
    BY SizesFit DEF SnacSize
  <2>3. Sum(n, size) \in Nat
    <3>1. size \in [1 .. n -> Nat]
      BY DataSizeNat DEF TlvHeader
    <3> HIDE DEF n, size
    <3>2. n \in 0 .. 6 /\ 1 \in 1 .. n
      BY <1>1
    <3> QED
      BY <3>1, <3>2, TermBounded
  <2>4. Place(packet, n) = Sum(n, walked)
    BY DEF Place
  <2> HIDE DEF walked, size
  <2> QED
    BY <2>1, <2>2, <2>3, <2>4 DEF SnacHeader
<1>5. Parses(packet)
  BY <1>1, <1>2, <1>4 DEF Parses
<1>6. CommandOf(packet) = p.command /\ Assigned(packet) = Fields[p.command]
  BY DEF Package, Commands, CommandOf, Assigned, Build, Fields
<1>7. ASSUME NEW i \in 1 .. n
      PROVE  ValueOf(packet, Fields[p.command][i]) = p[Fields[p.command][i]]
  <2>1. \A j, k \in 1 .. n : Fields[p.command][j] = Fields[p.command][k] => j = k
    BY FieldsDistinct DEF Package
  <2>2. i = CHOOSE j \in 1 .. Len(Assigned(packet)) : Assigned(packet)[j] = Fields[p.command][i]
    BY <1>6, <2>1
  <2>3. ValueOf(packet, Fields[p.command][i]) = packet.tlvs[i].data
    BY <2>2, <1>6 DEF ValueOf
  <2>4. packet.tlvs[i].data = p[Fields[p.command][i]]
    BY <1>3, TlvParts
  <2> QED
    BY <2>3, <2>4
<1> QED
  BY <1>5, <1>6, <1>7 DEF RoundTrip

LEMMA BuiltSizes ==
  ASSUME NEW S, NEW tag \in Seq(S), NEW text \in Seq(S)
  PROVE  /\ Len(BuiltTag(tag)) = TagSize
         /\ Len(BuiltMessage(text)) \in 0 .. MaxMessageSize
<1> DEFINE fill == [i \in 1 .. TagSize |-> Blank]
           T == S \union {Blank}
<1>1. TagSize \in Nat /\ MaxMessageSize \in Nat
  BY LogBuilderAssumption
<1>2. fill \in Seq(T) /\ Len(fill) = TagSize /\ tag \in Seq(T)
  BY <1>1
<1> HIDE DEF fill, T
<1>3. tag \o fill \in Seq(T) /\ Len(tag \o fill) = Len(tag) + TagSize
  BY <1>2
<1>4. Len(SubSeq(tag \o fill, 1, TagSize)) = TagSize
  BY <1>1, <1>3
<1>5. Len(BuiltTag(tag)) = TagSize
  BY <1>4 DEF BuiltTag, fill
<1>6. Len(BuiltMessage(text)) \in 0 .. MaxMessageSize
  BY <1>1 DEF BuiltMessage
<1> QED
  BY <1>5, <1>6

\* A package that comes from a LOG_ macro is never too long for its SNAC, as long as the
\* sizes of the configuration leave room for 52 bytes of headers and fixed members: no
\* text a program logs makes WriteNextMessage throw (logbuilder.cpp:24-46, snac.h:79).
THEOREM BuiltIsAccepted ==
  ASSUME NEW S, NEW tag \in Seq(S), NEW text \in Seq(S), NEW p,
         p.command = "eMessage", p.tag = BuiltTag(tag), p.message = BuiltMessage(text),
         TagSize + MaxMessageSize + 52 < Word
  PROVE  Accepted(p)
<1> DEFINE fields == Fields["eMessage"]
           size == [i \in 1 .. Len(fields) |-> TlvHeader + DataSize(fields[i], p)]
<1>1. fields = <<"tag", "severity", "message", "lchannel", "sec", "usec">> /\ Len(fields) = 6
  BY DEF Fields
<1>2. PICK m \in 0 .. MaxMessageSize : Len(p.message) = m
  BY BuiltSizes
<1>3. Len(p.tag) = TagSize
  BY BuiltSizes
<1>4. /\ size[1] = 4 + TagSize /\ size[2] = 5 /\ size[3] = 4 + m
      /\ size[4] = 5 /\ size[5] = 12 /\ size[6] = 12
  BY <1>1, <1>2, <1>3, SMTT(30) DEF DataSize, TlvHeader
<1>5. SnacSize(p) = SnacHeader + Sum(6, size)
  <2>1. SnacSize(p) = SnacHeader + Sum(Len(fields), size)
    BY ONLY p.command = "eMessage" DEF SnacSize
  <2> QED
    BY ONLY <1>1, <2>1
<1> HIDE DEF size, fields
<1>6. Sum(6, size) = (4 + TagSize) + 5 + (4 + m) + 5 + 12 + 12
  BY <1>4 DEF Sum
<1> QED
  BY <1>2, <1>5, <1>6, WordAssumption, LogBuilderAssumption DEF Accepted, SnacHeader
-----------------------------------------------------------------------------
(* Sequences that are joined *)

\* What holds of 0, and of every number after one it holds of, holds up to n.
LEMMA FromZero ==
  ASSUME NEW n \in Nat, NEW T, 0 \in T, \A k \in 0 .. n - 1 : k \in T => k + 1 \in T
  PROVE  n \in T
<1> DEFINE U == {k \in 1 .. n : k \in T}
<1>1. n # 0 => 1 \in U
  <2>1. n # 0 => 0 \in 0 .. n - 1 /\ 0 + 1 = 1 /\ 1 \in 1 .. n
    OBVIOUS
  <2> QED
    BY <2>1
<1>2. \A k \in 1 .. n - 1 : k \in U => k + 1 \in U
  <2>1. \A k \in 1 .. n - 1 : k \in 0 .. n - 1 /\ k + 1 \in 1 .. n
    OBVIOUS
  <2> QED
    BY <2>1
<1>3. 1 .. n \subseteq U
  <2> HIDE DEF U
  <2> QED
    BY <1>1, <1>2, UpTo
<1>4. n = 0 \/ n \in 1 .. n
  OBVIOUS
<1> QED
  BY <1>3, <1>4

LEMMA FlattenType ==
  ASSUME NEW S, NEW s \in Seq(Seq(S))
  PROVE  FlattenSeq(s) \in Seq(S)
<1>1. <<>> \in Seq(S)
  OBVIOUS
<1> QED
  BY <1>1, FlattenAppend

\* The first k + 1 elements are the first k and one more.
LEMMA OneMore ==
  ASSUME NEW S, NEW s \in Seq(S), NEW k \in 0 .. Len(s) - 1
  PROVE  /\ SubSeq(s, 1, k) \in Seq(S) /\ s[k + 1] \in S /\ k + 1 \in 1 .. Len(s)
         /\ SubSeq(s, 1, k + 1) = Append(SubSeq(s, 1, k), s[k + 1])
<1>1. k \in Nat /\ Len(s) \in Nat /\ k + 1 \in 1 .. Len(s)
  OBVIOUS
<1>2. s[k + 1] \in S
  BY <1>1
<1>3. SubSeq(s, 1, k) \in Seq(S) /\ Len(SubSeq(s, 1, k)) = k /\ \A i \in 1 .. k : SubSeq(s, 1, k)[i] = s[i]
  BY <1>1
<1>4. SubSeq(s, 1, k + 1) \in Seq(S) /\ Len(SubSeq(s, 1, k + 1)) = k + 1
      /\ \A i \in 1 .. k + 1 : SubSeq(s, 1, k + 1)[i] = s[i]
  BY <1>1
<1>5. PICK a \in Seq(S), b \in Seq(S) : a = SubSeq(s, 1, k) /\ b = SubSeq(s, 1, k + 1)
  BY <1>3, <1>4
<1>6. Append(a, s[k + 1]) \in Seq(S) /\ Len(Append(a, s[k + 1])) = k + 1
  BY <1>2, <1>3, <1>5, AppendProperties
<1>7. \A i \in 1 .. k + 1 : b[i] = Append(a, s[k + 1])[i]
  <2> SUFFICES ASSUME NEW i \in 1 .. k + 1
               PROVE  b[i] = Append(a, s[k + 1])[i]
    OBVIOUS
  <2>1. CASE i = k + 1
    BY <1>2, <1>3, <1>4, <1>5, <2>1, AppendProperties
  <2>2. CASE i # k + 1
    <3>1. i \in 1 .. k
      BY <1>1, <2>2
    <3> QED
      BY <1>2, <1>3, <1>4, <1>5, <3>1, AppendProperties
  <2> QED
    BY <2>1, <2>2
<1>8. b = Append(a, s[k + 1])
  BY <1>4, <1>5, <1>6, <1>7, SeqEqual
<1> QED
  BY <1>1, <1>2, <1>3, <1>5, <1>8

LEMMA WholeIs ==
  ASSUME NEW S, NEW s \in Seq(S)
  PROVE  Len(s) \in Nat /\ SubSeq(s, 1, Len(s)) = s /\ SubSeq(s, 1, 0) = <<>>
<1>1. Len(s) \in Nat
  OBVIOUS
<1>2. SubSeq(s, 1, Len(s)) \in Seq(S) /\ Len(SubSeq(s, 1, Len(s))) = Len(s)
      /\ \A i \in 1 .. Len(s) : SubSeq(s, 1, Len(s))[i] = s[i]
  BY <1>1
<1>3. SubSeq(s, 1, Len(s)) = s
  BY <1>1, <1>2, SeqEqual
<1> QED
  BY <1>1, <1>3

LEMMA ConcatAt ==
  ASSUME NEW S, NEW x \in Seq(S), NEW y \in Seq(S)
  PROVE  /\ x \o y \in Seq(S) /\ Len(x) \in Nat /\ Len(y) \in Nat /\ Len(x \o y) = Len(x) + Len(y)
         /\ \A i \in 1 .. Len(x) : (x \o y)[i] = x[i]
         /\ \A i \in 1 .. Len(y) : (x \o y)[Len(x) + i] = y[i]
<1>1. PICK m \in Nat, n \in Nat : m = Len(x) /\ n = Len(y)
  OBVIOUS
<1>2. x \o y \in Seq(S) /\ Len(x \o y) = m + n
      /\ \A i \in 1 .. m + n : (x \o y)[i] = IF i <= m THEN x[i] ELSE y[i - m]
  <2>1. x \o y \in Seq(S) /\ Len(x \o y) = m + n
    BY <1>1, ConcatProperties
  <2>2. \A i \in 1 .. m + n : (x \o y)[i] = IF i <= m THEN x[i] ELSE y[i - m]
    BY <1>1, ConcatProperties
  <2> QED
    BY <2>1, <2>2
<1>3. \A i \in 1 .. m : i \in 1 .. m + n /\ i <= m
  OBVIOUS
<1>4. \A i \in 1 .. n : m + i \in 1 .. m + n /\ ~(m + i <= m) /\ (m + i) - m = i
  OBVIOUS
<1>5. (\A i \in 1 .. m : (x \o y)[i] = x[i]) /\ \A i \in 1 .. n : (x \o y)[m + i] = y[i]
  BY <1>2, <1>3, <1>4
<1> QED
  BY <1>1, <1>2, <1>5

LEMMA ConcatIs ==
  ASSUME NEW S, NEW x \in Seq(S), NEW y \in Seq(S), NEW z \in Seq(S), Len(z) = Len(x) + Len(y),
         \A i \in 1 .. Len(x) : z[i] = x[i], \A i \in 1 .. Len(y) : z[Len(x) + i] = y[i]
  PROVE  z = x \o y
<1>1. PICK m \in Nat, n \in Nat : m = Len(x) /\ n = Len(y)
  OBVIOUS
<1>2. PICK w \in Seq(S) : /\ w = x \o y /\ Len(w) = m + n
                          /\ (\A i \in 1 .. m : w[i] = x[i]) /\ \A i \in 1 .. n : w[m + i] = y[i]
  <2>1. x \o y \in Seq(S) /\ Len(x \o y) = Len(x) + Len(y)
    BY ConcatAt
  <2>2. (\A i \in 1 .. Len(x) : (x \o y)[i] = x[i]) /\ \A i \in 1 .. Len(y) : (x \o y)[Len(x) + i] = y[i]
    BY ConcatAt
  <2> QED
    BY ONLY <1>1, <2>1, <2>2
<1>3. ASSUME NEW i \in 1 .. m + n
      PROVE  z[i] = w[i]
  <2>1. CASE i <= m
    <3>1. i \in 1 .. m
      BY <2>1
    <3> QED
      BY <1>1, <1>2, <3>1
  <2>2. CASE ~(i <= m)
    <3>1. PICK j \in 1 .. n : i = m + j
      BY <2>2
    <3> QED
      BY <1>1, <1>2, <3>1
  <2> QED
    BY <2>1, <2>2
<1>4. z = w
  BY <1>1, <1>2, <1>3, SeqEqual
<1> QED
  BY <1>2, <1>4

\* What is joined piece by piece is joined as a whole.
LEMMA FlattenConcat ==
  ASSUME NEW S, NEW a \in Seq(Seq(S)), NEW b \in Seq(Seq(S))
  PROVE  FlattenSeq(a \o b) = FlattenSeq(a) \o FlattenSeq(b)
<1>1. PICK n \in Nat : n = Len(b)
  OBVIOUS
<1> DEFINE T == {k \in 0 .. n : FlattenSeq(a \o SubSeq(b, 1, k)) = FlattenSeq(a) \o FlattenSeq(SubSeq(b, 1, k))}
<1>2. 0 \in T
  <2>1. SubSeq(b, 1, 0) = <<>> /\ a \o <<>> = a /\ FlattenSeq(<<>>) = <<>>
    BY WholeIs DEF FlattenSeq
  <2>2. FlattenSeq(a) \o <<>> = FlattenSeq(a)
    BY FlattenType
  <2>3. FlattenSeq(a \o SubSeq(b, 1, 0)) = FlattenSeq(a) \o FlattenSeq(SubSeq(b, 1, 0))
    BY <2>1, <2>2
  <2>4. 0 \in 0 .. n
    OBVIOUS
  <2> QED
    BY <2>3, <2>4
<1>3. ASSUME NEW k \in 0 .. n - 1, k \in T
      PROVE  k + 1 \in T
  <2>1. PICK p \in Seq(Seq(S)), x \in Seq(S) : p = SubSeq(b, 1, k) /\ x = b[k + 1] /\ SubSeq(b, 1, k + 1) = Append(p, x)
    BY <1>1, OneMore
  <2>2. a \o Append(p, x) = Append(a \o p, x) /\ a \o p \in Seq(Seq(S))
    <3>1. a \o p \in Seq(Seq(S))
      BY ConcatProperties
    <3> QED
      BY <3>1
  <2>3. FlattenSeq(a \o Append(p, x)) = FlattenSeq(a \o p) \o x /\ FlattenSeq(Append(p, x)) = FlattenSeq(p) \o x
    BY <2>2, FlattenAppend
  <2>4. PICK f \in Seq(S), g \in Seq(S) : f = FlattenSeq(a) /\ g = FlattenSeq(p)
    BY FlattenType
  <2>5. FlattenSeq(a \o p) = f \o g
    BY <1>3, <2>1, <2>4
  <2>6. (f \o g) \o x = f \o (g \o x)
    OBVIOUS
  <2>7. FlattenSeq(a \o SubSeq(b, 1, k + 1)) = FlattenSeq(a) \o FlattenSeq(SubSeq(b, 1, k + 1))
    BY <2>1, <2>3, <2>4, <2>5, <2>6
  <2>8. k + 1 \in 0 .. n
    OBVIOUS
  <2> QED
    BY <2>7, <2>8
<1>4. n \in T
  <2> HIDE DEF T
  <2> QED
    BY <1>2, <1>3, FromZero
<1> QED
  BY <1>1, <1>4, WholeIs

\* Nothing joined is nothing.
LEMMA FlattenNothing ==
  ASSUME NEW S, NEW a \in Seq(Seq(S)), \A i \in 1 .. Len(a) : a[i] = <<>>
  PROVE  FlattenSeq(a) = <<>>
<1>1. PICK n \in Nat : n = Len(a)
  OBVIOUS
<1> DEFINE T == {k \in 0 .. n : FlattenSeq(SubSeq(a, 1, k)) = <<>>}
<1>2. 0 \in T
  BY WholeIs DEF FlattenSeq
<1>3. ASSUME NEW k \in 0 .. n - 1, k \in T
      PROVE  k + 1 \in T
  <2>1. PICK p \in Seq(Seq(S)), x \in Seq(S) : p = SubSeq(a, 1, k) /\ x = a[k + 1] /\ SubSeq(a, 1, k + 1) = Append(p, x)
    BY <1>1, OneMore
  <2>2. x = <<>> /\ k + 1 \in 0 .. n
    BY <1>1, <2>1
  <2>3. FlattenSeq(Append(p, x)) = <<>> \o <<>>
    BY <1>3, <2>1, <2>2, FlattenAppend, ZenonT(60)
  <2>4. <<>> \o <<>> = <<>>
    BY ONLY <<>> \in Seq({}), ConcatEmptySeq
  <2>5. FlattenSeq(SubSeq(a, 1, k + 1)) = <<>>
    BY <2>1, <2>3, <2>4
  <2> QED
    BY <2>2, <2>5
<1>4. n \in T
  <2> HIDE DEF T
  <2> QED
    BY <1>2, <1>3, FromZero
<1> QED
  BY <1>1, <1>4, WholeIs

\* The texts of what is joined are the texts of the pieces, joined.
TextsOf(s) == [i \in DOMAIN s |-> s[i].text]

LEMMA TextsConcat ==
  ASSUME NEW S, NEW x \in Seq(S), NEW y \in Seq(S)
  PROVE  /\ TextsOf(x) \in Seq({r.text : r \in S}) /\ Len(TextsOf(x)) = Len(x)
         /\ TextsOf(x \o y) = TextsOf(x) \o TextsOf(y)
<1> DEFINE U == {r.text : r \in S}
<1>1. ASSUME NEW z \in Seq(S)
      PROVE  TextsOf(z) \in Seq(U) /\ Len(TextsOf(z)) = Len(z) /\ \A i \in 1 .. Len(z) : TextsOf(z)[i] = z[i].text
  <2>1. PICK n \in Nat : n = Len(z) /\ DOMAIN z = 1 .. n
    OBVIOUS
  <2>2. \A i \in 1 .. n : z[i] \in S
    BY <2>1
  <2>3. TextsOf(z) = [i \in 1 .. n |-> z[i].text]
    BY <2>1 DEF TextsOf
  <2>4. TextsOf(z) \in [1 .. n -> U]
    BY <2>2, <2>3
  <2> HIDE DEF U
  <2> QED
    BY <2>1, <2>3, <2>4
<1>2. PICK m \in Nat, n \in Nat : m = Len(x) /\ n = Len(y)
  OBVIOUS
<1>3. PICK z \in Seq(S) : /\ z = x \o y /\ Len(z) = m + n
                          /\ (\A i \in 1 .. m : z[i] = x[i]) /\ \A i \in 1 .. n : z[m + i] = y[i]
  <2>1. x \o y \in Seq(S) /\ Len(x \o y) = Len(x) + Len(y)
    BY ConcatAt
  <2>2. (\A i \in 1 .. Len(x) : (x \o y)[i] = x[i]) /\ \A i \in 1 .. Len(y) : (x \o y)[Len(x) + i] = y[i]
    BY ConcatAt
  <2> QED
    BY ONLY <1>2, <2>1, <2>2
<1>4. PICK v \in Seq(U), w \in Seq(U), u \in Seq(U) : v = TextsOf(x) /\ w = TextsOf(y) /\ u = TextsOf(z)
  <2> HIDE DEF U
  <2> QED
    BY <1>1
<1> HIDE DEF U
<1>5. Len(v) = m /\ Len(w) = n /\ (\A i \in 1 .. m : v[i] = x[i].text) /\ (\A i \in 1 .. n : w[i] = y[i].text)
  BY <1>1, <1>2, <1>4
<1>6. Len(u) = m + n /\ \A i \in 1 .. m + n : u[i] = z[i].text
  BY <1>1, <1>3, <1>4
<1>7. ASSUME NEW i \in 1 .. m
      PROVE  u[i] = v[i]
  <2>1. i \in 1 .. m + n
    OBVIOUS
  <2>2. u[i] = z[i].text /\ z[i] = x[i] /\ v[i] = x[i].text
    BY <1>3, <1>5, <1>6, <2>1
  <2> QED
    BY <2>2
<1>8. ASSUME NEW i \in 1 .. n
      PROVE  u[m + i] = w[i]
  <2>1. m + i \in 1 .. m + n
    OBVIOUS
  <2>2. u[m + i] = z[m + i].text /\ z[m + i] = y[i] /\ w[i] = y[i].text
    BY <1>3, <1>5, <1>6, <2>1
  <2> QED
    BY <2>2
<1>9. u = v \o w
  BY <1>5, <1>6, <1>7, <1>8, ConcatIs
<1> QED
  BY <1>1, <1>3, <1>4, <1>9 DEF U

LEMMA TextsJoined ==
  ASSUME NEW S, NEW U, NEW a \in Seq(Seq(S)), NEW b \in Seq(Seq(U)), Len(a) = Len(b),
         \A i \in 1 .. Len(a) : b[i] = TextsOf(a[i])
  PROVE  FlattenSeq(b) = TextsOf(FlattenSeq(a))
<1>1. PICK n \in Nat : n = Len(a) /\ n = Len(b)
  OBVIOUS
<1> DEFINE T == {k \in 0 .. n : FlattenSeq(SubSeq(b, 1, k)) = TextsOf(FlattenSeq(SubSeq(a, 1, k)))}
<1>2. 0 \in T
  <2>1. SubSeq(a, 1, 0) = <<>> /\ SubSeq(b, 1, 0) = <<>> /\ FlattenSeq(<<>>) = <<>>
    BY WholeIs DEF FlattenSeq
  <2>2. TextsOf(<<>>) = <<>>
    BY DEF TextsOf
  <2>3. 0 \in 0 .. n
    OBVIOUS
  <2> QED
    BY <2>1, <2>2, <2>3
<1>3. ASSUME NEW k \in 0 .. n - 1, k \in T
      PROVE  k + 1 \in T
  <2>0. k \in 0 .. Len(a) - 1 /\ k \in 0 .. Len(b) - 1
    BY <1>1
  <2>1. PICK p \in Seq(Seq(S)), x \in Seq(S) : p = SubSeq(a, 1, k) /\ x = a[k + 1] /\ SubSeq(a, 1, k + 1) = Append(p, x)
    BY ONLY a \in Seq(Seq(S)), <2>0, OneMore
  <2>2. PICK q \in Seq(Seq(U)), y \in Seq(U) : q = SubSeq(b, 1, k) /\ y = b[k + 1] /\ SubSeq(b, 1, k + 1) = Append(q, y)
    BY <2>0, OneMore
  <2>3. k + 1 \in 0 .. n /\ k + 1 \in 1 .. n
    OBVIOUS
  <2>4. y = TextsOf(x)
    BY <1>1, <2>1, <2>2, <2>3
  <2>5. FlattenSeq(Append(p, x)) = FlattenSeq(p) \o x /\ FlattenSeq(Append(q, y)) = FlattenSeq(q) \o y
    BY FlattenAppend
  <2>6. TextsOf(FlattenSeq(p) \o x) = TextsOf(FlattenSeq(p)) \o TextsOf(x)
    <3>1. FlattenSeq(p) \in Seq(S)
      BY FlattenType
    <3> QED
      BY <3>1, TextsConcat
  <2>7. FlattenSeq(SubSeq(b, 1, k + 1)) = TextsOf(FlattenSeq(SubSeq(a, 1, k + 1)))
    BY <1>3, <2>1, <2>2, <2>4, <2>5, <2>6
  <2> QED
    BY <2>3, <2>7
<1>4. n \in T
  <2> HIDE DEF T
  <2> QED
    BY <1>2, <1>3, FromZero
<1> QED
  BY <1>1, <1>4, WholeIs
-----------------------------------------------------------------------------
(* Lines *)

LEMMA GreatestNatural ==
  ASSUME NEW n \in Nat, NEW T \in SUBSET (0 .. n), T # {}
  PROVE  \E x \in T : \A y \in T : y <= x
<1> DEFINE U == {n - x : x \in T}
<1>1. U \in SUBSET Nat /\ U # {}
  OBVIOUS
<1>2. PICK u \in U : \A v \in U : u <= v
  <2> HIDE DEF U
  <2> QED
    BY <1>1, LeastNatural
<1>3. PICK x \in T : u = n - x
  BY <1>2
<1>4. ASSUME NEW y \in T
      PROVE  y <= x
  <2>1. n - y \in U
    OBVIOUS
  <2>2. n - x <= n - y
    BY <1>2, <1>3, <2>1
  <2>3. x \in Int /\ y \in Int
    OBVIOUS
  <2> QED
    BY <2>2, <2>3
<1> QED
  BY <1>4

\* A line begins behind the last break before it.
LEMMA BeginOnly ==
  ASSUME NEW s \in Seq(Bytes), NEW i \in Nat, NEW b \in Nat \ {0}, b = 1 \/ (b - 1 \in Breaks(s) /\ b - 1 < i),
         \A j \in Breaks(s) : j < i => j < b
  PROVE  Begin(s, i) = b
<1> DEFINE M == {0} \cup {j \in Breaks(s) : j < i}
<1>1. Breaks(s) \subseteq Nat
  BY DEF Breaks
<1>2. b - 1 \in M /\ \A y \in M : y \in Nat /\ b - 1 >= y
  BY <1>1
<1> HIDE DEF M
<1>3. Max(M) = b - 1
  <2>1. \A x \in M : (\A y \in M : x >= y) => x = b - 1
    BY <1>2
  <2> QED
    BY <1>2, <2>1 DEF Max
<1>4. Begin(s, i) = Max(M) + 1
  BY DEF Begin, M
<1> QED
  BY <1>3, <1>4

LEMMA BeginIs ==
  ASSUME NEW s \in Seq(Bytes), NEW i \in Nat \ {0}
  PROVE  /\ Begin(s, i) \in 1 .. i
         /\ Begin(s, i) = 1 \/ (Begin(s, i) - 1 \in Breaks(s) /\ Begin(s, i) - 1 < i)
         /\ \A j \in Breaks(s) : j < i => j < Begin(s, i)
<1> DEFINE M == {0} \cup {j \in Breaks(s) : j < i}
<1>1. Breaks(s) \subseteq Nat
  BY DEF Breaks
<1>2. M \in SUBSET (0 .. i) /\ M # {}
  BY <1>1
<1>3. PICK x \in M : \A y \in M : y <= x
  <2> HIDE DEF M
  <2> QED
    BY <1>2, GreatestNatural
<1>4. x \in Nat /\ (x = 0 \/ (x \in Breaks(s) /\ x < i))
  BY <1>1
<1>5. \A j \in Breaks(s) : j < i => j < x + 1
  BY <1>1, <1>3, <1>4
<1>6. Begin(s, i) = x + 1
  <2>1. x + 1 \in Nat \ {0} /\ (x + 1) - 1 = x
    BY <1>4
  <2>2. x + 1 = 1 \/ ((x + 1) - 1 \in Breaks(s) /\ (x + 1) - 1 < i)
    BY <1>4, <2>1
  <2> QED
    BY <1>5, <2>1, <2>2, BeginOnly
<1> QED
  BY <1>4, <1>5, <1>6

LEMMA TrimmedIs ==
  ASSUME NEW s \in Seq(Bytes)
  PROVE  Trimmed(s) \in Seq(Bytes) /\ (Trimmed(s) # <<>> => Len(s) >= 1 /\ Trimmed(s)[1] = s[1])
<1> DEFINE kept == {i \in DOMAIN s : s[i].char \notin {LF, Blank}}
<1>1. PICK n \in Nat : n = Len(s) /\ DOMAIN s = 1 .. n
  OBVIOUS
<1>2. CASE kept = {}
  <2>1. Trimmed(s) = <<>>
    BY <1>2 DEF Trimmed
  <2> QED
    BY <2>1
<1>3. CASE kept # {}
  <2>1. kept \in SUBSET (0 .. n)
    BY <1>1
  <2>2. \E i \in kept : \A j \in kept : j <= i
    <3> HIDE DEF kept
    <3> QED
      BY <1>3, <2>1, GreatestNatural
  <2>3. PICK m \in kept : m = CHOOSE i \in kept : \A j \in kept : j <= i
    BY <2>2
  <2>4. Trimmed(s) = SubSeq(s, 1, m) /\ m \in 1 .. n
    BY <1>1, <1>3, <2>3 DEF Trimmed
  <2>5. SubSeq(s, 1, m) \in Seq(Bytes) /\ SubSeq(s, 1, m)[1] = s[1]
    <3>1. \A i \in 1 .. m : s[i] \in Bytes
      BY <1>1, <2>4
    <3>2. 1 \in 1 .. m - 1 + 1
      BY <2>4
    <3>3. SubSeq(s, 1, m) \in Seq(Bytes) /\ \A i \in 1 .. m - 1 + 1 : SubSeq(s, 1, m)[i] = s[1 + i - 1]
      BY ONLY <2>4, <3>1, SubSeqProperties, n \in Nat
    <3> QED
      BY <3>2, <3>3
  <2> QED
    BY <1>1, <2>4, <2>5
<1> QED
  BY <1>2, <1>3

\* A part of a sequence.
LEMMA PartIs ==
  ASSUME NEW S, NEW s \in Seq(S), NEW a \in Nat \ {0}, NEW b \in Nat, a <= b + 1, b <= Len(s)
  PROVE  /\ SubSeq(s, a, b) \in Seq(S) /\ Len(SubSeq(s, a, b)) = b - a + 1
         /\ \A i \in 1 .. b - a + 1 : SubSeq(s, a, b)[i] = s[a + i - 1]
<1>1. PICK n \in Nat : n = Len(s) /\ \A i \in 1 .. n : s[i] \in S
  OBVIOUS
<1>2. \A i \in a .. b : s[i] \in S
  BY <1>1
<1>3. SubSeq(s, a, b) \in Seq(S) /\ Len(SubSeq(s, a, b)) = (IF a <= b THEN b - a + 1 ELSE 0)
      /\ \A i \in 1 .. b - a + 1 : SubSeq(s, a, b)[i] = s[a + i - 1]
  BY ONLY <1>2, SubSeqProperties, a \in Nat \ {0}, b \in Nat
<1>4. (IF a <= b THEN b - a + 1 ELSE 0) = b - a + 1
  OBVIOUS
<1> QED
  BY <1>3, <1>4

LEMMA LineToIs ==
  ASSUME NEW s \in Seq(Bytes), NEW i \in 1 .. Len(s)
  PROVE  LineTo(s, i) \in Seq(Bytes) /\ (LineTo(s, i) # <<>> => LineTo(s, i)[1] = s[Begin(s, i)])
<1>1. PICK b \in 1 .. i : b = Begin(s, i)
  BY BeginIs
<1>2. PICK part \in Seq(Bytes) : part = SubSeq(s, b, i) /\ part[1] = s[b]
  <2>1. b \in Nat \ {0} /\ i \in Nat /\ b <= i + 1 /\ i <= Len(s) /\ 1 \in 1 .. i - b + 1 /\ b + 1 - 1 = b
    BY <1>1
  <2>2. SubSeq(s, b, i) \in Seq(Bytes)
    BY <2>1, PartIs
  <2>3. \A j \in 1 .. i - b + 1 : SubSeq(s, b, i)[j] = s[b + j - 1]
    BY <2>1, PartIs
  <2> QED
    BY ONLY <2>1, <2>2, <2>3
<1>3. LineTo(s, i) = Trimmed(part)
  BY <1>1, <1>2 DEF LineTo
<1> QED
  BY <1>1, <1>2, <1>3, TrimmedIs

\* Behind what follows nothing changes.
LEMMA LinePrefix ==
  ASSUME NEW p \in Seq(Bytes), NEW t \in Seq(Bytes), NEW i \in 1 .. Len(p)
  PROVE  LineTo(p \o t, i) = LineTo(p, i) /\ (EndsLine(p \o t, i) <=> EndsLine(p, i))
<1>1. PICK m \in Nat, n \in Nat : m = Len(p) /\ n = Len(t)
  OBVIOUS
<1>2. PICK z \in Seq(Bytes) : z = p \o t /\ Len(z) = m + n /\ \A j \in 1 .. m : z[j] = p[j]
  <2>1. p \o t \in Seq(Bytes) /\ Len(p \o t) = Len(p) + Len(t)
    BY ConcatAt
  <2>2. \A j \in 1 .. Len(p) : (p \o t)[j] = p[j]
    BY ConcatAt
  <2> QED
    BY ONLY <1>1, <2>1, <2>2
<1>3. PICK b \in 1 .. i : b = Begin(p, i)
  BY BeginIs, SMTT(30)
<1>4. DOMAIN p = 1 .. m /\ DOMAIN z = 1 .. m + n
  BY ONLY <1>1, <1>2, p \in Seq(Bytes), z \in Seq(Bytes)
<1>5. \A j \in Nat : j < i => (j \in Breaks(z) <=> j \in Breaks(p))
  BY <1>1, <1>2, <1>4 DEF Breaks
<1>6. Begin(z, i) = b
  <2>1. /\ b = 1 \/ (b - 1 \in Breaks(p) /\ b - 1 < i)
        /\ \A j \in Breaks(p) : j < i => j < b
    <3>1. i \in Nat \ {0}
      BY <1>1
    <3>2. /\ Begin(p, i) = 1 \/ (Begin(p, i) - 1 \in Breaks(p) /\ Begin(p, i) - 1 < i)
          /\ \A j \in Breaks(p) : j < i => j < Begin(p, i)
      BY <3>1, BeginIs
    <3> QED
      BY <1>3, <3>2
  <2>2. b \in Nat \ {0} /\ i \in Nat /\ b - 1 \in Nat
    BY <1>3
  <2>3. \A j \in Breaks(z) : j \in Nat
    BY <1>4 DEF Breaks
  <2>4. b = 1 \/ (b - 1 \in Breaks(z) /\ b - 1 < i)
    BY <1>5, <2>1, <2>2
  <2>5. \A j \in Breaks(z) : j < i => j < b
    BY <1>5, <2>1, <2>3
  <2> QED
    BY <2>2, <2>4, <2>5, BeginOnly
<1>7. SubSeq(z, b, i) = SubSeq(p, b, i)
  <2>1. b \in Nat \ {0} /\ i \in Nat /\ b <= i + 1 /\ i <= Len(p) /\ i <= Len(z)
    BY <1>1, <1>2
  <2>2. PICK v \in Seq(Bytes), w \in Seq(Bytes) :
          /\ v = SubSeq(z, b, i) /\ Len(v) = i - b + 1 /\ \A j \in 1 .. i - b + 1 : v[j] = z[b + j - 1]
          /\ w = SubSeq(p, b, i) /\ Len(w) = i - b + 1 /\ \A j \in 1 .. i - b + 1 : w[j] = p[b + j - 1]
    <3>1. /\ SubSeq(z, b, i) \in Seq(Bytes) /\ Len(SubSeq(z, b, i)) = i - b + 1
          /\ SubSeq(p, b, i) \in Seq(Bytes) /\ Len(SubSeq(p, b, i)) = i - b + 1
      BY <2>1, PartIs
    <3>2. \A j \in 1 .. i - b + 1 : SubSeq(z, b, i)[j] = z[b + j - 1]
      BY <2>1, PartIs
    <3>3. \A j \in 1 .. i - b + 1 : SubSeq(p, b, i)[j] = p[b + j - 1]
      BY <2>1, PartIs
    <3> QED
      BY ONLY <3>1, <3>2, <3>3
  <2>3. \A j \in 1 .. i - b + 1 : b + j - 1 \in 1 .. m
    BY <1>1
  <2>4. v = w
    BY <1>2, <2>2, <2>3, SeqEqual
  <2> QED
    BY <2>2, <2>4
<1>8. z[i] = p[i]
  BY <1>1, <1>2
<1> QED
  BY <1>2, <1>3, <1>6, <1>7, <1>8 DEF LineTo, EndsLine

\* Behind a break the lines are those of the rest.
LEMMA LineShift ==
  ASSUME NEW p \in Seq(Bytes), NEW t \in Seq(Bytes), p = <<>> \/ p[Len(p)].char = LF, NEW i \in 1 .. Len(t)
  PROVE  LineTo(p \o t, Len(p) + i) = LineTo(t, i) /\ (EndsLine(p \o t, Len(p) + i) <=> EndsLine(t, i))
<1>1. PICK m \in Nat, n \in Nat : m = Len(p) /\ n = Len(t)
  OBVIOUS
<1>2. PICK z \in Seq(Bytes) : /\ z = p \o t /\ Len(z) = m + n
                              /\ (\A j \in 1 .. m : z[j] = p[j]) /\ \A j \in 1 .. n : z[m + j] = t[j]
  <2>1. p \o t \in Seq(Bytes) /\ Len(p \o t) = Len(p) + Len(t)
    BY ConcatAt
  <2>2. (\A j \in 1 .. Len(p) : (p \o t)[j] = p[j]) /\ \A j \in 1 .. Len(t) : (p \o t)[Len(p) + j] = t[j]
    BY ConcatAt
  <2> QED
    BY ONLY <1>1, <2>1, <2>2
<1>3. PICK b \in 1 .. i : b = Begin(t, i)
  BY BeginIs, SMTT(30)
<1>4. DOMAIN t = 1 .. n /\ DOMAIN z = 1 .. m + n
  BY ONLY <1>1, <1>2, t \in Seq(Bytes), z \in Seq(Bytes)
<1>5. \A j \in 1 .. n : m + j \in Breaks(z) <=> j \in Breaks(t)
  <2>1. \A j \in 1 .. n : m + j \in DOMAIN z /\ j \in DOMAIN t /\ z[m + j] = t[j]
    BY <1>2, <1>4
  <2> QED
    BY <2>1 DEF Breaks
<1>6. m # 0 => m \in Breaks(z)
  <2>1. m # 0 => m \in 1 .. m /\ m \in 1 .. m + n /\ p[m].char = LF
    BY <1>1
  <2> QED
    BY <1>2, <1>4, <2>1 DEF Breaks
<1>7. Begin(z, m + i) = m + b
  <2>1. /\ b = 1 \/ (b - 1 \in Breaks(t) /\ b - 1 < i)
        /\ \A j \in Breaks(t) : j < i => j < b
    <3>1. i \in Nat \ {0}
      BY <1>1
    <3>2. /\ Begin(t, i) = 1 \/ (Begin(t, i) - 1 \in Breaks(t) /\ Begin(t, i) - 1 < i)
          /\ \A j \in Breaks(t) : j < i => j < Begin(t, i)
      BY <3>1, BeginIs
    <3> QED
      BY <1>3, <3>2
  <2>2. m + b \in Nat \ {0} /\ m + i \in Nat /\ i \in 1 .. n
    BY <1>1, <1>3
  <2>3. m + b = 1 \/ ((m + b) - 1 \in Breaks(z) /\ (m + b) - 1 < m + i)
    <3>1. CASE b = 1
      BY <1>6, <2>2, <3>1
    <3>2. CASE b # 1
      <4>1. b - 1 \in 1 .. n /\ b - 1 \in Breaks(t) /\ (m + b) - 1 = m + (b - 1)
        BY <2>1, <2>2, <3>2
      <4>2. m + (b - 1) \in Breaks(z)
        BY <1>5, <4>1
      <4> QED
        BY <2>2, <4>1, <4>2
    <3> QED
      BY <3>1, <3>2
  <2>4. ASSUME NEW j \in Breaks(z), j < m + i
        PROVE  j < m + b
    <3>1. j \in 1 .. m + n
      BY <1>4 DEF Breaks
    <3>2. CASE j <= m
      BY <1>3, <3>1, <3>2
    <3>3. CASE j > m
      <4>1. PICK k \in 1 .. n : j = m + k
        BY <3>1, <3>3
      <4>2. k \in Breaks(t) /\ k < i
        BY <1>5, <2>4, <4>1
      <4>3. k < b
        BY <2>1, <4>2
      <4> QED
        BY <4>1, <4>3
    <3> QED
      BY <3>1, <3>2, <3>3
  <2> QED
    BY <2>2, <2>3, <2>4, BeginOnly
<1>8. SubSeq(z, m + b, m + i) = SubSeq(t, b, i)
  <2>1. /\ b \in Nat \ {0} /\ i \in Nat /\ b <= i + 1 /\ i <= Len(t)
        /\ m + b \in Nat \ {0} /\ m + i \in Nat /\ m + b <= (m + i) + 1 /\ m + i <= Len(z)
        /\ (m + i) - (m + b) + 1 = i - b + 1
    BY <1>1, <1>2
  <2>2. PICK v \in Seq(Bytes) :
          v = SubSeq(z, m + b, m + i) /\ Len(v) = i - b + 1 /\ \A j \in 1 .. i - b + 1 : v[j] = z[(m + b) + j - 1]
    <3>1. PICK c \in Nat \ {0}, d \in Nat : c = m + b /\ d = m + i /\ c <= d + 1 /\ d <= Len(z) /\ d - c + 1 = i - b + 1
      BY <2>1
    <3>2. c <= d + 1 /\ d <= Len(z)
      BY <3>1
    <3>3. /\ SubSeq(z, c, d) \in Seq(Bytes) /\ Len(SubSeq(z, c, d)) = d - c + 1
          /\ \A j \in 1 .. d - c + 1 : SubSeq(z, c, d)[j] = z[c + j - 1]
      BY ONLY <3>2, PartIs, z \in Seq(Bytes), c \in Nat \ {0}, d \in Nat
    <3> QED
      BY ONLY <3>1, <3>3
  <2>3. PICK w \in Seq(Bytes) :
          w = SubSeq(t, b, i) /\ Len(w) = i - b + 1 /\ \A j \in 1 .. i - b + 1 : w[j] = t[b + j - 1]
    <3>1. SubSeq(t, b, i) \in Seq(Bytes) /\ Len(SubSeq(t, b, i)) = i - b + 1
      BY <2>1, PartIs
    <3>2. \A j \in 1 .. i - b + 1 : SubSeq(t, b, i)[j] = t[b + j - 1]
      BY <2>1, PartIs
    <3> QED
      BY ONLY <3>1, <3>2
  <2>4. ASSUME NEW j \in 1 .. i - b + 1
        PROVE  v[j] = w[j]
    <3>1. PICK k \in 1 .. n : k = b + j - 1 /\ (m + b) + j - 1 = m + k
      BY <1>1
    <3> QED
      BY <1>2, <2>2, <2>3, <3>1
  <2>5. v = w
    BY <2>2, <2>3, <2>4, SeqEqual
  <2> QED
    BY <2>2, <2>3, <2>5
<1>9. z[m + i] = t[i]
  BY <1>1, <1>2
<1> QED
  BY <1>1, <1>2, <1>3, <1>7, <1>8, <1>9 DEF LineTo, EndsLine

\* What every byte adds to the lines.
Pieces(s) == [i \in DOMAIN s |-> IF EndsLine(s, i) THEN <<LineTo(s, i)>> ELSE <<>>]

LEMMA PiecesAre ==
  ASSUME NEW s \in Seq(Bytes)
  PROVE  /\ Pieces(s) \in Seq(Seq(Seq(Bytes))) /\ Len(Pieces(s)) = Len(s)
         /\ \A i \in 1 .. Len(s) : Pieces(s)[i] = IF EndsLine(s, i) THEN <<LineTo(s, i)>> ELSE <<>>
         /\ Lines(s) = FlattenSeq(Pieces(s)) /\ Lines(s) \in Seq(Seq(Bytes))
<1>1. PICK n \in Nat : n = Len(s) /\ DOMAIN s = 1 .. n
  OBVIOUS
<1>2. Pieces(s) = [i \in 1 .. n |-> IF EndsLine(s, i) THEN <<LineTo(s, i)>> ELSE <<>>]
  BY <1>1 DEF Pieces
<1>3. \A i \in 1 .. n : (IF EndsLine(s, i) THEN <<LineTo(s, i)>> ELSE <<>>) \in Seq(Seq(Bytes))
  <2>1. \A i \in 1 .. n : LineTo(s, i) \in Seq(Bytes)
    BY <1>1, LineToIs
  <2> QED
    BY <2>1
<1>4. Pieces(s) \in [1 .. n -> Seq(Seq(Bytes))]
  BY <1>2, <1>3
<1>5. Pieces(s) \in Seq(Seq(Seq(Bytes))) /\ Len(Pieces(s)) = n
  BY <1>4
<1>6. Lines(s) = FlattenSeq(Pieces(s))
  BY DEF Lines, Pieces
<1>7. FlattenSeq(Pieces(s)) \in Seq(Seq(Bytes))
  BY <1>5, FlattenType
<1> QED
  BY <1>1, <1>2, <1>5, <1>6, <1>7

\* What is written after a line end does not change the lines before it.
LEMMA LinesConcat ==
  ASSUME NEW p \in Seq(Bytes), NEW t \in Seq(Bytes), p = <<>> \/ p[Len(p)].char = LF
  PROVE  Lines(p \o t) = Lines(p) \o Lines(t)
<1>1. PICK m \in Nat, n \in Nat : m = Len(p) /\ n = Len(t)
  OBVIOUS
<1>2. PICK z \in Seq(Bytes) : z = p \o t /\ Len(z) = m + n
  BY <1>1, ConcatAt
<1>3. PICK a \in Seq(Seq(Seq(Bytes))), b \in Seq(Seq(Seq(Bytes))), c \in Seq(Seq(Seq(Bytes))) :
        a = Pieces(p) /\ b = Pieces(t) /\ c = Pieces(z)
  BY PiecesAre
<1>4. /\ Len(a) = m /\ Len(b) = n /\ Len(c) = m + n
      /\ Lines(p) = FlattenSeq(a) /\ Lines(t) = FlattenSeq(b) /\ Lines(z) = FlattenSeq(c)
  BY <1>1, <1>2, <1>3, PiecesAre
<1>5. ASSUME NEW i \in 1 .. m
      PROVE  c[i] = a[i]
  <2>1. i \in 1 .. m + n
    OBVIOUS
  <2>2. LineTo(z, i) = LineTo(p, i) /\ (EndsLine(z, i) <=> EndsLine(p, i))
    BY <1>1, <1>2, LinePrefix
  <2>3. c[i] = IF EndsLine(z, i) THEN <<LineTo(z, i)>> ELSE <<>>
    BY <1>2, <1>3, <2>1, PiecesAre
  <2>4. a[i] = IF EndsLine(p, i) THEN <<LineTo(p, i)>> ELSE <<>>
    BY <1>1, <1>3, PiecesAre
  <2> QED
    BY <2>2, <2>3, <2>4
<1>6. ASSUME NEW i \in 1 .. n
      PROVE  c[m + i] = b[i]
  <2>1. m + i \in 1 .. m + n
    OBVIOUS
  <2>2. LineTo(z, m + i) = LineTo(t, i) /\ (EndsLine(z, m + i) <=> EndsLine(t, i))
    BY <1>1, <1>2, LineShift
  <2>3. c[m + i] = IF EndsLine(z, m + i) THEN <<LineTo(z, m + i)>> ELSE <<>>
    BY <1>2, <1>3, <2>1, PiecesAre
  <2>4. b[i] = IF EndsLine(t, i) THEN <<LineTo(t, i)>> ELSE <<>>
    BY <1>1, <1>3, PiecesAre
  <2> QED
    BY <2>2, <2>3, <2>4
<1>7. c = a \o b
  <2>1. Len(c) = Len(a) + Len(b)
    BY <1>4
  <2>2. \A i \in 1 .. Len(a) : c[i] = a[i]
    BY <1>4, <1>5
  <2>3. \A i \in 1 .. Len(b) : c[Len(a) + i] = b[i]
    BY <1>4, <1>6
  <2> QED
    BY ONLY <2>1, <2>2, <2>3, ConcatIs, a \in Seq(Seq(Seq(Bytes))), b \in Seq(Seq(Seq(Bytes))), c \in Seq(Seq(Seq(Bytes)))
<1>8. FlattenSeq(a \o b) = FlattenSeq(a) \o FlattenSeq(b)
  BY FlattenConcat
<1> QED
  BY <1>2, <1>4, <1>7, <1>8

LEMMA NoBreakNoLine ==
  ASSUME NEW s \in Seq(Bytes), Breaks(s) = {}
  PROVE  Lines(s) = <<>>
<1>1. PICK a \in Seq(Seq(Seq(Bytes))) : a = Pieces(s) /\ Len(a) = Len(s) /\ Lines(s) = FlattenSeq(a)
  BY PiecesAre
<1>2. \A i \in 1 .. Len(s) : ~EndsLine(s, i)
  BY DEF Breaks, EndsLine
<1>3. \A i \in 1 .. Len(a) : a[i] = <<>>
  BY <1>1, <1>2, PiecesAre
<1>4. FlattenSeq(a) = <<>>
  BY <1>3, FlattenNothing
<1> QED
  BY <1>1, <1>4

RecordsUntil(n) ==
  [command : Commands, tag : Seq(Chars), text : Seq(Bytes), time : 1 .. n, sink : Channels \cup {"client", "unknown"}]

\* The records of lines, each with the time of its first byte, and no sink yet.
LineRecords(n) == {r \in RecordsUntil(n) : r.sink = "unknown" /\ r.time = r.text[1].came}

LEMMA CutIs ==
  ASSUME NEW n \in Nat, NEW text \in Seq(Bytes), NEW first \in 1 .. n, NEW others \in 1 .. n,
         text # <<>> => text[1].came = first,
         \A j \in Breaks(text) : j < Len(text) => text[j + 1].came = others
  PROVE  Cut(text, first, others) \in Seq(LineRecords(n)) /\ TextsOf(Cut(text, first, others)) = Lines(text)
<1>1. PICK k \in Nat : k = Len(text) /\ DOMAIN text = 1 .. k
  OBVIOUS
<1> DEFINE cutAt(i) == Record("eMessage", OwnTag, LineTo(text, i), IF Begin(text, i) = 1 THEN first ELSE others, "unknown")
           piece(i) == IF EndsLine(text, i) THEN <<cutAt(i)>> ELSE <<>>
           pieces == [i \in 1 .. k |-> piece(i)]
<1>2. ASSUME NEW i \in 1 .. k, EndsLine(text, i)
      PROVE  cutAt(i) \in LineRecords(n) /\ cutAt(i).text = LineTo(text, i)
  <2>1. PICK l \in Seq(Bytes) : l = LineTo(text, i) /\ l # <<>> /\ l[1] = text[Begin(text, i)]
    BY <1>1, <1>2, LineToIs DEF EndsLine
  <2>2. PICK b \in 1 .. i : b = Begin(text, i) /\ (b = 1 \/ (b - 1 \in Breaks(text) /\ b - 1 < i))
    <3>1. i \in Nat \ {0}
      OBVIOUS
    <3>2. Begin(text, i) \in 1 .. i
      BY <3>1, BeginIs
    <3>3. Begin(text, i) = 1 \/ (Begin(text, i) - 1 \in Breaks(text) /\ Begin(text, i) - 1 < i)
      BY <3>1, BeginIs
    <3> QED
      BY <3>2, <3>3
  <2>3. PICK time \in 1 .. n : time = IF Begin(text, i) = 1 THEN first ELSE others
    OBVIOUS
  <2>4. text[b].came = time
    <3>1. CASE b = 1
      BY <1>1, <2>2, <2>3, <3>1
    <3>2. CASE b # 1
      <4>1. b - 1 \in Breaks(text) /\ b - 1 < k /\ (b - 1) + 1 = b
        BY <2>2, <3>2
      <4> QED
        BY <1>1, <2>2, <2>3, <3>2, <4>1
    <3> QED
      BY <3>1, <3>2
  <2>5. cutAt(i) = [command |-> "eMessage", tag |-> OwnTag, text |-> l, time |-> time, sink |-> "unknown"]
    BY <2>1, <2>3 DEF Record
  <2>6. OwnTag \in Seq(Chars) /\ "eMessage" \in Commands
    BY LogAdaptorAssumption DEF Commands
  <2>7. cutAt(i) \in RecordsUntil(n)
    <3> HIDE DEF cutAt
    <3> QED
      BY <2>5, <2>6 DEF RecordsUntil
  <2> HIDE DEF cutAt
  <2> QED
    BY <2>1, <2>2, <2>4, <2>5, <2>7 DEF LineRecords
<1>3. PICK a \in Seq(Seq(LineRecords(n))) : a = pieces /\ Len(a) = k
  <2>1. ASSUME NEW i \in 1 .. k
        PROVE  piece(i) \in Seq(LineRecords(n))
    <3>1. CASE EndsLine(text, i)
      <4>1. cutAt(i) \in LineRecords(n) /\ piece(i) = <<cutAt(i)>>
        BY <1>2, <3>1
      <4> HIDE DEF cutAt, piece
      <4> QED
        BY <4>1
    <3>2. CASE ~EndsLine(text, i)
      BY <3>2
    <3> QED
      BY <3>1, <3>2
  <2> HIDE DEF piece
  <2>2. pieces \in [1 .. k -> Seq(LineRecords(n))]
    BY <2>1
  <2> HIDE DEF pieces
  <2> QED
    BY <2>2
<1>4. Cut(text, first, others) = FlattenSeq(a)
  BY <1>1, <1>3 DEF Cut
<1>5. PICK b \in Seq(Seq(Seq(Bytes))) : b = Pieces(text) /\ Len(b) = k /\ Lines(text) = FlattenSeq(b)
  BY <1>1, PiecesAre
<1>6. ASSUME NEW i \in 1 .. k
      PROVE  b[i] = TextsOf(a[i])
  <2>1. b[i] = IF EndsLine(text, i) THEN <<LineTo(text, i)>> ELSE <<>>
    BY <1>1, <1>5, PiecesAre
  <2>2. a[i] = piece(i)
    <3> HIDE DEF piece
    <3> QED
      BY <1>3
  <2>3. CASE EndsLine(text, i)
    <3>1. PICK r \in LineRecords(n) : r = cutAt(i) /\ r.text = LineTo(text, i)
      BY <1>2, <2>3
    <3>2. a[i] = <<r>>
      BY <2>2, <2>3, <3>1
    <3>3. TextsOf(<<r>>) = <<r.text>>
      BY DEF TextsOf
    <3> QED
      BY <2>1, <2>3, <3>1, <3>2, <3>3
  <2>4. CASE ~EndsLine(text, i)
    <3>1. a[i] = <<>> /\ TextsOf(<<>>) = <<>>
      BY <2>2, <2>4 DEF TextsOf
    <3> QED
      BY <2>1, <2>4, <3>1
  <2> QED
    BY <2>3, <2>4
<1> HIDE DEF cutAt, piece, pieces
<1>7. FlattenSeq(b) = TextsOf(FlattenSeq(a))
  BY <1>3, <1>5, <1>6, TextsJoined, SMTT(30)
<1>8. FlattenSeq(a) \in Seq(LineRecords(n))
  BY ONLY FlattenType, a \in Seq(Seq(LineRecords(n)))
<1> QED
  BY <1>4, <1>5, <1>7, <1>8

\* What a filter erases leaves bytes.
LEMMA UnescapedIs ==
  ASSUME NEW s \in Seq(Bytes)
  PROVE  Unescaped(s) \in Seq(Bytes)
<1>1. PICK n \in Nat : n = Len(s) /\ DOMAIN s = 1 .. n /\ \A i \in 1 .. n : s[i] \in Bytes
  OBVIOUS
<1> DEFINE kept == [i \in 1 .. n |-> IF s[i].char = Esc THEN <<>> ELSE <<s[i]>>]
<1>2. kept \in [1 .. n -> Seq(Bytes)]
  BY <1>1
<1>3. Unescaped(s) = FlattenSeq(kept)
  BY <1>1 DEF Unescaped
<1> HIDE DEF kept
<1>4. kept \in Seq(Seq(Bytes))
  BY <1>2
<1> QED
  BY <1>3, <1>4, FlattenType

LEMMA TransferIs ==
  ASSUME NEW n \in Nat, NEW c \in Channels, NEW r \in RecordsUntil(n)
  PROVE  /\ Transfer(c, r) \in RecordsUntil(n)
         /\ Transfer(c, r).text = IF filters[c] THEN Unescaped(r.text) ELSE r.text
         /\ Transfer(c, r).sink = IF r.sink = "unknown" THEN c ELSE r.sink
         /\ Transfer(c, r).command = r.command /\ Transfer(c, r).tag = r.tag /\ Transfer(c, r).time = r.time
<1>1. PICK text \in Seq(Bytes) : text = IF filters[c] THEN Unescaped(r.text) ELSE r.text
  <2>1. r.text \in Seq(Bytes)
    BY DEF RecordsUntil
  <2> QED
    BY <2>1, UnescapedIs
<1>2. PICK sink \in Channels \cup {"client", "unknown"} : sink = IF r.sink = "unknown" THEN c ELSE r.sink
  BY DEF RecordsUntil
<1>3. r = [command |-> r.command, tag |-> r.tag, text |-> r.text, time |-> r.time, sink |-> r.sink]
  BY DEF RecordsUntil
<1>4. Transfer(c, r) = [command |-> r.command, tag |-> r.tag, text |-> text, time |-> r.time, sink |-> sink]
  BY <1>1, <1>2, <1>3 DEF Transfer, Erased
<1>5. [command |-> r.command, tag |-> r.tag, text |-> text, time |-> r.time, sink |-> sink] \in RecordsUntil(n)
  BY DEF RecordsUntil
<1> QED
  BY <1>1, <1>2, <1>4, <1>5
-----------------------------------------------------------------------------
(* The adaptors *)

AdaptorTyped ==
  /\ kind \in Kinds /\ filters \in [Channels -> BOOLEAN] /\ clock \in 0 .. MaxChunks
  /\ line \in Seq(Bytes) /\ timestamp \in 0 .. clock /\ input \in Seq(Bytes)
RecordsTyped == records \in [Channels -> Seq(RecordsUntil(clock))] /\ packets \in Seq(RecordsUntil(clock))

\* The stream is lines that are ended and the one in the buffer, which has the time of
\* its first byte.
LineOfStream ==
  /\ Breaks(line) = {}
  /\ \E p \in Seq(Bytes) : input = p \o line /\ (p = <<>> \/ p[Len(p)].char = LF)
LineStamped == line # <<>> => timestamp = line[1].came

\* The records of a channel, one by one.
StreamRecords ==
  kind = "STREAM" => \A c \in Channels :
    /\ Len(records[c]) = Len(Lines(input))
    /\ \A i \in 1 .. Len(records[c]) :
         /\ records[c][i].text = IF filters[c] THEN Unescaped(Lines(input)[i]) ELSE Lines(input)[i]
         /\ records[c][i].sink = c
         /\ ~filters[c] => records[c][i].time = records[c][i].text[1].came
PacketRecords ==
  kind # "STREAM" => \A c \in Channels :
    /\ Len(records[c]) = Len(packets)
    /\ \A i \in 1 .. Len(packets) : records[c][i] = Transfer(c, packets[i])

AdaptorInv == AdaptorTyped /\ RecordsTyped /\ LineOfStream /\ LineStamped /\ StreamRecords /\ PacketRecords

LEMMA StillRecords ==
  ASSUME NEW n \in Nat, NEW s \in Seq(RecordsUntil(n))
  PROVE  s \in Seq(RecordsUntil(n + 1))
<1>1. RecordsUntil(n) \subseteq RecordsUntil(n + 1)
  <2>1. 1 .. n \subseteq 1 .. n + 1
    OBVIOUS
  <2> QED
    BY <2>1 DEF RecordsUntil
<1> QED
  BY <1>1

\* What a step sends comes behind what was sent, through the filter of each channel.
LEMMA Sent ==
  ASSUME AdaptorTyped, RecordsTyped, NEW n \in Nat, n = clock + 1, NEW out \in Seq(RecordsUntil(n)), Send(out)
  PROVE  /\ records' \in [Channels -> Seq(RecordsUntil(n))]
         /\ \A c \in Channels :
              /\ Len(records'[c]) = Len(records[c]) + Len(out)
              /\ \A i \in 1 .. Len(records[c]) : records'[c][i] = records[c][i]
              /\ \A i \in 1 .. Len(out) : records'[c][Len(records[c]) + i] = Transfer(c, out[i])
<1>1. PICK k \in Nat : k = Len(out) /\ DOMAIN out = 1 .. k /\ \A i \in 1 .. k : out[i] \in RecordsUntil(n)
  OBVIOUS
<1>2. ASSUME NEW c \in Channels
      PROVE  /\ records'[c] \in Seq(RecordsUntil(n))
             /\ Len(records'[c]) = Len(records[c]) + Len(out)
             /\ \A i \in 1 .. Len(records[c]) : records'[c][i] = records[c][i]
             /\ \A i \in 1 .. Len(out) : records'[c][Len(records[c]) + i] = Transfer(c, out[i])
  <2>1. PICK x \in Seq(RecordsUntil(n)) : x = records[c]
    <3>1. records[c] \in Seq(RecordsUntil(clock)) /\ clock \in Nat
      BY DEF AdaptorTyped, RecordsTyped
    <3> QED
      BY <3>1, StillRecords
  <2>2. PICK y \in Seq(RecordsUntil(n)) : /\ y = [i \in DOMAIN out |-> Transfer(c, out[i])] /\ Len(y) = k
                                          /\ \A i \in 1 .. k : y[i] = Transfer(c, out[i])
    <3>1. \A i \in 1 .. k : Transfer(c, out[i]) \in RecordsUntil(n)
      BY <1>1, TransferIs
    <3> DEFINE g == [i \in 1 .. k |-> Transfer(c, out[i])]
    <3>2. g \in [1 .. k -> RecordsUntil(n)] /\ \A i \in 1 .. k : g[i] = Transfer(c, out[i])
      BY <3>1
    <3>3. g = [i \in DOMAIN out |-> Transfer(c, out[i])]
      BY <1>1
    <3> HIDE DEF g
    <3>4. g \in Seq(RecordsUntil(n)) /\ Len(g) = k
      BY <3>2
    <3> QED
      BY <3>2, <3>3, <3>4
  <2>3. records'[c] = x \o y
    BY <2>1, <2>2 DEF Send
  <2>4. x \o y \in Seq(RecordsUntil(n)) /\ Len(x \o y) = Len(x) + Len(y)
    BY ConcatAt
  <2>5. (\A i \in 1 .. Len(x) : (x \o y)[i] = x[i]) /\ \A i \in 1 .. Len(y) : (x \o y)[Len(x) + i] = y[i]
    BY ConcatAt
  <2> QED
    BY ONLY <1>1, <2>1, <2>2, <2>3, <2>4, <2>5
<1>3. records' = [c \in Channels |-> records'[c]]
  BY DEF Send
<1> QED
  BY <1>2, <1>3

LEMMA PacketStep ==
  ASSUME AdaptorInv, clock < MaxChunks, kind # "STREAM", NEW said \in RecordsUntil(clock + 1), DoLogPacket(said, <<said>>)
  PROVE  AdaptorInv'
<1> USE DEF AdaptorInv
<1>1. PICK n \in 1 .. MaxChunks : n = clock + 1 /\ clock' = n /\ n \in Nat
  BY LogAdaptorAssumption DEF AdaptorTyped, DoLogPacket
<1>2. /\ kind' = kind /\ filters' = filters /\ line' = line /\ timestamp' = timestamp /\ input' = input
      /\ packets' = Append(packets, said) /\ Send(<<said>>)
  BY DEF DoLogPacket, config
<1>3. PICK x \in Seq(RecordsUntil(n)) : x = packets
  BY <1>1, StillRecords DEF AdaptorTyped, RecordsTyped
<1>4. /\ packets' \in Seq(RecordsUntil(n)) /\ Len(packets') = Len(packets) + 1 /\ packets'[Len(packets) + 1] = said
      /\ \A i \in 1 .. Len(packets) : packets'[i] = packets[i]
  <2>1. /\ Append(x, said) \in Seq(RecordsUntil(n)) /\ Len(Append(x, said)) = Len(x) + 1
        /\ Append(x, said)[Len(x) + 1] = said
        /\ \A i \in 1 .. Len(x) : Append(x, said)[i] = x[i]
    BY <1>1, AppendProperties
  <2> QED
    BY <1>2, <1>3, <2>1
<1>5. PICK out \in Seq(RecordsUntil(n)) : out = <<said>> /\ Len(out) = 1 /\ out[1] = said
  <2>1. said \in RecordsUntil(n)
    BY <1>1
  <2>2. <<said>> \in Seq(RecordsUntil(n)) /\ Len(<<said>>) = 1 /\ <<said>>[1] = said
    BY ONLY <2>1
  <2> QED
    BY ONLY <2>2
<1>6. /\ records' \in [Channels -> Seq(RecordsUntil(n))]
      /\ \A c \in Channels :
           /\ Len(records'[c]) = Len(records[c]) + Len(out)
           /\ \A i \in 1 .. Len(records[c]) : records'[c][i] = records[c][i]
           /\ \A i \in 1 .. Len(out) : records'[c][Len(records[c]) + i] = Transfer(c, out[i])
  BY <1>1, <1>2, <1>5, Sent
<1>7. AdaptorTyped'
  <2>1. timestamp \in 0 .. n
    BY <1>1 DEF AdaptorTyped
  <2>2. n \in 0 .. MaxChunks
    BY <1>1
  <2> QED
    BY <1>1, <1>2, <2>1, <2>2 DEF AdaptorTyped
<1>8. RecordsTyped'
  <2>1. RecordsUntil(clock)' = RecordsUntil(n)
    BY <1>1 DEF RecordsUntil
  <2> QED
    BY <1>4, <1>6, <2>1 DEF RecordsTyped
<1>9. LineOfStream' /\ LineStamped' /\ StreamRecords'
  BY <1>2 DEF LineOfStream, LineStamped, StreamRecords, Breaks
<1>10. PacketRecords'
  <2>1. ASSUME NEW c \in Channels
        PROVE  /\ Len(records'[c]) = Len(packets')
               /\ \A i \in 1 .. Len(packets') : records'[c][i] = Transfer(c, packets[i])'
    <3>1. PICK k \in Nat : k = Len(packets) /\ Len(records[c]) = k /\ Len(packets') = k + 1
      <4>1. Len(records[c]) = Len(packets)
        BY <1>3 DEF PacketRecords
      <4> QED
        BY <1>4, <4>1
    <3>2. /\ Len(records'[c]) = k + 1 /\ (\A i \in 1 .. k : records'[c][i] = records[c][i])
          /\ records'[c][k + 1] = Transfer(c, said)
      <4>1. 1 \in 1 .. Len(out)
        BY <1>5
      <4> QED
        BY <1>5, <1>6, <3>1, <4>1
    <3>3. \A i \in 1 .. k : records[c][i] = Transfer(c, packets[i])
      BY <1>2, <3>1 DEF PacketRecords
    <3>4. \A i \in 1 .. k + 1 : records'[c][i] = Transfer(c, packets'[i])
      <4>1. \A i \in 1 .. k + 1 : i \in 1 .. k \/ i = k + 1
        OBVIOUS
      <4> QED
        BY <1>4, <3>1, <3>2, <3>3, <4>1
    <3>5. \A i : Transfer(c, packets[i])' = Transfer(c, packets'[i])
      <4>1. filters' = filters
        BY <1>2
      <4> QED
        BY ONLY <4>1 DEF Transfer, Erased
    <3> QED
      BY <3>1, <3>2, <3>4, <3>5
  <2> QED
    BY <2>1 DEF PacketRecords
<1> QED
  BY <1>7, <1>8, <1>9, <1>10

LEMMA StampedIs ==
  ASSUME AdaptorTyped, clock < MaxChunks, NEW chunk \in Seq(Chars)
  PROVE  /\ Stamped(chunk) \in Seq(Bytes) /\ Len(Stamped(chunk)) = Len(chunk)
         /\ \A i \in 1 .. Len(chunk) : Stamped(chunk)[i].came = clock + 1
<1>1. PICK k \in Nat : k = Len(chunk) /\ DOMAIN chunk = 1 .. k /\ \A i \in 1 .. k : chunk[i] \in Chars
  OBVIOUS
<1>2. PICK n \in 1 .. MaxChunks : n = clock + 1
  BY LogAdaptorAssumption DEF AdaptorTyped
<1> DEFINE g == [i \in 1 .. k |-> [char |-> chunk[i], came |-> n]]
<1>3. g \in [1 .. k -> Bytes] /\ \A i \in 1 .. k : g[i].came = n
  BY <1>1 DEF Bytes
<1>4. Stamped(chunk) = g
  BY <1>1, <1>2 DEF Stamped, Byte
<1> HIDE DEF g
<1>5. g \in Seq(Bytes) /\ Len(g) = k
  BY <1>3
<1> QED
  BY <1>1, <1>2, <1>3, <1>4, <1>5

LEMMA EtfStep ==
  ASSUME AdaptorInv, clock < MaxChunks, NEW text \in Texts, DoLogEtf(text)
  PROVE  AdaptorInv'
<1>1. PICK n \in 1 .. MaxChunks : n = clock + 1
  BY LogAdaptorAssumption DEF AdaptorInv, AdaptorTyped
<1>2. PICK t \in Seq(Bytes) : t = Stamped(text)
  BY LogAdaptorAssumption, StampedIs DEF AdaptorInv
<1>3. PICK said : said = [command |-> "eMessage", tag |-> OwnTag, text |-> t, time |-> n, sink |-> "client"]
  OBVIOUS
<1>4. said \in RecordsUntil(n)
  <2>1. OwnTag \in Seq(Chars) /\ "eMessage" \in Commands /\ n \in 1 .. n
    BY LogAdaptorAssumption DEF Commands
  <2> QED
    BY <1>3, <2>1 DEF RecordsUntil
<1>5. kind # "STREAM" /\ DoLogPacket(said, <<said>>)
  BY <1>1, <1>2, <1>3 DEF DoLogEtf, Record
<1> QED
  BY <1>1, <1>4, <1>5, PacketStep

\* What the builders of texts give fits into a package.
LEMMA BuiltTexts ==
  ASSUME NEW tag \in Seq(Chars), NEW text \in Seq(Bytes)
  PROVE  BuiltTag(tag) \in Seq(Chars) /\ BuiltMessage(text) \in Seq(Bytes)
<1>1. BuiltTag(tag) \in Seq(Chars)
  <2>1. PICK fill \in Seq(Chars) : fill = [i \in 1 .. TagSize |-> Blank] /\ Len(fill) = TagSize
    <3> DEFINE g == [i \in 1 .. TagSize |-> Blank]
    <3>1. g \in [1 .. TagSize -> Chars] /\ TagSize \in Nat
      BY LogBuilderAssumption DEF Chars
    <3> HIDE DEF g
    <3>2. g \in Seq(Chars) /\ Len(g) = TagSize
      BY <3>1
    <3> QED
      BY <3>2 DEF g
  <2>2. PICK k \in Nat : k = TagSize
    BY LogBuilderAssumption
  <2>3. PICK whole \in Seq(Chars) : whole = tag \o fill /\ Len(whole) >= k
    <3>1. tag \o fill \in Seq(Chars) /\ Len(tag \o fill) = Len(tag) + Len(fill)
      BY ConcatAt
    <3>2. PICK l \in Nat : l = Len(tag)
      OBVIOUS
    <3>3. Len(tag \o fill) = l + k
      BY <2>1, <2>2, <3>1, <3>2
    <3>4. l + k >= k
      OBVIOUS
    <3> QED
      BY ONLY <3>1, <3>3, <3>4
  <2>4. SubSeq(whole, 1, k) \in Seq(Chars)
    <3>1. 1 <= k + 1 /\ k <= Len(whole) /\ 1 \in Nat \ {0}
      BY <2>3
    <3> QED
      BY <3>1, PartIs
  <2> QED
    BY <2>1, <2>2, <2>3, <2>4 DEF BuiltTag
<1>2. BuiltMessage(text) \in Seq(Bytes)
  <2>1. CASE Len(text) > MaxMessageSize
    <3>1. PICK k \in Nat : k = MaxMessageSize /\ k <= Len(text) /\ 1 <= k + 1 /\ 1 \in Nat \ {0}
      BY <2>1, LogBuilderAssumption
    <3>2. SubSeq(text, 1, k) \in Seq(Bytes)
      BY <3>1, PartIs
    <3> QED
      BY <2>1, <3>1, <3>2 DEF BuiltMessage
  <2>2. CASE ~(Len(text) > MaxMessageSize)
    BY <2>2 DEF BuiltMessage
  <2> QED
    BY <2>1, <2>2
<1> QED
  BY <1>1, <1>2

LEMMA ByCommand ==
  ASSUME NEW S, NEW x \in S, NEW y \in S, NEW z \in S, NEW command \in Commands
  PROVE  [eMessage |-> x, eChangeFile |-> y, eStop |-> z][command] \in S
  BY DEF Commands

\* Every packet that is built is parsed, into what it was built from.
LEMMA OscarStep ==
  ASSUME AdaptorInv, clock < MaxChunks, NEW command \in Commands, NEW text \in Texts, NEW sink \in {"client", "unknown"},
         DoLogOscar(command, text, sink)
  PROVE  AdaptorInv'
<1>1. PICK n \in 1 .. MaxChunks : n = clock + 1
  BY LogAdaptorAssumption DEF AdaptorInv, AdaptorTyped
<1>2. PICK t \in Seq(Bytes) : t = Stamped(text)
  BY LogAdaptorAssumption, StampedIs DEF AdaptorInv
<1>3. ClientTag \in Seq(Chars) /\ <<>> \in Seq(Chars) /\ <<>> \in Seq(Bytes)
  BY LogAdaptorAssumption
<1>4. PICK tag \in Seq(Chars) : tag = [eMessage |-> BuiltTag(ClientTag), eChangeFile |-> ClientTag, eStop |-> <<>>][command]
  <2>1. BuiltTag(ClientTag) \in Seq(Chars)
    BY <1>2, <1>3, BuiltTexts
  <2>2. [eMessage |-> BuiltTag(ClientTag), eChangeFile |-> ClientTag, eStop |-> <<>>][command] \in Seq(Chars)
    BY <1>3, <2>1, ByCommand
  <2> QED
    BY <2>2
<1>5. PICK message \in Seq(Bytes) : message = [eMessage |-> BuiltMessage(t), eChangeFile |-> t, eStop |-> <<>>][command]
  <2>1. BuiltMessage(t) \in Seq(Bytes)
    BY <1>3, BuiltTexts
  <2>2. [eMessage |-> BuiltMessage(t), eChangeFile |-> t, eStop |-> <<>>][command] \in Seq(Bytes)
    BY <1>3, <2>1, ByCommand
  <2> QED
    BY <2>2
<1>6. PICK p : /\ p = [command |-> command, severity |-> "INFO", lchannel |-> sink, sec |-> n, usec |-> 0,
                       tag |-> tag, message |-> message]
               /\ p = Given(command, text, sink)
  BY <1>1, <1>2, <1>4, <1>5 DEF Given
<1>7. p.command = command /\ p.lchannel = sink /\ p.sec = n /\ p.tag = tag /\ p.message = message
  BY <1>6
<1>8. /\ kind = "OSCAR" /\ Accepted(p)
      /\ DoLogPacket(Record(command, p.tag, p.message, p.sec, sink),
                     IF Parses(Build(p)) THEN <<Parsed(Build(p))>> ELSE <<>>)
  BY <1>6 DEF DoLogOscar
<1>9. Package(p)
  BY <1>7 DEF Package
<1>10. RoundTrip(p)
  BY <1>8, <1>9, AcceptedIsReadBack
<1>11. PICK packet : packet = Build(p)
  OBVIOUS
<1>12. /\ Parses(packet) /\ CommandOf(packet) = command
       /\ \A i \in 1 .. Len(Fields[command]) : ValueOf(packet, Fields[command][i]) = p[Fields[command][i]]
  BY <1>7, <1>10, <1>11 DEF RoundTrip
<1> DEFINE said == [command |-> command, tag |-> tag, text |-> message, time |-> n, sink |-> sink]
<1>13. Parsed(packet) = said
  <2>1. CASE command = "eMessage"
    <3>1. Fields[command] = <<"tag", "severity", "message", "lchannel", "sec", "usec">>
      BY <2>1 DEF Fields
    <3>2. /\ ValueOf(packet, "tag") = tag /\ ValueOf(packet, "message") = message
          /\ ValueOf(packet, "lchannel") = sink /\ ValueOf(packet, "sec") = n
      BY <1>7, <1>12, <3>1
    <3> QED
      BY <1>12, <2>1, <3>2 DEF Parsed, Record
  <2>2. CASE command = "eChangeFile"
    <3>1. Fields[command] = <<"message", "tag", "lchannel", "sec", "usec">>
      BY <2>2 DEF Fields
    <3>2. /\ ValueOf(packet, "tag") = tag /\ ValueOf(packet, "message") = message
          /\ ValueOf(packet, "lchannel") = sink /\ ValueOf(packet, "sec") = n
      BY <1>7, <1>12, <3>1
    <3> QED
      BY <1>12, <2>2, <3>2 DEF Parsed, Record
  <2>3. CASE command = "eStop"
    <3>1. Fields[command] = <<"lchannel", "sec", "usec">>
      BY <2>3 DEF Fields
    <3>2. ValueOf(packet, "lchannel") = sink /\ ValueOf(packet, "sec") = n
      <4>1. /\ 1 \in 1 .. Len(Fields[command]) /\ Fields[command][1] = "lchannel"
            /\ 2 \in 1 .. Len(Fields[command]) /\ Fields[command][2] = "sec"
        BY <3>1
      <4>2. ValueOf(packet, "lchannel") = p["lchannel"] /\ ValueOf(packet, "sec") = p["sec"]
        BY <1>12, <4>1
      <4> QED
        BY <1>7, <4>2
    <3>3. tag = <<>> /\ message = <<>>
      BY <1>4, <1>5, <2>3
    <3> QED
      BY <1>12, <2>3, <3>2, <3>3 DEF Parsed, Record
  <2> QED
    BY <2>1, <2>2, <2>3 DEF Commands
<1>14. DoLogPacket(said, <<said>>)
  <2>1. Record(command, p.tag, p.message, p.sec, sink) = said
    BY <1>7 DEF Record
  <2> HIDE DEF said
  <2> QED
    BY <1>8, <1>11, <1>12, <1>13, <2>1
<1>15. said \in RecordsUntil(n)
  <2>1. n \in 1 .. n
    OBVIOUS
  <2> QED
    BY <2>1 DEF RecordsUntil
<1> HIDE DEF said
<1> QED
  BY <1>1, <1>8, <1>14, <1>15, PacketStep

LEMMA NoRecordStep ==
  ASSUME AdaptorInv, clock < MaxChunks \/ UNCHANGED clock, clock' \in {clock, clock + 1},
         UNCHANGED <<kind, filters, line, timestamp, records, input, packets>>
  PROVE  AdaptorInv'
<1> USE DEF AdaptorInv
<1>1. AdaptorTyped'
  <2>1. clock' \in 0 .. MaxChunks /\ clock <= clock'
    BY LogAdaptorAssumption DEF AdaptorTyped
  <2>2. 0 .. clock \subseteq 0 .. clock'
    BY <2>1 DEF AdaptorTyped
  <2> QED
    BY <2>1, <2>2 DEF AdaptorTyped
<1>2. RecordsTyped'
  <2>1. PICK n \in Nat, m \in Nat : n = clock /\ m = clock' /\ (m = n \/ m = n + 1)
    BY LogAdaptorAssumption DEF AdaptorTyped
  <2>2. \A s \in Seq(RecordsUntil(n)) : s \in Seq(RecordsUntil(m))
    BY <2>1, StillRecords
  <2>3. RecordsUntil(clock)' = RecordsUntil(m)
    BY <2>1 DEF RecordsUntil
  <2> QED
    BY <2>1, <2>2, <2>3 DEF RecordsTyped
<1>3. LineOfStream' /\ LineStamped'
  BY DEF LineOfStream, LineStamped, Breaks
<1>4. StreamRecords'
  <2>1. \A s : Unescaped(s)' = Unescaped(s)
    BY DEF Unescaped
  <2> QED
    BY <2>1 DEF StreamRecords, Lines
<1>5. PacketRecords'
  <2>1. ASSUME NEW i
        PROVE  \A c : Transfer(c, packets[i])' = Transfer(c, packets[i])
    BY DEF Transfer, Erased
  <2> QED
    BY <2>1 DEF PacketRecords
<1> QED
  BY <1>1, <1>2, <1>3, <1>4, <1>5

LEMMA ConcatThree ==
  ASSUME NEW S, NEW x \in Seq(S), NEW y \in Seq(S), NEW z \in Seq(S)
  PROVE  (x \o y) \o z = x \o (y \o z) /\ x \o y \in Seq(S) /\ y \o z \in Seq(S)
  OBVIOUS

\* What a chunk leaves of the text: the lines that are ended, and the rest of it.
LEMMA RestIs ==
  ASSUME NEW text \in Seq(Bytes)
  PROVE  \E b \in 1 .. Len(text) + 1, q \in Seq(Bytes), r \in Seq(Bytes) :
           /\ b = Begin(text, Len(text) + 1) /\ r = SubSeq(text, b, Len(text)) /\ text = q \o r
           /\ q = <<>> \/ q[Len(q)].char = LF
           /\ Breaks(r) = {}
           /\ Len(r) = Len(text) - b + 1 /\ (r # <<>> => b <= Len(text) /\ r[1] = text[b])
           /\ IF Breaks(text) = {} THEN b = 1 ELSE b - 1 \in Breaks(text)
<1>1. PICK k \in Nat : k = Len(text) /\ DOMAIN text = 1 .. k /\ k + 1 \in Nat \ {0}
  OBVIOUS
<1>2. PICK b \in 1 .. k + 1 : b = Begin(text, k + 1)
  BY <1>1, BeginIs
<1>3. /\ b = 1 \/ (b - 1 \in Breaks(text) /\ b - 1 < k + 1)
      /\ \A j \in Breaks(text) : j < k + 1 => j < b
  <2>1. /\ Begin(text, k + 1) = 1 \/ (Begin(text, k + 1) - 1 \in Breaks(text) /\ Begin(text, k + 1) - 1 < k + 1)
        /\ \A j \in Breaks(text) : j < k + 1 => j < Begin(text, k + 1)
    BY <1>1, BeginIs
  <2> QED
    BY <1>2, <2>1
<1>4. PICK a \in Nat : a = b - 1 /\ a <= k
  OBVIOUS
<1>5. PICK q \in Seq(Bytes) : q = SubSeq(text, 1, a) /\ Len(q) = a /\ \A i \in 1 .. a : q[i] = text[i]
  <2>1. 1 \in Nat \ {0} /\ 1 <= a + 1 /\ a <= Len(text) /\ a - 1 + 1 = a
    BY <1>1, <1>4
  <2>2. SubSeq(text, 1, a) \in Seq(Bytes) /\ Len(SubSeq(text, 1, a)) = a - 1 + 1
    BY <2>1, PartIs
  <2>3. \A i \in 1 .. a - 1 + 1 : SubSeq(text, 1, a)[i] = text[1 + i - 1]
    BY <2>1, PartIs
  <2>4. \A i \in 1 .. a : 1 + i - 1 = i
    OBVIOUS
  <2> QED
    BY ONLY <2>1, <2>2, <2>3, <2>4
<1>6. PICK r \in Seq(Bytes) : /\ r = SubSeq(text, b, k) /\ Len(r) = k - b + 1 /\ Len(r) = k - a
                              /\ \A i \in 1 .. k - a : r[i] = text[a + i]
  <2>1. b \in Nat \ {0} /\ b <= k + 1 /\ k <= Len(text) /\ k - b + 1 = k - a
    BY <1>1, <1>4
  <2>2. SubSeq(text, b, k) \in Seq(Bytes) /\ Len(SubSeq(text, b, k)) = k - b + 1
    BY <2>1, PartIs
  <2>3. \A i \in 1 .. k - b + 1 : SubSeq(text, b, k)[i] = text[b + i - 1]
    BY <2>1, PartIs
  <2>4. \A i \in 1 .. k - a : i \in 1 .. k - b + 1 /\ b + i - 1 = a + i
    BY <1>4
  <2>5. \A i \in 1 .. k - a : SubSeq(text, b, k)[i] = text[a + i]
    BY ONLY <2>3, <2>4
  <2> QED
    BY ONLY <2>1, <2>2, <2>5
<1>7. text = q \o r
  <2>1. Len(text) = Len(q) + Len(r)
    BY <1>1, <1>4, <1>5, <1>6
  <2>2. \A i \in 1 .. Len(q) : text[i] = q[i]
    BY <1>5
  <2>3. \A i \in 1 .. Len(r) : text[Len(q) + i] = r[i]
    BY <1>5, <1>6
  <2> QED
    BY ONLY <2>1, <2>2, <2>3, ConcatIs, text \in Seq(Bytes), q \in Seq(Bytes), r \in Seq(Bytes)
<1>8. q = <<>> \/ q[Len(q)].char = LF
  <2>1. CASE a = 0
    BY <1>5, <2>1
  <2>2. CASE a # 0
    <3>1. a \in Breaks(text) /\ a \in 1 .. a
      BY <1>3, <1>4, <2>2
    <3>2. text[a].char = LF
      BY <3>1 DEF Breaks
    <3> QED
      BY <1>5, <3>1, <3>2
  <2> QED
    BY <2>1, <2>2
<1>9. Breaks(r) = {}
  <2> SUFFICES ASSUME NEW i \in Breaks(r)
               PROVE  FALSE
    OBVIOUS
  <2>1. i \in 1 .. k - a /\ r[i].char = LF
    BY <1>6 DEF Breaks
  <2>2. a + i \in 1 .. k /\ a + i < k + 1
    BY <2>1
  <2>3. a + i \in Breaks(text)
    BY <1>1, <1>6, <2>1, <2>2 DEF Breaks
  <2>4. a + i < b
    BY <1>3, <2>2, <2>3
  <2> QED
    BY <1>4, <2>1, <2>4
<1>10. r # <<>> => b <= k /\ r[1] = text[b]
  <2> SUFFICES ASSUME r # <<>>
               PROVE  b <= k /\ r[1] = text[b]
    OBVIOUS
  <2>1. k - a >= 1 /\ 1 \in 1 .. k - a /\ a + 1 = b
    BY <1>4, <1>6
  <2> QED
    BY <1>4, <1>6, <2>1
<1>11. IF Breaks(text) = {} THEN b = 1 ELSE b - 1 \in Breaks(text)
  <2>1. ASSUME NEW j \in Breaks(text)
        PROVE  b # 1
    <3>1. j \in 1 .. k /\ j < k + 1
      BY <1>1 DEF Breaks
    <3>2. j < b
      BY <1>3, <3>1
    <3> QED
      BY <3>1, <3>2
  <2> QED
    BY <1>3, <2>1
<1> QED
  BY <1>1, <1>2, <1>6, <1>7, <1>8, <1>9, <1>10, <1>11

LEMMA StreamStep ==
  ASSUME AdaptorInv, clock < MaxChunks, NEW chunk \in Seq(Chars), Len(chunk) >= 1, DoLog(chunk)
  PROVE  AdaptorInv'
<1>1. \A x, y, z \in Seq(Bytes) : (x \o y) \o z = x \o (y \o z) /\ x \o y \in Seq(Bytes)
  BY ConcatThree, SMTT(30)
<1> USE DEF AdaptorInv
<1>2. PICK n \in 1 .. MaxChunks : n = clock + 1 /\ clock' = n /\ n \in Nat
  BY LogAdaptorAssumption DEF AdaptorTyped, DoLog
<1>3. PICK st \in Seq(Bytes) : st = Stamped(chunk) /\ Len(st) >= 1 /\ \A i \in 1 .. Len(st) : st[i].came = n
  BY <1>2, StampedIs
<1>4. PICK l \in Nat, m \in Nat : l = Len(line) /\ m = Len(st)
  OBVIOUS
<1>5. line \in Seq(Bytes) /\ DOMAIN line = 1 .. l
  BY <1>4 DEF AdaptorTyped
<1>6. PICK p \in Seq(Bytes) : input = p \o line /\ (p = <<>> \/ p[Len(p)].char = LF)
  BY DEF LineOfStream
<1>7. (p \o line) \o st = p \o (line \o st)
  <2>1. line \in Seq(Bytes)
    BY <1>5
  <2> QED
    BY ONLY <2>1, p \in Seq(Bytes), st \in Seq(Bytes)
<1>8. PICK text \in Seq(Bytes) : /\ text = line \o st /\ Len(text) = l + m /\ (\A i \in 1 .. l : text[i] = line[i])
                                 /\ \A i \in 1 .. m : text[l + i] = st[i]
  <2>1. line \o st \in Seq(Bytes) /\ Len(line \o st) = Len(line) + Len(st)
    BY <1>5, ConcatAt
  <2>2. (\A i \in 1 .. Len(line) : (line \o st)[i] = line[i]) /\ \A i \in 1 .. Len(st) : (line \o st)[Len(line) + i] = st[i]
    BY <1>5, ConcatAt
  <2> QED
    BY ONLY <1>4, <2>1, <2>2
<1>9. PICK first \in 1 .. n : first = Stamp /\ text[1].came = first
  <2>1. CASE line = <<>>
    <3>1. Stamp = n /\ n \in 1 .. n
      BY <1>2, <2>1 DEF Stamp
    <3>2. l = 0 /\ 1 \in 1 .. m /\ text[0 + 1] = st[1] /\ st[1].came = n
      BY <1>3, <1>4, <1>8, <2>1
    <3> QED
      BY <3>1, <3>2
  <2>2. CASE line # <<>>
    <3>1. Stamp = timestamp /\ timestamp = line[1].came
      BY <2>2 DEF Stamp, LineStamped
    <3>2. 1 \in 1 .. l
      BY <1>4, <1>5, <2>2
    <3>3. line[1] \in Bytes /\ text[1] = line[1]
      BY <1>4, <1>5, <1>8, <3>2
    <3>4. timestamp \in 1 .. n
      <4>1. line[1].came \in 1 .. MaxChunks
        BY <3>3 DEF Bytes
      <4>2. timestamp \in 0 .. clock /\ clock \in 0 .. MaxChunks
        BY DEF AdaptorTyped
      <4>3. PICK t \in Int : t = timestamp /\ t >= 1 /\ t <= clock
        BY <3>1, <4>1, <4>2
      <4> QED
        BY <1>2, <4>2, <4>3
    <3> QED
      BY <3>1, <3>3, <3>4
  <2> QED
    BY <2>1, <2>2
<1>10. DOMAIN text = 1 .. l + m
  BY <1>8
<1>11. ASSUME NEW j \in Breaks(text)
      PROVE  j \in 1 .. l + m /\ j > l /\ (j < l + m => text[j + 1].came = n)
  <2>1. j \in 1 .. l + m /\ text[j].char = LF
    BY <1>10 DEF Breaks
  <2>2. j > l
    <3> SUFFICES ASSUME ~(j > l)
                 PROVE  FALSE
      OBVIOUS
    <3>1. j \in 1 .. l
      BY <2>1
    <3>2. j \in Breaks(line)
      BY <1>5, <1>8, <2>1, <3>1 DEF Breaks
    <3> QED
      BY <3>2 DEF LineOfStream
  <2>3. ASSUME j < l + m
        PROVE  text[j + 1].came = n
    <3>1. PICK i \in 1 .. m : j + 1 = l + i
      BY <2>1, <2>2, <2>3
    <3> QED
      BY <1>3, <1>4, <1>8, <3>1
  <2> QED
    BY <2>1, <2>2, <2>3
<1>12. PICK out \in Seq(LineRecords(n)) : out = Cut(text, first, n) /\ TextsOf(out) = Lines(text)
  <2>1. n \in 1 .. n /\ \A j \in Breaks(text) : j < Len(text) => text[j + 1].came = n
    BY <1>8, <1>11
  <2>2. text # <<>> => text[1].came = first
    BY <1>9
  <2> QED
    BY <1>2, <2>1, <2>2, CutIs
<1>13. /\ kind = "STREAM" /\ kind' = kind /\ filters' = filters /\ packets' = packets
       /\ line' = SubSeq(text, Begin(text, Len(text) + 1), Len(text))
       /\ timestamp' = (IF Breaks(text) = {} THEN first ELSE n) /\ Send(out) /\ input' = input \o st
  BY <1>2, <1>3, <1>8, <1>9, <1>12 DEF DoLog, config
<1>14. PICK b \in 1 .. Len(text) + 1, q \in Seq(Bytes), r \in Seq(Bytes) :
         /\ b = Begin(text, Len(text) + 1) /\ r = SubSeq(text, b, Len(text)) /\ text = q \o r
         /\ q = <<>> \/ q[Len(q)].char = LF
         /\ Breaks(r) = {}
         /\ Len(r) = Len(text) - b + 1 /\ (r # <<>> => b <= Len(text) /\ r[1] = text[b])
         /\ IF Breaks(text) = {} THEN b = 1 ELSE b - 1 \in Breaks(text)
  BY RestIs
<1>15. line' = r
  BY <1>13, <1>14
<1>16. input' = p \o text /\ p \o text \in Seq(Bytes)
  <2>1. (p \o line) \o st = p \o (line \o st) /\ p \o text \in Seq(Bytes)
    <3>1. (p \o line) \o st = p \o (line \o st)
      BY <1>7
    <3>2. p \o text \in Seq(Bytes)
      BY ONLY <1>1, p \in Seq(Bytes), text \in Seq(Bytes), Zenon
    <3> QED
      BY <3>1, <3>2
  <2> QED
    BY <1>8, <1>13, <1>6, <2>1
<1>17. AdaptorTyped'
  <2>1. timestamp' \in 0 .. n
    BY <1>2, <1>13
  <2>2. n \in 0 .. MaxChunks
    BY <1>2
  <2> QED
    BY <1>2, <1>13, <1>15, <1>16, <2>1, <2>2 DEF AdaptorTyped
<1>18. PICK sent \in Seq(RecordsUntil(n)) : sent = out
  <2>1. LineRecords(n) \subseteq RecordsUntil(n)
    BY DEF LineRecords
  <2> QED
    BY <2>1
<1>19. /\ records' \in [Channels -> Seq(RecordsUntil(n))]
       /\ \A c \in Channels :
            /\ Len(records'[c]) = Len(records[c]) + Len(sent)
            /\ \A i \in 1 .. Len(records[c]) : records'[c][i] = records[c][i]
            /\ \A i \in 1 .. Len(sent) : records'[c][Len(records[c]) + i] = Transfer(c, sent[i])
  BY <1>2, <1>13, <1>18, Sent
<1>20. RecordsTyped'
  <2>1. RecordsUntil(clock)' = RecordsUntil(n)
    BY <1>2 DEF RecordsUntil
  <2>2. packets' \in Seq(RecordsUntil(n))
    BY <1>2, <1>13, StillRecords DEF RecordsTyped, AdaptorTyped
  <2> QED
    BY <1>19, <2>1, <2>2 DEF RecordsTyped
<1>21. LineOfStream'
  <2>1. p \o text = (p \o q) \o r /\ p \o q \in Seq(Bytes)
    <3>1. (p \o q) \o r = p \o (q \o r) /\ p \o q \in Seq(Bytes)
      BY ONLY <1>1, p \in Seq(Bytes), q \in Seq(Bytes), r \in Seq(Bytes), Zenon
    <3> QED
      BY ONLY <1>14, <3>1
  <2>2. p \o q = <<>> \/ (p \o q)[Len(p \o q)].char = LF
    <3>1. CASE q = <<>>
      BY <1>6, <3>1
    <3>2. CASE q # <<>>
      <4>1. PICK i \in Nat, k \in Nat : i = Len(p) /\ k = Len(q) /\ k >= 1
        BY <3>2
      <4>2. /\ Len(p \o q) = Len(p) + Len(q)
            /\ \A j \in 1 .. Len(q) : (p \o q)[Len(p) + j] = q[j]
        BY ConcatAt
      <4>3. k \in 1 .. k
        BY <4>1
      <4> QED
        BY <1>14, <3>2, <4>1, <4>2, <4>3
    <3> QED
      BY <3>1, <3>2
  <2>3. Breaks(line)' = {}
    BY <1>14, <1>15 DEF Breaks
  <2>4. input' = (p \o q) \o line'
    BY <1>15, <1>16, <2>1
  <2> QED
    BY <2>1, <2>2, <2>3, <2>4 DEF LineOfStream
<1>22. LineStamped'
  <2>1. ASSUME r # <<>>
        PROVE  timestamp' = r[1].came
    <3>1. r[1] = text[b] /\ b <= l + m
      BY <1>8, <1>14, <2>1
    <3>2. CASE Breaks(text) = {}
      BY <1>9, <1>13, <1>14, <3>1, <3>2
    <3>3. CASE Breaks(text) # {}
      <4>1. b - 1 \in Breaks(text)
        BY <1>14, <3>3
      <4>2. b - 1 < l + m /\ (b - 1) + 1 = b
        <5>1. b \in Nat \ {0}
          BY ONLY b \in 1 .. Len(text) + 1, text \in Seq(Bytes)
        <5>2. b <= l + m
          BY <3>1
        <5> QED
          BY ONLY <5>1, <5>2, l \in Nat, m \in Nat
      <4>3. text[b].came = n
        BY <1>11, <4>1, <4>2
      <4> QED
        BY <1>13, <3>1, <3>3, <4>3
    <3> QED
      BY <3>2, <3>3
  <2> QED
    BY <1>15, <2>1 DEF LineStamped
<1>23. Lines(input') = Lines(input) \o Lines(text)
  <2>1. Lines(input') = Lines(p) \o Lines(text)
    BY <1>6, <1>16, LinesConcat
  <2>2. Lines(input) = Lines(p) \o Lines(line)
    BY <1>5, <1>6, LinesConcat
  <2>3. Lines(line) = <<>> /\ Lines(p) \in Seq(Seq(Bytes))
    BY <1>5, NoBreakNoLine, PiecesAre DEF LineOfStream
  <2>4. Lines(p) \o <<>> = Lines(p)
    BY <2>3
  <2> QED
    BY <2>1, <2>2, <2>3, <2>4
<1>24. PICK old \in Seq(Seq(Bytes)), new \in Seq(Seq(Bytes)) : old = Lines(input) /\ new = Lines(text)
  BY PiecesAre DEF AdaptorTyped
<1>25. PICK all \in Seq(Seq(Bytes)) : /\ all = Lines(input') /\ Len(all) = Len(old) + Len(new)
                                      /\ (\A i \in 1 .. Len(old) : all[i] = old[i])
                                      /\ \A i \in 1 .. Len(new) : all[Len(old) + i] = new[i]
  <2>1. old \o new \in Seq(Seq(Bytes)) /\ Len(old \o new) = Len(old) + Len(new)
    BY ConcatAt
  <2>2. (\A i \in 1 .. Len(old) : (old \o new)[i] = old[i]) /\ \A i \in 1 .. Len(new) : (old \o new)[Len(old) + i] = new[i]
    BY ConcatAt
  <2> QED
    BY ONLY <1>23, <1>24, <2>1, <2>2
<1>26. Len(sent) = Len(new) /\ \A i \in 1 .. Len(sent) : sent[i] \in LineRecords(n) /\ sent[i].text = new[i]
  <2>1. PICK k \in Nat : k = Len(out) /\ DOMAIN out = 1 .. k
    OBVIOUS
  <2>2. new = [i \in 1 .. k |-> out[i].text]
    BY <1>12, <1>24, <2>1 DEF TextsOf
  <2>3. Len(new) = k /\ \A i \in 1 .. k : new[i] = out[i].text /\ out[i] \in LineRecords(n)
    BY <2>1, <2>2
  <2> QED
    BY <1>18, <2>1, <2>3
<1>27. ASSUME NEW c \in Channels
       PROVE  /\ Len(records'[c]) = Len(all)
              /\ \A i \in 1 .. Len(records'[c]) :
                   /\ records'[c][i].text = IF filters[c] THEN Unescaped(all[i]) ELSE all[i]
                   /\ records'[c][i].sink = c
                   /\ ~filters[c] => records'[c][i].time = records'[c][i].text[1].came
  <2>1. PICK j \in Nat, k \in Nat : j = Len(old) /\ k = Len(new)
    OBVIOUS
  <2>2. Len(records[c]) = j
    BY <1>13, <1>24, <2>1 DEF StreamRecords
  <2>3. /\ Len(records'[c]) = j + k /\ (\A i \in 1 .. j : records'[c][i] = records[c][i])
        /\ \A i \in 1 .. k : records'[c][j + i] = Transfer(c, sent[i])
    BY <1>19, <1>26, <2>1, <2>2
  <2>4. Len(all) = j + k /\ (\A i \in 1 .. j : all[i] = old[i]) /\ \A i \in 1 .. k : all[j + i] = new[i]
    BY <1>25, <2>1
  <2>5. ASSUME NEW i \in 1 .. j + k
        PROVE  /\ records'[c][i].text = IF filters[c] THEN Unescaped(all[i]) ELSE all[i]
               /\ records'[c][i].sink = c
               /\ ~filters[c] => records'[c][i].time = records'[c][i].text[1].came
    <3>1. CASE i \in 1 .. j
      <4>1. /\ records[c][i].text = IF filters[c] THEN Unescaped(old[i]) ELSE old[i]
            /\ records[c][i].sink = c
            /\ ~filters[c] => records[c][i].time = records[c][i].text[1].came
        <5>1. i \in 1 .. Len(records[c])
          BY <2>2, <3>1
        <5>2. \A e \in 1 .. Len(records[c]) :
                /\ records[c][e].text = IF filters[c] THEN Unescaped(Lines(input)[e]) ELSE Lines(input)[e]
                /\ records[c][e].sink = c
                /\ ~filters[c] => records[c][e].time = records[c][e].text[1].came
          BY <1>13 DEF StreamRecords
        <5> QED
          BY ONLY <1>24, <5>1, <5>2
      <4>2. records'[c][i] = records[c][i] /\ all[i] = old[i]
        BY <2>3, <2>4, <3>1
      <4> QED
        BY <4>1, <4>2
    <3>2. CASE i \notin 1 .. j
      <4>1. PICK h \in 1 .. k : i = j + h
        BY <3>2
      <4>2. PICK x \in RecordsUntil(n) : x = sent[h] /\ x.sink = "unknown" /\ x.time = x.text[1].came /\ x.text = new[h]
        BY <1>26, <2>1, <4>1 DEF LineRecords
      <4>3. records'[c][i] = Transfer(c, x) /\ all[i] = new[h]
        BY <2>3, <2>4, <4>1, <4>2
      <4>4. /\ Transfer(c, x).text = (IF filters[c] THEN Unescaped(x.text) ELSE x.text)
            /\ Transfer(c, x).sink = (IF x.sink = "unknown" THEN c ELSE x.sink) /\ Transfer(c, x).time = x.time
        BY <1>2, TransferIs
      <4> QED
        BY <4>2, <4>3, <4>4
    <3> QED
      BY <3>1, <3>2
  <2> QED
    BY <2>3, <2>4, <2>5
<1>28. StreamRecords'
  <2>1. Lines(input)' = all
    BY <1>25 DEF Lines, EndsLine, LineTo, Begin, Breaks, Trimmed
  <2>2. \A s : Unescaped(s)' = Unescaped(s)
    BY DEF Unescaped
  <2>3. \A i : Unescaped(Lines(input)[i])' = Unescaped(all[i])
    BY <2>1 DEF Unescaped
  <2> QED
    BY <1>13, <1>27, <2>1, <2>3, SMTT(30) DEF StreamRecords
<1>29. PacketRecords'
  BY <1>13 DEF PacketRecords
<1> QED
  BY <1>17, <1>20, <1>21, <1>22, <1>28, <1>29

LEMMA InitAdaptor == Init => AdaptorInv
<1> SUFFICES ASSUME Init
             PROVE  AdaptorInv
  OBVIOUS
<1> USE DEF Init
<1>1. AdaptorTyped
  BY LogAdaptorAssumption DEF AdaptorTyped
<1>2. RecordsTyped
  BY DEF RecordsTyped
<1>3. LineOfStream /\ LineStamped
  <2>1. Breaks(<<>>) = {} /\ <<>> = <<>> \o <<>> /\ <<>> \in Seq(Bytes)
    BY DEF Breaks
  <2> QED
    BY <2>1 DEF LineOfStream, LineStamped
<1>4. StreamRecords
  <2>1. <<>> \in Seq(Bytes) /\ Breaks(<<>>) = {}
    BY DEF Breaks
  <2>2. Lines(<<>>) = <<>>
    BY <2>1, NoBreakNoLine
  <2> QED
    BY <2>2 DEF StreamRecords
<1>5. PacketRecords
  BY DEF PacketRecords
<1> QED
  BY <1>1, <1>2, <1>3, <1>4, <1>5 DEF AdaptorInv

LEMMA AdaptorStep == AdaptorInv /\ [Next]_vars => AdaptorInv'
<1> SUFFICES ASSUME AdaptorInv, [Next]_vars
             PROVE  AdaptorInv'
  OBVIOUS
<1>1. ASSUME clock < MaxChunks, NEW n \in 1 .. MaxChunk, NEW chunk \in [1 .. n -> Chars], DoLog(chunk)
      PROVE  AdaptorInv'
  <2>1. n \in Nat /\ chunk \in Seq(Chars) /\ Len(chunk) >= 1
    BY LogAdaptorAssumption
  <2> QED
    BY <1>1, <2>1, StreamStep
<1>2. ASSUME clock < MaxChunks, NEW text \in Texts, DoLogEtf(text)
      PROVE  AdaptorInv'
  BY <1>2, EtfStep
<1>3. ASSUME clock < MaxChunks, NEW command \in Commands, NEW text \in Texts, NEW sink \in {"client", "unknown"},
             DoLogOscar(command, text, sink)
      PROVE  AdaptorInv'
  BY <1>3, OscarStep
<1>4. ASSUME clock < MaxChunks, DropPacket
      PROVE  AdaptorInv'
  BY <1>4, NoRecordStep DEF DropPacket, config
<1>5. ASSUME UNCHANGED vars
      PROVE  AdaptorInv'
  BY <1>5, NoRecordStep DEF vars, config
<1> QED
  BY <1>1, <1>2, <1>3, <1>4, <1>5 DEF Next

LEMMA AdaptorSafe == AdaptorInv => RecordsAsConfigured /\ PacketsAsSaid /\ TimeOfFirstByte
<1> SUFFICES ASSUME AdaptorInv
             PROVE  RecordsAsConfigured /\ PacketsAsSaid /\ TimeOfFirstByte
  OBVIOUS
<1> USE DEF AdaptorInv
<1>1. ASSUME NEW c \in Channels
      PROVE  /\ records[c] \in Seq(RecordsUntil(clock)) /\ Len(records[c]) \in Nat
             /\ DOMAIN records[c] = 1 .. Len(records[c])
             /\ \A i \in 1 .. Len(records[c]) : records[c][i] \in RecordsUntil(clock)
  <2>1. records[c] \in Seq(RecordsUntil(clock))
    BY DEF RecordsTyped
  <2> QED
    BY <2>1
<1>2. /\ packets \in Seq(RecordsUntil(clock)) /\ Len(packets) \in Nat /\ DOMAIN packets = 1 .. Len(packets)
      /\ \A i \in 1 .. Len(packets) : packets[i] \in RecordsUntil(clock)
  <2>1. packets \in Seq(RecordsUntil(clock))
    BY DEF RecordsTyped
  <2> QED
    BY <2>1
<1>3. clock \in Nat
  BY LogAdaptorAssumption DEF AdaptorTyped
<1>4. TypeOK
  BY <1>1 DEF TypeOK, AdaptorTyped, LineOfStream, RecordsUntil
<1>5. LinesAsWritten
  <2> SUFFICES ASSUME kind = "STREAM", NEW c \in Channels
               PROVE  [i \in DOMAIN records[c] |-> records[c][i].text] =
                        [i \in DOMAIN Lines(input) |-> IF filters[c] THEN Unescaped(Lines(input)[i]) ELSE Lines(input)[i]]
    BY DEF LinesAsWritten
  <2>1. PICK all \in Seq(Seq(Bytes)) : all = Lines(input)
    BY PiecesAre DEF AdaptorTyped
  <2>2. /\ Len(records[c]) = Len(all)
        /\ \A i \in 1 .. Len(records[c]) : records[c][i].text = IF filters[c] THEN Unescaped(all[i]) ELSE all[i]
    BY <2>1 DEF StreamRecords
  <2>3. DOMAIN records[c] = DOMAIN all /\ DOMAIN records[c] = 1 .. Len(records[c])
    BY <1>1, <2>2
  <2> QED
    BY <2>1, <2>2, <2>3
<1>6. PacketsAsSaid
  <2> SUFFICES ASSUME kind # "STREAM", NEW c \in Channels
               PROVE  /\ Len(records[c]) = Len(packets)
                      /\ \A i \in DOMAIN packets :
                           /\ records[c][i].text = IF filters[c] THEN Unescaped(packets[i].text) ELSE packets[i].text
                           /\ \A f \in {"command", "tag", "time"} : records[c][i][f] = packets[i][f]
    BY DEF PacketsAsSaid
  <2>1. Len(records[c]) = Len(packets) /\ \A i \in 1 .. Len(packets) : records[c][i] = Transfer(c, packets[i])
    BY DEF PacketRecords
  <2>2. ASSUME NEW i \in 1 .. Len(packets)
        PROVE  /\ records[c][i].text = IF filters[c] THEN Unescaped(packets[i].text) ELSE packets[i].text
               /\ \A f \in {"command", "tag", "time"} : records[c][i][f] = packets[i][f]
    <3>1. PICK p \in RecordsUntil(clock) : p = packets[i]
      BY <1>2
    <3>2. /\ Transfer(c, p).text = (IF filters[c] THEN Unescaped(p.text) ELSE p.text)
          /\ Transfer(c, p).command = p.command /\ Transfer(c, p).tag = p.tag /\ Transfer(c, p).time = p.time
      BY <1>3, TransferIs
    <3>3. PICK r : r = records[c][i] /\ r = Transfer(c, p)
      BY <2>1, <3>1
    <3> QED
      BY <3>1, <3>2, <3>3
  <2> QED
    BY <1>2, <2>1, <2>2
<1>7. OwnSinkUnlessSaid
  <2> SUFFICES ASSUME NEW c \in Channels, NEW i \in DOMAIN records[c]
               PROVE  records[c][i].sink = IF kind = "STREAM" \/ packets[i].sink = "unknown" THEN c ELSE packets[i].sink
    BY DEF OwnSinkUnlessSaid
  <2>1. i \in 1 .. Len(records[c])
    BY <1>1
  <2>2. CASE kind = "STREAM"
    BY <2>1, <2>2 DEF StreamRecords
  <2>3. CASE kind # "STREAM"
    <3>1. i \in 1 .. Len(packets) /\ records[c][i] = Transfer(c, packets[i])
      BY <2>1, <2>3 DEF PacketRecords
    <3>2. PICK p \in RecordsUntil(clock) : p = packets[i]
      BY <1>2, <3>1
    <3>3. Transfer(c, p).sink = IF p.sink = "unknown" THEN c ELSE p.sink
      BY <1>3, TransferIs
    <3> QED
      BY <2>3, <3>1, <3>2, <3>3
  <2> QED
    BY <2>2, <2>3
<1>8. TimeOfFirstByte
  BY <1>1 DEF TimeOfFirstByte, StreamRecords
<1> QED
  BY <1>4, <1>5, <1>6, <1>7, <1>8 DEF RecordsAsConfigured

\* However the bytes of a stream fall into chunks, every channel of its adaptor sends
\* exactly the lines of the stream, filtered as that channel is configured, for its own
\* sink (CStreamLoggerAdaptor::DoLog, CLogChannel::TransferLogMessage).
THEOREM RecordsKept == Spec => []RecordsAsConfigured
BY InitAdaptor, AdaptorStep, AdaptorSafe, PTL DEF Spec

\* A record has the time of the chunk that brought the first byte of its line, for any
\* number of chunks between that byte and the end of the line.
THEOREM TimesKept == Spec => []TimeOfFirstByte
BY InitAdaptor, AdaptorStep, AdaptorSafe, PTL DEF Spec

\* Every channel of a packet adaptor sends one record per packet that says what the
\* packet's sender said: what snac and tlv write is what flap_parser reads.
THEOREM PacketsKept == Spec => []PacketsAsSaid
BY InitAdaptor, AdaptorStep, AdaptorSafe, PTL DEF Spec
=============================================================================
