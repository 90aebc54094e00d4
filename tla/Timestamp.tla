----------------------------- MODULE Timestamp -----------------------------
(***************************************************************************)
(* Time stamps: TS::TimestampAdjust and the order of CCompareTimestamps.   *)
(* A time stamp has seconds and, in the field that timespec means for      *)
(* nanoseconds, microseconds.                                              *)
(***************************************************************************)
EXTENDS Integers

CONSTANT Second  \* ONE_SECOND_IN_MICROSECONDS

ASSUME SecondAssumption == Second \in Nat \ {0}

Timestamps == [sec : Int, usec : 0 .. Second - 1]

\* A time stamp of n microseconds, and back.
Stamped(n) == [sec |-> n \div Second, usec |-> n % Second]
Micros(ts) == ts.sec * Second + ts.usec

\* The remainder and the quotient of C++ are those of the absolute value.
CppDiv(a, b) == IF a >= 0 THEN a \div b ELSE -((-a) \div b)
CppMod(a, b) == IF a >= 0 THEN a % b ELSE -((-a) % b)

\* The loop that makes the part positive: one round, for a remainder is above -Second.
Settled(sec, part) ==
  IF part < 0 THEN [sec |-> sec - 1, usec |-> part + Second] ELSE [sec |-> sec, usec |-> part]

TimestampAdjust(ts, delta) ==
  LET mcs == CppMod(ts.sec, Second) * Second + ts.usec + delta
      sec == CppDiv(ts.sec, Second) * Second
  IN IF delta = 0 THEN ts ELSE Settled(sec + CppDiv(mcs, Second), CppMod(mcs, Second))

\* operator< of two time stamps.
Earlier(a, b) == a.sec < b.sec \/ (a.sec = b.sec /\ a.usec < b.usec)
=============================================================================
