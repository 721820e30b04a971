--------------------------- MODULE TrainingProofs ---------------------------
(***************************************************************************)
(* The training side of neat-core, for every call, every set of items and   *)
(* every width of a number: decode stays inside its buffer, the safe zones  *)
(* are shares, the shares of an error sum to it, a neuron's error is        *)
(* complete when its turn comes, deltas go where outcomes say, each record  *)
(* of the accumulators is its own, and what they come to is bounded.        *)
(***************************************************************************)
EXTENDS Training, Iteration, FiniteSetTheorems, SequenceTheorems, TLAPS

USE FixedPointAssumption

-----------------------------------------------------------------------------
(* The packed request *)

Requests == [bytes : Nat, neurons : Nat, synapses : Nat, inward : Nat, order : Nat, outputs : Nat]

\* Where a section ends is where the one before it ends and its own stride.
LEMMA SectionEnds ==
  ASSUME NEW b \in Requests
  PROVE  /\ EndOf(b, 0) = PropagateHeader
         /\ \A i \in 1 .. 6 : EndOf(b, i) = EndOf(b, i - 1) + Strides(b)[i]
<1> DEFINE s == Strides(b)
           at[k \in 0 .. 6] == IF k = 0 THEN PropagateHeader ELSE at[k - 1] + s[k]
           step == [p \in (1 .. 6) \X Nat |-> p[2] + s[p[1]]]
<1>1. \A k \in 1 .. 6 : s[k] \in Nat
  <2>1. \A k : k \in 1 .. 6 <=> k = 1 \/ k = 2 \/ k = 3 \/ k = 4 \/ k = 5 \/ k = 6 OBVIOUS
  <2> QED BY DEF Strides, Requests
<1> HIDE DEF s
<1>2. \A k \in 1 .. 6 : \A x \in Nat : step[<<k, x>>] = x + s[k] /\ x + s[k] \in Nat
  BY <1>1
<1>3. PICK g \in [0 .. 6 -> Nat] :
        g[0] = PropagateHeader /\ \A k \in 1 .. 6 : g[k] = step[<<k, g[k - 1]>>]
  <2> DEFINE n == 6
             first == PropagateHeader
             X == Nat
  <2>1. n \in Nat /\ first \in X BY DEF PropagateHeader
  <2> HIDE DEF step
  <2>2. \A k \in 1 .. n : \A x \in X : step[<<k, x>>] \in X BY <1>2
  <2> HIDE DEF n, first, X, at
  <2>3. \E g \in [0 .. n -> X] : StepsBy(g, n, first, step) BY <2>1, <2>2, Recursion
  <2> QED BY <2>3 DEF n, first, X, StepsBy
<1>4. g = [k \in 0 .. 6 |-> IF k = 0 THEN PropagateHeader ELSE g[k - 1] + s[k]]
  <2>1. \A k \in 1 .. 6 : g[k] = g[k - 1] + s[k]
    <3> TAKE k \in 1 .. 6
    <3>1. g[k - 1] \in Nat OBVIOUS
    <3> HIDE DEF step
    <3> QED BY <1>2, <1>3, <3>1
  <2> QED BY <1>3, <2>1
<1>5. at = [k \in 0 .. 6 |-> IF k = 0 THEN PropagateHeader ELSE at[k - 1] + s[k]] BY <1>4
<1> HIDE DEF at
<1>6. \A i : EndOf(b, i) = at[i] BY DEF EndOf, at, s
<1>7. \A k \in 1 .. 6 : at[k] = at[k - 1] + s[k] BY <1>5
<1>8. at[0] = PropagateHeader BY <1>5
<1>9. \A k \in 1 .. 6 : EndOf(b, k) = EndOf(b, k - 1) + s[k] BY <1>6, <1>7
<1> QED BY <1>6, <1>8, <1>9 DEF s

LEMMA DecodeInside ==
  ASSUME NEW b \in Requests
  PROVE  DecodeStaysInside(b)
<1>1. \A i \in 1 .. 6 : Strides(b)[i] \in Nat
  <2>1. \A i : i \in 1 .. 6 <=> i = 1 \/ i = 2 \/ i = 3 \/ i = 4 \/ i = 5 \/ i = 6 OBVIOUS
  <2> QED BY <2>1 DEF Strides, Requests
<1>2. \A i \in 0 .. 6 : EndOf(b, i) \in Nat /\ EndOf(b, i) <= EndOf(b, 6)
  <2> DEFINE e(i) == EndOf(b, i)
  <2>0. e(0) \in Nat BY SectionEnds DEF PropagateHeader
  <2>1. ASSUME NEW i \in 1 .. 6, e(i - 1) \in Nat PROVE e(i) \in Nat /\ e(i - 1) <= e(i)
    <3>1. e(i) = e(i - 1) + Strides(b)[i] BY SectionEnds
    <3> HIDE DEF e
    <3> QED BY <1>1, <2>1, <3>1
  <2> HIDE DEF e
  <2>2. e(1) \in Nat /\ e(0) <= e(1) BY <2>0, <2>1
  <2>3. e(2) \in Nat /\ e(1) <= e(2) BY <2>2, <2>1
  <2>4. e(3) \in Nat /\ e(2) <= e(3) BY <2>3, <2>1
  <2>5. e(4) \in Nat /\ e(3) <= e(4) BY <2>4, <2>1
  <2>6. e(5) \in Nat /\ e(4) <= e(5) BY <2>5, <2>1
  <2>7. e(6) \in Nat /\ e(5) <= e(6) BY <2>6, <2>1
  <2>8. \A i : i \in 0 .. 6 => i = 0 \/ i = 1 \/ i = 2 \/ i = 3 \/ i = 4 \/ i = 5 \/ i = 6 OBVIOUS
  <2>9. \A i \in 0 .. 6 : e(i) \in Nat /\ e(i) <= e(6)
    BY <2>0, <2>2, <2>3, <2>4, <2>5, <2>6, <2>7, <2>8
  <2> QED BY <2>9 DEF e
<1> SUFFICES ASSUME ~DecodeRefuses(b), NEW i \in 0 .. 6 PROVE EndOf(b, i) <= b.bytes
  BY DEF DecodeStaysInside
<1>3. b.bytes \in Nat BY DEF Requests
<1>4. 6 \in 0 .. 6 OBVIOUS
<1>5. ~(b.bytes < EndOf(b, 6)) BY DEF DecodeRefuses, ExpectedSize
<1>6. EndOf(b, i) \in Nat /\ EndOf(b, 6) \in Nat /\ EndOf(b, i) <= EndOf(b, 6) BY <1>2, <1>4
<1> QED BY <1>3, <1>5, <1>6

\* Whatever counts a packed propagate request declares, every section decode
\* walks ends inside the buffer it accepted (propagate_codec.rs).
THEOREM DecodeNeverOverruns == Spec => []CodecReadsInside
<1>1. Init => CodecReadsInside
  <2> SUFFICES ASSUME Init, task = "decode" PROVE DecodeStaysInside(probe)
    BY DEF CodecReadsInside
  <2>1. probe \in Buffers BY DEF Init
  <2>2. probe \in Requests BY <2>1, TrainingAssumption DEF Requests
  <2> QED BY <2>2, DecodeInside
<1>2. CodecReadsInside /\ [Next]_vars => CodecReadsInside'
  <2> SUFFICES ASSUME CodecReadsInside, [Next]_vars PROVE CodecReadsInside' OBVIOUS
  <2>1. task' = task /\ probe' = probe BY DEF Next, vars
  <2> QED BY <2>1 DEF CodecReadsInside
<1> QED BY <1>1, <1>2, PTL DEF Spec

-----------------------------------------------------------------------------
(* Sums of integers *)

\* f adds s up.
Sums(f, s) ==
  f \in [0 .. Len(s) -> Int] /\ f[0] = 0 /\ \A k \in 1 .. Len(s) : f[k] = f[k - 1] + s[k]

LEMMA SumStep ==
  ASSUME NEW s \in Seq(Int), NEW f, Sums(f, s), NEW k \in 1 .. Len(s)
  PROVE  f[k] = f[k - 1] + s[k] /\ f[k] \in Int /\ f[k - 1] \in Int /\ s[k] \in Int
<1>1. Len(s) \in Nat /\ s[k] \in Int BY LenProperties, ElementOfSeq
<1>2. k \in 0 .. Len(s) /\ k - 1 \in 0 .. Len(s) BY <1>1
<1> QED BY <1>1, <1>2 DEF Sums

LEMMA SumUpTo ==
  ASSUME NEW s \in Seq(Int)
  PROVE  /\ \E f : Sums(f, s)
         /\ \A f : Sums(f, s) => SumOf(s) = f[Len(s)]
<1> DEFINE n == Len(s)
           upTo[k \in 0 .. Len(s)] == IF k = 0 THEN 0 ELSE upTo[k - 1] + s[k]
           step == [p \in (1 .. n) \X Int |-> p[2] + s[p[1]]]
<1>1. n \in Nat /\ \A k \in 1 .. n : s[k] \in Int BY LenProperties, ElementOfSeq
<1>2. \A k \in 1 .. n : \A x \in Int : step[<<k, x>>] = x + s[k] /\ x + s[k] \in Int
  BY <1>1
<1>3. PICK g \in [0 .. n -> Int] : StepsBy(g, n, 0, step)
  <2> DEFINE first == 0
             X == Int
             m == n
  <2>1. m \in Nat /\ first \in X BY <1>1
  <2> HIDE DEF step
  <2>2. \A k \in 1 .. m : \A x \in X : step[<<k, x>>] \in X BY <1>2
  <2> HIDE DEF first, X, upTo, m
  <2>3. \E g \in [0 .. m -> X] : StepsBy(g, m, first, step) BY <2>1, <2>2, Recursion
  <2> QED BY <2>3 DEF first, X, m
<1> HIDE DEF step, upTo
<1>4. Sums(g, s)
  <2>1. \A k \in 1 .. n : g[k] = g[k - 1] + s[k]
    <3> TAKE k \in 1 .. n
    <3>1. g[k - 1] \in Int BY <1>1
    <3>2. g[k] = step[<<k, g[k - 1]>>] BY <1>3 DEF StepsBy
    <3> QED BY <1>2, <3>1, <3>2
  <2> QED BY <1>3, <2>1 DEF Sums, StepsBy
<1>5. upTo = [k \in 0 .. Len(s) |-> IF k = 0 THEN 0 ELSE upTo[k - 1] + s[k]]
  <2>1. g = [k \in 0 .. Len(s) |-> IF k = 0 THEN 0 ELSE g[k - 1] + s[k]]
    BY <1>1, <1>4 DEF Sums
  <2> QED BY <2>1 DEF upTo
<1>6. SumOf(s) = upTo[n] BY DEF SumOf, upTo
<1>7. ASSUME NEW f, Sums(f, s) PROVE SumOf(s) = f[n]
  <2> DEFINE T == {k \in 0 .. n : upTo[k] = f[k]}
  <2>1. 0 \in T BY <1>1, <1>5, <1>7 DEF Sums
  <2>2. ASSUME NEW k \in 1 .. n, k - 1 \in T PROVE k \in T
    <3>1. upTo[k] = upTo[k - 1] + s[k] BY <1>1, <1>5
    <3>2. f[k] = f[k - 1] + s[k] BY <1>7 DEF Sums
    <3> QED BY <1>1, <2>2, <3>1, <3>2
  <2>3. 0 .. n \subseteq T
    <3> HIDE DEF T
    <3> QED BY <1>1, <2>1, <2>2, InductionUpTo
  <2> QED BY <1>1, <1>6, <2>3
<1> QED BY <1>4, <1>7

LEMMA SumIsInt ==
  ASSUME NEW s \in Seq(Int) PROVE SumOf(s) \in Int
<1>1. PICK f : Sums(f, s) /\ SumOf(s) = f[Len(s)] BY SumUpTo
<1>2. Len(s) \in 0 .. Len(s) BY LenProperties
<1> QED BY <1>1, <1>2 DEF Sums

\* Adding to one place adds to the sum.
LEMMA SumUpdated ==
  ASSUME NEW s \in Seq(Int), NEW j \in 1 .. Len(s), NEW r \in Int
  PROVE  SumOf([s EXCEPT ![j] = @ + r]) = SumOf(s) + r
<1> DEFINE t == [s EXCEPT ![j] = @ + r]
           n == Len(s)
<1>1. n \in Nat /\ \A k \in 1 .. n : s[k] \in Int BY LenProperties, ElementOfSeq
<1>2. /\ t \in Seq(Int) /\ Len(t) = n
      /\ \A k \in 1 .. n : t[k] = IF k = j THEN s[k] + r ELSE s[k]
  BY <1>1
<1>3. PICK f : Sums(f, s) /\ SumOf(s) = f[n] BY SumUpTo
<1> DEFINE g == [k \in 0 .. n |-> IF k >= j THEN f[k] + r ELSE f[k]]
<1> HIDE DEF t
<1>4. Sums(g, t)
  <2>1. g \in [0 .. n -> Int] /\ g[0] = 0 BY <1>1, <1>3 DEF Sums
  <2>2. ASSUME NEW k \in 1 .. n PROVE g[k] = g[k - 1] + t[k]
    <3>1. f[k] = f[k - 1] + s[k] /\ f[k] \in Int /\ f[k - 1] \in Int /\ s[k] \in Int
      BY <1>3, SumStep
    <3>0. k \in 0 .. n /\ k - 1 \in 0 .. n BY <1>1
    <3>2. CASE k < j BY <1>1, <1>2, <3>1, <3>2
    <3>3. CASE k = j BY <1>1, <1>2, <3>1, <3>3
    <3>4. CASE k > j
      <4>1. g[k] = f[k] + r /\ g[k - 1] = f[k - 1] + r /\ t[k] = s[k] BY <1>1, <1>2, <3>0, <3>4
      <4> QED BY <3>1, <4>1
    <3> QED BY <1>1, <3>2, <3>3, <3>4
  <2> HIDE DEF g
  <2> QED BY <1>2, <2>1, <2>2 DEF Sums
<1>5. SumOf(t) = g[n] BY <1>2, <1>4, SumUpTo
<1> QED BY <1>1, <1>3, <1>5 DEF t

\* A sum above zero has a member above zero.
LEMMA SumHasPositive ==
  ASSUME NEW s \in Seq(Int), SumOf(s) > 0
  PROVE  \E i \in 1 .. Len(s) : s[i] > 0
<1> SUFFICES ASSUME \A i \in 1 .. Len(s) : ~(s[i] > 0) PROVE FALSE OBVIOUS
<1> DEFINE n == Len(s)
<1>1. n \in Nat /\ \A k \in 1 .. n : s[k] \in Int BY LenProperties, ElementOfSeq
<1>2. PICK f : Sums(f, s) /\ SumOf(s) = f[n] BY SumUpTo
<1> DEFINE T == {k \in 0 .. n : f[k] <= 0}
<1>3. 0 \in T BY <1>1, <1>2 DEF Sums
<1>4. ASSUME NEW k \in 1 .. n, k - 1 \in T PROVE k \in T
  <2>1. f[k] = f[k - 1] + s[k] /\ f[k] \in Int /\ f[k - 1] \in Int /\ s[k] \in Int /\ ~(s[k] > 0)
    BY <1>2, SumStep
  <2> QED BY <1>4, <2>1
<1>5. 0 .. n \subseteq T
  <2> HIDE DEF T
  <2> QED BY <1>1, <1>3, <1>4, InductionUpTo
<1>6. n \in 0 .. n /\ f[n] \in Int BY <1>1, <1>2 DEF Sums
<1> QED BY <1>2, <1>5, <1>6

\* A sum of one value.
LEMMA SumOfEqual ==
  ASSUME NEW s \in Seq(Int), NEW x \in Int, \A i \in 1 .. Len(s) : s[i] = x
  PROVE  SumOf(s) = Len(s) * x
<1> DEFINE n == Len(s)
           g == [k \in 0 .. n |-> k * x]
<1>1. n \in Nat BY LenProperties
<1>2. \A k \in 0 .. n : k * x \in Int OBVIOUS
<1>3. \A k \in 1 .. n : k * x = (k - 1) * x + x BY <1>1
<1>4. Sums(g, s) BY <1>1, <1>2, <1>3 DEF Sums
<1>5. SumOf(s) = g[n] BY <1>4, SumUpTo
<1> QED BY <1>1, <1>5

-----------------------------------------------------------------------------
(* Quotients rounded down *)

LEMMA Quotient ==
  ASSUME NEW a \in Int, NEW b \in Nat \ {0}
  PROVE  /\ a \div b \in Int
         /\ (a \div b) * b <= a
         /\ a < (a \div b + 1) * b
OBVIOUS

\* A quotient lies between the numbers its dividend lies between multiples of.
LEMMA QuotientBetween ==
  ASSUME NEW a \in Int, NEW b \in Nat \ {0}, NEW low \in Int, NEW high \in Int,
         low * b <= a, a <= high * b
  PROVE  a \div b \in low .. high
<1> DEFINE q == a \div b
<1>1. q \in Int /\ q * b <= a /\ a < (q + 1) * b BY Quotient
<1> HIDE DEF q
<1>2. low * b < (q + 1) * b /\ q * b <= high * b BY <1>1
<1>3. low < q + 1
  <2> DEFINE q1 == q + 1
  <2>1. q1 \in Int /\ low * b < q1 * b BY <1>1, <1>2
  <2> HIDE DEF q1
  <2>2. low < q1 BY <2>1
  <2> QED BY <2>2 DEF q1
<1>4. q <= high
  <2>1. ~(high < q) BY <1>1, <1>2
  <2> QED BY <1>1, <2>1
<1> QED BY <1>1, <1>3, <1>4 DEF q

LEMMA TimesIsInt == ASSUME NEW a \in Int, NEW b \in Int PROVE Times(a, b) \in Int
<1>1. a * b \in Int OBVIOUS
<1> QED BY <1>1, Quotient DEF Times

LEMMA OverIsInt == ASSUME NEW a \in Int, NEW b \in Int, b # 0 PROVE Over(a, b) \in Int
<1>1. a * One \in Int /\ (-a) * One \in Int OBVIOUS
<1>2. CASE b > 0 BY <1>1, <1>2, Quotient DEF Over
<1>3. CASE b < 0
  <2>1. -b \in Nat \ {0} BY <1>3
  <2> QED BY <1>1, <1>3, <2>1, Quotient DEF Over
<1> QED BY <1>2, <1>3

LEMMA TimesNothing == \A a \in Int : Times(a, 0) = 0 /\ Times(0, a) = 0
<1>1. \A a \in Int : a * 0 = 0 /\ 0 * a = 0 OBVIOUS
<1>2. 0 \div One = 0 OBVIOUS
<1> QED BY <1>1, <1>2 DEF Times

\* A part of a whole is a share.
LEMMA OverIsShare ==
  ASSUME NEW d \in Nat \ {0}, NEW x \in 0 .. d
  PROVE  Over(x, d) \in 0 .. One
<1>1. x * One \in Int /\ 0 * d <= x * One OBVIOUS
<1>2. x * One <= One * d
  <2>1. x * One <= d * One OBVIOUS
  <2>2. d * One = One * d OBVIOUS
  <2> QED BY <2>1, <2>2
<1>3. (x * One) \div d \in 0 .. One BY <1>1, <1>2, QuotientBetween
<1> QED BY <1>3 DEF Over

-----------------------------------------------------------------------------
(* The safe zones *)

IsShare(f) == f \in 0 .. One

LEMMA ShareParts ==
  /\ IsShare(0) /\ IsShare(One) /\ IsShare(One \div 5) /\ IsShare((3 * One) \div 10)
  /\ \A f : IsShare(f) => IsShare(One - f)
<1>1. One \div 5 \in 0 .. One BY QuotientBetween
<1>2. (3 * One) \div 10 \in 0 .. One BY QuotientBetween
<1>3. \A f \in 0 .. One : One - f \in 0 .. One OBVIOUS
<1> QED BY <1>1, <1>2, <1>3 DEF IsShare

LEMMA BoundedIsShare ==
  ASSUME NEW raw \in Int, NEW e \in Int, NEW w \in Int, NEW b,
         b.min \in Int, b.max \in Int, b.fade \in Nat \ {0}
  PROVE  IsShare(Bounded(raw, e, w, b))
<1>1. raw > b.max /\ raw <= b.max + b.fade => IsShare(One - Over(raw - b.max, b.fade))
  <2> SUFFICES ASSUME raw > b.max, raw <= b.max + b.fade
               PROVE  IsShare(One - Over(raw - b.max, b.fade)) OBVIOUS
  <2>1. raw - b.max \in 0 .. b.fade OBVIOUS
  <2>2. IsShare(Over(raw - b.max, b.fade)) BY <2>1, OverIsShare DEF IsShare
  <2> QED BY <2>2, ShareParts
<1>2. raw < b.min /\ raw >= b.min - b.fade => IsShare(One - Over(b.min - raw, b.fade))
  <2> SUFFICES ASSUME raw < b.min, raw >= b.min - b.fade
               PROVE  IsShare(One - Over(b.min - raw, b.fade)) OBVIOUS
  <2>1. b.min - raw \in 0 .. b.fade OBVIOUS
  <2>2. IsShare(Over(b.min - raw, b.fade)) BY <2>1, OverIsShare DEF IsShare
  <2> QED BY <2>2, ShareParts
<1> QED BY <1>1, <1>2, ShareParts DEF Bounded

LEMMA SaturatingIsShare ==
  ASSUME NEW raw \in Int, NEW e \in Int, NEW b,
         b.safe \in Nat, b.fade \in Nat, b.safe < b.fade, IsShare(b.factor)
  PROVE  IsShare(Saturating(raw, e, b))
<1>0. b.fade - b.safe \in Nat \ {0} OBVIOUS
<1>1. raw > b.safe /\ raw <= b.fade => IsShare(One - Over(raw - b.safe, b.fade - b.safe))
  <2> SUFFICES ASSUME raw > b.safe, raw <= b.fade
               PROVE  IsShare(One - Over(raw - b.safe, b.fade - b.safe)) OBVIOUS
  <2>1. raw - b.safe \in 0 .. b.fade - b.safe OBVIOUS
  <2>2. IsShare(Over(raw - b.safe, b.fade - b.safe)) BY <1>0, <2>1, OverIsShare DEF IsShare
  <2> QED BY <2>2, ShareParts
<1>2. raw < -b.safe /\ raw >= -b.fade => IsShare(Over(raw + b.fade, b.fade - b.safe))
  <2> SUFFICES ASSUME raw < -b.safe, raw >= -b.fade
               PROVE  IsShare(Over(raw + b.fade, b.fade - b.safe)) OBVIOUS
  <2>1. raw + b.fade \in 0 .. b.fade - b.safe OBVIOUS
  <2> QED BY <1>0, <2>1, OverIsShare DEF IsShare
<1> QED BY <1>1, <1>2, ShareParts DEF Saturating

LEMMA SymmetricIsShare ==
  ASSUME NEW raw \in Int, NEW e \in Int, NEW b,
         b.safe \in Nat, b.fade \in Nat, b.safe < b.fade, IsShare(b.recovery)
  PROVE  IsShare(Symmetric(raw, e, b))
<1>0. b.fade - b.safe \in Nat \ {0} OBVIOUS
<1> DEFINE m == Magnitude(raw)
<1>1. m \in Nat BY DEF Magnitude
<1> HIDE DEF m
<1>2. m > b.safe /\ m <= b.fade => IsShare(One - Over(m - b.safe, b.fade - b.safe))
  <2> SUFFICES ASSUME m > b.safe, m <= b.fade
               PROVE  IsShare(One - Over(m - b.safe, b.fade - b.safe)) OBVIOUS
  <2>1. m - b.safe \in 0 .. b.fade - b.safe BY <1>1
  <2>2. IsShare(Over(m - b.safe, b.fade - b.safe)) BY <1>0, <2>1, OverIsShare DEF IsShare
  <2> QED BY <2>2, ShareParts
<1> QED BY <1>1, <1>2, ShareParts DEF Symmetric, m

LEMMA ArcTanIsShare ==
  ASSUME NEW raw \in Int, NEW e \in Int PROVE IsShare(ArcTan(raw, e))
<1> DEFINE m == Magnitude(raw)
<1>1. m \in Nat BY DEF Magnitude
<1> HIDE DEF m
<1>2. m > 2 * One /\ m <= 4 * One => IsShare(One - (m - 2 * One) \div 2)
  <2> SUFFICES ASSUME m > 2 * One, m <= 4 * One PROVE IsShare(One - (m - 2 * One) \div 2) OBVIOUS
  <2>1. (m - 2 * One) \div 2 \in 0 .. One BY <1>1, QuotientBetween
  <2> QED BY <2>1, ShareParts DEF IsShare
<1> QED BY <1>1, <1>2, ShareParts DEF ArcTan, m

LEMMA SqrtIsShare ==
  ASSUME NEW raw \in Int, NEW e \in Int PROVE IsShare(Sqrt(raw, e))
<1>1. raw > 10 * One /\ raw <= 20 * One => IsShare(One - (raw - 10 * One) \div 10)
  <2> SUFFICES ASSUME raw > 10 * One, raw <= 20 * One
               PROVE  IsShare(One - (raw - 10 * One) \div 10) OBVIOUS
  <2>1. (raw - 10 * One) \div 10 \in 0 .. One BY QuotientBetween
  <2> QED BY <2>1, ShareParts DEF IsShare
<1> QED BY <1>1, ShareParts DEF Sqrt

LEMMA Rules ==
  /\ Profile("SOFTPLUS") = Band(-10, 20, 10)
  /\ Profile("TANH") = [rule |-> "saturating", safe |-> 2 * One, fade |-> 6 * One,
                        recovery |-> 2 * One, factor |-> One \div 5]
  /\ Profile("CUBE") = [rule |-> "symmetric", safe |-> 5 * One, fade |-> 10 * One,
                        recovery |-> One \div 5]
  /\ Profile("COMPLEMENT") = [rule |-> "constant", factor |-> One]
  /\ \A q \in {"BIPOLAR", "MINIMUM", "MAXIMUM", "IF", "MEAN"} :
       Profile(q) = [rule |-> "constant", factor |-> 0]
  /\ \A q \in {"IDENTITY", "RELU", "RELU6", "ArcTan", "STEP", "ABSOLUTE", "SQRT"} :
       Profile(q) = [rule |-> q]
BY DEF Profile

LEMMA SafeFactorIsShare ==
  ASSUME NEW q \in Squashes, NEW raw \in Int, NEW e \in Int, NEW w \in Int
  PROVE  IsShare(SafeFactor(q, raw, e, w))
<1>1. CASE q = "SOFTPLUS"
  <2> DEFINE p == Profile("SOFTPLUS")
  <2>1. p.rule = "band" /\ p.min \in Int /\ p.max \in Int /\ p.fade \in Nat \ {0} BY Rules DEF Band
  <2> HIDE DEF p
  <2>2. IsShare(Bounded(raw, e, w, p)) BY <2>1, BoundedIsShare
  <2> QED BY <1>1, <2>1, <2>2 DEF SafeFactor, p
<1>2. CASE q = "TANH"
  <2> DEFINE p == Profile("TANH")
  <2>1. /\ p.rule = "saturating" /\ p.safe \in Nat /\ p.fade \in Nat /\ p.safe < p.fade
        /\ IsShare(p.factor)
    BY Rules, ShareParts
  <2> HIDE DEF p
  <2>2. IsShare(Saturating(raw, e, p)) BY <2>1, SaturatingIsShare
  <2> QED BY <1>2, <2>1, <2>2 DEF SafeFactor, p
<1>3. CASE q = "CUBE"
  <2> DEFINE p == Profile("CUBE")
  <2>1. /\ p.rule = "symmetric" /\ p.safe \in Nat /\ p.fade \in Nat /\ p.safe < p.fade
        /\ IsShare(p.recovery)
    BY Rules, ShareParts
  <2> HIDE DEF p
  <2>2. IsShare(Symmetric(raw, e, p)) BY <2>1, SymmetricIsShare
  <2> QED BY <1>3, <2>1, <2>2 DEF SafeFactor, p
<1>4. CASE q \in {"COMPLEMENT", "BIPOLAR", "MINIMUM", "MAXIMUM", "IF", "MEAN"}
  <2>1. Profile(q).rule = "constant" /\ IsShare(Profile(q).factor) BY <1>4, Rules, ShareParts
  <2> QED BY <2>1 DEF SafeFactor
<1>5. CASE q \in {"IDENTITY", "RELU", "RELU6", "ArcTan", "STEP", "ABSOLUTE", "SQRT"}
  <2>1. Profile(q).rule = q BY <1>5, Rules
  <2>2. IsShare(ArcTan(raw, e)) /\ IsShare(Sqrt(raw, e)) /\ IsShare(Relu6(raw, e))
    BY ArcTanIsShare, SqrtIsShare, ShareParts DEF Relu6
  <2> QED BY <1>5, <2>1, <2>2, ShareParts DEF SafeFactor
<1> QED BY <1>1, <1>2, <1>3, <1>4, <1>5 DEF Squashes

\* A safe zone scales an error down and never up or around, for every squash
\* with a rule, and SOFTPLUS lets none push a neuron further out of its band
\* (apply_safe_zone_adjustment).
THEOREM ZonesScaleDown == Spec => []ZonesAreShares
<1>1. Init => ZonesAreShares
  <2> SUFFICES ASSUME Init, task = "zone" PROVE ZonesAreShares BY DEF ZonesAreShares
  <2>1. probe \in Zones BY DEF Init
  <2>2. /\ probe.squash \in Squashes /\ probe.raw \in Int /\ probe.error \in Int
        /\ probe.weight \in Int
    BY <2>1, TrainingAssumption
  <2> DEFINE f == SafeFactor(probe.squash, probe.raw, probe.error, probe.weight)
             p == Profile("SOFTPLUS")
  <2>3. f \in 0 .. One BY <2>2, SafeFactorIsShare DEF IsShare
  <2>4. ASSUME probe.squash = "SOFTPLUS", probe.raw * probe.error > 0
        PROVE  f = 0 \/ probe.raw \in p.min .. p.max
    <3>1. p.rule = "band" /\ p.min \in Int /\ p.max \in Int /\ p.min < 0 /\ p.max > 0
      BY Rules DEF Band
    <3> HIDE DEF p
    <3>2. f = Bounded(probe.raw, probe.error, probe.weight, p)
      BY <2>4, <3>1 DEF SafeFactor, p
    <3>3. (probe.raw < 0 => probe.error < 0) /\ (probe.raw > 0 => probe.error > 0)
      BY <2>2, <2>4
    <3> HIDE DEF f
    <3> QED BY <2>2, <3>1, <3>2, <3>3 DEF Bounded
  <2> HIDE DEF p, f
  <2> QED BY <2>3, <2>4 DEF ZonesAreShares, p, f
<1>2. ZonesAreShares /\ [Next]_vars => ZonesAreShares'
  <2> SUFFICES ASSUME ZonesAreShares, [Next]_vars PROVE ZonesAreShares' OBVIOUS
  <2>1. task' = task /\ probe' = probe BY DEF Next, vars
  <2> QED BY <2>1 DEF ZonesAreShares
<1> QED BY <1>1, <1>2, PTL DEF Spec

-----------------------------------------------------------------------------
(* The distributions *)

LEMMA LargestFound ==
  ASSUME NEW s \in Seq(Int), s # <<>>
  PROVE  FirstLargest(s) \in 1 .. Len(s) /\ \A j \in 1 .. Len(s) : s[j] <= s[FirstLargest(s)]
<1> DEFINE n == Len(s)
           Top(k) == {i \in 1 .. k : \A j \in 1 .. k : s[j] <= s[i]}
           T == {k \in 0 .. n : k # 0 => Top(k) # {}}
<1>1. n \in Nat /\ n # 0 /\ \A k \in 1 .. n : s[k] \in Int BY LenProperties, ElementOfSeq, EmptySeq
<1>2. ASSUME NEW k \in 1 .. n, k - 1 \in T PROVE k \in T
  <2>1. CASE k = 1
    <3>1. \A j \in 1 .. 1 : j = 1 OBVIOUS
    <3>2. 1 \in Top(1) BY <1>1, <2>1, <3>1
    <3> QED BY <2>1, <3>2
  <2>2. CASE k # 1
    <3>0. k - 1 # 0 /\ Top(k - 1) # {} BY <1>2, <2>2
    <3>1. PICK i \in 1 .. k - 1 : \A j \in 1 .. k - 1 : s[j] <= s[i] BY <3>0
    <3>2. s[i] \in Int /\ s[k] \in Int /\ i \in 1 .. k BY <1>1, <3>1
    <3>3. CASE s[k] <= s[i]
      <4>1. \A j \in 1 .. k : s[j] <= s[i] BY <3>1, <3>3
      <4> QED BY <3>2, <4>1
    <3>4. CASE s[i] < s[k]
      <4>1. ASSUME NEW j \in 1 .. k PROVE s[j] <= s[k]
        <5>1. CASE j = k BY <3>2, <5>1
        <5>2. CASE j # k
          <6>1. s[j] <= s[i] /\ s[j] \in Int BY <1>1, <3>1, <5>2
          <6> QED BY <3>2, <3>4, <6>1
        <5> QED BY <5>1, <5>2
      <4> QED BY <4>1
    <3> QED BY <3>2, <3>3, <3>4
  <2> QED BY <2>1, <2>2
<1>3. 0 .. n \subseteq T
  <2>1. 0 \in T BY <1>1
  <2> HIDE DEF T
  <2> QED BY <1>1, <1>2, <2>1, InductionUpTo
<1>4. Top(n) # {} BY <1>1, <1>3
<1>5. PICK m \in Top(n) : \A k \in Top(n) : m <= k
  <2> DEFINE S == Top(n)
  <2>1. S \subseteq Nat /\ S # {} BY <1>1, <1>4
  <2> HIDE DEF S
  <2>2. \E m \in S : \A k \in S : m <= k BY <2>1, LeastMember
  <2> QED BY <2>2 DEF S
<1>6. \A j \in 1 .. m - 1 : s[j] < s[m]
  <2> SUFFICES ASSUME NEW j \in 1 .. m - 1, ~(s[j] < s[m]) PROVE FALSE OBVIOUS
  <2>1. j \in 1 .. n /\ m \in 1 .. n /\ s[j] \in Int /\ s[m] \in Int BY <1>1
  <2>2. s[j] = s[m] BY <2>1
  <2>3. j \in Top(n) BY <2>1, <2>2
  <2>4. m <= j BY <1>5, <2>3
  <2> QED BY <2>1, <2>4
<1>7. \E i \in 1 .. n : (\A j \in 1 .. n : s[j] <= s[i]) /\ \A j \in 1 .. i - 1 : s[j] < s[i]
  BY <1>5, <1>6
<1> QED BY <1>7 DEF FirstLargest

LEMMA ProportionalSplit ==
  ASSUME NEW error \in Int, NEW scores \in Seq(Nat), SumOf(scores) > Plank
  PROVE  /\ Proportionally(error, scores) \in Seq(Int)
         /\ Len(Proportionally(error, scores)) = Len(scores)
         /\ Magnitude(error - SumOf(Proportionally(error, scores))) <= Plank
         /\ \A i \in 1 .. Len(scores) : scores[i] = 0 => Proportionally(error, scores)[i] = 0
<1> DEFINE n == Len(scores)
           denom == SumOf(scores)
           shares == [i \in 1 .. n |-> Times(error, Over(scores[i], denom))]
           residue == error - SumOf(shares)
           best == FirstLargest(scores)
           mended == [shares EXCEPT ![best] = @ + residue]
<1>1. n \in Nat /\ (\A k \in 1 .. n : scores[k] \in Nat) /\ scores \in Seq(Int)
  <2>1. scores \in [1 .. n -> Nat] /\ n \in Nat BY LenProperties
  <2>2. scores \in [1 .. n -> Int] BY <2>1
  <2> QED BY <2>1, <2>2, SeqDef
<1>2. denom \in Int /\ denom > 0 BY <1>1, SumIsInt
<1> HIDE DEF denom
<1>3. ASSUME NEW i \in 1 .. n PROVE Times(error, Over(scores[i], denom)) \in Int
  <2>1. scores[i] \in Int /\ denom # 0 BY <1>1, <1>2
  <2>2. Over(scores[i], denom) \in Int BY <1>2, <2>1, OverIsInt
  <2> QED BY <2>2, TimesIsInt
<1>4. shares \in Seq(Int) /\ Len(shares) = n
  <2>1. shares \in [1 .. n -> Int] BY <1>3
  <2> QED BY <1>1, <2>1, IsASeq, LenProperties
<1>5. \A i \in 1 .. n : scores[i] = 0 => shares[i] = 0
  <2>1. Over(0, denom) = 0 BY <1>2 DEF Over
  <2> QED BY <2>1, TimesNothing
<1>6. residue \in Int
  <2> HIDE DEF shares
  <2>1. SumOf(shares) \in Int BY <1>4, SumIsInt
  <2> QED BY <2>1
<1>7. best \in 1 .. n /\ scores[best] > 0
  <2>1. PICK i \in 1 .. n : scores[i] > 0 BY <1>1, <1>2, SumHasPositive DEF denom
  <2>2. scores # <<>> BY <1>1, <2>1, EmptySeq
  <2>3. best \in 1 .. n /\ scores[i] <= scores[best] BY <1>1, <2>1, <2>2, LargestFound
  <2> HIDE DEF best
  <2> QED BY <1>1, <2>1, <2>3
<1> HIDE DEF shares, best, residue
<1>8. CASE Magnitude(residue) > Plank
  <2>1. Proportionally(error, scores) = mended
    BY <1>8 DEF Proportionally, shares, best, residue, denom
  <2>2. mended \in Seq(Int) /\ Len(mended) = n /\ \A i \in 1 .. n : i # best => mended[i] = shares[i]
    BY <1>4, <1>6, <1>7
  <2>3. SumOf(mended) = SumOf(shares) + residue BY <1>4, <1>6, <1>7, SumUpdated
  <2>4. SumOf(shares) \in Int BY <1>4, SumIsInt
  <2>5. error - SumOf(mended) = 0 BY <2>3, <2>4 DEF residue
  <2>6. Magnitude(0) <= Plank BY DEF Magnitude
  <2> HIDE DEF mended
  <2>7. ASSUME NEW i \in 1 .. n, scores[i] = 0 PROVE mended[i] = 0
    <3>1. i # best BY <1>7, <2>7
    <3> QED BY <1>5, <2>2, <2>7, <3>1
  <2>8. Magnitude(error - SumOf(mended)) <= Plank BY <2>5, <2>6
  <2> QED BY <2>1, <2>2, <2>7, <2>8
<1>9. CASE ~(Magnitude(residue) > Plank)
  <2>1. Proportionally(error, scores) = shares
    BY <1>9 DEF Proportionally, shares, best, residue, denom
  <2>2. Magnitude(residue) <= Plank BY <1>6, <1>9 DEF Magnitude
  <2> QED BY <1>4, <1>5, <2>1, <2>2 DEF residue
<1> QED BY <1>8, <1>9

\* shares split error over links of these activations and weights.
Even(shares) == \A i, j \in 1 .. Len(shares) : shares[i] = shares[j]

GoodSplit(shares, error, acts, weights) ==
  /\ shares \in Seq(Int) /\ Len(shares) = Len(acts)
  /\ \/ Magnitude(error - SumOf(shares)) <= Plank
     \/ Even(shares) /\ Magnitude(error - SumOf(shares)) <= Len(acts)
  /\ \A i \in 1 .. Len(acts) : acts[i] = 0 /\ weights[i] = 0 => shares[i] = 0 \/ Even(shares)

LEMMA MadeSeq ==
  ASSUME NEW S, NEW n \in Nat, NEW s \in [1 .. n -> S]
  PROVE  s \in Seq(S) /\ Len(s) = n
OBVIOUS

LEMMA Squares == \A a \in Int : Times(a, a) \in Nat /\ Times(0, 0) = 0
<1> SUFFICES ASSUME NEW a \in Int PROVE Times(a, a) \in Nat BY TimesNothing
<1>1. a * a \in Int /\ a * a >= 0 OBVIOUS
<1> DEFINE x == a * a
<1> HIDE DEF x
<1>2. x \in Int /\ x >= 0 BY <1>1 DEF x
<1>3. x \div One \in Int /\ x < (x \div One + 1) * One BY <1>2, Quotient
<1>4. x \div One \in Nat BY <1>2, <1>3
<1> QED BY <1>4 DEF Times, x

LEMMA ClampedWithin ==
  ASSUME NEW a \in Int, NEW low \in Int, NEW high \in Int
  PROVE  Clamped(a, low, high) \in Int /\ (low <= high => Clamped(a, low, high) \in low .. high)
BY DEF Clamped

LEMMA NatTimes ==
  ASSUME NEW a \in Nat, NEW b \in Nat PROVE Times(a, b) \in Nat
<1> DEFINE x == a * b
<1>1. x \in Nat OBVIOUS
<1> HIDE DEF x
<1>2. x \div One \in Int /\ x < (x \div One + 1) * One BY <1>1, Quotient
<1>3. x \div One \in Nat BY <1>1, <1>2
<1> QED BY <1>3 DEF Times, x

LEMMA EvenSplit ==
  ASSUME NEW error \in Int, NEW n \in Nat \ {0}
  PROVE  LET shares == [i \in 1 .. n |-> error \div n] IN
         /\ shares \in Seq(Int) /\ Len(shares) = n /\ Even(shares)
         /\ Magnitude(error - SumOf(shares)) <= n
<1> DEFINE x == error \div n
           shares == [i \in 1 .. n |-> x]
<1>1. x \in Int /\ x * n <= error /\ error < (x + 1) * n BY Quotient
<1> HIDE DEF x
<1>2. shares \in Seq(Int) /\ Len(shares) = n /\ Even(shares) BY <1>1, MadeSeq DEF Even
<1>3. \A i \in 1 .. n : shares[i] = x OBVIOUS
<1> HIDE DEF shares
<1>4. SumOf(shares) = n * x BY <1>1, <1>2, <1>3, SumOfEqual
<1>5. n * x = x * n /\ (x + 1) * n = x * n + n /\ x * n \in Int BY <1>1
<1>6. /\ error - SumOf(shares) \in Int
      /\ error - SumOf(shares) >= 0 /\ error - SumOf(shares) <= n
  BY <1>1, <1>4, <1>5
<1>7. Magnitude(error - SumOf(shares)) <= n BY <1>6 DEF Magnitude
<1> QED BY <1>2, <1>7 DEF shares, x

LEMMA SplitIsGood ==
  ASSUME NEW error \in Int, NEW n \in Nat \ {0},
         NEW acts \in [1 .. n -> Int], NEW safe \in [1 .. n -> Int], NEW weights \in [1 .. n -> Int]
  PROVE  GoodSplit(SplitBy(error, acts, safe, weights), error, acts, weights)
<1> DEFINE scores == [i \in 1 .. n |-> Times(Times(acts[i], acts[i]), Clamped(safe[i], 0, One))]
           squares == [i \in 1 .. n |-> Times(weights[i], weights[i])]
<1>1. Len(acts) = n /\ Len(weights) = n BY MadeSeq
<1>2. scores \in Seq(Nat) /\ Len(scores) = n /\ \A i \in 1 .. n : acts[i] = 0 => scores[i] = 0
  <2>1. ASSUME NEW i \in 1 .. n
        PROVE  /\ Times(Times(acts[i], acts[i]), Clamped(safe[i], 0, One)) \in Nat
               /\ acts[i] = 0 => Times(Times(acts[i], acts[i]), Clamped(safe[i], 0, One)) = 0
    <3>1. acts[i] \in Int /\ safe[i] \in Int /\ 0 \in Int /\ One \in Int /\ 0 <= One OBVIOUS
    <3>2. Clamped(safe[i], 0, One) \in 0 .. One BY <3>1, ClampedWithin
    <3>3. Times(acts[i], acts[i]) \in Nat BY <3>1, Squares
    <3>4. Clamped(safe[i], 0, One) \in Nat /\ Clamped(safe[i], 0, One) \in Int BY <3>2
    <3>5. acts[i] = 0 => Times(acts[i], acts[i]) = 0 BY Squares
    <3> QED BY <3>3, <3>4, <3>5, NatTimes, TimesNothing
  <2>2. scores \in [1 .. n -> Nat] BY <2>1
  <2> QED BY <2>1, <2>2, MadeSeq
<1>3. squares \in Seq(Nat) /\ Len(squares) = n /\ \A i \in 1 .. n : weights[i] = 0 => squares[i] = 0
  <2>1. \A i \in 1 .. n : /\ Times(weights[i], weights[i]) \in Nat
                          /\ weights[i] = 0 => Times(weights[i], weights[i]) = 0
    BY Squares
  <2>2. squares \in [1 .. n -> Nat] BY <2>1
  <2> QED BY <2>1, <2>2, MadeSeq
<1>4. SplitBy(error, acts, safe, weights) =
        IF SumOf(scores) > Plank THEN Proportionally(error, scores)
        ELSE IF SumOf(squares) > Plank THEN Proportionally(error, squares)
        ELSE [i \in 1 .. n |-> error \div n]
  BY <1>1 DEF SplitBy
<1> HIDE DEF scores, squares
<1>5. CASE SumOf(scores) > Plank
  <2>1. SplitBy(error, acts, safe, weights) = Proportionally(error, scores) BY <1>4, <1>5
  <2> QED BY <1>1, <1>2, <1>5, <2>1, ProportionalSplit DEF GoodSplit
<1>6. CASE ~(SumOf(scores) > Plank) /\ SumOf(squares) > Plank
  <2>1. SplitBy(error, acts, safe, weights) = Proportionally(error, squares) BY <1>4, <1>6
  <2> QED BY <1>1, <1>3, <1>6, <2>1, ProportionalSplit DEF GoodSplit
<1>7. CASE ~(SumOf(scores) > Plank) /\ ~(SumOf(squares) > Plank)
  <2>1. SplitBy(error, acts, safe, weights) = [i \in 1 .. n |-> error \div n] BY <1>4, <1>7
  <2> QED BY <1>1, <2>1, EvenSplit DEF GoodSplit
<1> QED BY <1>5, <1>6, <1>7

Links == [squash : Squashes, hint : Int, act : Int, weight : Int]

LEMMA NeuronErrorIsInt ==
  ASSUME NEW squash, NEW act \in Int, NEW target \in Int, NEW hint \in Int
  PROVE  NeuronError(squash, act, target, hint) \in Int
<1>1. MaxError \in Int BY DEF MaxError
<1>2. target - act \in Int /\ (IF target > 0 THEN target ELSE hint) - hint \in Int /\ -MaxError \in Int
  BY <1>1
<1>3. /\ Clamped(target - act, -MaxError, MaxError) \in Int
      /\ Clamped((IF target > 0 THEN target ELSE hint) - hint, -MaxError, MaxError) \in Int
  BY <1>1, <1>2, ClampedWithin
<1> QED BY <1>3 DEF NeuronError

\* The fused distribution, and the elastic one that stands in for it.
BothGood(fused, acts, weights, n) ==
  /\ fused.error \in Int
  /\ GoodSplit(fused.shares, fused.error, acts, weights)
  /\ GoodSplit(Elastic(fused.error, acts, [i \in 1 .. n |-> One], weights),
               fused.error, acts, weights)

LEMMA FusedIsGood ==
  ASSUME NEW squash, NEW act \in Int, NEW target \in Int, NEW hint \in Int,
         NEW n \in Nat \ {0}, NEW links \in [1 .. n -> Links]
  PROVE  BothGood(Fused(squash, act, target, hint, links),
                  [i \in 1 .. n |-> links[i].act], [i \in 1 .. n |-> links[i].weight], n)
<1> DEFINE fused == Fused(squash, act, target, hint, links)
           acts == [i \in 1 .. n |-> links[i].act]
           weights == [i \in 1 .. n |-> links[i].weight]
           ones == [i \in 1 .. n |-> One]
           error == NeuronError(squash, act, target, hint)
           safe == [i \in 1 .. n |-> SafeFactor(links[i].squash, links[i].hint,
                                                error \div n, links[i].weight)]
           none == [i \in 1 .. n |-> 0]
<1>1. error \in Int BY NeuronErrorIsInt
<1> HIDE DEF error
<1>2. \A i \in 1 .. n : /\ links[i].squash \in Squashes /\ links[i].hint \in Int
                        /\ links[i].act \in Int /\ links[i].weight \in Int
  BY DEF Links
<1>3. acts \in [1 .. n -> Int] /\ weights \in [1 .. n -> Int] /\ ones \in [1 .. n -> Int] BY <1>2
<1>4. safe \in [1 .. n -> Int]
  <2>1. error \div n \in Int BY <1>1, Quotient
  <2>2. ASSUME NEW i \in 1 .. n
        PROVE  SafeFactor(links[i].squash, links[i].hint, error \div n, links[i].weight) \in Int
    <3>1. IsShare(SafeFactor(links[i].squash, links[i].hint, error \div n, links[i].weight))
      BY <1>2, <2>1, SafeFactorIsShare
    <3> QED BY <3>1 DEF IsShare
  <2> QED BY <2>2
<1>5. Len(links) = n /\ Len(acts) = n /\ Len(weights) = n /\ Len(ones) = n BY <1>3, MadeSeq
<1>6. fused.error = error /\ fused.shares = IF error = 0 THEN none ELSE SplitBy(error, acts, safe, weights)
  BY <1>5 DEF Fused, error
<1>7. GoodSplit(none, 0, acts, weights)
  <2>1. none \in Seq(Int) /\ Len(none) = n BY MadeSeq
  <2>2. \A i \in 1 .. n : none[i] = 0 OBVIOUS
  <2> HIDE DEF none
  <2>3. SumOf(none) = 0
    <3>1. SumOf(none) = Len(none) * 0 BY <2>1, <2>2, SumOfEqual
    <3> QED BY <2>1, <3>1
  <2>4. Magnitude(0 - SumOf(none)) <= Plank BY <2>3 DEF Magnitude
  <2> QED BY <1>5, <2>1, <2>2, <2>4 DEF GoodSplit
<1> HIDE DEF acts, weights, safe, none, fused, ones
<1>8. GoodSplit(SplitBy(error, acts, safe, weights), error, acts, weights)
  BY <1>1, <1>3, <1>4, SplitIsGood
<1>9. GoodSplit(SplitBy(error, acts, ones, weights), error, acts, weights)
  BY <1>1, <1>3, SplitIsGood
<1>10. Elastic(error, acts, ones, weights) = SplitBy(error, acts, ones, weights)
  BY <1>5 DEF Elastic
<1>11. fused.error \in Int /\ GoodSplit(fused.shares, fused.error, acts, weights)
  BY <1>1, <1>6, <1>7, <1>8
<1>12. GoodSplit(Elastic(fused.error, acts, ones, weights), fused.error, acts, weights)
  BY <1>6, <1>9, <1>10
<1> QED BY <1>11, <1>12 DEF BothGood, fused, acts, weights, ones

\* The whole root rounded down exists, whatever is divided.
LEMMA OverRootIsInt ==
  ASSUME NEW x \in Int, NEW n \in Nat \ {0}
  PROVE  OverRoot(x, n) \in Int
<1> DEFINE m == Magnitude(x)
           Beyond(r) == (r + 1) * (r + 1) * n > x * x
           S == {r \in Nat : Beyond(r)}
<1>1. m \in Nat /\ m * m = x * x BY DEF Magnitude
<1>2. m \in S
  <2> HIDE DEF m
  <2>1. (m + 1) * (m + 1) \in Nat /\ (m + 1) * (m + 1) > m * m BY <1>1
  <2> DEFINE w == (m + 1) * (m + 1)
  <2> HIDE DEF w
  <2>2. w \in Nat /\ w > m * m BY <2>1 DEF w
  <2>3. w * n >= w BY <2>2
  <2>4. w * n > x * x BY <1>1, <2>2, <2>3
  <2> QED BY <1>1, <2>4 DEF w
<1>3. PICK r \in S : \A k \in S : r <= k
  <2>1. S \subseteq Nat /\ S # {} BY <1>2
  <2> HIDE DEF S
  <2>2. \E r \in S : \A k \in S : r <= k BY <2>1, LeastMember
  <2> QED BY <2>2
<1>4. r \in 0 .. m
  <2>1. r \in Nat OBVIOUS
  <2> HIDE DEF S, m
  <2>2. r <= m BY <1>2, <1>3
  <2> QED BY <1>1, <2>1, <2>2
<1>5. r * r * n <= x * x
  <2>1. CASE r = 0
    <3>1. 0 * 0 * n = 0 /\ x * x >= 0 OBVIOUS
    <3> QED BY <2>1, <3>1
  <2>2. CASE r # 0
    <3>1. r - 1 \in Nat /\ ~(r <= r - 1) /\ (r - 1) + 1 = r BY <1>3, <2>2
    <3>2. r - 1 \notin S BY <1>3, <3>1
    <3>3. ~(r * r * n > x * x) BY <3>1, <3>2
    <3>4. r * r * n \in Int /\ x * x \in Int BY <3>1
    <3> QED BY <3>3, <3>4
  <2> QED BY <2>1, <2>2
<1>6. \E k \in 0 .. m : k * k * n <= x * x /\ (k + 1) * (k + 1) * n > x * x
  BY <1>3, <1>4, <1>5
<1> DEFINE q == CHOOSE k \in 0 .. m : k * k * n <= x * x /\ (k + 1) * (k + 1) * n > x * x
<1>7. q \in 0 .. m BY <1>6
<1>8. Sign(x) \in Int BY DEF Sign
<1>9. OverRoot(x, n) = Sign(x) * q BY DEF OverRoot
<1> HIDE DEF q, m
<1>10. q \in Int BY <1>1, <1>7
<1> QED BY <1>8, <1>9, <1>10

-----------------------------------------------------------------------------
(* One call of propagate_topological_loop *)

\* What CallTyped says, place by place.
LEMMA CallFacts ==
  ASSUME NEW c \in Calls
  PROVE  /\ IsCall(c)
         /\ DOMAIN c.neurons \subseteq Nat
         /\ Cardinality(DOMAIN c.neurons) \in Nat /\ c.outputs \in Nat
         /\ \A v \in DOMAIN c.neurons : c.neurons[v] \in NeuronInputs /\ c.inward[v] \in Seq(Nat)
         /\ \A k \in DOMAIN c.syn :
              /\ c.syn[k].from \in DOMAIN c.neurons /\ c.syn[k].to \in DOMAIN c.neurons
              /\ c.syn[k].weight \in Int
         /\ c.order \in Seq(Nat) /\ c.expected \in Seq(Int)
<1> DEFINE n == Cardinality(DOMAIN c.neurons)
           S == [from : 0 .. n - 1, to : 0 .. n - 1, weight : Int, original : Int, self : BOOLEAN]
<1>1. IsCall(c) BY TrainingAssumption
<1>2. n \in Nat BY <1>1, FS_CardinalityType DEF IsCall, CallTyped
<1>3. /\ c.neurons \in [0 .. n - 1 -> NeuronInputs] /\ c.inward \in [0 .. n - 1 -> Seq(Nat)]
      /\ c.syn \in Seq(S) /\ c.order \in Seq(Nat) /\ c.expected \in Seq(Int) /\ c.outputs \in 0 .. n
  BY <1>1 DEF IsCall, CallTyped
<1> HIDE DEF n
<1>4. DOMAIN c.neurons = 0 .. n - 1 BY <1>3
<1>5. \A k \in DOMAIN c.syn : c.syn[k] \in S
  <2> HIDE DEF S
  <2> QED BY <1>3, LenProperties, ElementOfSeq
<1>6. ASSUME NEW k \in DOMAIN c.syn
      PROVE  /\ c.syn[k].from \in DOMAIN c.neurons /\ c.syn[k].to \in DOMAIN c.neurons
             /\ c.syn[k].weight \in Int
  <2>1. c.syn[k] \in S BY <1>5
  <2> QED BY <1>4, <2>1
<1>7. DOMAIN c.neurons \subseteq Nat /\ c.outputs \in Nat BY <1>2, <1>3, <1>4
<1>8. \A v \in DOMAIN c.neurons : c.neurons[v] \in NeuronInputs /\ c.inward[v] \in Seq(Nat)
  BY <1>3, <1>4
<1> QED BY <1>1, <1>2, <1>3, <1>6, <1>7, <1>8 DEF n

BlockedIn(c, k) == k \in DOMAIN c.syn => c.syn[k].self

\* A turn of call c: links and shares place by place, the shares good.
TurnGood(c, t) ==
  LET n == Len(c.inward[t.at]) IN
  /\ t.at \in DOMAIN c.neurons
  /\ t.links \in [1 .. n -> Links]
  /\ t.shares \in Seq(Int) /\ Len(t.shares) = n
  /\ n # 0 => GoodSplit(t.shares, t.error, [i \in 1 .. n |-> t.links[i].act],
                        [i \in 1 .. n |-> t.links[i].weight])
  /\ \A i \in 1 .. n : BlockedIn(c, c.inward[t.at][i]) => t.links[i].act = 0 /\ t.links[i].weight = 0

LEMMA TurnStaysGood ==
  ASSUME NEW c, NEW t, NEW u, TurnGood(c, t),
         u.at = t.at, u.links = t.links, u.shares = t.shares, u.error = t.error
  PROVE  TurnGood(c, u)
<1> DEFINE n == Len(c.inward[t.at])
           acts == [i \in 1 .. n |-> t.links[i].act]
           weights == [i \in 1 .. n |-> t.links[i].weight]
<1>1. Len(c.inward[u.at]) = n OBVIOUS
<1>2. [i \in 1 .. n |-> u.links[i].act] = acts /\ [i \in 1 .. n |-> u.links[i].weight] = weights
  OBVIOUS
<1>3. /\ t.at \in DOMAIN c.neurons /\ t.links \in [1 .. n -> Links]
      /\ t.shares \in Seq(Int) /\ Len(t.shares) = n
      /\ n # 0 => GoodSplit(t.shares, t.error, acts, weights)
      /\ \A i \in 1 .. n : BlockedIn(c, c.inward[t.at][i]) => t.links[i].act = 0 /\ t.links[i].weight = 0
  BY DEF TurnGood
<1> HIDE DEF n, acts, weights
<1> QED BY <1>1, <1>2, <1>3 DEF TurnGood

LEMMA TargetIsInt ==
  ASSUME call \in Calls, NEW v \in DOMAIN call.neurons, sum[v] \in Int, paths[v] \in Nat
  PROVE  Target(v) \in Int
<1>1. call.neurons[v] \in NeuronInputs BY CallFacts
<1>2. call.neurons[v].act \in Int /\ call.neurons[v].low \in Int /\ call.neurons[v].high \in Int
  BY <1>1 DEF NeuronInputs
<1> DEFINE wanted == IF call.normalise /\ paths[v] > 1 THEN OverRoot(sum[v], paths[v]) ELSE sum[v]
<1>3. wanted \in Int
  <2>1. CASE call.normalise /\ paths[v] > 1
    <3>1. paths[v] \in Nat \ {0} BY <2>1
    <3> QED BY <2>1, <3>1, OverRootIsInt
  <2>2. CASE ~(call.normalise /\ paths[v] > 1) BY <2>2
  <2> QED BY <2>1, <2>2
<1>4. Target(v) = Clamped(call.neurons[v].act + wanted, call.neurons[v].low, call.neurons[v].high)
  BY DEF Target
<1> HIDE DEF wanted
<1>5. call.neurons[v].act + wanted \in Int BY <1>2, <1>3
<1> QED BY <1>2, <1>4, <1>5, ClampedWithin

LEMMA LinkIsLink ==
  ASSUME call \in Calls, NEW k
  PROVE  /\ LinkOf(k) \in Links
         /\ BlockedIn(call, k) => LinkOf(k).act = 0 /\ LinkOf(k).weight = 0
<1>1. CASE Blocked(k)
  <2>1. LinkOf(k) = [squash |-> "IDENTITY", hint |-> 0, act |-> 0, weight |-> 0] BY <1>1 DEF LinkOf
  <2>2. "IDENTITY" \in Squashes BY DEF Squashes
  <2> QED BY <2>1, <2>2 DEF Links
<1>2. CASE ~Blocked(k)
  <2>1. k \in DOMAIN call.syn BY <1>2 DEF Blocked
  <2> DEFINE n == call.neurons[call.syn[k].from]
  <2>2. n \in NeuronInputs /\ call.syn[k].weight \in Int BY <2>1, CallFacts
  <2>3. n.squash \in Squashes /\ n.hint \in Int /\ n.act \in Int BY <2>2 DEF NeuronInputs
  <2>4. "IDENTITY" \in Squashes BY DEF Squashes
  <2>5. LinkOf(k) = [squash |-> IF Terminal(n) \/ ~n.propagate THEN "IDENTITY" ELSE n.squash,
                     hint |-> IF Terminal(n) \/ ~n.propagate THEN 0 ELSE n.hint,
                     act |-> n.act, weight |-> call.syn[k].weight]
    BY <1>2 DEF LinkOf
  <2> HIDE DEF n
  <2>6. LinkOf(k) \in Links BY <2>2, <2>3, <2>4, <2>5 DEF Links
  <2> QED BY <1>2, <2>6 DEF BlockedIn, Blocked
<1> QED BY <1>1, <1>2

LEMMA TurnIsGood ==
  ASSUME call \in Calls, NEW v \in DOMAIN call.neurons, sum[v] \in Int, paths[v] \in Nat
  PROVE  TurnOf(v).at = v /\ TurnGood(call, TurnOf(v))
<1> DEFINE nd == call.neurons[v]
           list == call.inward[v]
           n == Len(list)
           links == [i \in 1 .. Len(list) |-> LinkOf(list[i])]
           fused == Fused(nd.squash, nd.act, Target(v), nd.hint, links)
           safe == [i \in 1 .. Len(list) |-> IF Blocked(list[i]) THEN 0 ELSE fused.safe[i]]
           usable == \E i \in 1 .. Len(list) : safe[i] > Plank
           acts == [i \in 1 .. n |-> links[i].act]
           weights == [i \in 1 .. n |-> links[i].weight]
           shares == IF list = <<>> THEN <<>>
                     ELSE IF usable THEN fused.shares
                     ELSE Elastic(fused.error, acts, [i \in 1 .. n |-> One], weights)
           error == IF list = <<>> THEN 0 ELSE fused.error
           t == TurnOf(v)
<1>1. list \in Seq(Nat) /\ n \in Nat /\ (list # <<>> => n \in Nat \ {0}) /\ (list = <<>> => n = 0)
  BY CallFacts, LenProperties, EmptySeq
<1>2. nd.act \in Int /\ nd.hint \in Int BY CallFacts DEF NeuronInputs
<1>3. Target(v) \in Int BY TargetIsInt
<1>4. links \in [1 .. n -> Links]
  <2>1. \A i \in 1 .. n : LinkOf(list[i]) \in Links BY LinkIsLink
  <2> QED BY <2>1
<1>5. t.at = v /\ t.links = links /\ t.error = error /\ t.shares = shares
  BY DEF TurnOf, NoTurn
<1>6. \A i \in 1 .. n : BlockedIn(call, list[i]) => links[i].act = 0 /\ links[i].weight = 0
  BY LinkIsLink
<1> HIDE DEF nd, links, t, usable
<1>7. CASE list = <<>>
  <2>1. shares = <<>> /\ shares \in Seq(Int) /\ Len(shares) = 0 BY <1>7
  <2> QED BY <1>1, <1>4, <1>5, <1>6, <1>7, <2>1 DEF TurnGood, t
<1>8. CASE list # <<>>
  <2>1. n \in Nat \ {0} BY <1>1, <1>8
  <2>2. BothGood(fused, acts, weights, n)
    <3> DEFINE m == n
               target == Target(v)
    <3>1. m \in Nat \ {0} /\ links \in [1 .. m -> Links] /\ target \in Int BY <1>3, <1>4, <2>1
    <3> HIDE DEF m, target
    <3>2. BothGood(Fused(nd.squash, nd.act, target, nd.hint, links),
                   [i \in 1 .. m |-> links[i].act], [i \in 1 .. m |-> links[i].weight], m)
      BY <1>2, <3>1, FusedIsGood
    <3> QED BY <3>2 DEF m, target
  <2>3. GoodSplit(shares, error, acts, weights) BY <1>8, <2>2 DEF BothGood
  <2>4. acts \in [1 .. n -> Int] BY <1>4 DEF Links
  <2>5. Len(acts) = n BY <1>1, <2>4, MadeSeq
  <2> HIDE DEF shares, error, fused
  <2>6. shares \in Seq(Int) /\ Len(shares) = n BY <2>3, <2>5 DEF GoodSplit
  <2> QED BY <1>4, <1>5, <1>6, <2>3, <2>6 DEF TurnGood, t
<1> QED BY <1>7, <1>8 DEF t

-----------------------------------------------------------------------------
(* The inductive invariant of the loop *)

\* Variables have their types, and the call is one of Calls.
CallTypes ==
  /\ call \in Calls /\ pos \in Nat \ {0}
  /\ sum \in [DOMAIN call.neurons -> Int] /\ paths \in [DOMAIN call.neurons -> Nat]
  /\ DOMAIN outcome = DOMAIN call.neurons /\ DOMAIN given = DOMAIN call.syn

\* The turn is that of the neuron in order.
TurnInOrder ==
  turn # NoTurn =>
    /\ pos \in DOMAIN call.order /\ turn.at = call.order[pos]
    /\ DOMAIN turn = DOMAIN NoTurn /\ TurnGood(call, turn)
    /\ link \in Nat \ {0}

\* Only neurons the order has passed have an outcome.
OutcomesBehind ==
  \A v \in DOMAIN call.neurons : outcome[v].kind # "skipped" =>
    \E p \in DOMAIN call.order : p < pos /\ call.order[p] = v

\* Synapse k leads into a neuron that learns: handed its share in this turn, or
\* in one that has ended.
Handed(k) ==
  \/ /\ turn # NoTurn /\ turn.at = call.syn[k].to
     /\ \E j \in DOMAIN call.inward[turn.at] : j < link /\ call.inward[turn.at][j] = k
     /\ call.neurons[turn.at].update
  \/ outcome[call.syn[k].to].kind = "standard" /\ ~outcome[call.syn[k].to].frozen

DeltasHanded ==
  \A k \in DOMAIN call.syn : given[k] = SynapseZero \/ (given[k].count \in {0, 1} /\ Handed(k))

\* Nothing is heard by a neuron that takes no part.
Silence ==
  \A v \in DOMAIN call.neurons :
    Terminal(call.neurons[v]) \/ ~call.neurons[v].propagate => paths[v] = 0 /\ sum[v] = 0

LoopInv ==
  /\ turn # NoTurn => call # NoCall
  /\ call # NoCall => CallTypes /\ TurnInOrder /\ OutcomesBehind /\ DeltasHanded /\ Silence

LEMMA LoopStart ==
  ASSUME NEW c \in Calls, StartCall(c) PROVE LoopInv'
<1>1. /\ call' = c /\ pos' = 1 /\ turn' = NoTurn
      /\ sum' = [v \in DOMAIN c.neurons |-> IF v \in Seeded(c) THEN Seed(c, v) ELSE 0]
      /\ paths' = [v \in DOMAIN c.neurons |-> IF v \in Seeded(c) THEN 1 ELSE 0]
      /\ outcome' = [v \in DOMAIN c.neurons |-> Skipped]
      /\ given' = [k \in DOMAIN c.syn |-> SynapseZero]
  BY DEF StartCall
<1>2. ASSUME NEW v \in Seeded(c)
      PROVE Seed(c, v) \in Int /\ ~Terminal(c.neurons[v]) /\ c.neurons[v].propagate
  <2>1. v \in DOMAIN c.neurons /\ c.neurons[v].propagate
        /\ v >= Cardinality(DOMAIN c.neurons) - c.outputs
    BY <1>2 DEF Seeded
  <2>2. c.neurons[v].act \in Int BY <2>1, CallFacts DEF NeuronInputs
  <2> DEFINE i == v - (Cardinality(DOMAIN c.neurons) - c.outputs) + 1
  <2>3. v \in Nat BY <2>1, CallFacts
  <2>4. i \in Int /\ i >= 1 BY <2>1, <2>3, CallFacts
  <2> HIDE DEF i
  <2>5. i <= Len(c.expected) => c.expected[i] \in Int
    <3>1. c.expected \in Seq(Int) BY CallFacts
    <3>2. Len(c.expected) \in Nat BY <3>1, LenProperties
    <3>3. i <= Len(c.expected) => i \in 1 .. Len(c.expected) BY <2>4, <3>2
    <3> QED BY <3>1, <3>3, ElementOfSeq
  <2>6. Seed(c, v) \in Int BY <2>2, <2>5 DEF Seed, i
  <2>7. ~Terminal(c.neurons[v]) BY <2>1, CallFacts DEF IsCall, Wired
  <2> QED BY <2>1, <2>6, <2>7
<1>3. CallTypes' BY <1>1, <1>2 DEF CallTypes
<1>4. TurnInOrder' BY <1>1 DEF TurnInOrder
<1>5. OutcomesBehind' BY <1>1 DEF OutcomesBehind, Skipped
<1>6. DeltasHanded' BY <1>1 DEF DeltasHanded
<1>7. Silence' BY <1>1, <1>2 DEF Silence
<1> QED BY <1>1, <1>3, <1>4, <1>5, <1>6, <1>7 DEF LoopInv

\* Moving on past the neuron in order, whose outcome may be told.
LEMMA LoopNextNeuron ==
  ASSUME LoopInv, call # NoCall, turn = NoTurn, pos <= Len(call.order), NextNeuron,
         \/ UNCHANGED outcome
         \/ /\ call.order[pos] \in DOMAIN call.neurons
            /\ \E o : outcome' = [outcome EXCEPT ![call.order[pos]] = o]
  PROVE  LoopInv'
<1>1. call' = call /\ pos' = pos + 1 /\ UNCHANGED <<link, sum, paths, given, turn>>
  BY DEF NextNeuron
<1>2. CallTypes /\ OutcomesBehind /\ DeltasHanded /\ Silence BY DEF LoopInv
<1>3. pos \in DOMAIN call.order
  <2>1. call.order \in Seq(Nat) BY <1>2, CallFacts DEF CallTypes
  <2>2. Len(call.order) \in Nat /\ DOMAIN call.order = 1 .. Len(call.order) BY <2>1, LenProperties
  <2> QED BY <1>2, <2>2 DEF CallTypes
<1>4. CallTypes' BY <1>1, <1>2 DEF CallTypes
<1>5. TurnInOrder' BY <1>1 DEF TurnInOrder
<1>6. \A v \in DOMAIN call.neurons : v # call.order[pos] => outcome'[v] = outcome[v]
  BY <1>2 DEF CallTypes
<1>7. OutcomesBehind'
  <2> SUFFICES ASSUME NEW v \in DOMAIN call.neurons, outcome'[v].kind # "skipped"
               PROVE  \E p \in DOMAIN call.order : p < pos + 1 /\ call.order[p] = v
    BY <1>1 DEF OutcomesBehind
  <2>1. pos \in Nat BY <1>2 DEF CallTypes
  <2>2. CASE v = call.order[pos] BY <1>3, <2>1, <2>2
  <2>3. CASE v # call.order[pos]
    <3>1. PICK p \in DOMAIN call.order : p < pos /\ call.order[p] = v
      BY <1>2, <1>6, <2>3 DEF OutcomesBehind
    <3>2. p \in Nat
      <4>1. call.order \in Seq(Nat) BY <1>2, CallFacts DEF CallTypes
      <4> QED BY <4>1, LenProperties
    <3> QED BY <2>1, <3>1, <3>2
  <2> QED BY <2>2, <2>3
<1>8. DeltasHanded'
  <2> SUFFICES ASSUME NEW k \in DOMAIN call.syn, given[k] # SynapseZero
               PROVE  given[k].count \in {0, 1} /\ Handed(k)'
    BY <1>1 DEF DeltasHanded
  <2> DEFINE w == call.syn[k].to
  <2>1. given[k].count \in {0, 1} /\ Handed(k) BY <1>2 DEF DeltasHanded
  <2>2. outcome[w].kind = "standard" /\ ~outcome[w].frozen BY <2>1 DEF Handed
  <2>3. w \in DOMAIN call.neurons BY <1>2, CallFacts DEF CallTypes
  <2>4. w # call.order[pos] \/ UNCHANGED outcome
    <3> SUFFICES ASSUME w = call.order[pos] PROVE FALSE OBVIOUS
    <3>1. PICK p \in DOMAIN call.order : p < pos /\ call.order[p] = w
      BY <1>2, <2>2, <2>3 DEF OutcomesBehind
    <3>2. p = pos
      <4>1. IsInjective(call.order) BY <1>2, CallFacts DEF CallTypes, IsCall, ConsumersFirst
      <4> QED BY <1>3, <3>1, <4>1 DEF IsInjective
    <3>3. pos \in Nat BY <1>2 DEF CallTypes
    <3> QED BY <3>1, <3>2, <3>3
  <2>5. outcome'[w] = outcome[w] BY <1>6, <2>3, <2>4
  <2> QED BY <1>1, <2>1, <2>2, <2>5 DEF Handed
<1>9. Silence' BY <1>1, <1>2 DEF Silence
<1> QED BY <1>1, <1>4, <1>5, <1>7, <1>8, <1>9 DEF LoopInv

LEMMA LoopBeginNeuron ==
  ASSUME LoopInv, BeginNeuron PROVE LoopInv'
<1> DEFINE v == call.order[pos]
<1>1. /\ call # NoCall /\ turn = NoTurn /\ pos <= Len(call.order)
      /\ v \in DOMAIN call.neurons
      /\ turn' = TurnOf(v) /\ link' = 1
      /\ UNCHANGED <<call, pos, sum, paths, outcome, given>>
  BY DEF BeginNeuron, Due
<1>2. CallTypes /\ OutcomesBehind /\ DeltasHanded /\ Silence BY <1>1 DEF LoopInv
<1>3. TurnOf(v).at = v /\ TurnGood(call, TurnOf(v)) BY <1>1, <1>2, TurnIsGood DEF CallTypes
<1>4. DOMAIN TurnOf(v) = DOMAIN NoTurn BY DEF TurnOf
<1>5. pos \in DOMAIN call.order
  <2>1. call.order \in Seq(Nat) BY <1>2, CallFacts DEF CallTypes
  <2>2. Len(call.order) \in Nat /\ DOMAIN call.order = 1 .. Len(call.order) BY <2>1, LenProperties
  <2> QED BY <1>1, <1>2, <2>2 DEF CallTypes
<1> HIDE DEF v
<1>6. TurnInOrder' BY <1>1, <1>3, <1>4, <1>5 DEF TurnInOrder, v
<1>7. CallTypes' /\ OutcomesBehind' /\ Silence'
  BY <1>1, <1>2 DEF CallTypes, OutcomesBehind, Silence
<1>8. DeltasHanded'
  <2> SUFFICES ASSUME NEW k \in DOMAIN call.syn, given[k] # SynapseZero
               PROVE  given[k].count \in {0, 1} /\ Handed(k)'
    BY <1>1 DEF DeltasHanded
  <2>1. given[k].count \in {0, 1} /\ Handed(k) BY <1>2 DEF DeltasHanded
  <2> QED BY <1>1, <2>1 DEF Handed
<1> QED BY <1>1, <1>6, <1>7, <1>8 DEF LoopInv

\* A delta counts once, or not at all.
LEMMA DeltaCount ==
  \A c, t, a : /\ WeightDelta(c, t, a).count \in {0, 1}
               /\ Plus(SynapseZero, WeightDelta(c, t, a)).count = WeightDelta(c, t, a).count
<1> TAKE c, t, a
<1> DEFINE x == WeightDelta(c, t, a)
<1>1. x.count \in {0, 1} BY DEF WeightDelta, SynapseZero
<1> HIDE DEF x
<1>2. "count" \in DOMAIN SynapseZero /\ SynapseZero.count = 0 BY DEF SynapseZero
<1>3. Plus(SynapseZero, x)["count"] = SynapseZero["count"] + x["count"] BY <1>2 DEF Plus
<1>4. Plus(SynapseZero, x).count = x.count BY <1>1, <1>2, <1>3
<1> QED BY <1>1, <1>4 DEF x

LEMMA CreditIsInt ==
  ASSUME call \in Calls, turn # NoTurn, TurnInOrder,
         link <= Len(turn.links), NEW s \in {call.syn[k] : k \in DOMAIN call.syn}
  PROVE  Credit(s, link) \in Int
<1> DEFINE l == turn.links[link]
           share == turn.shares[link]
           n == Len(call.inward[turn.at])
           divisor == IF Magnitude(l.weight) > Plank THEN l.weight
                      ELSE IF l.weight < 0 THEN -Plank ELSE Plank
           src == call.neurons[s.from]
<1>1. TurnGood(call, turn) /\ link \in Nat \ {0} BY DEF TurnInOrder
<1>2. /\ n \in Nat /\ turn.links \in [1 .. n -> Links]
      /\ turn.shares \in Seq(Int) /\ Len(turn.shares) = n
  BY <1>1, CallFacts, LenProperties DEF TurnGood
<1>3. Len(turn.links) = n BY <1>2, MadeSeq
<1>4. link \in 1 .. n BY <1>1, <1>2, <1>3
<1>5. l.weight \in Int /\ l.act \in Int /\ share \in Int
  <2>1. l \in Links BY <1>2, <1>4
  <2>2. share \in Int BY <1>2, <1>4, ElementOfSeq
  <2> QED BY <2>1, <2>2 DEF Links
<1>6. src.low \in Int /\ src.high \in Int BY CallFacts DEF NeuronInputs
<1> HIDE DEF l, share, src
<1>7. divisor \in Int /\ divisor # 0 BY <1>5 DEF Magnitude
<1>8. Times(l.weight, l.act) + share \in Int
  <2>1. Times(l.weight, l.act) \in Int BY <1>5, TimesIsInt
  <2> QED BY <1>5, <2>1
<1>9. SourceTarget(l, share) = Over(Times(l.weight, l.act) + share, divisor) BY DEF SourceTarget
<1> HIDE DEF divisor
<1>10. SourceTarget(l, share) \in Int BY <1>7, <1>8, <1>9, OverIsInt
<1>11. Credit(s, link) = Clamped(SourceTarget(l, share), src.low, src.high) - l.act
  BY DEF Credit, l, share, src
<1>12. Clamped(SourceTarget(l, share), src.low, src.high) \in Int BY <1>6, <1>10, ClampedWithin
<1> QED BY <1>5, <1>11, <1>12

\* What a link in hand says: it is one of the neuron's, not handed yet, and its
\* source is still to come.
LEMMA LinkInHand ==
  ASSUME LoopInv, turn # NoTurn, link <= Len(turn.links)
  PROVE  LET k == call.inward[turn.at][link] IN
         /\ link \in DOMAIN call.inward[turn.at]
         /\ ~Blocked(k) =>
              /\ k \in DOMAIN call.syn /\ call.syn[k].to = turn.at
              /\ given[k] = SynapseZero
              /\ \A p \in DOMAIN call.order : p <= pos => call.order[p] # call.syn[k].from
<1> DEFINE k == call.inward[turn.at][link]
           n == Len(call.inward[turn.at])
<1>1. call # NoCall /\ CallTypes /\ TurnInOrder /\ OutcomesBehind /\ DeltasHanded BY DEF LoopInv
<1>2. /\ pos \in DOMAIN call.order /\ turn.at = call.order[pos] /\ turn.at \in DOMAIN call.neurons
      /\ turn.links \in [1 .. n -> Links] /\ link \in Nat \ {0}
  BY <1>1 DEF TurnInOrder, TurnGood
<1>3. IsCall(call) /\ call.inward[turn.at] \in Seq(Nat) /\ call.order \in Seq(Nat)
  BY <1>1, <1>2, CallFacts DEF CallTypes
<1>4. n \in Nat /\ DOMAIN call.inward[turn.at] = 1 .. n BY <1>3, LenProperties
<1>5. Len(turn.links) = n BY <1>2, <1>4, MadeSeq
<1>6. link \in DOMAIN call.inward[turn.at] BY <1>2, <1>4, <1>5
<1>7. ASSUME ~Blocked(k)
      PROVE  /\ k \in DOMAIN call.syn /\ call.syn[k].to = turn.at
             /\ given[k] = SynapseZero
             /\ \A p \in DOMAIN call.order : p <= pos => call.order[p] # call.syn[k].from
  <2>1. k \in DOMAIN call.syn /\ ~call.syn[k].self BY <1>7 DEF Blocked
  <2>2. call.syn[k].to = turn.at BY <1>2, <1>3, <1>6, <2>1 DEF IsCall, Wired
  <2>3. ASSUME given[k] # SynapseZero PROVE FALSE
    <3>1. Handed(k) BY <1>1, <2>1, <2>3 DEF DeltasHanded
    <3>2. ASSUME NEW j \in DOMAIN call.inward[turn.at], j < link, call.inward[turn.at][j] = k
          PROVE  FALSE
      <4>1. IsInjective(call.inward[turn.at]) BY <1>2, <1>3 DEF IsCall, Wired
      <4>2. j = link BY <1>6, <3>2, <4>1 DEF IsInjective
      <4> QED BY <1>2, <3>2, <4>2
    <3>3. ASSUME outcome[turn.at].kind = "standard" PROVE FALSE
      <4>1. PICK p \in DOMAIN call.order : p < pos /\ call.order[p] = turn.at
        BY <1>1, <1>2, <3>3 DEF OutcomesBehind
      <4>2. IsInjective(call.order) BY <1>3 DEF IsCall, ConsumersFirst
      <4>3. p = pos BY <1>2, <4>1, <4>2 DEF IsInjective
      <4> QED BY <1>1, <4>1, <4>3 DEF CallTypes
    <3> QED BY <2>2, <3>1, <3>2, <3>3 DEF Handed
  <2>4. ASSUME NEW p \in DOMAIN call.order, p <= pos PROVE call.order[p] # call.syn[k].from
    <3>1. p \in 1 .. pos
      <4>1. p \in Nat \ {0} BY <1>3, LenProperties
      <4> QED BY <1>1, <2>4, <4>1 DEF CallTypes
    <3> QED BY <1>2, <1>3, <1>6, <2>1, <3>1 DEF IsCall, ConsumersFirst
  <2> QED BY <2>1, <2>2, <2>3, <2>4
<1> QED BY <1>6, <1>7

LEMMA LoopHandLink ==
  ASSUME LoopInv, HandLink PROVE LoopInv'
<1> DEFINE k == call.inward[turn.at][link]
           l == turn.links[link]
           s == call.syn[k]
<1>1. /\ turn # NoTurn /\ link <= Len(turn.links) /\ link' = link + 1
      /\ UNCHANGED <<call, pos, outcome>>
  BY DEF HandLink
<1>2. call # NoCall /\ CallTypes /\ TurnInOrder /\ OutcomesBehind /\ DeltasHanded /\ Silence
  BY <1>1 DEF LoopInv
<1>3. /\ link \in DOMAIN call.inward[turn.at]
      /\ ~Blocked(k) => /\ k \in DOMAIN call.syn /\ s.to = turn.at
                        /\ given[k] = SynapseZero
  BY <1>1, LinkInHand
<1>4. /\ turn'.at = turn.at /\ turn'.links = turn.links /\ turn'.shares = turn.shares
      /\ turn'.error = turn.error /\ DOMAIN turn' = DOMAIN turn
  <2>1. turn' = turn \/ \E x : turn' = [turn EXCEPT !.improved = x] BY DEF HandLink
  <2>2. DOMAIN turn = {"at", "target", "raw", "links", "safe", "shares", "error", "improved"}
    BY <1>1, <1>2 DEF TurnInOrder, NoTurn
  <2> QED BY <2>1, <2>2
<1>5. turn' # NoTurn
  <2>1. turn.at \in Nat BY <1>1, <1>2, CallFacts DEF CallTypes, TurnInOrder, TurnGood
  <2> QED BY <1>4, <2>1 DEF NoTurn
<1>6. CASE Blocked(k)
  <2>1. UNCHANGED <<sum, paths, given, turn>> BY <1>6 DEF HandLink
  <2>2. CallTypes' /\ OutcomesBehind' /\ Silence'
    BY <1>1, <1>2, <2>1 DEF CallTypes, OutcomesBehind, Silence
  <2>3. TurnInOrder' BY <1>1, <1>2, <2>1 DEF TurnInOrder
  <2>4. DeltasHanded'
    <3> SUFFICES ASSUME NEW h \in DOMAIN call.syn, given[h] # SynapseZero
                 PROVE  given[h].count \in {0, 1} /\ Handed(h)'
      BY <1>1, <2>1 DEF DeltasHanded
    <3>1. given[h].count \in {0, 1} /\ Handed(h) BY <1>2 DEF DeltasHanded
    <3>2. \A j \in DOMAIN call.inward[turn.at] : j < link => j < link + 1
      <4>1. link \in Nat BY <1>1, <1>2 DEF TurnInOrder
      <4>2. DOMAIN call.inward[turn.at] \subseteq Int
        <5>1. call.inward[turn.at] \in Seq(Nat)
          BY <1>1, <1>2, CallFacts DEF CallTypes, TurnInOrder, TurnGood
        <5> QED BY <5>1, LenProperties
      <4> QED BY <4>1, <4>2
    <3> QED BY <1>1, <2>1, <3>1, <3>2 DEF Handed
  <2> QED BY <1>1, <1>2, <2>2, <2>3, <2>4 DEF LoopInv
<1>7. CASE ~Blocked(k)
  <2>1. /\ \/ sum' = [sum EXCEPT ![s.from] = @ + Credit(s, link)]
              /\ paths' = [paths EXCEPT ![s.from] = @ + 1]
              /\ IsCredited(s, link)
           \/ UNCHANGED <<sum, paths>>
        /\ \/ /\ Learns(l)
              /\ given' = [given EXCEPT ![k] =
                    Plus(@, WeightDelta(s.original, Times(l.weight, l.act) + turn.shares[link], l.act))]
           \/ UNCHANGED given
    BY <1>7 DEF HandLink, Credited
  <2>2. k \in DOMAIN call.syn /\ s.to = turn.at /\ given[k] = SynapseZero BY <1>3, <1>7
  <2>3. s.from \in DOMAIN call.neurons BY <1>2, <2>2, CallFacts DEF CallTypes
  <2>4. Credit(s, link) \in Int BY <1>1, <1>2, <2>2, CreditIsInt DEF CallTypes
  <2>5. CallTypes'
    <3> DEFINE u == s.from
               d == Credit(s, link)
    <3> HIDE DEF u, d
    <3>0. \/ sum' = [sum EXCEPT ![u] = @ + d] /\ paths' = [paths EXCEPT ![u] = @ + 1]
          \/ UNCHANGED <<sum, paths>>
      BY <2>1 DEF u, d
    <3>1. sum' \in [DOMAIN call.neurons -> Int] /\ paths' \in [DOMAIN call.neurons -> Nat]
      <4>1. u \in DOMAIN call.neurons /\ d \in Int BY <2>3, <2>4 DEF u, d
      <4>2. sum \in [DOMAIN call.neurons -> Int] /\ paths \in [DOMAIN call.neurons -> Nat]
        BY <1>2 DEF CallTypes
      <4> QED BY <3>0, <4>1, <4>2
    <3>2. DOMAIN given' = DOMAIN given BY <2>1
    <3> QED BY <1>1, <1>2, <3>1, <3>2 DEF CallTypes
  <2>6. TurnInOrder'
    <3>1. TurnGood(call, turn) BY <1>1, <1>2 DEF TurnInOrder
    <3>2. TurnGood(call, turn') BY <1>4, <3>1, TurnStaysGood
    <3> QED BY <1>1, <1>2, <1>4, <3>2 DEF TurnInOrder
  <2>7. OutcomesBehind' BY <1>1, <1>2 DEF OutcomesBehind
  <2>8. Silence'
    <3> SUFFICES ASSUME NEW v \in DOMAIN call.neurons,
                        Terminal(call.neurons[v]) \/ ~call.neurons[v].propagate
                 PROVE  paths'[v] = 0 /\ sum'[v] = 0
      BY <1>1 DEF Silence
    <3>1. paths[v] = 0 /\ sum[v] = 0 BY <1>2 DEF Silence
    <3>2. IsCredited(s, link) => v # s.from BY DEF IsCredited
    <3>3. sum'[v] = sum[v] /\ paths'[v] = paths[v] BY <1>2, <2>1, <2>3, <3>2 DEF CallTypes
    <3> QED BY <3>1, <3>3
  <2>9. DeltasHanded'
    <3> SUFFICES ASSUME NEW h \in DOMAIN call.syn, given'[h] # SynapseZero
                 PROVE  given'[h].count \in {0, 1} /\ Handed(h)'
      BY <1>1 DEF DeltasHanded
    <3>0. link \in Nat /\ DOMAIN call.inward[turn.at] \subseteq Int
      <4>1. call.inward[turn.at] \in Seq(Nat) /\ link \in Nat
        BY <1>1, <1>2, CallFacts DEF CallTypes, TurnInOrder, TurnGood
      <4> QED BY <4>1, LenProperties
    <3>1. CASE given'[h] = given[h]
      <4>1. given[h].count \in {0, 1} /\ Handed(h) BY <1>2, <3>1 DEF DeltasHanded
      <4>2. \A j \in DOMAIN call.inward[turn.at] : j < link => j < link + 1 BY <3>0
      <4> QED BY <1>1, <1>4, <1>5, <3>1, <4>1, <4>2 DEF Handed
    <3>2. CASE given'[h] # given[h]
      <4> DEFINE d == WeightDelta(s.original, Times(l.weight, l.act) + turn.shares[link], l.act)
      <4>0. Learns(l) /\ given' = [given EXCEPT ![k] = Plus(@, d)] BY <2>1, <3>2
      <4> HIDE DEF d, k, l, s
      <4>1. h = k
        <5>1. h \in DOMAIN given BY <1>2 DEF CallTypes
        <5> QED BY <3>2, <4>0, <5>1
      <4>2. given'[h] = Plus(SynapseZero, d) BY <1>2, <2>2, <4>0, <4>1 DEF CallTypes
      <4>3. given'[h].count \in {0, 1} BY <4>2, DeltaCount DEF d
      <4>4. call.neurons[turn.at].update BY <4>0 DEF Learns
      <4>5. link < link + 1 BY <3>0
      <4>6. call.inward[turn.at][link] = h BY <4>1 DEF k
      <4>7. call.syn[h].to = turn.at BY <2>2, <4>1 DEF s
      <4> QED BY <1>1, <1>3, <1>4, <1>5, <4>3, <4>4, <4>5, <4>6, <4>7 DEF Handed
    <3> QED BY <3>1, <3>2
  <2> QED BY <1>1, <1>2, <2>5, <2>6, <2>7, <2>8, <2>9 DEF LoopInv
<1> QED BY <1>6, <1>7

LEMMA LoopEndNeuron ==
  ASSUME LoopInv, EndNeuron PROVE LoopInv'
<1> DEFINE v == turn.at
<1>1. /\ turn # NoTurn /\ turn' = NoTurn /\ pos' = pos + 1
      /\ UNCHANGED <<call, sum, paths, given>>
  BY DEF EndNeuron
<1>2. call # NoCall /\ CallTypes /\ TurnInOrder /\ OutcomesBehind /\ DeltasHanded /\ Silence
  BY <1>1 DEF LoopInv
<1>3. pos \in DOMAIN call.order /\ v = call.order[pos] /\ v \in DOMAIN call.neurons /\ pos \in Nat
  BY <1>1, <1>2 DEF TurnInOrder, TurnGood, CallTypes
<1> HIDE DEF v
<1>4. PICK o : /\ outcome' = [outcome EXCEPT ![v] = o]
               /\ o.kind = "standard" /\ o.frozen = ~call.neurons[v].update
  <2> DEFINE n == call.neurons[v]
             bias == IF n.update THEN BiasDelta(Unsquash(n.squash, turn.target, n.hint), turn.improved, n.bias)
                     ELSE NeuronZero
             value == Squash(n.squash, turn.improved)
             left == [kind |-> "standard", value |-> value, frozen |-> ~n.update, bias |-> bias]
  <2>1. outcome' = [outcome EXCEPT ![v] = left] BY DEF EndNeuron, v
  <2> HIDE DEF bias, value
  <2>2. left.kind = "standard" /\ left.frozen = ~call.neurons[v].update OBVIOUS
  <2> HIDE DEF left
  <2> QED BY <2>1, <2>2
<1>5. CallTypes' BY <1>1, <1>2, <1>4 DEF CallTypes
<1>6. TurnInOrder' BY <1>1 DEF TurnInOrder
<1>7. outcome'[v] = o /\ \A w \in DOMAIN call.neurons : w # v => outcome'[w] = outcome[w]
  BY <1>2, <1>3, <1>4 DEF CallTypes
<1>8. OutcomesBehind'
  <2> SUFFICES ASSUME NEW w \in DOMAIN call.neurons, outcome'[w].kind # "skipped"
               PROVE  \E p \in DOMAIN call.order : p < pos + 1 /\ call.order[p] = w
    BY <1>1 DEF OutcomesBehind
  <2>1. CASE w = v BY <1>3, <2>1
  <2>2. CASE w # v
    <3>1. PICK p \in DOMAIN call.order : p < pos /\ call.order[p] = w
      BY <1>2, <1>7, <2>2 DEF OutcomesBehind
    <3>2. p \in Nat
      <4>1. call.order \in Seq(Nat) BY <1>2, CallFacts DEF CallTypes
      <4> QED BY <4>1, LenProperties
    <3> QED BY <1>3, <3>1, <3>2
  <2> QED BY <2>1, <2>2
<1>9. DeltasHanded'
  <2> SUFFICES ASSUME NEW k \in DOMAIN call.syn, given[k] # SynapseZero
               PROVE  given[k].count \in {0, 1} /\ Handed(k)'
    BY <1>1 DEF DeltasHanded
  <2> DEFINE w == call.syn[k].to
  <2>1. given[k].count \in {0, 1} /\ Handed(k) BY <1>2 DEF DeltasHanded
  <2>2. w \in DOMAIN call.neurons BY <1>2, CallFacts DEF CallTypes
  <2>3. CASE v = w /\ call.neurons[v].update
    <3>1. outcome'[w].kind = "standard" /\ ~outcome'[w].frozen BY <1>4, <1>7, <2>3
    <3> QED BY <1>1, <2>1, <3>1 DEF Handed
  <2>4. CASE ~(v = w /\ call.neurons[v].update)
    <3>1. outcome[w].kind = "standard" /\ ~outcome[w].frozen BY <2>1, <2>4 DEF Handed, v
    <3>2. w # v
      <4> SUFFICES ASSUME w = v PROVE FALSE OBVIOUS
      <4>1. PICK p \in DOMAIN call.order : p < pos /\ call.order[p] = w
        BY <1>2, <2>2, <3>1 DEF OutcomesBehind
      <4>2. IsInjective(call.order) BY <1>2, CallFacts DEF CallTypes, IsCall, ConsumersFirst
      <4>3. p = pos BY <1>3, <4>1, <4>2 DEF IsInjective
      <4> QED BY <1>3, <4>1, <4>3
    <3>3. outcome'[w] = outcome[w] BY <1>7, <2>2, <3>2
    <3> QED BY <1>1, <2>1, <3>1, <3>3 DEF Handed
  <2> QED BY <2>3, <2>4
<1>10. Silence' BY <1>1, <1>2 DEF Silence
<1> QED BY <1>1, <1>5, <1>6, <1>8, <1>9, <1>10 DEF LoopInv

\* Every step keeps the invariant.
LEMMA LoopStep ==
  ASSUME LoopInv, [Next]_vars PROVE LoopInv'
<1>1. CASE UNCHANGED bvars
  BY <1>1 DEF bvars, LoopInv, CallTypes, TurnInOrder, OutcomesBehind, DeltasHanded, Handed, Silence
<1>2. CASE \E c \in Calls : StartCall(c) BY <1>2, LoopStart
<1>3. CASE PassNeuron
  <2>1. call # NoCall /\ turn = NoTurn /\ pos <= Len(call.order) /\ NextNeuron /\ UNCHANGED outcome
    BY <1>3 DEF PassNeuron
  <2> QED BY <2>1, LoopNextNeuron
<1>4. CASE LeaveNeuron
  <2>1. /\ call # NoCall /\ turn = NoTurn /\ pos <= Len(call.order) /\ NextNeuron
        /\ call.order[pos] \in DOMAIN call.neurons
        /\ \E o : outcome' = [outcome EXCEPT ![call.order[pos]] = o]
    BY <1>4 DEF LeaveNeuron, Due
  <2> QED BY <2>1, LoopNextNeuron
<1>5. CASE BeginNeuron BY <1>5, LoopBeginNeuron
<1>6. CASE HandLink BY <1>6, LoopHandLink
<1>7. CASE EndNeuron BY <1>7, LoopEndNeuron
<1>8. CASE EndCall
  <2>1. call' = NoCall /\ turn' = NoTurn BY <1>8 DEF EndCall
  <2> QED BY <2>1 DEF LoopInv
<1>9. \/ UNCHANGED bvars \/ (\E c \in Calls : StartCall(c)) \/ BackpropNext
  BY DEF Next, vars
<1> QED BY <1>1, <1>2, <1>3, <1>4, <1>5, <1>6, <1>7, <1>8, <1>9 DEF BackpropNext

\* The loop of one call (propagate_topological_loop) keeps, for every creature
\* and every order with consumers first: variables typed, the turn that of the
\* neuron in order, outcomes only behind it, deltas only where shares were handed.
THEOREM LoopInvariance == Spec => []LoopInv
<1>1. Init => LoopInv BY DEF Init, BackpropInit, LoopInv
<1>2. LoopInv /\ [Next]_vars => LoopInv' BY LoopStep
<1> QED BY <1>1, <1>2, PTL DEF Spec

\* The shares of a neuron's error sum to it, but for what no rounding can tell,
\* and a blocked link has none of it while links can be told apart
\* (apply_distribute_elastic_error, apply_fused_error_distribution).
THEOREM ErrorIsShared == Spec => []SharesSumToError
<1>1. LoopInv => SharesSumToError
  <2> SUFFICES ASSUME LoopInv, turn # NoTurn, turn.links # <<>>
               PROVE  /\ \/ Magnitude(turn.error - SumOf(turn.shares)) <= Plank
                         \/ /\ Even(turn.shares)
                            /\ Magnitude(turn.error - SumOf(turn.shares)) <= Len(turn.links)
                      /\ \A i \in 1 .. Len(turn.links) :
                           Blocked(call.inward[turn.at][i]) => turn.shares[i] = 0 \/ Even(turn.shares)
    BY DEF SharesSumToError, Even
  <2> DEFINE n == Len(call.inward[turn.at])
             acts == [i \in 1 .. n |-> turn.links[i].act]
             weights == [i \in 1 .. n |-> turn.links[i].weight]
  <2>1. call \in Calls /\ TurnGood(call, turn) BY DEF LoopInv, CallTypes, TurnInOrder
  <2>2. n \in Nat /\ turn.links \in [1 .. n -> Links]
    BY <2>1, CallFacts, LenProperties DEF TurnGood
  <2>3. Len(turn.links) = n /\ turn.links \in Seq(Links) BY <2>2, MadeSeq
  <2>4. n # 0 BY <2>3, EmptySeq
  <2>5. GoodSplit(turn.shares, turn.error, acts, weights) BY <2>1, <2>4 DEF TurnGood
  <2>6. Len(acts) = n
    <3>1. acts \in [1 .. n -> Int] BY <2>2 DEF Links
    <3> QED BY <2>2, <3>1, MadeSeq
  <2>7. \A i \in 1 .. n : Blocked(call.inward[turn.at][i]) => acts[i] = 0 /\ weights[i] = 0
    BY <2>1 DEF TurnGood, Blocked, BlockedIn
  <2> HIDE DEF acts, weights, n
  <2> QED BY <2>3, <2>5, <2>6, <2>7 DEF GoodSplit
<1> QED BY <1>1, LoopInvariance, PTL

\* A synapse learns once, and only into a neuron that was processed to its end
\* and is not frozen; a neuron left out is credited with nothing.
THEOREM DeltasGoWithOutcomes == Spec => []DeltasFollowOutcomes
<1>1. LoopInv => DeltasFollowOutcomes
  <2> SUFFICES ASSUME LoopInv, call # NoCall PROVE DeltasFollowOutcomes
    BY DEF DeltasFollowOutcomes
  <2>1. DeltasHanded /\ Silence BY DEF LoopInv
  <2>2. ASSUME NEW k \in DOMAIN call.syn
        PROVE  /\ given[k].count <= 1
               /\ given[k].count = 1 =>
                    \/ turn.at = call.syn[k].to
                    \/ outcome[call.syn[k].to].kind = "standard" /\ ~outcome[call.syn[k].to].frozen
    <3>1. CASE given[k] = SynapseZero BY <3>1 DEF SynapseZero
    <3>2. CASE given[k] # SynapseZero
      <4>1. given[k].count \in {0, 1} /\ Handed(k) BY <2>1, <3>2 DEF DeltasHanded
      <4> QED BY <4>1 DEF Handed
    <3> QED BY <3>1, <3>2
  <2> QED BY <2>1, <2>2 DEF DeltasFollowOutcomes, Silence
<1> QED BY <1>1, LoopInvariance, PTL

\* A neuron whose turn has begun is never handed more error: the order puts
\* consumers first, so what it was asked for was everything.
THEOREM ErrorComesComplete == Spec => CompleteError
<1> DEFINE Kept == call' = call /\ call # NoCall =>
              \A v \in Past \cap DOMAIN call.neurons : sum'[v] = sum[v] /\ paths'[v] = paths[v]
<1>1. LoopInv /\ [Next]_vars => [Kept]_bvars
  <2> SUFFICES ASSUME LoopInv, [Next]_vars, call' = call, call # NoCall,
                      NEW v \in Past \cap DOMAIN call.neurons
               PROVE  sum'[v] = sum[v] /\ paths'[v] = paths[v]
    OBVIOUS
  <2>1. CallTypes /\ TurnInOrder BY DEF LoopInv
  <2>2. CASE HandLink
    <3> DEFINE k == call.inward[turn.at][link]
               u == call.syn[k].from
    <3>1. turn # NoTurn /\ link <= Len(turn.links) BY <2>2 DEF HandLink
    <3>2. ~Blocked(k) => /\ k \in DOMAIN call.syn
                         /\ \A p \in DOMAIN call.order : p <= pos => call.order[p] # u
      BY <3>1, LinkInHand
    <3>3. \E p \in DOMAIN call.order : p <= pos /\ call.order[p] = v
      <4>1. call.order \in Seq(Nat) /\ pos \in DOMAIN call.order
        BY <2>1, <3>1, CallFacts DEF CallTypes, TurnInOrder
      <4> DEFINE past == SubSeq(call.order, 1, pos)
      <4>2. Len(call.order) \in Nat /\ DOMAIN call.order = 1 .. Len(call.order)
        BY <4>1, LenProperties
      <4>3. /\ DOMAIN past = 1 .. pos
            /\ \A p \in 1 .. pos : past[p] = call.order[p]
        BY <4>1, <4>2
      <4>4. v \in ToSet(past) BY <3>1 DEF Past
      <4> HIDE DEF past
      <4>5. PICK p \in 1 .. pos : v = call.order[p] BY <4>3, <4>4 DEF ToSet
      <4>6. p \in DOMAIN call.order /\ p <= pos BY <4>1, <4>2
      <4> QED BY <4>5, <4>6
    <3>4. CASE Blocked(k) BY <2>2, <3>4 DEF HandLink
    <3>5. CASE ~Blocked(k)
      <4>1. v # u BY <3>2, <3>3, <3>5
      <4>2. \/ /\ sum' = [sum EXCEPT ![u] = @ + Credit(call.syn[k], link)]
               /\ paths' = [paths EXCEPT ![u] = @ + 1]
            \/ UNCHANGED <<sum, paths>>
        BY <2>2, <3>5 DEF HandLink, Credited
      <4> HIDE DEF u
      <4> QED BY <2>1, <4>1, <4>2 DEF CallTypes
    <3> QED BY <3>4, <3>5
  <2>3. CASE ~HandLink
    <3>1. UNCHANGED <<sum, paths>>
      BY <2>3 DEF Next, vars, bvars, StartCall, BackpropNext, PassNeuron, LeaveNeuron, NextNeuron,
                  BeginNeuron, EndNeuron, EndCall
    <3> QED BY <3>1
  <2> QED BY <2>2, <2>3
<1>2. Spec => [][Kept]_bvars
  <2> HIDE DEF Kept
  <2> QED BY <1>1, LoopInvariance, PTL DEF Spec
<1> QED BY <1>2, PTL DEF CompleteError

-----------------------------------------------------------------------------
(* Totals of deltas *)

LEMMA PlusAdds ==
  ASSUME NEW S, NEW a \in [S -> Int], NEW b \in [S -> Int]
  PROVE  Plus(a, b) \in [S -> Int] /\ \A f \in S : Plus(a, b)[f] = a[f] + b[f]
BY DEF Plus

\* g adds deltas up, from zero.
Adds(g, S, zero, deltas) ==
  /\ g \in [0 .. Len(deltas) -> [S -> Int]] /\ g[0] = zero
  /\ \A k \in 1 .. Len(deltas) : g[k] = Plus(g[k - 1], deltas[k])

LEMMA TotalUpTo ==
  ASSUME NEW S, NEW zero \in [S -> Int], NEW deltas \in Seq([S -> Int])
  PROVE  /\ \E g : Adds(g, S, zero, deltas)
         /\ \A g : Adds(g, S, zero, deltas) => TotalOf(zero, deltas) = g[Len(deltas)]
<1> DEFINE n == Len(deltas)
           D == [S -> Int]
           upTo[k \in 0 .. Len(deltas)] == IF k = 0 THEN zero ELSE Plus(upTo[k - 1], deltas[k])
           step == [p \in (1 .. n) \X D |-> Plus(p[2], deltas[p[1]])]
<1>1. n \in Nat /\ \A k \in 1 .. n : deltas[k] \in D BY LenProperties, ElementOfSeq
<1>2. \A k \in 1 .. n : \A x \in D : step[<<k, x>>] = Plus(x, deltas[k]) /\ Plus(x, deltas[k]) \in D
  <2> TAKE k \in 1 .. n
  <2> TAKE x \in D
  <2>1. <<k, x>> \in (1 .. n) \X D OBVIOUS
  <2>2. Plus(x, deltas[k]) \in D BY <1>1, PlusAdds
  <2> QED BY <2>1, <2>2
<1> HIDE DEF step, upTo, D
<1>3. PICK g \in [0 .. n -> D] : StepsBy(g, n, zero, step)
  <2>1. zero \in D BY DEF D
  <2>2. \A k \in 1 .. n : \A x \in D : step[<<k, x>>] \in D BY <1>2
  <2> DEFINE m == n
  <2>3. m \in Nat /\ \A k \in 1 .. m : \A x \in D : step[<<k, x>>] \in D BY <1>1, <2>2
  <2> HIDE DEF m
  <2>4. \E g \in [0 .. m -> D] : StepsBy(g, m, zero, step) BY <2>1, <2>3, Recursion
  <2> QED BY <2>4 DEF m
<1>4. Adds(g, S, zero, deltas)
  <2>1. \A k \in 1 .. n : g[k] = Plus(g[k - 1], deltas[k])
    <3> TAKE k \in 1 .. n
    <3>0. k - 1 \in 0 .. n BY <1>1
    <3>1. g[k - 1] \in D BY <3>0
    <3>2. g[k] = step[<<k, g[k - 1]>>] BY <1>3 DEF StepsBy
    <3> QED BY <1>2, <3>1, <3>2
  <2> QED BY <1>3, <2>1 DEF Adds, StepsBy, D
<1>5. upTo = [k \in 0 .. Len(deltas) |-> IF k = 0 THEN zero ELSE Plus(upTo[k - 1], deltas[k])]
  <2>1. g = [k \in 0 .. Len(deltas) |-> IF k = 0 THEN zero ELSE Plus(g[k - 1], deltas[k])]
    BY <1>1, <1>4 DEF Adds
  <2> QED BY <2>1 DEF upTo
<1>6. TotalOf(zero, deltas) = upTo[n] BY DEF TotalOf, upTo
<1>7. ASSUME NEW h, Adds(h, S, zero, deltas) PROVE TotalOf(zero, deltas) = h[n]
  <2> DEFINE T == {k \in 0 .. n : upTo[k] = h[k]}
  <2>1. 0 \in T BY <1>1, <1>5, <1>7 DEF Adds
  <2>2. ASSUME NEW k \in 1 .. n, k - 1 \in T PROVE k \in T
    <3>1. upTo[k] = Plus(upTo[k - 1], deltas[k]) BY <1>1, <1>5
    <3>2. h[k] = Plus(h[k - 1], deltas[k]) BY <1>7 DEF Adds
    <3> QED BY <1>1, <2>2, <3>1, <3>2
  <2>3. 0 .. n \subseteq T
    <3> HIDE DEF T
    <3> QED BY <1>1, <2>1, <2>2, InductionUpTo
  <2> QED BY <1>1, <1>6, <2>3
<1> QED BY <1>4, <1>7

LEMMA TotalOfNone ==
  ASSUME NEW S, NEW zero \in [S -> Int] PROVE TotalOf(zero, <<>>) = zero
<1> DEFINE none == <<>>
           h == [k \in 0 .. 0 |-> zero]
<1>1. none \in Seq([S -> Int]) /\ Len(none) = 0 OBVIOUS
<1> HIDE DEF none
<1>2. Adds(h, S, zero, none) BY <1>1 DEF Adds
<1> HIDE DEF h
<1>3. TotalOf(zero, none) = h[Len(none)] BY <1>1, <1>2, TotalUpTo
<1>4. h[0] = zero BY DEF h
<1> QED BY <1>1, <1>3, <1>4 DEF none

\* The deltas and one more.
Longer(deltas, d) == Append(deltas, d)

LEMMA TotalOfMore ==
  ASSUME NEW S, NEW zero \in [S -> Int], NEW deltas \in Seq([S -> Int]), NEW d \in [S -> Int]
  PROVE  /\ TotalOf(zero, deltas) \in [S -> Int]
         /\ TotalOf(zero, Longer(deltas, d)) = Plus(TotalOf(zero, deltas), d)
<1> DEFINE n == Len(deltas)
           more == Append(deltas, d)
<1>1. n \in Nat /\ \A k \in 1 .. n : deltas[k] \in [S -> Int] BY LenProperties, ElementOfSeq
<1>2. PICK g : Adds(g, S, zero, deltas) /\ TotalOf(zero, deltas) = g[n] BY TotalUpTo
<1>3. TotalOf(zero, deltas) \in [S -> Int]
  <2>1. n \in 0 .. n BY <1>1
  <2>2. g \in [0 .. n -> [S -> Int]] BY <1>2 DEF Adds
  <2> QED BY <1>2, <2>1, <2>2
<1>5. more \in Seq([S -> Int]) /\ Len(more) = n + 1 /\ more[n + 1] = d
      /\ \A k \in 1 .. n : more[k] = deltas[k]
  BY <1>1
<1> DEFINE h == [k \in 0 .. n + 1 |-> IF k <= n THEN g[k] ELSE Plus(g[n], d)]
<1> HIDE DEF more
<1>6. Adds(h, S, zero, more)
  <2>1. g[n] \in [S -> Int] /\ Plus(g[n], d) \in [S -> Int] BY <1>2, <1>3, PlusAdds
  <2>2. h \in [0 .. n + 1 -> [S -> Int]] /\ h[0] = zero BY <1>1, <1>2, <2>1 DEF Adds
  <2>3. ASSUME NEW k \in 1 .. n + 1 PROVE h[k] = Plus(h[k - 1], more[k])
    <3>1. CASE k = n + 1
      <4>1. h[k] = Plus(g[n], d) /\ h[k - 1] = g[n] BY <1>1, <3>1
      <4> QED BY <1>5, <3>1, <4>1
    <3>2. CASE k <= n
      <4>1. h[k] = g[k] /\ h[k - 1] = g[k - 1] /\ k \in 1 .. n BY <1>1, <3>2
      <4> QED BY <1>2, <1>5, <4>1 DEF Adds
    <3> QED BY <1>1, <3>1, <3>2
  <2> HIDE DEF h
  <2> QED BY <1>5, <2>2, <2>3 DEF Adds
<1>7. TotalOf(zero, more) = h[n + 1]
  <2> HIDE DEF h
  <2>1. more \in Seq([S -> Int]) BY <1>5
  <2>2. \A x : Adds(x, S, zero, more) => TotalOf(zero, more) = x[Len(more)] BY <2>1, TotalUpTo
  <2>3. TotalOf(zero, more) = h[Len(more)] BY <1>6, <2>2
  <2> QED BY <1>5, <2>3
<1> QED BY <1>1, <1>2, <1>3, <1>7 DEF more, Longer

-----------------------------------------------------------------------------
(* The accumulators *)

\* The fields of a record, each at its place.
Laid(F, S) ==
  /\ Len(F) \in {3, 7} /\ F \in [1 .. Len(F) -> S] /\ "count" \in S
  /\ \A i, j \in 1 .. Len(F) : F[i] = F[j] => i = j
  /\ \A f \in S : \E i \in 1 .. Len(F) : F[i] = f

\* b holds the n records of T.
Held(b, n, T, F, S) ==
  /\ n \in Nat /\ n * Len(F) < Word
  /\ T \in [0 .. n - 1 -> [S -> Int]]
  /\ b \in [1 .. n * Len(F) -> Int]
  /\ \A x \in 0 .. n - 1 : \A i \in 1 .. Len(F) : b[x * Len(F) + i] = T[x][F[i]]

\* Whether a record is there is decided as record_start decides it, and records
\* do not overlap.
LEMMA Places ==
  ASSUME NEW L \in {3, 7}, NEW n \in Nat, NEW w \in Nat, n * L < w
  PROVE  /\ n * L \in Nat
         /\ \A x \in Nat : x * L + L < w /\ x * L + L <= n * L <=> x < n
         /\ \A x \in Nat : x < n => x < w
         /\ \A x, y \in Nat : \A i \in 1 .. L :
              /\ x * L + i \in y * L + 1 .. y * L + L <=> x = y
              /\ x * L + i - x * L = i
              /\ x < n => x * L + i \in 1 .. n * L
         /\ \A x \in Nat : \A p \in x * L + 1 .. x * L + L : p - x * L \in 1 .. L
<1>1. CASE L = 3 BY <1>1
<1>2. CASE L = 7 BY <1>2
<1> QED BY <1>1, <1>2

LEMMA AddedHeld ==
  ASSUME NEW F, NEW S, Laid(F, S), NEW n, NEW T, NEW b, Held(b, n, T, F, S),
         NEW x \in Nat, NEW d \in [S -> Int], d.count = 0 => \A f \in S : d[f] = 0
  PROVE  Held(AddedAt(b, x, F, d), n, [T EXCEPT ![x] = Plus(@, d)], F, S)
<1> DEFINE L == Len(F)
           base == x * L
           T2 == [T EXCEPT ![x] = Plus(@, d)]
           m == n * L
<1>0. L \in {3, 7} /\ n \in Nat /\ m < Word /\ Word \in Nat
  BY TrainingStateAssumption DEF Laid, Held
<1>1. /\ m \in Nat /\ (base + L < Word /\ base + L <= m <=> x < n) /\ (x < n => x < Word)
      /\ base \in Nat /\ L \in Nat
  <2>1. L \in Nat /\ base \in Nat BY <1>0
  <2> QED BY <1>0, <2>1, Places
<1>2. b \in [1 .. m -> Int] /\ T \in [0 .. n - 1 -> [S -> Int]] /\ Len(b) = m
  <2>1. b \in [1 .. m -> Int] /\ T \in [0 .. n - 1 -> [S -> Int]] BY DEF Held
  <2> HIDE DEF m
  <2> QED BY <1>1, <2>1, MadeSeq
<1>3. RecordStart(x, L, Len(b)) = IF x < n THEN base ELSE NoRecord
  BY <1>1, <1>2 DEF RecordStart
<1>4. base # NoRecord BY <1>1 DEF NoRecord
<1>5. T2 \in [0 .. n - 1 -> [S -> Int]]
      /\ \A y \in 0 .. n - 1 : T2[y] = IF y = x THEN Plus(T[x], d) ELSE T[y]
  BY <1>2, PlusAdds
<1>6. CASE ~(x < n)
  <2>1. x \notin 0 .. n - 1 BY <1>0, <1>6
  <2>2. T2 = T BY <1>2, <2>1
  <2>3. AddedAt(b, x, F, d) = b BY <1>3, <1>6 DEF AddedAt
  <2> QED BY <2>2, <2>3
<1>7. CASE x < n /\ d.count = 0
  <2>1. AddedAt(b, x, F, d) = b BY <1>7 DEF AddedAt
  <2>2. x \in 0 .. n - 1 /\ T[x] \in [S -> Int] BY <1>0, <1>2, <1>7
  <2>3. Plus(T[x], d) = T[x]
    <3>1. Plus(T[x], d) \in [S -> Int] /\ \A f \in S : Plus(T[x], d)[f] = T[x][f] + d[f]
      BY <2>2, PlusAdds
    <3>2. \A f \in S : Plus(T[x], d)[f] = T[x][f] BY <1>7, <2>2, <3>1
    <3> QED BY <2>2, <3>1, <3>2
  <2>4. T2 = T BY <1>2, <2>2, <2>3
  <2> QED BY <2>1, <2>4
<1>8. CASE x < n /\ d.count # 0
  <2> DEFINE c == [p \in 1 .. m |-> IF p \in base + 1 .. base + L THEN b[p] + d[F[p - base]] ELSE b[p]]
  <2>0. DOMAIN b = 1 .. m BY <1>2
  <2>1. AddedAt(b, x, F, d) = c
    <3>1. RecordStart(x, Len(F), Len(b)) = base /\ ~(x >= Word) BY <1>0, <1>1, <1>3, <1>8
    <3> HIDE DEF base, m
    <3> QED BY <1>4, <1>8, <2>0, <3>1 DEF AddedAt
  <2>2. \A p \in base + 1 .. base + L : p - base \in 1 .. L BY <1>0, Places
  <2>3. \A i \in 1 .. L : F[i] \in S /\ d[F[i]] \in Int BY DEF Laid
  <2>4. c \in [1 .. m -> Int]
    <3> HIDE DEF base, m
    <3>1. \A p \in 1 .. m : p \in base + 1 .. base + L => b[p] + d[F[p - base]] \in Int
      BY <1>2, <2>2, <2>3
    <3> QED BY <1>2, <3>1
  <2>5. ASSUME NEW y \in 0 .. n - 1, NEW i \in 1 .. L
        PROVE  c[y * L + i] = T2[y][F[i]]
    <3>0. y \in Nat /\ y < n BY <1>0
    <3>1. /\ y * L + i \in 1 .. m /\ (y * L + i \in base + 1 .. base + L <=> y = x)
          /\ y * L + i - y * L = i
      <4>1. \A u, v \in Nat : \A j \in 1 .. L :
              /\ u * L + j \in v * L + 1 .. v * L + L <=> u = v
              /\ u * L + j - u * L = j
              /\ u < n => u * L + j \in 1 .. n * L
        BY <1>0, Places
      <4> QED BY <3>0, <4>1
    <3>2. b[y * L + i] = T[y][F[i]] BY DEF Held
    <3>3. CASE y = x
      <4>1. c[y * L + i] = b[y * L + i] + d[F[i]] BY <3>1, <3>3
      <4>2. T[x] \in [S -> Int] BY <1>2, <3>3
      <4>3. Plus(T[x], d)[F[i]] = T[x][F[i]] + d[F[i]] BY <2>3, <4>2, PlusAdds
      <4> QED BY <1>5, <3>2, <3>3, <4>1, <4>3
    <3>4. CASE y # x
      <4>1. c[y * L + i] = b[y * L + i] BY <3>1, <3>4
      <4> QED BY <1>5, <3>2, <3>4, <4>1
    <3> QED BY <3>3, <3>4
  <2> HIDE DEF c, T2
  <2>6. Held(c, n, T2, F, S) BY <1>0, <1>5, <2>4, <2>5 DEF Held
  <2> QED BY <2>1, <2>6 DEF T2
<1> QED BY <1>6, <1>7, <1>8

\* A record is read where it was written, and none is read as nothing.
LEMMA ReadHeld ==
  ASSUME NEW F, NEW S, Laid(F, S), NEW n, NEW T, NEW b, Held(b, n, T, F, S), NEW x \in Nat
  PROVE  ReadRecord(b, x, F) = IF x \in 0 .. n - 1 THEN T[x] ELSE [f \in S |-> 0]
<1> DEFINE L == Len(F)
           base == x * L
           m == n * L
<1>0. L \in {3, 7} /\ n \in Nat /\ m < Word /\ Word \in Nat
  BY TrainingStateAssumption DEF Laid, Held
<1>1. /\ m \in Nat /\ (base + L < Word /\ base + L <= m <=> x < n) /\ base \in Nat
  <2>1. L \in Nat /\ base \in Nat BY <1>0
  <2> QED BY <1>0, <2>1, Places
<1>2. T \in [0 .. n - 1 -> [S -> Int]] /\ Len(b) = m
  <2>1. b \in [1 .. m -> Int] /\ T \in [0 .. n - 1 -> [S -> Int]] BY DEF Held
  <2> HIDE DEF m
  <2> QED BY <1>1, <2>1, MadeSeq
<1>3. RecordStart(x, L, Len(b)) = IF x < n THEN base ELSE NoRecord
  BY <1>1, <1>2 DEF RecordStart
<1>4. base # NoRecord BY <1>1 DEF NoRecord
<1>5. ToSet(F) = S /\ DOMAIN F = 1 .. L BY DEF Laid, ToSet
<1>6. x \in 0 .. n - 1 <=> x < n BY <1>0
<1>7. CASE ~(x < n)
  <2>1. ReadRecord(b, x, F) = [f \in S |-> 0] BY <1>3, <1>5, <1>7 DEF ReadRecord
  <2> QED BY <1>6, <1>7, <2>1
<1>8. CASE x < n
  <2> DEFINE at(f) == CHOOSE i \in DOMAIN F : F[i] = f
             read == [f \in S |-> b[base + at(f)]]
  <2>1. ReadRecord(b, x, F) = read
    <3>1. RecordStart(x, Len(F), Len(b)) = base BY <1>3, <1>8
    <3> HIDE DEF base
    <3> QED BY <1>4, <1>5, <3>1 DEF ReadRecord
  <2>2. ASSUME NEW f \in S PROVE b[base + at(f)] = T[x][f]
    <3>1. PICK i \in 1 .. L : F[i] = f BY DEF Laid
    <3>2. at(f) \in 1 .. L /\ F[at(f)] = f BY <1>5, <3>1
    <3>3. x \in 0 .. n - 1 BY <1>6, <1>8
    <3> DEFINE j == at(f)
    <3> HIDE DEF j
    <3>4. b[x * L + j] = T[x][F[j]] BY <3>2, <3>3 DEF Held, j
    <3> QED BY <3>2, <3>4 DEF j
  <2>3. read = T[x]
    <3>1. T[x] \in [S -> Int] BY <1>2, <1>6, <1>8
    <3> QED BY <2>2, <3>1
  <2> HIDE DEF read
  <2> QED BY <1>6, <1>8, <2>1, <2>3
<1> QED BY <1>7, <1>8

\* r adds the deltas to b, record by record from start.
Runs(r, b, start, F, deltas) ==
  /\ DOMAIN r = 0 .. Len(deltas) /\ r[0] = b
  /\ \A k \in 1 .. Len(deltas) : r[k] = AddedAt(r[k - 1], start + k - 1, F, deltas[k])

\* The totals of T behind the first k deltas.
After(T, start, deltas, k) ==
  [x \in DOMAIN T |-> IF x - start + 1 \in 1 .. k THEN Plus(T[x], deltas[x - start + 1]) ELSE T[x]]

\* A delta of no count adds nothing.
Silent(deltas, S) == \A k \in 1 .. Len(deltas) : deltas[k].count = 0 => \A f \in S : deltas[k][f] = 0

LEMMA RunsHeld ==
  ASSUME NEW F, NEW S, Laid(F, S), NEW n, NEW T, NEW b, Held(b, n, T, F, S),
         NEW start \in Nat, NEW deltas \in Seq([S -> Int]), Silent(deltas, S),
         NEW r, Runs(r, b, start, F, deltas)
  PROVE  \A k \in 0 .. Len(deltas) : Held(r[k], n, After(T, start, deltas, k), F, S)
<1> DEFINE l == Len(deltas)
           G == {k \in 0 .. l : Held(r[k], n, After(T, start, deltas, k), F, S)}
<1>1. l \in Nat /\ \A k \in 1 .. l : deltas[k] \in [S -> Int] BY LenProperties, ElementOfSeq
<1>2. T \in [0 .. n - 1 -> [S -> Int]] /\ n \in Nat BY DEF Held
<1>3. 0 \in G
  <2>1. \A x \in 0 .. n - 1 : x - start + 1 \notin 1 .. 0 BY <1>2
  <2>2. After(T, start, deltas, 0) = T BY <1>2, <2>1 DEF After
  <2> QED BY <1>1, <2>2 DEF Runs
<1>4. ASSUME NEW k \in 1 .. l, k - 1 \in G PROVE k \in G
  <2> DEFINE U == After(T, start, deltas, k - 1)
             x == start + k - 1
             d == deltas[k]
             N == [U EXCEPT ![x] = Plus(@, d)]
  <2>1. Held(r[k - 1], n, U, F, S) BY <1>4
  <2>2. x \in Nat /\ d \in [S -> Int] /\ (d.count = 0 => \A f \in S : d[f] = 0)
    BY <1>1 DEF Silent
  <2> HIDE DEF U, x, d
  <2>3. Held(AddedAt(r[k - 1], x, F, d), n, [U EXCEPT ![x] = Plus(@, d)], F, S)
    BY <2>1, <2>2, AddedHeld
  <2>4. r[k] = AddedAt(r[k - 1], x, F, d) BY DEF Runs, x, d
  <2>5. N = After(T, start, deltas, k)
    <3>1. U \in [0 .. n - 1 -> [S -> Int]] BY <2>1 DEF Held
    <3>2. ASSUME NEW y \in 0 .. n - 1
          PROVE  N[y] = IF y - start + 1 \in 1 .. k THEN Plus(T[y], deltas[y - start + 1]) ELSE T[y]
      <4>0. U[y] = IF y - start + 1 \in 1 .. k - 1 THEN Plus(T[y], deltas[y - start + 1]) ELSE T[y]
        BY <1>2 DEF U, After
      <4>1. CASE y = x
        <5>1. y - start + 1 = k BY <1>2, <4>1 DEF x
        <5>2. y - start + 1 \notin 1 .. k - 1 /\ y - start + 1 \in 1 .. k BY <1>1, <5>1
        <5>3. N[y] = Plus(U[y], d) BY <3>1, <4>1
        <5> QED BY <4>0, <5>1, <5>2, <5>3 DEF d
      <4>2. CASE y # x
        <5>1. y - start + 1 \in 1 .. k - 1 <=> y - start + 1 \in 1 .. k
          <6>1. y - start + 1 # k /\ y \in Int BY <1>2, <4>2 DEF x
          <6> QED BY <1>1, <6>1
        <5>2. N[y] = U[y] BY <3>1, <4>2
        <5> QED BY <4>0, <5>1, <5>2
      <4> QED BY <4>1, <4>2
    <3>3. DOMAIN N = 0 .. n - 1 /\ DOMAIN T = 0 .. n - 1 BY <1>2, <3>1
    <3>4. N = [y \in 0 .. n - 1 |-> N[y]] BY <3>1, <3>3
    <3> QED BY <3>2, <3>3, <3>4 DEF After
  <2>6. Held(r[k], n, After(T, start, deltas, k), F, S) BY <2>3, <2>4, <2>5
  <2> QED BY <1>1, <2>6
<1>5. 0 .. l \subseteq G
  <2> HIDE DEF G
  <2> QED BY <1>1, <1>3, <1>4, InductionUpTo
<1> QED BY <1>5

LEMMA AddedTyped ==
  ASSUME NEW F, NEW S, Laid(F, S), NEW m, NEW b \in [1 .. m -> Int], NEW x \in Int, NEW d \in [S -> Int]
  PROVE  AddedAt(b, x, F, d) \in [1 .. m -> Int]
<1> DEFINE L == Len(F)
           base == RecordStart(x, L, Len(b))
<1>1. L \in Nat BY DEF Laid
<1>2. base \in Int
  <2>1. x * L \in Int BY <1>1
  <2> QED BY <2>1 DEF RecordStart, NoRecord
<1> HIDE DEF base
<1>3. \A p \in 1 .. m : p \in base + 1 .. base + L => b[p] + d[F[p - base]] \in Int
  <2> SUFFICES ASSUME NEW p \in 1 .. m, p \in base + 1 .. base + L
               PROVE  b[p] + d[F[p - base]] \in Int OBVIOUS
  <2>1. p - base \in 1 .. L BY <1>1, <1>2
  <2>2. F[p - base] \in S BY <2>1 DEF Laid
  <2>3. d[F[p - base]] \in Int BY <2>2
  <2> QED BY <2>3
<1> QED BY <1>3 DEF AddedAt, base

\* A call's deltas are added each to its own record.
LEMMA AccumulatedHeld ==
  ASSUME NEW F, NEW S, Laid(F, S), NEW n, NEW T, NEW b, Held(b, n, T, F, S),
         NEW start \in Nat, NEW deltas \in Seq([S -> Int]), Silent(deltas, S)
  PROVE  Held(Accumulated(b, start, F, deltas), n, After(T, start, deltas, Len(deltas)), F, S)
<1> DEFINE l == Len(deltas)
           after[k \in 0 .. Len(deltas)] ==
             IF k = 0 THEN b ELSE AddedAt(after[k - 1], start + k - 1, F, deltas[k])
           D == [1 .. n * Len(F) -> Int]
           step == [p \in (1 .. l) \X D |-> AddedAt(p[2], start + p[1] - 1, F, deltas[p[1]])]
<1>1. l \in Nat /\ \A k \in 1 .. l : deltas[k] \in [S -> Int] BY LenProperties, ElementOfSeq
<1>2. \A k \in 1 .. l : \A x \in D :
        /\ step[<<k, x>>] = AddedAt(x, start + k - 1, F, deltas[k])
        /\ AddedAt(x, start + k - 1, F, deltas[k]) \in D
  <2> TAKE k \in 1 .. l
  <2> TAKE x \in D
  <2>1. <<k, x>> \in (1 .. l) \X D OBVIOUS
  <2>2. AddedAt(x, start + k - 1, F, deltas[k]) \in D
    <3> DEFINE m == n * Len(F)
               y == start + k - 1
               d == deltas[k]
    <3>1. x \in [1 .. m -> Int] /\ y \in Int /\ d \in [S -> Int] BY <1>1
    <3> HIDE DEF m, y, d
    <3>2. AddedAt(x, y, F, d) \in [1 .. m -> Int] BY <3>1, AddedTyped
    <3> QED BY <3>2 DEF m, y, d
  <2> QED BY <2>1, <2>2
<1> HIDE DEF step, after, D
<1>3. PICK g \in [0 .. l -> D] : StepsBy(g, l, b, step)
  <2>1. b \in D BY DEF D, Held
  <2>2. \A k \in 1 .. l : \A x \in D : step[<<k, x>>] \in D BY <1>2
  <2> DEFINE m == l
  <2>3. m \in Nat /\ \A k \in 1 .. m : \A x \in D : step[<<k, x>>] \in D BY <1>1, <2>2
  <2> HIDE DEF m
  <2>4. \E g \in [0 .. m -> D] : StepsBy(g, m, b, step) BY <2>1, <2>3, Recursion
  <2> QED BY <2>4 DEF m
<1>4. \A k \in 1 .. l : g[k] = AddedAt(g[k - 1], start + k - 1, F, deltas[k])
  <2> TAKE k \in 1 .. l
  <2>0. k - 1 \in 0 .. l BY <1>1
  <2>1. g[k - 1] \in D BY <2>0
  <2>2. g[k] = step[<<k, g[k - 1]>>] BY <1>3 DEF StepsBy
  <2> QED BY <1>2, <2>1, <2>2
<1>5. after = [k \in 0 .. Len(deltas) |->
                 IF k = 0 THEN b ELSE AddedAt(after[k - 1], start + k - 1, F, deltas[k])]
  <2>1. g = [k \in 0 .. Len(deltas) |->
               IF k = 0 THEN b ELSE AddedAt(g[k - 1], start + k - 1, F, deltas[k])]
    BY <1>1, <1>3, <1>4 DEF StepsBy
  <2> QED BY <2>1 DEF after
<1>6. Runs(after, b, start, F, deltas)
  <2>1. DOMAIN after = 0 .. Len(deltas) BY <1>5
  <2>2. after[0] = b BY <1>1, <1>5
  <2>3. \A k \in 1 .. Len(deltas) : after[k] = AddedAt(after[k - 1], start + k - 1, F, deltas[k])
    <3> TAKE k \in 1 .. Len(deltas)
    <3>1. k \in 0 .. Len(deltas) /\ k # 0 BY <1>1
    <3> QED BY <1>5, <3>1
  <2> QED BY <2>1, <2>2, <2>3 DEF Runs
<1>7. Accumulated(b, start, F, deltas) = after[l] BY DEF Accumulated, after
<1>8. \A k \in 0 .. Len(deltas) : Held(after[k], n, After(T, start, deltas, k), F, S)
  BY <1>6, RunsHeld
<1>9. l \in 0 .. Len(deltas) BY <1>1
<1> QED BY <1>7, <1>8, <1>9

-----------------------------------------------------------------------------
(* Each record its own *)

SynapseParts == {"count", "posAct", "negAct", "pos", "neg", "posAdj", "negAdj"}
NeuronParts == {"count", "bias", "adjusted"}

LEMMA Layouts ==
  /\ Laid(SynapseFields, SynapseParts) /\ Len(SynapseFields) = 7
  /\ SynapseZero \in [SynapseParts -> Int] /\ SynapseZero = [f \in SynapseParts |-> 0]
  /\ Laid(NeuronFields, NeuronParts) /\ Len(NeuronFields) = 3
  /\ NeuronZero \in [NeuronParts -> Int] /\ NeuronZero = [f \in NeuronParts |-> 0]
<1>1. /\ Len(SynapseFields) = 7 /\ SynapseFields \in [1 .. 7 -> SynapseParts]
      /\ \A i, j \in 1 .. 7 : SynapseFields[i] = SynapseFields[j] => i = j
      /\ \A f \in SynapseParts : \E i \in 1 .. 7 : SynapseFields[i] = f
  BY DEF SynapseFields, SynapseParts
<1>2. /\ Len(NeuronFields) = 3 /\ NeuronFields \in [1 .. 3 -> NeuronParts]
      /\ \A i, j \in 1 .. 3 : NeuronFields[i] = NeuronFields[j] => i = j
      /\ \A f \in NeuronParts : \E i \in 1 .. 3 : NeuronFields[i] = f
  BY DEF NeuronFields, NeuronParts
<1>3. SynapseZero \in [SynapseParts -> Int] /\ \A f \in SynapseParts : SynapseZero[f] = 0
  BY DEF SynapseZero, SynapseParts
<1>4. NeuronZero \in [NeuronParts -> Int] /\ \A f \in NeuronParts : NeuronZero[f] = 0
  BY DEF NeuronZero, NeuronParts
<1>5. "count" \in SynapseParts /\ "count" \in NeuronParts BY DEF SynapseParts, NeuronParts
<1>6. SynapseZero = [f \in SynapseParts |-> 0] /\ NeuronZero = [f \in NeuronParts |-> 0] BY <1>3, <1>4
<1> QED BY <1>1, <1>2, <1>3, <1>4, <1>5, <1>6 DEF Laid

LEMMA LiftedIsInt == \A v \in Int : Lifted(v) \in Int
<1>1. \A v \in Int : Sign(v) \in {-1, 0, 1} BY DEF Sign
<1>2. \A s \in {-1, 0, 1} : Plank * s \in Int OBVIOUS
<1> QED BY <1>1, <1>2 DEF Lifted

LEMMA WeightDeltaTyped ==
  ASSUME NEW c \in Int, NEW t \in Int, NEW a \in Int
  PROVE  /\ WeightDelta(c, t, a) \in [SynapseParts -> Int]
         /\ WeightDelta(c, t, a).count = 0 => \A f \in SynapseParts : WeightDelta(c, t, a)[f] = 0
<1> DEFINE t2 == Lifted(t)
<1>1. t2 \in Int BY LiftedIsInt
<1> HIDE DEF t2
<1> DEFINE up == [SynapseZero EXCEPT !.count = 1, !.posAct = a, !.pos = 1, !.posAdj = t2]
           down == [SynapseZero EXCEPT !.count = 1, !.negAct = -a, !.neg = 1, !.negAdj = t2]
           still == [SynapseZero EXCEPT !.count = 1]
<1>2. SynapseZero \in [SynapseParts -> Int] /\ \A f \in SynapseParts : SynapseZero[f] = 0 BY Layouts
<1>3. /\ "count" \in SynapseParts /\ "posAct" \in SynapseParts /\ "negAct" \in SynapseParts
      /\ "pos" \in SynapseParts /\ "neg" \in SynapseParts
      /\ "posAdj" \in SynapseParts /\ "negAdj" \in SynapseParts
      /\ "count" \notin {"posAct", "negAct", "pos", "neg", "posAdj", "negAdj"}
  BY DEF SynapseParts
<1>5. WeightDelta(c, t, a) \in {SynapseZero, up, down, still} BY DEF WeightDelta, t2
<1>6. up \in [SynapseParts -> Int] /\ up.count = 1
  <2> DEFINE one == [SynapseZero EXCEPT !.count = 1]
             two == [one EXCEPT !.posAct = a]
             three == [two EXCEPT !.pos = 1]
             four == [three EXCEPT !.posAdj = t2]
  <2>1. up = four OBVIOUS
  <2>2. one \in [SynapseParts -> Int] /\ one.count = 1 BY <1>2, <1>3
  <2> HIDE DEF one
  <2>3. two \in [SynapseParts -> Int] /\ two.count = 1 BY <1>3, <2>2
  <2> HIDE DEF two
  <2>4. three \in [SynapseParts -> Int] /\ three.count = 1 BY <1>3, <2>3
  <2> HIDE DEF three
  <2>5. four \in [SynapseParts -> Int] /\ four.count = 1 BY <1>1, <1>3, <2>4
  <2> QED BY <2>1, <2>5
<1>7. down \in [SynapseParts -> Int] /\ down.count = 1
  <2> DEFINE one == [SynapseZero EXCEPT !.count = 1]
             two == [one EXCEPT !.negAct = -a]
             three == [two EXCEPT !.neg = 1]
             four == [three EXCEPT !.negAdj = t2]
  <2>1. down = four OBVIOUS
  <2>2. one \in [SynapseParts -> Int] /\ one.count = 1 BY <1>2, <1>3
  <2> HIDE DEF one
  <2>3. two \in [SynapseParts -> Int] /\ two.count = 1 BY <1>3, <2>2
  <2> HIDE DEF two
  <2>4. three \in [SynapseParts -> Int] /\ three.count = 1 BY <1>3, <2>3
  <2> HIDE DEF three
  <2>5. four \in [SynapseParts -> Int] /\ four.count = 1 BY <1>1, <1>3, <2>4
  <2> QED BY <2>1, <2>5
<1>8. still \in [SynapseParts -> Int] /\ still.count = 1 BY <1>2, <1>3
<1> HIDE DEF up, down, still
<1> QED BY <1>2, <1>5, <1>6, <1>7, <1>8

LEMMA BiasDeltaTyped ==
  ASSUME NEW t \in Int, NEW p \in Int, NEW c \in Int
  PROVE  /\ BiasDelta(t, p, c) \in [NeuronParts -> Int]
         /\ BiasDelta(t, p, c).count = 0 => \A f \in NeuronParts : BiasDelta(t, p, c)[f] = 0
<1> DEFINE x == c + t - p
           told == [count |-> 1, bias |-> x, adjusted |-> x]
<1>1. BiasDelta(t, p, c) \in {NeuronZero, told} BY DEF BiasDelta
<1>2. x \in Int OBVIOUS
<1> HIDE DEF x
<1>3. told \in [NeuronParts -> Int] /\ told.count = 1 BY <1>2 DEF NeuronParts
<1>4. NeuronZero \in [NeuronParts -> Int] /\ \A f \in NeuronParts : NeuronZero[f] = 0 BY Layouts
<1> HIDE DEF told
<1> QED BY <1>1, <1>3, <1>4

\* The delta each item makes.
SynapseDelta == [i \in SynapseItems |-> WeightDelta(i.current, i.target, i.act)]
NeuronDelta == [i \in NeuronItems |-> BiasDelta(i.target, i.pre, i.current)]

\* The deltas of a call.
Made(items, D) == [k \in DOMAIN items |-> D[items[k]]]

\* D makes deltas of items of I, and one of no count adds nothing.
Makes(D, I, S) ==
  D \in [I -> [S -> Int]] /\ \A i \in I : D[i].count = 0 => \A f \in S : D[i][f] = 0

LEMMA DeltasMade ==
  /\ Makes(SynapseDelta, SynapseItems, SynapseParts)
  /\ \A items \in Seq(SynapseItems) : SynapseDeltas(items) = Made(items, SynapseDelta)
  /\ Makes(NeuronDelta, NeuronItems, NeuronParts)
  /\ \A items \in Seq(NeuronItems) : NeuronDeltas(items) = Made(items, NeuronDelta)
<1>1. ASSUME NEW i \in SynapseItems
      PROVE  /\ SynapseDelta[i] \in [SynapseParts -> Int]
             /\ SynapseDelta[i].count = 0 => \A f \in SynapseParts : SynapseDelta[i][f] = 0
  <2> DEFINE c == i.current
             t == i.target
             a == i.act
  <2>1. c \in Int /\ t \in Int /\ a \in Int BY TrainingStateAssumption
  <2>2. SynapseDelta[i] = WeightDelta(c, t, a) BY DEF SynapseDelta
  <2> HIDE DEF c, t, a
  <2> QED BY <2>1, <2>2, WeightDeltaTyped
<1>2. ASSUME NEW i \in NeuronItems
      PROVE  /\ NeuronDelta[i] \in [NeuronParts -> Int]
             /\ NeuronDelta[i].count = 0 => \A f \in NeuronParts : NeuronDelta[i][f] = 0
  <2> DEFINE c == i.current
             t == i.target
             p == i.pre
  <2>1. c \in Int /\ t \in Int /\ p \in Int BY TrainingStateAssumption
  <2>2. NeuronDelta[i] = BiasDelta(t, p, c) BY DEF NeuronDelta
  <2> HIDE DEF c, t, p
  <2> QED BY <2>1, <2>2, BiasDeltaTyped
<1>3. ASSUME NEW items \in Seq(SynapseItems) PROVE SynapseDeltas(items) = Made(items, SynapseDelta)
  <2>1. \A k \in DOMAIN items : items[k] \in SynapseItems BY LenProperties, ElementOfSeq
  <2> QED BY <2>1 DEF SynapseDeltas, Made, SynapseDelta
<1>4. ASSUME NEW items \in Seq(NeuronItems) PROVE NeuronDeltas(items) = Made(items, NeuronDelta)
  <2>1. \A k \in DOMAIN items : items[k] \in NeuronItems BY LenProperties, ElementOfSeq
  <2> QED BY <2>1 DEF NeuronDeltas, Made, NeuronDelta
<1>5. Makes(SynapseDelta, SynapseItems, SynapseParts)
  <2>1. DOMAIN SynapseDelta = SynapseItems /\ SynapseDelta = [i \in SynapseItems |-> SynapseDelta[i]]
    BY DEF SynapseDelta
  <2> QED BY <1>1, <2>1 DEF Makes
<1>6. Makes(NeuronDelta, NeuronItems, NeuronParts)
  <2>1. DOMAIN NeuronDelta = NeuronItems /\ NeuronDelta = [i \in NeuronItems |-> NeuronDelta[i]]
    BY DEF NeuronDelta
  <2> QED BY <1>2, <2>1 DEF Makes
<1> QED BY <1>3, <1>4, <1>5, <1>6

LEMMA MadeTyped ==
  ASSUME NEW D, NEW I, NEW S, Makes(D, I, S), NEW items \in Seq(I)
  PROVE  /\ Made(items, D) \in Seq([S -> Int]) /\ Len(Made(items, D)) = Len(items)
         /\ Silent(Made(items, D), S)
         /\ \A k \in 1 .. Len(items) : Made(items, D)[k] = D[items[k]] /\ D[items[k]] \in [S -> Int]
<1> DEFINE l == Len(items)
           ds == Made(items, D)
<1>1. l \in Nat /\ DOMAIN items = 1 .. l /\ \A k \in 1 .. l : items[k] \in I
  BY LenProperties, ElementOfSeq
<1>2. \A k \in 1 .. l : D[items[k]] \in [S -> Int] BY <1>1 DEF Makes
<1>3. ds \in [1 .. l -> [S -> Int]] /\ \A k \in 1 .. l : ds[k] = D[items[k]]
  BY <1>1, <1>2 DEF Made
<1> HIDE DEF ds, l
<1>4. ds \in Seq([S -> Int]) /\ Len(ds) = l BY <1>1, <1>3, MadeSeq
<1>5. Silent(ds, S) BY <1>1, <1>3, <1>4 DEF Silent, Makes
<1> QED BY <1>2, <1>3, <1>4, <1>5 DEF ds, l

LEMMA MadeMore ==
  ASSUME NEW D, NEW I, NEW S, Makes(D, I, S), NEW items \in Seq(I), NEW i \in I
  PROVE  Made(Append(items, i), D) = Longer(Made(items, D), D[i])
<1> DEFINE l == Len(items)
           more == Append(items, i)
           ds == Made(items, D)
<1>1. l \in Nat /\ DOMAIN items = 1 .. l BY LenProperties
<1>2. /\ DOMAIN more = 1 .. l + 1 /\ more[l + 1] = i
      /\ \A k \in 1 .. l : more[k] = items[k]
  BY <1>1
<1>3. ds \in Seq([S -> Int]) /\ Len(ds) = l /\ \A k \in 1 .. l : ds[k] = D[items[k]]
  <2>1. /\ Made(items, D) \in Seq([S -> Int]) /\ Len(Made(items, D)) = Len(items)
        /\ \A k \in 1 .. Len(items) : Made(items, D)[k] = D[items[k]] /\ D[items[k]] \in [S -> Int]
    BY MadeTyped
  <2> QED BY <2>1
<1>4. D[i] \in [S -> Int] BY DEF Makes
<1>5. Append(ds, D[i]) = [k \in 1 .. l + 1 |-> IF k = l + 1 THEN D[i] ELSE ds[k]]
  <2> HIDE DEF ds
  <2> QED BY <1>1, <1>3, <1>4
<1>6. Made(more, D) = [k \in 1 .. l + 1 |-> D[more[k]]] BY <1>2 DEF Made
<1>7. \A k \in 1 .. l + 1 : D[more[k]] = IF k = l + 1 THEN D[i] ELSE ds[k]
  <2> HIDE DEF ds, more
  <2> QED BY <1>1, <1>2, <1>3
<1> HIDE DEF ds, more, l
<1>8. Made(more, D) = Append(ds, D[i]) BY <1>5, <1>6, <1>7
<1> QED BY <1>8 DEF more, ds, Longer

\* The totals of what each record heard.
TotalsOf(heard, zero, D) == [x \in DOMAIN heard |-> TotalOf(zero, Made(heard[x], D))]

\* b is what its records heard.
Kept(b, heard, F, S, D, I) ==
  \E n : /\ heard \in [0 .. n - 1 -> Seq(I)]
         /\ Held(b, n, TotalsOf(heard, [f \in S |-> 0], D), F, S)

LEMMA KeptZeroed ==
  ASSUME NEW F, NEW S, Laid(F, S), NEW D, NEW I, Makes(D, I, S), NEW n \in Nat, n * Len(F) < Word
  PROVE  Kept(Zeroes(n * Len(F)), NoneHeard(n), F, S, D, I)
<1> DEFINE zero == [f \in S |-> 0]
           T == TotalsOf(NoneHeard(n), zero, D)
           b == Zeroes(n * Len(F))
           m == n * Len(F)
<1>1. NoneHeard(n) \in [0 .. n - 1 -> Seq(I)] BY DEF NoneHeard
<1>2. T = [x \in 0 .. n - 1 |-> zero]
  <2>1. zero \in [S -> Int] OBVIOUS
  <2> HIDE DEF zero
  <2>3. TotalOf(zero, <<>>) = zero BY <2>1, TotalOfNone
  <2>2. Made(<<>>, D) = <<>> BY DEF Made
  <2>5. \A x \in 0 .. n - 1 : NoneHeard(n)[x] = <<>> BY DEF NoneHeard
  <2>6. DOMAIN NoneHeard(n) = 0 .. n - 1 BY DEF NoneHeard
  <2> QED BY <2>2, <2>3, <2>5, <2>6 DEF TotalsOf
<1>3. Len(F) \in {3, 7} /\ \A i \in 1 .. Len(F) : F[i] \in S BY DEF Laid
<1>4. m \in Nat /\ Word \in Nat BY <1>3, TrainingStateAssumption
<1>5. b \in [1 .. m -> Int] /\ \A p \in 1 .. m : b[p] = 0 BY DEF Zeroes
<1>6. T \in [0 .. n - 1 -> [S -> Int]] /\ \A x \in 0 .. n - 1 : \A f \in S : T[x][f] = 0
  <2> HIDE DEF T
  <2> QED BY <1>2
<1>7. \A x \in 0 .. n - 1 : \A i \in 1 .. Len(F) : b[x * Len(F) + i] = T[x][F[i]]
  <2> TAKE x \in 0 .. n - 1
  <2> TAKE i \in 1 .. Len(F)
  <2>1. x \in Nat /\ x < n OBVIOUS
  <2>2. x * Len(F) + i \in 1 .. n * Len(F)
    <3>1. \A y \in Nat : \A j \in 1 .. Len(F) : y < n => y * Len(F) + j \in 1 .. n * Len(F)
      BY <1>3, <1>4, Places
    <3> QED BY <2>1, <3>1
  <2> HIDE DEF b, T
  <2> QED BY <1>3, <1>5, <1>6, <2>2
<1> HIDE DEF b, T
<1>8. Held(b, n, T, F, S) BY <1>5, <1>6, <1>7 DEF Held
<1> QED BY <1>1, <1>8 DEF Kept, b, T

LEMMA KeptNone ==
  ASSUME NEW F, NEW S, Laid(F, S), NEW D, NEW I, Makes(D, I, S)
  PROVE  Kept(<<>>, <<>>, F, S, D, I)
<1> DEFINE n == 0
<1>1. Len(F) \in {3, 7} BY DEF Laid
<1>2. n \in Nat /\ n * Len(F) = 0 /\ n * Len(F) < Word BY <1>1, TrainingStateAssumption
<1>3. Zeroes(0) = <<>> /\ NoneHeard(n) = <<>> BY DEF Zeroes, NoneHeard
<1> HIDE DEF n
<1>4. Kept(Zeroes(n * Len(F)), NoneHeard(n), F, S, D, I) BY <1>2, KeptZeroed
<1> QED BY <1>2, <1>3, <1>4

LEMMA KeptReset ==
  ASSUME NEW F, NEW S, Laid(F, S), NEW D, NEW I, Makes(D, I, S),
         NEW b, NEW heard, Kept(b, heard, F, S, D, I)
  PROVE  Kept(Zeroes(Len(b)), [x \in DOMAIN heard |-> <<>>], F, S, D, I)
<1>1. PICK n : heard \in [0 .. n - 1 -> Seq(I)] /\ Held(b, n, TotalsOf(heard, [f \in S |-> 0], D), F, S)
  BY DEF Kept
<1>2. n \in Nat /\ n * Len(F) < Word /\ b \in [1 .. n * Len(F) -> Int] BY <1>1 DEF Held
<1>3. Len(b) = n * Len(F)
  <2> DEFINE m == n * Len(F)
  <2>1. m \in Nat BY <1>2 DEF Laid
  <2>2. b \in [1 .. m -> Int] BY <1>2
  <2> HIDE DEF m
  <2>3. Len(b) = m BY <2>1, <2>2, MadeSeq
  <2> QED BY <2>3 DEF m
<1>4. [x \in DOMAIN heard |-> <<>>] = NoneHeard(n) BY <1>1 DEF NoneHeard
<1> QED BY <1>2, <1>3, <1>4, KeptZeroed

LEMMA KeptMore ==
  ASSUME NEW F, NEW S, Laid(F, S), NEW D, NEW I, Makes(D, I, S),
         NEW b, NEW heard, Kept(b, heard, F, S, D, I),
         NEW start \in Nat, NEW items \in Seq(I)
  PROVE  Kept(Accumulated(b, start, F, Made(items, D)), Heard(heard, start, items), F, S, D, I)
<1> DEFINE zero == [f \in S |-> 0]
           T == TotalsOf(heard, zero, D)
           more == Heard(heard, start, items)
           T2 == TotalsOf(more, zero, D)
           ds == Made(items, D)
<1>1. PICK n : heard \in [0 .. n - 1 -> Seq(I)] /\ Held(b, n, T, F, S)
  BY DEF Kept
<1>2. n \in Nat BY <1>1 DEF Held
<1>3. zero \in [S -> Int] OBVIOUS
<1>4. ds \in Seq([S -> Int]) /\ Len(ds) = Len(items) /\ Silent(ds, S)
      /\ \A k \in 1 .. Len(items) : ds[k] = D[items[k]] /\ D[items[k]] \in [S -> Int]
  BY MadeTyped
<1>5. Len(items) \in Nat /\ DOMAIN items = 1 .. Len(items) /\ \A k \in DOMAIN items : items[k] \in I
  BY LenProperties, ElementOfSeq
<1>6. DOMAIN more = 0 .. n - 1 /\ DOMAIN heard = 0 .. n - 1 BY <1>1 DEF Heard
<1> HIDE DEF zero, ds
<1>7. ASSUME NEW x \in 0 .. n - 1
      PROVE  /\ more[x] \in Seq(I)
             /\ TotalOf(zero, Made(more[x], D)) =
                  IF x - start + 1 \in 1 .. Len(ds) THEN Plus(T[x], ds[x - start + 1]) ELSE T[x]
  <2> DEFINE k == x - start + 1
             h == heard[x]
  <2>1. h \in Seq(I) BY <1>1
  <2>2. T[x] = TotalOf(zero, Made(h, D)) BY <1>6 DEF TotalsOf
  <2>3. more[x] = IF k \in DOMAIN items THEN Append(h, items[k]) ELSE h BY <1>6 DEF Heard
  <2> HIDE DEF T, more, k, h
  <2>4. CASE k \in DOMAIN items
    <3>1. items[k] \in I BY <1>5, <2>4
    <3>2. more[x] \in Seq(I) BY <2>1, <2>3, <2>4, <3>1
    <3>3. Made(more[x], D) = Longer(Made(h, D), D[items[k]]) BY <2>1, <2>3, <2>4, <3>1, MadeMore
    <3>4. Made(h, D) \in Seq([S -> Int]) BY <2>1, MadeTyped
    <3>5. D[items[k]] \in [S -> Int] /\ ds[k] = D[items[k]] /\ k \in 1 .. Len(ds)
      BY <1>4, <1>5, <2>4
    <3>6. TotalOf(zero, Made(more[x], D)) = Plus(TotalOf(zero, Made(h, D)), D[items[k]])
      <4> DEFINE d == D[items[k]]
                 was == Made(h, D)
      <4>1. d \in [S -> Int] /\ was \in Seq([S -> Int]) BY <3>4, <3>5
      <4> HIDE DEF d, was
      <4>2. /\ TotalOf(zero, was) \in [S -> Int]
            /\ TotalOf(zero, Longer(was, d)) = Plus(TotalOf(zero, was), d)
        <5> DEFINE X == [S -> Int]
        <5>1. \A z \in X : \A old \in Seq(X) : \A e \in X :
                /\ TotalOf(z, old) \in X
                /\ TotalOf(z, Longer(old, e)) = Plus(TotalOf(z, old), e)
          BY TotalOfMore
        <5>2. zero \in X /\ was \in Seq(X) /\ d \in X BY <1>3, <4>1
        <5> HIDE DEF X
        <5>3. /\ TotalOf(zero, was) \in X
              /\ TotalOf(zero, Longer(was, d)) = Plus(TotalOf(zero, was), d)
          BY <5>1, <5>2
        <5> QED BY <5>3 DEF X
      <4> QED BY <3>3, <4>2 DEF d, was
    <3> QED BY <2>2, <3>2, <3>5, <3>6 DEF k
  <2>5. CASE k \notin DOMAIN items
    <3>1. more[x] = h /\ k \notin 1 .. Len(ds) BY <1>4, <1>5, <2>3, <2>5
    <3> QED BY <2>1, <2>2, <3>1 DEF k
  <2> QED BY <2>4, <2>5
<1>8. more \in [0 .. n - 1 -> Seq(I)]
  <2>1. more = [x \in 0 .. n - 1 |-> more[x]] BY <1>6 DEF Heard
  <2> HIDE DEF more
  <2> QED BY <1>7, <2>1
<1>9. T2 = After(T, start, ds, Len(ds))
  <2>1. DOMAIN T = 0 .. n - 1 BY <1>6 DEF TotalsOf
  <2>2. T2 = [x \in 0 .. n - 1 |-> TotalOf(zero, Made(more[x], D))] BY <1>6 DEF TotalsOf
  <2> HIDE DEF T, T2, more
  <2> QED BY <1>7, <2>1, <2>2 DEF After
<1>10. Held(Accumulated(b, start, F, ds), n, After(T, start, ds, Len(ds)), F, S)
  <2> HIDE DEF T
  <2> QED BY <1>1, <1>4, AccumulatedHeld
<1> HIDE DEF more, T, T2
<1>11. Held(Accumulated(b, start, F, ds), n, T2, F, S) BY <1>9, <1>10
<1> QED BY <1>8, <1>11 DEF Kept, T2, more, ds, zero

LEMMA KeptRead ==
  ASSUME NEW F, NEW S, Laid(F, S), NEW D, NEW I, Makes(D, I, S),
         NEW b, NEW heard, Kept(b, heard, F, S, D, I), NEW x \in Nat \cup DOMAIN heard
  PROVE  /\ DOMAIN heard \subseteq Nat
         /\ x \in DOMAIN heard => heard[x] \in Seq(I)
         /\ ReadRecord(b, x, F) =
              IF x \in DOMAIN heard THEN TotalOf([f \in S |-> 0], Made(heard[x], D)) ELSE [f \in S |-> 0]
<1> DEFINE zero == [f \in S |-> 0]
           T == TotalsOf(heard, zero, D)
<1>1. PICK n : heard \in [0 .. n - 1 -> Seq(I)] /\ Held(b, n, T, F, S) BY DEF Kept
<1>2. n \in Nat /\ DOMAIN heard = 0 .. n - 1 BY <1>1 DEF Held
<1>3. x \in Nat BY <1>2
<1>4. x \in DOMAIN heard => T[x] = TotalOf(zero, Made(heard[x], D)) BY DEF TotalsOf
<1> HIDE DEF T
<1>5. ReadRecord(b, x, F) = IF x \in 0 .. n - 1 THEN T[x] ELSE [f \in S |-> 0]
  BY <1>1, <1>3, ReadHeld
<1>6. DOMAIN heard \subseteq Nat BY <1>2
<1>7. x \in DOMAIN heard => heard[x] \in Seq(I) BY <1>1, <1>2
<1> QED BY <1>2, <1>4, <1>5, <1>6, <1>7

SynapsesKept == Kept(synapses, heardS, SynapseFields, SynapseParts, SynapseDelta, SynapseItems)
NeuronsKept == Kept(neurons, heardN, NeuronFields, NeuronParts, NeuronDelta, NeuronItems)

\* The buffers are what their records heard.
BuffersInv == SynapsesKept /\ NeuronsKept

LEMMA BuffersZeroed ==
  ASSUME NEW ns \in Nat, NEW nn \in Nat
  PROVE  /\ Fits(ns, 7) => Kept(Zeroes(ns * 7), NoneHeard(ns), SynapseFields, SynapseParts, SynapseDelta, SynapseItems)
         /\ Fits(nn, 3) => Kept(Zeroes(nn * 3), NoneHeard(nn), NeuronFields, NeuronParts, NeuronDelta, NeuronItems)
<1>1. ASSUME Fits(ns, 7)
      PROVE Kept(Zeroes(ns * 7), NoneHeard(ns), SynapseFields, SynapseParts, SynapseDelta, SynapseItems)
  <2>1. ns * Len(SynapseFields) < Word BY <1>1, Layouts DEF Fits
  <2>2. Kept(Zeroes(ns * Len(SynapseFields)), NoneHeard(ns), SynapseFields, SynapseParts, SynapseDelta, SynapseItems)
    BY <2>1, Layouts, DeltasMade, KeptZeroed
  <2> QED BY <2>2, Layouts
<1>2. ASSUME Fits(nn, 3)
      PROVE Kept(Zeroes(nn * 3), NoneHeard(nn), NeuronFields, NeuronParts, NeuronDelta, NeuronItems)
  <2>1. nn * Len(NeuronFields) < Word BY <1>2, Layouts DEF Fits
  <2>2. Kept(Zeroes(nn * Len(NeuronFields)), NoneHeard(nn), NeuronFields, NeuronParts, NeuronDelta, NeuronItems)
    BY <2>1, Layouts, DeltasMade, KeptZeroed
  <2> QED BY <2>2, Layouts
<1> QED BY <1>1, <1>2

LEMMA BuffersStep ==
  ASSUME BuffersInv, [Next]_vars PROVE BuffersInv'
<1>0. /\ Laid(SynapseFields, SynapseParts) /\ Makes(SynapseDelta, SynapseItems, SynapseParts)
      /\ Laid(NeuronFields, NeuronParts) /\ Makes(NeuronDelta, NeuronItems, NeuronParts)
  BY Layouts, DeltasMade
<1>1. CASE UNCHANGED tvars BY <1>1 DEF BuffersInv, SynapsesKept, NeuronsKept, tvars
<1>2. ASSUME NEW ns \in Sizes, NEW nn \in Sizes, InitState(ns, nn) PROVE BuffersInv'
  <2>1. ns \in Nat /\ nn \in Nat BY TrainingStateAssumption
  <2>2. SynapsesKept'
    <3>1. CASE Fits(ns, 7)
      <4>1. synapses' = Zeroes(ns * 7) /\ heardS' = NoneHeard(ns) BY <1>2, <3>1 DEF InitState
      <4> QED BY <2>1, <3>1, <4>1, BuffersZeroed DEF SynapsesKept
    <3>2. CASE ~Fits(ns, 7)
      <4>1. UNCHANGED <<synapses, heardS>> BY <1>2, <3>2 DEF InitState
      <4> QED BY <4>1 DEF BuffersInv, SynapsesKept
    <3> QED BY <3>1, <3>2
  <2>3. NeuronsKept'
    <3>1. CASE Fits(ns, 7) /\ Fits(nn, 3)
      <4>1. neurons' = Zeroes(nn * 3) /\ heardN' = NoneHeard(nn) BY <1>2, <3>1 DEF InitState
      <4> QED BY <2>1, <3>1, <4>1, BuffersZeroed DEF NeuronsKept
    <3>2. CASE ~(Fits(ns, 7) /\ Fits(nn, 3))
      <4>1. UNCHANGED <<neurons, heardN>> BY <1>2, <3>2 DEF InitState
      <4> QED BY <4>1 DEF BuffersInv, NeuronsKept
    <3> QED BY <3>1, <3>2
  <2> QED BY <2>2, <2>3 DEF BuffersInv
<1>3. CASE ResetState
  <2>1. Kept(Zeroes(Len(synapses)), [x \in DOMAIN heardS |-> <<>>],
             SynapseFields, SynapseParts, SynapseDelta, SynapseItems)
    BY <1>0, KeptReset DEF BuffersInv, SynapsesKept
  <2>2. Kept(Zeroes(Len(neurons)), [x \in DOMAIN heardN |-> <<>>],
             NeuronFields, NeuronParts, NeuronDelta, NeuronItems)
    BY <1>0, KeptReset DEF BuffersInv, NeuronsKept
  <2> QED BY <1>3, <2>1, <2>2 DEF ResetState, BuffersInv, SynapsesKept, NeuronsKept
<1>4. CASE FreeState
  <2>1. /\ Kept(<<>>, <<>>, SynapseFields, SynapseParts, SynapseDelta, SynapseItems)
        /\ Kept(<<>>, <<>>, NeuronFields, NeuronParts, NeuronDelta, NeuronItems)
    BY <1>0, KeptNone
  <2> QED BY <1>4, <2>1 DEF FreeState, BuffersInv, SynapsesKept, NeuronsKept
<1>5. ASSUME NEW start \in Nat, NEW items \in Seq(SynapseItems), AccumulateWeights(start, items)
      PROVE  BuffersInv'
  <2>1. SynapseDeltas(items) = Made(items, SynapseDelta) BY DeltasMade
  <2>2. Kept(Accumulated(synapses, start, SynapseFields, Made(items, SynapseDelta)), Heard(heardS, start, items),
             SynapseFields, SynapseParts, SynapseDelta, SynapseItems)
    BY <1>0, KeptMore DEF BuffersInv, SynapsesKept
  <2>3. /\ synapses' = Accumulated(synapses, start, SynapseFields, SynapseDeltas(items))
        /\ heardS' = Heard(heardS, start, items) /\ UNCHANGED <<neurons, heardN>>
    BY <1>5 DEF AccumulateWeights
  <2> QED BY <2>1, <2>2, <2>3 DEF BuffersInv, SynapsesKept, NeuronsKept
<1>6. ASSUME NEW start \in Nat, NEW items \in Seq(NeuronItems), AccumulateBiases(start, items)
      PROVE  BuffersInv'
  <2>1. NeuronDeltas(items) = Made(items, NeuronDelta) BY DeltasMade
  <2>2. Kept(Accumulated(neurons, start, NeuronFields, Made(items, NeuronDelta)), Heard(heardN, start, items),
             NeuronFields, NeuronParts, NeuronDelta, NeuronItems)
    BY <1>0, KeptMore DEF BuffersInv, NeuronsKept
  <2>3. /\ neurons' = Accumulated(neurons, start, NeuronFields, NeuronDeltas(items))
        /\ heardN' = Heard(heardN, start, items) /\ UNCHANGED <<synapses, heardS>>
    BY <1>6 DEF AccumulateBiases
  <2> QED BY <2>1, <2>2, <2>3 DEF BuffersInv, SynapsesKept, NeuronsKept
<1>7. ASSUME NEW SItems, SItems \subseteq SynapseItems, NEW NItems, NItems \subseteq NeuronItems,
             TrainingNext(SItems, NItems)
      PROVE  BuffersInv'
  <2>1. \A I, J : \A items \in Slices(I) : I \subseteq J => items \in Seq(J)
    <3> SUFFICES ASSUME NEW I, NEW J, NEW items \in Slices(I), I \subseteq J PROVE items \in Seq(J)
      OBVIOUS
    <3>1. PICK n \in 1 .. Ways : items \in [1 .. n -> I] BY DEF Slices
    <3>2. n \in Nat /\ items \in [1 .. n -> J] BY <3>1, TrainingStateAssumption
    <3> QED BY <3>2, MadeSeq
  <2>2. Indices \subseteq Nat BY TrainingStateAssumption
  <2>3. CASE \E start \in Indices, items \in Slices(SItems) : AccumulateWeights(start, items)
    <3>1. PICK start \in Indices, items \in Slices(SItems) : AccumulateWeights(start, items) BY <2>3
    <3>2. start \in Nat /\ items \in Seq(SynapseItems) BY <1>7, <2>1, <2>2
    <3> QED BY <1>5, <3>1, <3>2
  <2>4. CASE \E start \in Indices, items \in Slices(NItems) : AccumulateBiases(start, items)
    <3>1. PICK start \in Indices, items \in Slices(NItems) : AccumulateBiases(start, items) BY <2>4
    <3>2. start \in Nat /\ items \in Seq(NeuronItems) BY <1>7, <2>1, <2>2
    <3> QED BY <1>6, <3>1, <3>2
  <2> QED BY <1>2, <1>3, <1>4, <1>7, <2>3, <2>4 DEF TrainingNext
<1>8. \/ UNCHANGED tvars \/ TrainingNext(SynapseItems, {}) \/ TrainingNext({}, NeuronItems)
  BY DEF Next, vars
<1>9. TrainingNext(SynapseItems, {}) => BuffersInv' BY <1>7
<1>10. TrainingNext({}, NeuronItems) => BuffersInv' BY <1>7
<1> QED BY <1>1, <1>8, <1>9, <1>10

LEMMA BuffersStart == Init => BuffersInv
<1> SUFFICES ASSUME Init PROVE BuffersInv OBVIOUS
<1>1. synapses = <<>> /\ neurons = <<>> /\ heardS = <<>> /\ heardN = <<>> BY DEF Init, TrainingInit
<1> QED BY <1>1, Layouts, DeltasMade, KeptNone DEF BuffersInv, SynapsesKept, NeuronsKept

\* A synapse reads as the total of what it heard.
LEMMA SynapseHeard ==
  ASSUME BuffersInv, NEW x \in Indices \cup DOMAIN heardS
  PROVE  /\ x \in DOMAIN heardS => heardS[x] \in Seq(SynapseItems)
         /\ ReadSynapse(x) = IF x \in DOMAIN heardS
                               THEN TotalOf(SynapseZero, SynapseDeltas(heardS[x])) ELSE SynapseZero
<1>1. x \in Nat \cup DOMAIN heardS BY TrainingStateAssumption
<1>2. /\ x \in DOMAIN heardS => heardS[x] \in Seq(SynapseItems)
      /\ ReadRecord(synapses, x, SynapseFields) =
           IF x \in DOMAIN heardS
             THEN TotalOf([f \in SynapseParts |-> 0], Made(heardS[x], SynapseDelta))
             ELSE [f \in SynapseParts |-> 0]
  BY <1>1, Layouts, DeltasMade, KeptRead DEF BuffersInv, SynapsesKept
<1>3. x \in DOMAIN heardS => SynapseDeltas(heardS[x]) = Made(heardS[x], SynapseDelta)
  BY <1>2, DeltasMade
<1> QED BY <1>2, <1>3, Layouts DEF ReadSynapse

\* A neuron reads as the total of what it heard.
LEMMA NeuronHeard ==
  ASSUME BuffersInv, NEW x \in Indices \cup DOMAIN heardN
  PROVE  /\ x \in DOMAIN heardN => heardN[x] \in Seq(NeuronItems)
         /\ ReadNeuron(x) = IF x \in DOMAIN heardN
                              THEN TotalOf(NeuronZero, NeuronDeltas(heardN[x])) ELSE NeuronZero
<1>1. x \in Nat \cup DOMAIN heardN BY TrainingStateAssumption
<1>2. /\ x \in DOMAIN heardN => heardN[x] \in Seq(NeuronItems)
      /\ ReadRecord(neurons, x, NeuronFields) =
           IF x \in DOMAIN heardN
             THEN TotalOf([f \in NeuronParts |-> 0], Made(heardN[x], NeuronDelta))
             ELSE [f \in NeuronParts |-> 0]
  BY <1>1, Layouts, DeltasMade, KeptRead DEF BuffersInv, NeuronsKept
<1>3. x \in DOMAIN heardN => NeuronDeltas(heardN[x]) = Made(heardN[x], NeuronDelta)
  BY <1>2, DeltasMade
<1> QED BY <1>2, <1>3, Layouts DEF ReadNeuron

\* Each record of the persistent accumulators holds what was reported of its own
\* synapse or neuron since it was zeroed, whatever indices, sizes and slices a
\* host sends and whatever a usize holds (training_state.rs).
THEOREM RecordsAreKept == Spec => []RecordsAreTheirOwn
<1>1. BuffersInv => RecordsAreTheirOwn BY SynapseHeard, NeuronHeard DEF RecordsAreTheirOwn
<1> QED BY <1>1, BuffersStart, BuffersStep, PTL DEF Spec

-----------------------------------------------------------------------------
(* What is learnt *)

\* A sequence of integers has a least and a greatest member.
LEMMA Extremes ==
  ASSUME NEW s \in Seq(Int), s # <<>>
  PROVE  \E i, j \in 1 .. Len(s) : \A k \in 1 .. Len(s) : s[i] <= s[k] /\ s[k] <= s[j]
<1> DEFINE n == Len(s)
           t == [k \in 1 .. n |-> -s[k]]
<1>1. n \in Nat /\ n # 0 /\ \A k \in 1 .. n : s[k] \in Int BY LenProperties, ElementOfSeq, EmptySeq
<1>2. t \in [1 .. n -> Int] BY <1>1
<1> HIDE DEF n
<1>3. t \in Seq(Int) /\ Len(t) = n BY <1>1, <1>2, MadeSeq
<1>4. t # <<>> BY <1>1, <1>3
<1>5. PICK j \in 1 .. n : \A k \in 1 .. n : s[k] <= s[j] BY LargestFound DEF n
<1> HIDE DEF t
<1>6. PICK i \in 1 .. n : \A k \in 1 .. n : t[k] <= t[i]
  <2>1. FirstLargest(t) \in 1 .. Len(t) /\ \A k \in 1 .. Len(t) : t[k] <= t[FirstLargest(t)]
    BY <1>3, <1>4, LargestFound
  <2> QED BY <1>3, <2>1
<1>7. \A k \in 1 .. n : s[i] <= s[k]
  <2> TAKE k \in 1 .. n
  <2>1. t[k] <= t[i] /\ t[k] = -s[k] /\ t[i] = -s[i] BY <1>6 DEF t
  <2>2. s[k] \in Int /\ s[i] \in Int BY <1>1
  <2> QED BY <2>1, <2>2
<1> QED BY <1>5, <1>7 DEF n

\* n values asked for, each between low and high: act and adj are the sums of
\* what they are the quotients of.
Side(n, act, adj, low, high) ==
  /\ n \in Nat /\ act \in Int /\ adj \in Int
  /\ n = 0 => act = 0 /\ adj = 0
  /\ n > 0 => act > Plank /\ low * act <= adj * One /\ adj * One < (high + 1) * act

LEMMA Multiples ==
  ASSUME NEW a \in Int, NEW b \in Int, NEW c \in Nat, a <= b
  PROVE  a * c <= b * c /\ a * c \in Int /\ b * c \in Int
OBVIOUS

LEMMA SideAdds ==
  ASSUME NEW n, NEW act, NEW adj, NEW low \in Int, NEW high \in Int, Side(n, act, adj, low, high),
         NEW a \in Int, a > Plank, NEW t \in Int, (t * One) \div a \in low .. high
  PROVE  Side(n + 1, act + a, adj + t, low, high)
<1> DEFINE q == (t * One) \div a
           x == t * One
           h == high + 1
<1>1. a \in Nat \ {0} /\ x \in Int /\ h \in Int OBVIOUS
<1>2. q \in Int /\ q * a <= x /\ x < (q + 1) * a BY <1>1, Quotient
<1>3. low <= q /\ q + 1 <= h BY <1>2
<1> HIDE DEF q, x, h
<1>4. low * a <= q * a /\ (q + 1) * a <= h * a /\ low * a \in Int /\ h * a \in Int /\ q * a \in Int
      /\ (q + 1) * a \in Int
  <2>1. low * a <= q * a /\ low * a \in Int /\ q * a \in Int BY <1>1, <1>2, <1>3, Multiples
  <2> DEFINE r == q + 1
  <2>2. r \in Int /\ r <= h BY <1>2, <1>3
  <2> HIDE DEF r
  <2>3. r * a <= h * a /\ r * a \in Int /\ h * a \in Int BY <1>1, <2>2, Multiples
  <2> QED BY <2>1, <2>3 DEF r
<1>5. low * a <= x /\ x < h * a BY <1>1, <1>2, <1>4
<1>6. n \in Nat /\ act \in Int /\ adj \in Int BY DEF Side
<1>7. /\ low * (act + a) = low * act + low * a /\ h * (act + a) = h * act + h * a
      /\ (adj + t) * One = adj * One + x
      /\ low * act \in Int /\ h * act \in Int /\ adj * One \in Int
  BY <1>1, <1>6 DEF x
<1>8. CASE n = 0
  <2>1. act = 0 /\ adj = 0 BY <1>8 DEF Side
  <2>2. act + a = a /\ adj + t = t /\ n + 1 = 1 BY <1>8, <2>1
  <2>3. a > Plank /\ low * a <= t * One /\ t * One < (high + 1) * a BY <1>5 DEF x, h
  <2> QED BY <2>2, <2>3 DEF Side
<1>9. CASE n # 0
  <2>1. act > Plank /\ low * act <= adj * One /\ adj * One < h * act BY <1>6, <1>9 DEF Side, h
  <2>2. act + a > Plank BY <1>6, <2>1
  <2>3. low * (act + a) <= (adj + t) * One
    <3> DEFINE u == low * act
               v == low * a
               w == adj * One
    <3>1. u \in Int /\ v \in Int /\ w \in Int /\ u <= w /\ v <= x /\ low * (act + a) = u + v
          /\ (adj + t) * One = w + x
      BY <1>4, <1>5, <1>7, <2>1
    <3> HIDE DEF u, v, w
    <3> QED BY <1>1, <3>1
  <2>4. (adj + t) * One < h * (act + a)
    <3> DEFINE u == h * act
               v == h * a
               w == adj * One
    <3>1. u \in Int /\ v \in Int /\ w \in Int /\ w < u /\ x < v /\ h * (act + a) = u + v
          /\ (adj + t) * One = w + x
      BY <1>4, <1>5, <1>7, <2>1
    <3> HIDE DEF u, v, w
    <3> QED BY <1>1, <3>1
  <2> QED BY <1>6, <2>2, <2>3, <2>4 DEF Side, h
<1> QED BY <1>8, <1>9

LEMMA SideQuotient ==
  ASSUME NEW n, NEW act, NEW adj, NEW low \in Int, NEW high \in Int, Side(n, act, adj, low, high), n > 0
  PROVE  (adj * One) \div act \in low .. high
<1> DEFINE x == adj * One
           q == x \div act
           h == high + 1
<1>1. act \in Nat \ {0} /\ x \in Int /\ low * act <= x /\ x < h * act /\ h \in Int BY DEF Side
<1>2. q \in Int /\ q * act <= x /\ x < (q + 1) * act BY <1>1, Quotient
<1> HIDE DEF q, x, h
<1>3. low < q + 1
  <2> DEFINE r == q + 1
  <2>1. r \in Int /\ x < r * act BY <1>2
  <2> HIDE DEF r
  <2> SUFFICES ASSUME ~(low < r) PROVE FALSE BY DEF r
  <2>2. r <= low BY <2>1
  <2>3. r * act <= low * act /\ r * act \in Int /\ low * act \in Int BY <1>1, <2>1, <2>2, Multiples
  <2> QED BY <1>1, <2>1, <2>3
<1>4. q < h
  <2> SUFFICES ASSUME ~(q < h) PROVE FALSE OBVIOUS
  <2>1. h <= q BY <1>1, <1>2
  <2>2. h * act <= q * act /\ h * act \in Int /\ q * act \in Int BY <1>1, <1>2, <2>1, Multiples
  <2> QED BY <1>1, <1>2, <2>2
<1>5. low <= q /\ q <= high BY <1>2, <1>3, <1>4 DEF h
<1> QED BY <1>2, <1>5 DEF q, x

\* A mean of weights in a range, each with its count, is in it.
LEMMA Blend ==
  ASSUME NEW low \in Int, NEW high \in Int, NEW p \in Int, NEW q \in Int, NEW c \in low .. high,
         NEW i \in Nat, NEW j \in Nat, NEW k \in Nat, i + j > 0,
         i > 0 => p \in low .. high, j > 0 => q \in low .. high
  PROVE  (p * i + q * j + c * k) \div (i + j + k) \in low .. high
<1>1. low * i <= p * i /\ p * i <= high * i /\ low * i \in Int /\ p * i \in Int /\ high * i \in Int
  <2>1. CASE i = 0 BY <2>1
  <2>2. CASE i # 0
    <3>1. low <= p /\ p <= high BY <2>2
    <3> QED BY <3>1, Multiples
  <2> QED BY <2>1, <2>2
<1>2. low * j <= q * j /\ q * j <= high * j /\ low * j \in Int /\ q * j \in Int /\ high * j \in Int
  <2>1. CASE j = 0 BY <2>1
  <2>2. CASE j # 0
    <3>1. low <= q /\ q <= high BY <2>2
    <3> QED BY <3>1, Multiples
  <2> QED BY <2>1, <2>2
<1>3. low * k <= c * k /\ c * k <= high * k /\ low * k \in Int /\ c * k \in Int /\ high * k \in Int
  <2>1. low <= c /\ c <= high OBVIOUS
  <2> QED BY <2>1, Multiples
<1>4. /\ low * (i + j + k) = low * i + low * j + low * k
      /\ high * (i + j + k) = high * i + high * j + high * k
  OBVIOUS
<1> DEFINE b == i + j + k
           a == p * i + q * j + c * k
<1>5. b \in Nat \ {0} /\ a \in Int BY <1>1, <1>2, <1>3
<1>6. low * b <= a /\ a <= high * b
  <2> DEFINE l1 == low * i
             l2 == low * j
             l3 == low * k
             m1 == p * i
             m2 == q * j
             m3 == c * k
             h1 == high * i
             h2 == high * j
             h3 == high * k
  <2>1. /\ l1 <= m1 /\ m1 <= h1 /\ l1 \in Int /\ m1 \in Int /\ h1 \in Int
        /\ l2 <= m2 /\ m2 <= h2 /\ l2 \in Int /\ m2 \in Int /\ h2 \in Int
        /\ l3 <= m3 /\ m3 <= h3 /\ l3 \in Int /\ m3 \in Int /\ h3 \in Int
        /\ low * b = l1 + l2 + l3 /\ a = m1 + m2 + m3 /\ high * b = h1 + h2 + h3
    BY <1>1, <1>2, <1>3, <1>4
  <2> HIDE DEF l1, l2, l3, m1, m2, m3, h1, h2, h3, a, b
  <2> QED BY <2>1
<1> HIDE DEF a, b
<1>7. a \div b \in low .. high BY <1>5, <1>6, QuotientBetween
<1> QED BY <1>7 DEF a, b

\* A weight item that is finite and above the plank.
Tells(i) == NotFinite \notin {i.current, i.target, i.act} /\ Magnitude(i.act) > Plank

\* The accumulators of a synapse whose items asked for weights between low and
\* high.
WeightsBetween(s, low, high) ==
  /\ Side(s.pos, s.posAct, s.posAdj, low, high)
  /\ Side(s.neg, s.negAct, -s.negAdj, low, high)
  /\ s.count \in Int /\ s.count >= s.pos + s.neg

LEMMA PlusParts ==
  ASSUME NEW s \in [SynapseParts -> Int], NEW d \in [SynapseParts -> Int]
  PROVE  /\ Plus(s, d) \in [SynapseParts -> Int]
         /\ Plus(s, d).count = s.count + d.count
         /\ Plus(s, d).pos = s.pos + d.pos /\ Plus(s, d).neg = s.neg + d.neg
         /\ Plus(s, d).posAct = s.posAct + d.posAct /\ Plus(s, d).negAct = s.negAct + d.negAct
         /\ Plus(s, d).posAdj = s.posAdj + d.posAdj /\ Plus(s, d).negAdj = s.negAdj + d.negAdj
<1>1. /\ "count" \in SynapseParts /\ "posAct" \in SynapseParts /\ "negAct" \in SynapseParts
      /\ "pos" \in SynapseParts /\ "neg" \in SynapseParts
      /\ "posAdj" \in SynapseParts /\ "negAdj" \in SynapseParts
  BY DEF SynapseParts
<1>2. Plus(s, d) \in [SynapseParts -> Int] /\ \A f \in SynapseParts : Plus(s, d)[f] = s[f] + d[f]
  BY PlusAdds
<1> QED BY <1>1, <1>2

LEMMA PartsAreInts ==
  ASSUME NEW s \in [SynapseParts -> Int]
  PROVE  /\ s.count \in Int /\ s.pos \in Int /\ s.neg \in Int /\ s.posAct \in Int /\ s.negAct \in Int
         /\ s.posAdj \in Int /\ s.negAdj \in Int
BY DEF SynapseParts

\* What an item adds to each accumulator.
LEMMA DeltaParts ==
  ASSUME NEW i \in SynapseItems
  PROVE  LET d == SynapseDelta[i] IN
         /\ d \in [SynapseParts -> Int]
         /\ ~Tells(i) => /\ d.pos = 0 /\ d.posAct = 0 /\ d.posAdj = 0
                         /\ d.neg = 0 /\ d.negAct = 0 /\ d.negAdj = 0 /\ d.count >= 0
         /\ Tells(i) /\ i.act > 0 => /\ i.act > Plank /\ d.count = 1
                                     /\ d.pos = 1 /\ d.posAct = i.act /\ d.posAdj = Lifted(i.target)
                                     /\ d.neg = 0 /\ d.negAct = 0 /\ d.negAdj = 0
         /\ Tells(i) /\ ~(i.act > 0) => /\ -i.act > Plank /\ d.count = 1
                                        /\ d.pos = 0 /\ d.posAct = 0 /\ d.posAdj = 0
                                        /\ d.neg = 1 /\ d.negAct = -i.act /\ d.negAdj = Lifted(i.target)
<1> DEFINE c == i.current
           t == i.target
           a == i.act
           d == SynapseDelta[i]
           v == Lifted(t)
<1>1. c \in Int /\ t \in Int /\ a \in Int BY TrainingStateAssumption
<1>2. d = WeightDelta(c, t, a) BY DEF SynapseDelta
<1>3. d \in [SynapseParts -> Int] BY DeltasMade DEF Makes
<1>4. Tells(i) <=> NotFinite \notin {c, t, a} /\ Magnitude(a) > Plank BY DEF Tells
<1> HIDE DEF c, t, a
<1>5. CASE ~Tells(i)
  <2>1. d \in {SynapseZero, [SynapseZero EXCEPT !.count = 1]}
    <3>1. NotFinite \in {c, t, a} \/ ~(a > Plank \/ a < -Plank) BY <1>1, <1>4, <1>5 DEF Magnitude
    <3> HIDE DEF d
    <3> QED BY <1>2, <3>1 DEF WeightDelta
  <2>2. /\ d.pos = 0 /\ d.posAct = 0 /\ d.posAdj = 0
        /\ d.neg = 0 /\ d.negAct = 0 /\ d.negAdj = 0 /\ d.count >= 0
    <3> HIDE DEF d
    <3> QED BY <2>1 DEF SynapseZero
  <2> QED BY <1>3, <1>5, <2>2
<1>6. CASE Tells(i) /\ a > 0
  <2>1. NotFinite \notin {c, t, a} /\ a > Plank BY <1>1, <1>4, <1>6 DEF Magnitude
  <2> HIDE DEF d, v
  <2>2. d = [SynapseZero EXCEPT !.count = 1, !.posAct = a, !.pos = 1, !.posAdj = v]
    BY <1>2, <2>1 DEF WeightDelta, v
  <2>3. /\ d.count = 1 /\ d.pos = 1 /\ d.posAct = a /\ d.posAdj = v
        /\ d.neg = 0 /\ d.negAct = 0 /\ d.negAdj = 0
    BY <2>2 DEF SynapseZero
  <2> QED BY <1>3, <1>6, <2>1, <2>3 DEF d, v, t, a
<1>7. CASE Tells(i) /\ ~(a > 0)
  <2>1. NotFinite \notin {c, t, a} /\ ~(a > Plank) /\ a < -Plank /\ -a > Plank
    BY <1>1, <1>4, <1>7 DEF Magnitude
  <2> HIDE DEF d, v
  <2>2. d = [SynapseZero EXCEPT !.count = 1, !.negAct = -a, !.neg = 1, !.negAdj = v]
    BY <1>2, <2>1 DEF WeightDelta, v
  <2>3. /\ d.count = 1 /\ d.neg = 1 /\ d.negAct = -a /\ d.negAdj = v
        /\ d.pos = 0 /\ d.posAct = 0 /\ d.posAdj = 0
    BY <2>2 DEF SynapseZero
  <2> QED BY <1>3, <1>7, <2>1, <2>3 DEF d, v, t, a
<1> QED BY <1>5, <1>6, <1>7 DEF a

LEMMA WeightsStayBetween ==
  ASSUME NEW s \in [SynapseParts -> Int], NEW low \in Int, NEW high \in Int, WeightsBetween(s, low, high),
         NEW i \in SynapseItems, Tells(i) => Over(Lifted(i.target), i.act) \in low .. high
  PROVE  LET after == Plus(s, SynapseDelta[i]) IN
         /\ WeightsBetween(after, low, high)
         /\ after.pos + after.neg = s.pos + s.neg + IF Tells(i) THEN 1 ELSE 0
<1> DEFINE d == SynapseDelta[i]
           after == Plus(s, d)
           a == i.act
           v == Lifted(i.target)
<1>0. a \in Int /\ v \in Int
  <2>1. i.act \in Int /\ i.target \in Int BY TrainingStateAssumption
  <2> QED BY <2>1, LiftedIsInt
<1>1. d \in [SynapseParts -> Int] BY DeltaParts
<1>2. /\ after.count = s.count + d.count /\ after.pos = s.pos + d.pos /\ after.neg = s.neg + d.neg
      /\ after.posAct = s.posAct + d.posAct /\ after.negAct = s.negAct + d.negAct
      /\ after.posAdj = s.posAdj + d.posAdj /\ after.negAdj = s.negAdj + d.negAdj
  <2> HIDE DEF d
  <2> QED BY <1>1, PlusParts
<1>3. /\ s.count \in Int /\ s.pos \in Nat /\ s.neg \in Nat /\ s.posAct \in Int /\ s.negAct \in Int
      /\ s.posAdj \in Int /\ s.negAdj \in Int /\ s.count >= s.pos + s.neg
  BY PartsAreInts DEF WeightsBetween, Side
<1>4. Side(s.pos, s.posAct, s.posAdj, low, high) /\ Side(s.neg, s.negAct, -s.negAdj, low, high)
  BY DEF WeightsBetween
<1>5. CASE ~Tells(i)
  <2>1. /\ d.pos = 0 /\ d.posAct = 0 /\ d.posAdj = 0
        /\ d.neg = 0 /\ d.negAct = 0 /\ d.negAdj = 0 /\ d.count >= 0 /\ d.count \in Int
    <3>1. d.count \in Int BY <1>1, PartsAreInts
    <3> QED BY <1>5, <3>1, DeltaParts
  <2> HIDE DEF d, after
  <2>2. /\ after.count \in Int /\ after.count >= s.count /\ after.pos = s.pos /\ after.neg = s.neg
        /\ after.posAct = s.posAct /\ after.negAct = s.negAct
        /\ after.posAdj = s.posAdj /\ after.negAdj = s.negAdj
    BY <1>2, <1>3, <2>1
  <2>3. WeightsBetween(after, low, high) BY <1>3, <1>4, <2>2 DEF WeightsBetween
  <2>4. after.pos + after.neg = s.pos + s.neg + 0 BY <1>3, <2>2
  <2> QED BY <1>5, <2>3, <2>4 DEF after, d
<1>6. CASE Tells(i) /\ a > 0
  <2>1. /\ a > Plank /\ d.count = 1 /\ d.pos = 1 /\ d.posAct = a /\ d.posAdj = v
        /\ d.neg = 0 /\ d.negAct = 0 /\ d.negAdj = 0
    BY <1>6, DeltaParts
  <2>2. (v * One) \div a \in low .. high BY <1>6 DEF Over
  <2> HIDE DEF d, after, a, v
  <2>3. Side(s.pos + 1, s.posAct + a, s.posAdj + v, low, high) BY <1>0, <1>4, <2>1, <2>2, SideAdds
  <2>4. /\ after.count = s.count + 1 /\ after.pos = s.pos + 1 /\ after.neg = s.neg
        /\ after.posAct = s.posAct + a /\ after.negAct = s.negAct
        /\ after.posAdj = s.posAdj + v /\ after.negAdj = s.negAdj
    BY <1>2, <1>3, <2>1
  <2>5. WeightsBetween(after, low, high) BY <1>3, <1>4, <2>3, <2>4 DEF WeightsBetween
  <2>6. after.pos + after.neg = s.pos + s.neg + 1 BY <1>3, <2>4
  <2> QED BY <1>6, <2>5, <2>6 DEF after, d
<1>7. CASE Tells(i) /\ ~(a > 0)
  <2>1. /\ -a > Plank /\ d.count = 1 /\ d.pos = 0 /\ d.posAct = 0 /\ d.posAdj = 0
        /\ d.neg = 1 /\ d.negAct = -a /\ d.negAdj = v
    BY <1>7, DeltaParts
  <2>2. ((-v) * One) \div (-a) \in low .. high BY <1>7 DEF Over
  <2> HIDE DEF d, after, a, v
  <2> DEFINE b == -a
             w == -v
             adj == -s.negAdj
  <2>3. Side(s.neg + 1, s.negAct + b, adj + w, low, high)
    <3>1. b \in Int /\ w \in Int /\ b > Plank /\ (w * One) \div b \in low .. high
          /\ Side(s.neg, s.negAct, adj, low, high)
      BY <1>0, <1>4, <2>1, <2>2
    <3> HIDE DEF b, w, adj
    <3> QED BY <3>1, SideAdds
  <2>4. /\ after.count = s.count + 1 /\ after.pos = s.pos /\ after.neg = s.neg + 1
        /\ after.posAct = s.posAct /\ after.negAct = s.negAct + b
        /\ after.posAdj = s.posAdj /\ -after.negAdj = adj + w
    BY <1>0, <1>2, <1>3, <2>1
  <2>5. WeightsBetween(after, low, high)
    <3> HIDE DEF b, w, adj
    <3> QED BY <1>3, <1>4, <2>3, <2>4 DEF WeightsBetween
  <2>6. after.pos + after.neg = s.pos + s.neg + 1 BY <1>3, <2>4
  <2> QED BY <1>7, <2>5, <2>6 DEF after, d
<1> QED BY <1>5, <1>6, <1>7

LEMMA AverageWithin ==
  ASSUME NEW s \in [SynapseParts -> Int], NEW low \in Int, NEW high \in Int, WeightsBetween(s, low, high),
         s.pos + s.neg > 0, NEW current \in low .. high, NEW c, c.generations \in Nat
  PROVE  Average(s, current, c) \in low .. high
<1> DEFINE positive == IF s.posAct > Plank THEN Over(s.posAdj, s.posAct) ELSE 0
           negative == IF s.negAct > Plank THEN Over(s.negAdj, -s.negAct) ELSE 0
           active == s.pos + s.neg
           raw == c.generations + s.count - active
           capped == IF raw < 2 * active THEN raw ELSE 2 * active
<1>1. /\ s.count \in Int /\ s.pos \in Nat /\ s.neg \in Nat /\ s.posAct \in Int /\ s.negAct \in Int
      /\ s.posAdj \in Int /\ s.negAdj \in Int /\ s.count >= s.pos + s.neg
  BY PartsAreInts DEF WeightsBetween, Side
<1>2. Side(s.pos, s.posAct, s.posAdj, low, high) /\ Side(s.neg, s.negAct, -s.negAdj, low, high)
  BY DEF WeightsBetween
<1>3. capped \in Nat BY <1>1
<1>4. positive \in Int /\ (s.pos > 0 => positive \in low .. high)
  <2>1. s.posAct > Plank => s.posAct > 0 /\ positive = (s.posAdj * One) \div s.posAct
    BY <1>1 DEF Over
  <2>2. s.pos > 0 => s.posAct > Plank /\ (s.posAdj * One) \div s.posAct \in low .. high
    <3> DEFINE n == s.pos
               act == s.posAct
               adj == s.posAdj
    <3>1. Side(n, act, adj, low, high) BY <1>2
    <3> HIDE DEF n, act, adj
    <3>2. n > 0 => act > Plank /\ (adj * One) \div act \in low .. high BY <3>1, SideQuotient DEF Side
    <3> QED BY <3>2 DEF n, act, adj
  <2>3. s.pos > 0 => positive \in low .. high BY <2>1, <2>2
  <2>4. s.pos = 0 => positive = 0 BY <1>2 DEF Side
  <2> HIDE DEF positive
  <2> QED BY <1>1, <2>3, <2>4
<1>5. negative \in Int /\ (s.neg > 0 => negative \in low .. high)
  <2>1. s.negAct > Plank => negative = ((-s.negAdj) * One) \div s.negAct
    <3> SUFFICES ASSUME s.negAct > Plank PROVE negative = ((-s.negAdj) * One) \div s.negAct OBVIOUS
    <3>1. ~(-s.negAct > 0) /\ -(-s.negAct) = s.negAct BY <1>1
    <3>2. negative = ((-s.negAdj) * One) \div (-(-s.negAct)) BY <3>1 DEF Over
    <3> QED BY <3>1, <3>2
  <2>2. s.neg > 0 => s.negAct > Plank /\ ((-s.negAdj) * One) \div s.negAct \in low .. high
    <3> DEFINE n == s.neg
               act == s.negAct
               adj == -s.negAdj
    <3>1. Side(n, act, adj, low, high) BY <1>2
    <3> HIDE DEF n, act, adj
    <3>2. n > 0 => act > Plank /\ (adj * One) \div act \in low .. high BY <3>1, SideQuotient DEF Side
    <3> QED BY <3>2 DEF n, act, adj
  <2>3. s.neg > 0 => negative \in low .. high BY <2>1, <2>2
  <2>4. s.neg = 0 => negative = 0 BY <1>2 DEF Side
  <2> HIDE DEF negative
  <2> QED BY <1>1, <2>3, <2>4
<1>6. Average(s, current, c) = (positive * s.pos + negative * s.neg + current * capped) \div (s.pos + s.neg + capped)
  BY DEF Average
<1> DEFINE i == s.pos
           j == s.neg
<1>7. i \in Nat /\ j \in Nat /\ i + j > 0 BY <1>1
<1> HIDE DEF positive, negative, capped, i, j
<1>8. (positive * i + negative * j + current * capped) \div (i + j + capped) \in low .. high
  BY <1>3, <1>4, <1>5, <1>7, Blend DEF i, j
<1> QED BY <1>6, <1>8 DEF i, j

\* The weight a telling item asks for.
Asked(i) == Over(Lifted(i.target), i.act)

LEMMA TotalBetween ==
  ASSUME NEW items \in Seq(SynapseItems), NEW low \in Int, NEW high \in Int,
         \A k \in 1 .. Len(items) : Tells(items[k]) => Asked(items[k]) \in low .. high
  PROVE  LET s == TotalOf(SynapseZero, SynapseDeltas(items)) IN
         /\ s \in [SynapseParts -> Int] /\ WeightsBetween(s, low, high)
         /\ (\E k \in 1 .. Len(items) : Tells(items[k])) => s.pos + s.neg > 0
<1> DEFINE n == Len(items)
           ds == Made(items, SynapseDelta)
           P == SynapseParts
<1>1. n \in Nat /\ \A k \in 1 .. n : items[k] \in SynapseItems BY LenProperties, ElementOfSeq
<1>2. SynapseDeltas(items) = ds BY DeltasMade
<1>3. /\ ds \in Seq([P -> Int]) /\ Len(ds) = n /\ \A k \in 1 .. n : ds[k] = SynapseDelta[items[k]]
  <2>1. /\ Made(items, SynapseDelta) \in Seq([SynapseParts -> Int])
        /\ Len(Made(items, SynapseDelta)) = Len(items)
        /\ \A k \in 1 .. Len(items) : /\ Made(items, SynapseDelta)[k] = SynapseDelta[items[k]]
                                      /\ SynapseDelta[items[k]] \in [SynapseParts -> Int]
    BY DeltasMade, MadeTyped
  <2> QED BY <2>1
<1>4. SynapseZero \in [P -> Int] BY Layouts
<1> HIDE DEF ds, P
<1>5. PICK g : Adds(g, P, SynapseZero, ds) /\ TotalOf(SynapseZero, ds) = g[Len(ds)]
  <2>1. ds \in Seq([P -> Int]) BY <1>3
  <2>2. \E g : Adds(g, P, SynapseZero, ds) BY <1>4, <2>1, TotalUpTo
  <2>3. \A g : Adds(g, P, SynapseZero, ds) => TotalOf(SynapseZero, ds) = g[Len(ds)]
    BY <1>4, <2>1, TotalUpTo
  <2> QED BY <2>2, <2>3
<1>6. /\ g[0] = SynapseZero /\ \A k \in 0 .. n : g[k] \in [P -> Int]
      /\ \A k \in 1 .. n : g[k] = Plus(g[k - 1], SynapseDelta[items[k]])
  BY <1>1, <1>3, <1>5 DEF Adds
<1> DEFINE T == {k \in 0 .. n : /\ WeightsBetween(g[k], low, high)
                                /\ (\E j \in 1 .. k : Tells(items[j])) => g[k].pos + g[k].neg > 0}
<1>7. 0 \in T
  <2>1. /\ SynapseZero.pos = 0 /\ SynapseZero.posAct = 0 /\ SynapseZero.posAdj = 0
        /\ SynapseZero.neg = 0 /\ SynapseZero.negAct = 0 /\ SynapseZero.negAdj = 0
        /\ SynapseZero.count = 0
    BY DEF SynapseZero
  <2>2. Side(0, 0, 0, low, high) BY DEF Side
  <2>5. -SynapseZero.negAdj = 0 /\ SynapseZero.count \in Int /\ SynapseZero.count >= SynapseZero.pos + SynapseZero.neg
    <3> DEFINE x == SynapseZero.negAdj
    <3>1. x \in Int /\ x <= 0 /\ x >= 0 BY <2>1
    <3> HIDE DEF x
    <3>2. -x \in Int /\ -x <= 0 /\ -x >= 0 BY <3>1
    <3>3. -x = 0 BY <3>2
    <3> QED BY <2>1, <3>3 DEF x
  <2>6. WeightsBetween(SynapseZero, low, high) BY <2>1, <2>2, <2>5 DEF WeightsBetween
  <2>3. ~ \E j \in 1 .. 0 : Tells(items[j]) OBVIOUS
  <2> QED BY <1>1, <1>6, <2>3, <2>6
<1>8. ASSUME NEW k \in 1 .. n, k - 1 \in T PROVE k \in T
  <2> DEFINE s == g[k - 1]
             i == items[k]
             after == Plus(s, SynapseDelta[i])
  <2>1. /\ WeightsBetween(s, low, high)
        /\ (\E j \in 1 .. k - 1 : Tells(items[j])) => s.pos + s.neg > 0
    BY <1>8
  <2>2. k - 1 \in 0 .. n /\ k \in 0 .. n BY <1>1
  <2>3. s \in [SynapseParts -> Int] /\ i \in SynapseItems /\ g[k] = after BY <1>1, <1>6, <2>2 DEF P
  <2>4. Tells(i) => Over(Lifted(i.target), i.act) \in low .. high BY DEF Asked
  <2> HIDE DEF s, i
  <2>5. /\ WeightsBetween(after, low, high)
        /\ after.pos + after.neg = s.pos + s.neg + IF Tells(i) THEN 1 ELSE 0
    BY <2>1, <2>3, <2>4, WeightsStayBetween
  <2>6. s.pos \in Nat /\ s.neg \in Nat BY <2>1 DEF WeightsBetween, Side
  <2>7. (\E j \in 1 .. k : Tells(items[j])) => after.pos + after.neg > 0
    <3> SUFFICES ASSUME NEW j \in 1 .. k, Tells(items[j]) PROVE after.pos + after.neg > 0 OBVIOUS
    <3> HIDE DEF after
    <3>1. CASE j = k
      <4>1. Tells(i) BY <3>1 DEF i
      <4> QED BY <2>5, <2>6, <4>1
    <3>2. CASE j # k
      <4>1. j \in 1 .. k - 1 BY <3>2
      <4>2. s.pos + s.neg > 0 BY <2>1, <4>1
      <4>3. CASE Tells(i) BY <2>5, <2>6, <4>2, <4>3
      <4>4. CASE ~Tells(i) BY <2>5, <2>6, <4>2, <4>4
      <4> QED BY <4>3, <4>4
    <3> QED BY <3>1, <3>2
  <2> HIDE DEF after
  <2> QED BY <2>2, <2>3, <2>5, <2>7
<1>9. 0 .. n \subseteq T
  <2> HIDE DEF T
  <2> QED BY <1>1, <1>7, <1>8, InductionUpTo
<1>10. n \in 0 .. n /\ n \in T BY <1>1, <1>9
<1>11. /\ g[n] \in [SynapseParts -> Int] /\ WeightsBetween(g[n], low, high)
       /\ (\E k \in 1 .. Len(items) : Tells(items[k])) => g[n].pos + g[n].neg > 0
  BY <1>6, <1>10 DEF P
<1>12. TotalOf(SynapseZero, SynapseDeltas(items)) = g[n] BY <1>2, <1>3, <1>5
<1> QED BY <1>11, <1>12

Configs == [generations : Nat, rate : Int, maxStep : Nat, limit : Nat, l1 : Int, l2 : Int]

LEMMA NoDecay ==
  ASSUME NEW c \in Configs
  PROVE  LET u == Undecayed(c) IN
         /\ u.generations = c.generations /\ u.limit = c.limit /\ u.maxStep = c.maxStep
         /\ c.generations \in Nat /\ c.limit \in Nat /\ c.maxStep \in Nat /\ u.rate \in Int
         /\ \A w \in Int : Regularised(w, u) = w
<1> DEFINE u == Undecayed(c)
<1>1. /\ u.generations = c.generations /\ u.limit = c.limit /\ u.maxStep = c.maxStep
      /\ c.generations \in Nat /\ c.limit \in Nat /\ c.maxStep \in Nat /\ u.rate \in Int
      /\ u.l1 = 0 /\ u.l2 = 0
  BY DEF Undecayed, Configs
<1> HIDE DEF u
<1>2. \A w \in Int : Regularised(w, u) = w
  <2>1. ~(u.l1 > 0) /\ ~(u.l2 > 0) BY <1>1
  <2> QED BY <2>1 DEF Regularised
<1> QED BY <1>1, <1>2 DEF u

LEMMA StepWithin ==
  ASSUME NEW target \in Int, NEW current \in Int, NEW c, c.rate \in Int, c.maxStep \in Nat
  PROVE  Step(target, current, c) \in -c.maxStep .. c.maxStep
<1> DEFINE x == Times(c.rate, target - current)
           m == c.maxStep
<1>1. x \in Int
  <2>1. target - current \in Int OBVIOUS
  <2> QED BY <2>1, TimesIsInt
<1>2. m \in Nat OBVIOUS
<1> HIDE DEF x, m
<1>3. Clamped(x, -m, m) \in -m .. m
  <2> DEFINE least == -m
  <2>1. least \in Int /\ m \in Int /\ least <= m BY <1>2
  <2> HIDE DEF least
  <2>2. Clamped(x, least, m) \in least .. m BY <1>1, <2>1, ClampedWithin
  <2> QED BY <2>2 DEF least
<1> QED BY <1>3 DEF Step, x, m

LEMMA WeightIsLimited ==
  ASSUME NEW target \in Int, NEW current \in Int, NEW c \in Configs
  PROVE  LET w == LimitWeight(target, current, Undecayed(c)) IN w \in {0, current} \/ Magnitude(w) <= c.limit
<1> DEFINE u == Undecayed(c)
           step == Step(target, current, u)
           m == c.limit
           w == IF Magnitude(target) < Plank THEN 0
                ELSE IF Magnitude(target - current) < Plank THEN current
                ELSE Clamped(current + step, -m, m)
<1>1. /\ u.limit = m /\ m \in Nat /\ u.rate \in Int /\ u.maxStep \in Nat
      /\ \A x \in Int : Regularised(x, u) = x
  BY NoDecay
<1> HIDE DEF u, m
<1>2. step \in Int BY <1>1, StepWithin
<1> HIDE DEF step
<1>3. Clamped(current + step, -m, m) \in -m .. m
  <2> DEFINE least == -m
             x == current + step
  <2>1. least \in Int /\ m \in Int /\ least <= m /\ x \in Int BY <1>1, <1>2
  <2> HIDE DEF least, x
  <2>2. Clamped(x, least, m) \in least .. m BY <2>1, ClampedWithin
  <2> QED BY <2>2 DEF least, x
<1>4. \A x \in -m .. m : x \in Int /\ Magnitude(x) <= m BY <1>1 DEF Magnitude
<1>5. w \in Int /\ (w \in {0, current} \/ Magnitude(w) <= m) BY <1>3, <1>4
<1>6. LimitWeight(target, current, u) = Regularised(w, u) BY <1>1 DEF LimitWeight, step
<1> HIDE DEF w
<1>7. LimitWeight(target, current, u) = w BY <1>1, <1>5, <1>6
<1> QED BY <1>5, <1>7 DEF u, m

LEMMA BiasIsLimited ==
  ASSUME NEW target \in Int, NEW current \in Int, NEW c \in Configs
  PROVE  LET b == LimitBias(target, current, Undecayed(c)) IN
         b # 0 => /\ Magnitude(b - current) <= c.maxStep
                  /\ Magnitude(b) <= c.limit \/ Magnitude(b) <= Magnitude(current)
<1> DEFINE u == Undecayed(c)
           learnt == current + Step(target, current, u)
           m == c.limit
           most == c.maxStep
           b == IF Magnitude(target) < Plank THEN 0
                ELSE IF target = current THEN current
                ELSE IF learnt >= m /\ learnt > current
                       THEN IF current > m THEN current ELSE m
                ELSE IF learnt <= -m /\ learnt < current
                       THEN IF current < -m THEN current ELSE -m
                ELSE learnt
<1>1. /\ u.limit = m /\ m \in Nat /\ u.rate \in Int /\ u.maxStep = most /\ most \in Nat
      /\ \A x \in Int : Regularised(x, u) = x
  BY NoDecay
<1> HIDE DEF u, m, most
<1>2. learnt \in Int /\ learnt - current \in -most .. most
  <2> DEFINE step == Step(target, current, u)
  <2>1. step \in -most .. most BY <1>1, StepWithin
  <2> HIDE DEF step
  <2>2. current + step \in Int /\ current + step - current = step BY <1>1, <2>1
  <2> QED BY <2>1, <2>2 DEF step
<1>6. LimitBias(target, current, u) = Regularised(b, u) BY <1>1 DEF LimitBias
<1> HIDE DEF learnt
<1>3. b \in Int BY <1>1, <1>2
<1>4. b # 0 => Magnitude(b - current) <= most BY <1>1, <1>2 DEF Magnitude
<1>5. b # 0 => Magnitude(b) <= m \/ Magnitude(b) <= Magnitude(current) BY <1>1, <1>2 DEF Magnitude
<1> HIDE DEF b
<1>7. LimitBias(target, current, u) = b BY <1>1, <1>3, <1>6
<1> QED BY <1>4, <1>5, <1>7 DEF u, m, most

\* What a synapse is taught, from what it heard.
LEMMA SynapseLearns ==
  ASSUME NEW items \in Seq(SynapseItems), NEW current \in Int, NEW c \in Configs
  PROVE  LET s == TotalOf(SynapseZero, SynapseDeltas(items))
             asked == {Asked(items[i]) : i \in Telling(items)}
             w == CalculateWeight(s, current, Undecayed(c))
         IN /\ Telling(items) # {} =>
                 \E low, high \in asked \cup {current} : Average(s, current, c) \in low .. high
            /\ w \in {0, current} \/ Magnitude(w) <= c.limit
<1> DEFINE n == Len(items)
           s == TotalOf(SynapseZero, SynapseDeltas(items))
           asked == {Asked(items[i]) : i \in Telling(items)}
           t == [k \in 1 .. n + 1 |-> IF k <= n /\ Tells(items[k]) THEN Asked(items[k]) ELSE current]
           u == Undecayed(c)
<1>1. n \in Nat /\ DOMAIN items = 1 .. n /\ \A k \in 1 .. n : items[k] \in SynapseItems
  BY LenProperties, ElementOfSeq
<1>2. \A k \in 1 .. n : Tells(items[k]) <=> k \in Telling(items) BY <1>1 DEF Tells, Telling
<1>3. \A k \in 1 .. n : Tells(items[k]) => Asked(items[k]) \in Int
  <2> SUFFICES ASSUME NEW i \in SynapseItems, Tells(i) PROVE Asked(i) \in Int BY <1>1
  <2>1. i.act \in Int /\ i.target \in Int BY TrainingStateAssumption
  <2>2. i.act # 0 BY <2>1 DEF Tells, Magnitude
  <2> DEFINE v == Lifted(i.target)
             a == i.act
  <2>3. v \in Int /\ a \in Int /\ a # 0 BY <2>1, <2>2, LiftedIsInt
  <2> HIDE DEF v, a
  <2>4. Over(v, a) \in Int BY <2>3, OverIsInt
  <2> QED BY <2>4 DEF Asked, v, a
<1>4. /\ t \in [1 .. n + 1 -> Int] /\ t[n + 1] = current
      /\ \A k \in 1 .. n : Tells(items[k]) => t[k] = Asked(items[k])
      /\ \A k \in 1 .. n + 1 : t[k] \in asked \cup {current}
  <2>1. \A k \in 1 .. n + 1 : k <= n => k \in 1 .. n BY <1>1
  <2>2. \A k \in 1 .. n + 1 : k <= n /\ Tells(items[k]) => Asked(items[k]) \in Int /\ Asked(items[k]) \in asked
    BY <1>2, <1>3, <2>1
  <2>3. n + 1 \in 1 .. n + 1 /\ ~(n + 1 <= n) /\ \A k \in 1 .. n : k \in 1 .. n + 1 /\ k <= n BY <1>1
  <2> HIDE DEF asked
  <2> QED BY <2>2, <2>3
<1> HIDE DEF t, asked, s, n
<1>5. PICK low, high \in asked \cup {current} :
        /\ low \in Int /\ high \in Int /\ current \in low .. high
        /\ \A k \in 1 .. n : Tells(items[k]) => Asked(items[k]) \in low .. high
  <2> DEFINE m == n + 1
  <2>0. m \in Nat /\ m # 0 /\ t \in [1 .. m -> Int] /\ m \in 1 .. m BY <1>1, <1>4
  <2>1. \A k \in 1 .. n : k \in 1 .. m BY <1>1
  <2> HIDE DEF m
  <2>2. t \in Seq(Int) /\ Len(t) = m BY <2>0, MadeSeq
  <2>3. t # <<>> BY <2>0, <2>2
  <2>4. PICK i, j \in 1 .. m : \A k \in 1 .. m : t[i] <= t[k] /\ t[k] <= t[j]
    <3>1. \E i, j \in 1 .. Len(t) : \A k \in 1 .. Len(t) : t[i] <= t[k] /\ t[k] <= t[j]
      BY <2>2, <2>3, Extremes
    <3> QED BY <2>2, <3>1
  <2>5. t[i] \in asked \cup {current} /\ t[j] \in asked \cup {current} BY <1>4 DEF m
  <2>6. \A k \in 1 .. m : t[k] \in Int /\ t[k] \in t[i] .. t[j] BY <2>0, <2>4
  <2>7. current \in t[i] .. t[j] BY <1>4, <2>0, <2>6 DEF m
  <2>8. \A k \in 1 .. n : Tells(items[k]) => Asked(items[k]) \in t[i] .. t[j] BY <1>4, <2>1, <2>6
  <2> QED BY <2>5, <2>6, <2>7, <2>8
<1>6. /\ s \in [SynapseParts -> Int] /\ WeightsBetween(s, low, high)
      /\ (\E k \in 1 .. n : Tells(items[k])) => s.pos + s.neg > 0
  BY <1>5, TotalBetween DEF s, n
<1>7. c.generations \in Nat /\ u.generations = c.generations
  <2>1. LET v == Undecayed(c) IN
         /\ v.generations = c.generations /\ v.limit = c.limit /\ v.maxStep = c.maxStep
         /\ c.generations \in Nat /\ c.limit \in Nat /\ c.maxStep \in Nat /\ v.rate \in Int
         /\ \A x \in Int : Regularised(x, v) = x
    BY NoDecay
  <2> QED BY <2>1
<1>8. s.pos + s.neg > 0 => /\ Average(s, current, c) \in low .. high
                           /\ Average(s, current, u) \in low .. high
  BY <1>5, <1>6, <1>7, AverageWithin
<1>9. Telling(items) # {} => Average(s, current, c) \in low .. high
  <2> SUFFICES ASSUME NEW k \in Telling(items) PROVE Average(s, current, c) \in low .. high OBVIOUS
  <2>1. k \in 1 .. n BY <1>1 DEF Telling
  <2>2. Tells(items[k]) BY <1>2, <2>1
  <2> QED BY <1>6, <1>8, <2>1, <2>2
<1> DEFINE w == CalculateWeight(s, current, u)
<1>10. w \in {0, current} \/ Magnitude(w) <= c.limit
  <2> DEFINE average == Average(s, current, u)
  <2>1. CASE s.count <= 0 \/ (s.posAct <= Plank /\ s.negAct <= Plank) \/ s.pos + s.neg <= 0
    BY <2>1 DEF CalculateWeight
  <2>2. CASE ~(s.count <= 0 \/ (s.posAct <= Plank /\ s.negAct <= Plank) \/ s.pos + s.neg <= 0)
    <3>1. s.pos \in Nat /\ s.neg \in Nat BY <1>6 DEF WeightsBetween, Side
    <3>2. average \in Int BY <1>5, <1>8, <2>2, <3>1
    <3>3. w = LimitWeight(average, current, u) BY <2>2 DEF CalculateWeight
    <3> HIDE DEF average, u, w
    <3>4. LimitWeight(average, current, u) \in {0, current} \/ Magnitude(LimitWeight(average, current, u)) <= c.limit
      BY <3>2, WeightIsLimited DEF u
    <3> QED BY <3>3, <3>4
  <2> QED BY <2>1, <2>2
<1> HIDE DEF w, u
<1>11. Telling(items) # {} =>
         \E lo, hi \in asked \cup {current} : Average(s, current, c) \in lo .. hi
  BY <1>5, <1>9
<1> QED BY <1>10, <1>11 DEF s, asked, w, u

\* What a neuron is taught.
LEMMA NeuronLearns ==
  ASSUME NEW s \in [NeuronParts -> Int], NEW current \in Int, NEW c \in Configs
  PROVE  LET b == CalculateBias(s, current, FALSE, Undecayed(c)) IN
         b # 0 => /\ Magnitude(b - current) <= c.maxStep
                  /\ Magnitude(b) <= c.limit \/ Magnitude(b) <= Magnitude(current)
<1> DEFINE u == Undecayed(c)
           capped == IF u.generations < 2 * s.count THEN u.generations ELSE 2 * s.count
           target == (s.adjusted + current * capped) \div (s.count + capped)
           b == CalculateBias(s, current, FALSE, u)
<1>1. s.count \in Int /\ s.adjusted \in Int BY DEF NeuronParts
<1>2. /\ u.generations = c.generations /\ c.generations \in Nat /\ c.limit \in Nat /\ c.maxStep \in Nat
  <2>1. LET v == Undecayed(c) IN
         /\ v.generations = c.generations /\ v.limit = c.limit /\ v.maxStep = c.maxStep
         /\ c.generations \in Nat /\ c.limit \in Nat /\ c.maxStep \in Nat /\ v.rate \in Int
         /\ \A x \in Int : Regularised(x, v) = x
    BY NoDecay
  <2> QED BY <2>1
<1> HIDE DEF u
<1>3. CASE s.count <= 0
  <2>1. b = current BY <1>3 DEF CalculateBias
  <2>2. current - current = 0 /\ Magnitude(0) = 0 BY DEF Magnitude
  <2>3. Magnitude(current) \in Int BY DEF Magnitude
  <2> HIDE DEF b
  <2>4. Magnitude(b - current) <= c.maxStep /\ Magnitude(b) <= Magnitude(current)
    BY <1>2, <2>1, <2>2, <2>3
  <2> QED BY <2>4 DEF b, u
<1>4. CASE ~(s.count <= 0)
  <2>1. capped \in Nat /\ s.count + capped \in Nat \ {0} BY <1>1, <1>2, <1>4
  <2>2. b = LimitBias(target, current, u) BY <1>4 DEF CalculateBias
  <2>3. target \in Int
    <3> DEFINE x == s.adjusted + current * capped
               y == s.count + capped
    <3> HIDE DEF capped
    <3>1. current * capped \in Int BY <2>1
    <3>2. x \in Int /\ y \in Nat \ {0} BY <1>1, <2>1, <3>1
    <3> HIDE DEF x, y
    <3>3. x \div y \in Int BY <3>2, Quotient
    <3> QED BY <3>3 DEF x, y
  <2> HIDE DEF b, target
  <2>4. LimitBias(target, current, u) # 0 =>
          /\ Magnitude(LimitBias(target, current, u) - current) <= c.maxStep
          /\ Magnitude(LimitBias(target, current, u)) <= c.limit
             \/ Magnitude(LimitBias(target, current, u)) <= Magnitude(current)
    BY <2>3, BiasIsLimited DEF u
  <2> QED BY <2>2, <2>4 DEF b, u
<1> QED BY <1>3, <1>4

\* What an epoch has heard is learnt within bounds: the weight asked for lies
\* between the current and the reported ones, the weight taken is limited, and
\* a bias moves at most a step and never further out than the limit
\* (calculate_weight, calculate_bias, limit_weight, limit_bias).
THEOREM LearningStaysBounded == Spec => []LearningIsBounded
<1>1. BuffersInv => LearningIsBounded
  <2> SUFFICES ASSUME BuffersInv, NEW u \in Updates
               PROVE  /\ \A x \in DOMAIN heardS :
                           LET w == CalculateWeight(ReadSynapse(x), u.current, Undecayed(u.config)) IN
                           /\ AverageBetween(x, u)
                           /\ w \in {0, u.current} \/ Magnitude(w) <= u.config.limit
                      /\ \A x \in DOMAIN heardN :
                           LET b == CalculateBias(ReadNeuron(x), u.current, FALSE, Undecayed(u.config)) IN
                           b # 0 => /\ Magnitude(b - u.current) <= u.config.maxStep
                                    /\ \/ Magnitude(b) <= u.config.limit
                                       \/ Magnitude(b) <= Magnitude(u.current)
    BY DEF LearningIsBounded
  <2> DEFINE current == u.current
             c == u.config
  <2>1. current \in Int /\ c \in Configs BY TrainingStateAssumption DEF Configs
  <2>2. ASSUME NEW x \in DOMAIN heardS
        PROVE  LET w == CalculateWeight(ReadSynapse(x), current, Undecayed(c)) IN
               /\ AverageBetween(x, u)
               /\ w \in {0, current} \/ Magnitude(w) <= c.limit
    <3> DEFINE items == heardS[x]
               s == TotalOf(SynapseZero, SynapseDeltas(items))
               asked == {Asked(items[i]) : i \in Telling(items)}
    <3>1. items \in Seq(SynapseItems) /\ ReadSynapse(x) = s
      <4>1. /\ x \in DOMAIN heardS => heardS[x] \in Seq(SynapseItems)
            /\ ReadSynapse(x) = IF x \in DOMAIN heardS
                                  THEN TotalOf(SynapseZero, SynapseDeltas(heardS[x])) ELSE SynapseZero
        BY SynapseHeard
      <4> QED BY <4>1
    <3> HIDE DEF items, current, c
    <3>2. LET w == CalculateWeight(s, current, Undecayed(c))
          IN /\ Telling(items) # {} =>
                  \E low, high \in asked \cup {current} : Average(s, current, c) \in low .. high
             /\ w \in {0, current} \/ Magnitude(w) <= c.limit
      BY <2>1, <3>1, SynapseLearns
    <3>3. AverageBetween(x, u)
      <4>1. asked = {Over(Lifted(items[i].target), items[i].act) : i \in Telling(items)} BY DEF Asked
      <4> HIDE DEF s, asked
      <4> QED BY <3>1, <3>2, <4>1 DEF AverageBetween, items, current, c
    <3> QED BY <3>1, <3>2, <3>3
  <2>3. ASSUME NEW x \in DOMAIN heardN
        PROVE  LET b == CalculateBias(ReadNeuron(x), current, FALSE, Undecayed(c)) IN
               b # 0 => /\ Magnitude(b - current) <= c.maxStep
                        /\ Magnitude(b) <= c.limit \/ Magnitude(b) <= Magnitude(current)
    <3>1. ReadNeuron(x) \in [NeuronParts -> Int]
      <4> DEFINE items == heardN[x]
                 ds == NeuronDeltas(items)
      <4>1. items \in Seq(NeuronItems) /\ ReadNeuron(x) = TotalOf(NeuronZero, ds) BY NeuronHeard
      <4>2. ds \in Seq([NeuronParts -> Int])
        <5>1. ds = Made(items, NeuronDelta) BY <4>1, DeltasMade
        <5>2. Makes(NeuronDelta, NeuronItems, NeuronParts) BY DeltasMade
        <5> HIDE DEF items, ds
        <5>3. Made(items, NeuronDelta) \in Seq([NeuronParts -> Int]) BY <4>1, <5>2, MadeTyped
        <5> QED BY <5>1, <5>3
      <4>3. NeuronZero \in [NeuronParts -> Int] BY Layouts
      <4> DEFINE X == [NeuronParts -> Int]
      <4>4. \A z \in X : \A all \in Seq(X) : TotalOf(z, all) \in X
        <5> SUFFICES ASSUME NEW z \in X, NEW all \in Seq(X) PROVE TotalOf(z, all) \in X OBVIOUS
        <5>1. TotalOf(z, all) \in [NeuronParts -> Int] BY TotalOfMore
        <5> QED BY <5>1
      <4> HIDE DEF X, ds
      <4>5. TotalOf(NeuronZero, ds) \in X BY <4>2, <4>3, <4>4 DEF X
      <4> QED BY <4>1, <4>5 DEF X
    <3> DEFINE s == ReadNeuron(x)
    <3>2. s \in [NeuronParts -> Int] BY <3>1
    <3> HIDE DEF s, current, c
    <3>3. LET b == CalculateBias(s, current, FALSE, Undecayed(c)) IN
           b # 0 => /\ Magnitude(b - current) <= c.maxStep
                    /\ Magnitude(b) <= c.limit \/ Magnitude(b) <= Magnitude(current)
      BY <2>1, <3>2, NeuronLearns
    <3> QED BY <3>3 DEF s
  <2> QED BY <2>2, <2>3 DEF current, c
<1>2. Spec => []BuffersInv
  <2>1. Init => BuffersInv BY BuffersStart
  <2>2. BuffersInv /\ [Next]_vars => BuffersInv' BY BuffersStep
  <2> QED BY <2>1, <2>2, PTL DEF Spec
<1> QED BY <1>1, <1>2, PTL
=============================================================================
