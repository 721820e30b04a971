---------------------------- MODULE ScoringProofs ----------------------------
(***************************************************************************)
(* What a compiled network answers (Scoring), for all networks, records and *)
(* batch sizes: history never shows, and a loss or a batch takes every      *)
(* record once, down every kernel of network.rs, batch_scoring.rs and       *)
(* loss.rs.                                                                 *)
(***************************************************************************)
EXTENDS Scoring, Iteration, FiniteSetTheorems, SequenceTheorems, TLAPS

-----------------------------------------------------------------------------
(* Sequences *)

LEMMA MadeSeq ==
  ASSUME NEW n \in Nat, NEW X, NEW f \in [1 .. n -> X]
  PROVE  f \in Seq(X) /\ Len(f) = n /\ DOMAIN f = 1 .. n
OBVIOUS

LEMMA SameSeq ==
  ASSUME NEW X, NEW n \in Nat, NEW f \in [1 .. n -> X], NEW g \in [1 .. n -> X],
         \A i \in 1 .. n : f[i] = g[i]
  PROVE  f = g
OBVIOUS

\* f adds s up.
Sums(f, s) ==
  f \in [0 .. Len(s) -> Int] /\ f[0] = 0 /\ \A k \in 1 .. Len(s) : f[k] = f[k - 1] + s[k]

LEMMA TotalUpTo ==
  ASSUME NEW s \in Seq(Int)
  PROVE  \E f : Sums(f, s) /\ Total(s) = f[Len(s)]
<1> DEFINE n == Len(s)
           upTo[k \in 0 .. Len(s)] == IF k = 0 THEN 0 ELSE upTo[k - 1] + s[k]
           step == [p \in (1 .. n) \X Int |-> p[2] + s[p[1]]]
<1>1. n \in Nat /\ \A k \in 1 .. n : s[k] \in Int BY LenProperties, ElementOfSeq
<1>2. \A k \in 1 .. n : \A x \in Int : step[<<k, x>>] = x + s[k] /\ x + s[k] \in Int
  BY <1>1
<1>3. PICK g \in [0 .. n -> Int] : StepsBy(g, n, 0, step)
  <2> DEFINE first == 0
             X == Int
             m == n
  <2>1. m \in Nat /\ first \in X BY <1>1
  <2> HIDE DEF step
  <2>2. \A k \in 1 .. m : \A x \in X : step[<<k, x>>] \in X BY <1>2
  <2> HIDE DEF first, X, upTo, m
  <2>3. \E g \in [0 .. m -> X] : StepsBy(g, m, first, step) BY <2>1, <2>2, Recursion
  <2> QED BY <2>3 DEF first, X, m
<1> HIDE DEF step, upTo
<1>4. Sums(g, s)
  <2>1. \A k \in 1 .. n : g[k] = g[k - 1] + s[k]
    <3> TAKE k \in 1 .. n
    <3>1. g[k - 1] \in Int BY <1>1
    <3>2. g[k] = step[<<k, g[k - 1]>>] BY <1>3 DEF StepsBy
    <3> QED BY <1>2, <3>1, <3>2
  <2> QED BY <1>3, <2>1 DEF Sums, StepsBy
<1>5. upTo = [k \in 0 .. Len(s) |-> IF k = 0 THEN 0 ELSE upTo[k - 1] + s[k]]
  <2>1. g = [k \in 0 .. Len(s) |-> IF k = 0 THEN 0 ELSE g[k - 1] + s[k]]
    BY <1>1, <1>4 DEF Sums
  <2> QED BY <2>1 DEF upTo
<1>6. Total(s) = upTo[n] BY DEF Total, upTo
<1>7. Sums(upTo, s)
  <2> DEFINE T == {k \in 0 .. n : upTo[k] = g[k]}
  <2>1. 0 \in T BY <1>1, <1>4, <1>5 DEF Sums
  <2>2. ASSUME NEW k \in 1 .. n, k - 1 \in T PROVE k \in T
    <3>1. upTo[k] = upTo[k - 1] + s[k]
      <4>1. k \in 0 .. Len(s) /\ k # 0 BY <1>1
      <4>2. upTo[k] = IF k = 0 THEN 0 ELSE upTo[k - 1] + s[k] BY <1>5, <4>1
      <4> QED BY <4>1, <4>2
    <3>2. g[k] = g[k - 1] + s[k] BY <1>4 DEF Sums
    <3> QED BY <1>1, <2>2, <3>1, <3>2
  <2>3. 0 .. n \subseteq T
    <3> HIDE DEF T
    <3> QED BY <1>1, <2>1, <2>2, InductionUpTo
  <2>4. upTo = g BY <1>3, <1>5, <2>3
  <2> QED BY <1>4, <2>4
<1> QED BY <1>6, <1>7

LEMMA TotalIsInt == ASSUME NEW s \in Seq(Int) PROVE Total(s) \in Int
<1>1. PICK f : Sums(f, s) /\ Total(s) = f[Len(s)] BY TotalUpTo
<1>2. Len(s) \in 0 .. Len(s) BY LenProperties
<1> QED BY <1>1, <1>2 DEF Sums

LEMMA TotalIsNat == ASSUME NEW s \in Seq(Nat) PROVE Total(s) \in Nat
<1>1. s \in Seq(Int) /\ Len(s) \in Nat /\ \A k \in 1 .. Len(s) : s[k] \in Nat
  <2>1. Nat \subseteq Int OBVIOUS
  <2> QED BY <2>1, SeqMonotonic, LenProperties, ElementOfSeq
<1>2. PICK f : Sums(f, s) /\ Total(s) = f[Len(s)] BY <1>1, TotalUpTo
<1> DEFINE n == Len(s)
           T == {k \in 0 .. n : f[k] \in Nat}
<1>3. 0 \in T BY <1>1, <1>2 DEF Sums
<1>4. ASSUME NEW k \in 1 .. n, k - 1 \in T PROVE k \in T
  <2>1. f[k] = f[k - 1] + s[k] /\ s[k] \in Nat BY <1>1, <1>2 DEF Sums
  <2> QED BY <1>1, <1>4, <2>1
<1>5. 0 .. n \subseteq T
  <2> HIDE DEF T
  <2> QED BY <1>1, <1>3, <1>4, InductionUpTo
<1>6. n \in 0 .. n BY <1>1
<1>7. f[n] \in Nat BY <1>5, <1>6
<1> QED BY <1>2, <1>7

\* Every number has a whole root.
LEMMA RootIsNat == ASSUME NEW x \in Nat PROVE Root(x) \in Nat
<1> DEFINE T == {y \in Nat : \E r \in 0 .. y : r * r <= y /\ y < (r + 1) * (r + 1)}
<1>1. 0 \in T OBVIOUS
<1>2. ASSUME NEW y \in Nat, y \in T PROVE y + 1 \in T
  <2>1. PICK r \in 0 .. y : r * r <= y /\ y < (r + 1) * (r + 1) BY <1>2
  <2>2. r \in Nat /\ r * r \in Nat /\ (r + 1) * (r + 1) = r * r + 2 * r + 1 OBVIOUS
  <2>3. ((r + 1) + 1) * ((r + 1) + 1) = r * r + 4 * r + 4 BY <2>2
  <2> DEFINE q == r * r
             u == (r + 1) * (r + 1)
             v == ((r + 1) + 1) * ((r + 1) + 1)
  <2>4. q \in Nat /\ u = q + 2 * r + 1 /\ v = q + 4 * r + 4 /\ q <= y /\ y < u
    BY <2>1, <2>2, <2>3
  <2> HIDE DEF q, u, v
  <2>5. CASE y + 1 < u
    <3>1. r \in 0 .. y + 1 /\ q <= y + 1 /\ y + 1 < u BY <2>2, <2>4, <2>5
    <3> QED BY <3>1 DEF q, u
  <2>6. CASE ~(y + 1 < u)
    <3> DEFINE z == r + 1
    <3>1. z \in 0 .. y + 1 /\ u <= y + 1 /\ y + 1 < v BY <2>2, <2>4, <2>6
    <3>2. u = z * z /\ v = (z + 1) * (z + 1) BY DEF u, v
    <3> HIDE DEF z
    <3>3. z * z <= y + 1 /\ y + 1 < (z + 1) * (z + 1) BY <3>1, <3>2
    <3> QED BY <3>1, <3>3
  <2> QED BY <2>5, <2>6
<1>3. Nat \subseteq T
  <2> HIDE DEF T
  <2> QED BY <1>1, <1>2, Induction
<1>4. \E r \in 0 .. x : r * r <= x /\ x < (r + 1) * (r + 1) BY <1>3
<1>5. Root(x) \in 0 .. x BY ONLY <1>4, Zenon DEF Root
<1> QED BY <1>5

LEMMA ExtremeOf ==
  ASSUME NEW s \in Seq(Int), s # <<>>
  PROVE  /\ Least(s) \in Int /\ Greatest(s) \in Int
         /\ \E k \in 1 .. Len(s) : s[k] = Least(s)
         /\ \E k \in 1 .. Len(s) : s[k] = Greatest(s)
         /\ \A k \in 1 .. Len(s) : Least(s) <= s[k] /\ s[k] <= Greatest(s)
<1> DEFINE n == Len(s)
           T == {m \in 0 .. n : m > 0 =>
                   \E a, b \in 1 .. m : \A k \in 1 .. m : s[a] <= s[k] /\ s[k] <= s[b]}
<1>1. n \in Nat /\ n > 0 /\ \A k \in 1 .. n : s[k] \in Int BY LenProperties, ElementOfSeq, EmptySeq
<1>2. 0 \in T BY <1>1
<1>3. ASSUME NEW m \in 1 .. n, m - 1 \in T PROVE m \in T
  <2>1. CASE m = 1 BY <1>1, <2>1
  <2>2. CASE m > 1
    <3>1. PICK a, b \in 1 .. m - 1 : \A k \in 1 .. m - 1 : s[a] <= s[k] /\ s[k] <= s[b]
      BY <1>1, <1>3, <2>2
    <3> DEFINE c == IF s[m] < s[a] THEN m ELSE a
               d == IF s[m] > s[b] THEN m ELSE b
    <3>2. c \in 1 .. m /\ d \in 1 .. m BY <1>1
    <3>3. \A k \in 1 .. m : s[c] <= s[k] /\ s[k] <= s[d]
      <4> TAKE k \in 1 .. m
      <4>1. s[a] \in Int /\ s[b] \in Int /\ s[m] \in Int /\ s[k] \in Int BY <1>1
      <4>2. CASE k = m BY <4>1, <4>2, <3>1
      <4>3. CASE k # m
        <5>1. s[a] <= s[k] /\ s[k] <= s[b] BY <3>1, <4>3, <1>1
        <5>2. s[c] \in Int /\ s[c] <= s[a]
          <6>1. c = IF s[m] < s[a] THEN m ELSE a OBVIOUS
          <6> HIDE DEF c, d
          <6> QED BY ONLY <4>1, <6>1
        <5>3. s[d] \in Int /\ s[b] <= s[d]
          <6>1. d = IF s[m] > s[b] THEN m ELSE b OBVIOUS
          <6> HIDE DEF c, d
          <6> QED BY ONLY <4>1, <6>1
        <5> DEFINE lo == s[c]
                   hi == s[d]
                   v == s[k]
                   x == s[a]
                   y == s[b]
        <5>4. lo \in Int /\ hi \in Int /\ v \in Int /\ x \in Int /\ y \in Int /\ lo <= x /\ x <= v /\ v <= y /\ y <= hi
          BY <4>1, <5>1, <5>2, <5>3
        <5> HIDE DEF lo, hi, v, x, y
        <5>5. lo <= v /\ v <= hi BY ONLY <5>4
        <5> QED BY <5>5 DEF lo, hi, v
      <4> QED BY <4>2, <4>3
    <3> HIDE DEF c, d
    <3>4. \E a1, b1 \in 1 .. m : \A k \in 1 .. m : s[a1] <= s[k] /\ s[k] <= s[b1] BY <3>2, <3>3
    <3>5. m \in 0 .. n BY <1>1
    <3> QED BY <3>4, <3>5
  <2> QED BY <1>1, <2>1, <2>2
<1>4. 0 .. n \subseteq T
  <2> HIDE DEF T
  <2> QED BY <1>1, <1>2, <1>3, InductionUpTo
<1>5. \E a, b \in 1 .. n : \A k \in 1 .. n : s[a] <= s[k] /\ s[k] <= s[b]
  <2>1. n \in 0 .. n /\ n > 0 BY <1>1
  <2>2. n \in T BY <1>4, <2>1
  <2> QED BY <2>1, <2>2
<1>6. PICK a, b \in 1 .. n : \A k \in 1 .. n : s[a] <= s[k] /\ s[k] <= s[b] BY <1>1, <1>5
<1>7. ToSet(s) = {s[k] : k \in 1 .. n} BY LenProperties DEF ToSet
<1>8. s[a] \in ToSet(s) /\ \A y \in ToSet(s) : s[a] <= y BY <1>6, <1>7
<1>9. s[b] \in ToSet(s) /\ \A y \in ToSet(s) : s[b] >= y
  <2>1. \A k \in 1 .. n : s[b] >= s[k] BY <1>1, <1>6
  <2> QED BY <1>7, <2>1
<1>10. Least(s) \in ToSet(s) /\ \A y \in ToSet(s) : Least(s) <= y BY <1>8 DEF Least
<1>11. Greatest(s) \in ToSet(s) /\ \A y \in ToSet(s) : Greatest(s) >= y BY <1>9 DEF Greatest
<1>12. \A k \in 1 .. n : s[k] \in ToSet(s) BY <1>7
<1>13. \A y \in ToSet(s) : y \in Int /\ \E k \in 1 .. n : s[k] = y BY <1>1, <1>7
<1>14. \A k \in 1 .. n : Least(s) <= s[k] BY <1>10, <1>12
<1>15. \A k \in 1 .. n : s[k] <= Greatest(s)
  <2> TAKE k \in 1 .. n
  <2>1. Greatest(s) >= s[k] /\ Greatest(s) \in Int /\ s[k] \in Int BY <1>1, <1>11, <1>12, <1>13
  <2> QED BY <2>1
<1> QED BY <1>10, <1>11, <1>13, <1>14, <1>15

-----------------------------------------------------------------------------
(* What a neuron answers *)

Acts(net) == [1 .. NodeCount(net) -> Int]
SynapsesOf(net) == [from : 1 .. NodeCount(net), weight : Int, role : Roles]
NeuronsOf(net) ==
  [squash : STRING, bias : Int, constant : BOOLEAN, in : Seq(SynapsesOf(net))]

LEMMA NetworkFacts ==
  ASSUME NEW net, IsNetwork(net)
  PROVE  /\ net.inputs \in Nat /\ net.outputs \in 1 .. NodeCount(net)
         /\ net.neurons \in Seq(NeuronsOf(net)) /\ Len(net.neurons) \in Nat
         /\ NodeCount(net) = net.inputs + Len(net.neurons) /\ NodeCount(net) \in Nat
         /\ \A i \in 1 .. Len(net.neurons) : net.neurons[i] \in NeuronsOf(net)
<1>1. net.inputs \in Nat /\ net.neurons \in Seq(NeuronsOf(net))
  BY DEF IsNetwork, NeuronsOf, SynapsesOf
<1>2. Len(net.neurons) \in Nat /\ \A i \in 1 .. Len(net.neurons) : net.neurons[i] \in NeuronsOf(net)
  BY <1>1, LenProperties, ElementOfSeq
<1>3. net.outputs \in 1 .. NodeCount(net) BY DEF IsNetwork
<1> QED BY <1>1, <1>2, <1>3 DEF NodeCount

LEMMA TermsTyped ==
  ASSUME NEW net, IsNetwork(net), NEW act \in Acts(net), NEW n \in NeuronsOf(net)
  PROVE  /\ Len(n.in) \in Nat /\ n.bias \in Int
         /\ \A k \in 1 .. Len(n.in) : n.in[k] \in SynapsesOf(net)
         /\ Terms(act, n) \in [1 .. Len(n.in) -> Int]
         /\ Terms(act, n) \in Seq(Int) /\ Len(Terms(act, n)) = Len(n.in)
<1>1. n.in \in Seq(SynapsesOf(net)) /\ n.bias \in Int BY DEF NeuronsOf
<1>2. Len(n.in) \in Nat /\ \A k \in 1 .. Len(n.in) : n.in[k] \in SynapsesOf(net)
  BY <1>1, LenProperties, ElementOfSeq
<1>3. \A k \in 1 .. Len(n.in) : act[n.in[k].from] * n.in[k].weight \in Int
  <2> TAKE k \in 1 .. Len(n.in)
  <2>1. n.in[k].from \in 1 .. NodeCount(net) /\ n.in[k].weight \in Int BY <1>2 DEF SynapsesOf
  <2>2. act[n.in[k].from] \in Int BY <2>1 DEF Acts
  <2> QED BY <2>1, <2>2
<1>4. Terms(act, n) \in [1 .. Len(n.in) -> Int] BY <1>3 DEF Terms
<1>5. Terms(act, n) \in Seq(Int) /\ Len(Terms(act, n)) = Len(n.in) BY <1>2, <1>4, MadeSeq
<1> QED BY <1>1, <1>2, <1>4, <1>5

LEMMA LimitedIsInt ==
  ASSUME NEW q, NEW x \in Int PROVE Limited(q, x) \in Int /\ Squash(q, x) \in Int
<1>1. Large \in Nat /\ -Large \in Int BY LargeAssumption
<1> QED BY <1>1 DEF Limited, Low, Squash

LEMMA SquareIsNat == \A a \in Int : a * a \in Nat
<1> TAKE a \in Int
<1>1. CASE a >= 0 BY <1>1
<1>2. CASE a < 0 BY <1>2
<1> QED BY <1>1, <1>2

LEMMA ArmIsInt ==
  ASSUME NEW net, IsNetwork(net), NEW act \in Acts(net), NEW n \in NeuronsOf(net), NEW R
  PROVE  Arm(act, n, R) \in Int
<1> DEFINE f == [k \in 1 .. Len(n.in) |-> IF n.in[k].role \in R THEN Terms(act, n)[k] ELSE 0]
<1>1. Len(n.in) \in Nat /\ Terms(act, n) \in [1 .. Len(n.in) -> Int] BY TermsTyped
<1>2. f \in [1 .. Len(n.in) -> Int] BY <1>1
<1> HIDE DEF f
<1>3. f \in Seq(Int) BY <1>1, <1>2, MadeSeq
<1>4. Total(f) \in Int BY <1>3, TotalIsInt
<1> QED BY <1>4 DEF f, Arm

LEMMA SquaresIsNat ==
  ASSUME NEW net, IsNetwork(net), NEW act \in Acts(net), NEW n \in NeuronsOf(net), NEW shift \in Int
  PROVE  Squares(act, n, shift) \in Nat
<1> DEFINE f == [k \in 1 .. Len(n.in) |-> (shift + Terms(act, n)[k]) * (shift + Terms(act, n)[k])]
<1>1. Len(n.in) \in Nat /\ Terms(act, n) \in [1 .. Len(n.in) -> Int] BY TermsTyped
<1>2. f \in [1 .. Len(n.in) -> Nat]
  <2>1. \A k \in 1 .. Len(n.in) : shift + Terms(act, n)[k] \in Int BY <1>1
  <2>2. \A k \in 1 .. Len(n.in) : (shift + Terms(act, n)[k]) * (shift + Terms(act, n)[k]) \in Nat
    BY ONLY <2>1, SquareIsNat
  <2> QED BY <2>2
<1> HIDE DEF f
<1>3. f \in Seq(Nat) BY <1>1, <1>2, MadeSeq
<1>4. Total(f) \in Nat BY <1>3, TotalIsNat
<1> QED BY <1>4 DEF f, Squares

LEMMA QuotientIsInt == \A a \in Int : \A b \in Nat \ {0} : a \div b \in Int
OBVIOUS

LEMMA AggregateIsInt ==
  ASSUME NEW net, IsNetwork(net), NEW act \in Acts(net), NEW n \in NeuronsOf(net),
         n.squash \in Aggregates
  PROVE  Aggregate(act, n) \in Int
<1> DEFINE t == Terms(act, n)
<1>1. /\ Len(n.in) \in Nat /\ n.bias \in Int
      /\ t \in Seq(Int) /\ Len(t) = Len(n.in)
  BY TermsTyped
<1>2. CASE n.squash = "IF"
  <2>1. Taken(act, n) \in Int BY ArmIsInt DEF Taken
  <2> QED BY <1>1, <1>2, <2>1 DEF Aggregate
<1>3. CASE n.squash = "HYPOT"
  <2>1. Root(Squares(act, n, 0)) \in Nat BY SquaresIsNat, RootIsNat
  <2> QED BY <1>1, <1>3, <2>1 DEF Aggregate
<1>4. CASE n.squash = "HYPOTv2"
  <2>1. Root(Squares(act, n, n.bias)) \in Nat BY <1>1, SquaresIsNat, RootIsNat
  <2> QED BY <1>1, <1>4, <2>1 DEF Aggregate
<1>5. CASE n.squash \in {"MINIMUM", "MAXIMUM", "MEAN"}
  <2>1. CASE n.in = <<>> BY <1>1, <1>5, <2>1 DEF Aggregate
  <2>2. CASE n.in # <<>>
    <3>1. Len(n.in) \in Nat \ {0} BY <1>1, <2>2, EmptySeq DEF NeuronsOf
    <3>2. t # <<>> BY <1>1, <3>1, EmptySeq
    <3>3. Least(t) \in Int /\ Greatest(t) \in Int BY <1>1, <3>2, ExtremeOf
    <3>4. Total(t) \in Int BY <1>1, TotalIsInt
    <3>5. Total(t) \div Len(n.in) \in Int BY <3>1, <3>4, QuotientIsInt
    <3> HIDE DEF t
    <3>6. CASE n.squash = "MINIMUM" BY <1>1, <2>2, <3>3, <3>6 DEF Aggregate, t
    <3>7. CASE n.squash = "MAXIMUM" BY <1>1, <2>2, <3>3, <3>7 DEF Aggregate, t
    <3>8. CASE n.squash = "MEAN" BY <1>1, <2>2, <3>5, <3>8 DEF Aggregate, t
    <3> QED BY <1>5, <3>6, <3>7, <3>8
  <2> QED BY <2>1, <2>2
<1> QED BY <1>2, <1>3, <1>4, <1>5 DEF Aggregates

LEMMA ScalarIsInt ==
  ASSUME NEW net, IsNetwork(net), NEW act \in Acts(net), NEW n \in NeuronsOf(net)
  PROVE  /\ Scalar(act, n) \in Int /\ Standard(act, n) \in Int /\ WeightedSum(act, n) \in Int
         /\ n.bias \in Int
<1>1. n.bias \in Int /\ WeightedSum(act, n) \in Int
  <2>1. n.bias \in Int /\ Total(Terms(act, n)) \in Int BY TermsTyped, TotalIsInt
  <2> QED BY <2>1 DEF WeightedSum
<1>2. Standard(act, n) \in Int BY <1>1, LimitedIsInt DEF Standard
<1>3. Scalar(act, n) \in Int BY <1>2, AggregateIsInt, LimitedIsInt DEF Scalar
<1> QED BY <1>1, <1>2, <1>3

\* A neuron reads its terms and nothing else of the buffer.
LEMMA OnlyTermsCount ==
  ASSUME NEW a, NEW b, NEW n, Terms(a, n) = Terms(b, n)
  PROVE  /\ Scalar(a, n) = Scalar(b, n) /\ Standard(a, n) = Standard(b, n)
         /\ WeightedSum(a, n) = WeightedSum(b, n) /\ Mark(a, n) = Mark(b, n)
         /\ \A R : Arm(a, n, R) = Arm(b, n, R)
<1>1. ASSUME NEW R PROVE Arm(a, n, R) = Arm(b, n, R)
  <2>1. [k \in 1 .. Len(n.in) |-> IF n.in[k].role \in R THEN Terms(a, n)[k] ELSE 0]
          = [k \in 1 .. Len(n.in) |-> IF n.in[k].role \in R THEN Terms(b, n)[k] ELSE 0]
    OBVIOUS
  <2> QED BY <2>1 DEF Arm
<1>2. ASSUME NEW h PROVE Squares(a, n, h) = Squares(b, n, h)
  <2>1. [k \in 1 .. Len(n.in) |-> (h + Terms(a, n)[k]) * (h + Terms(a, n)[k])]
          = [k \in 1 .. Len(n.in) |-> (h + Terms(b, n)[k]) * (h + Terms(b, n)[k])]
    OBVIOUS
  <2> QED BY <2>1 DEF Squares
<1>3. TakesPositive(a, n) = TakesPositive(b, n) /\ Taken(a, n) = Taken(b, n)
  BY <1>1 DEF TakesPositive, Taken
<1>4. Aggregate(a, n) = Aggregate(b, n)
  <2> DEFINE t == Terms(a, n)
  <2> HIDE DEF t
  <2>1. Terms(a, n) = t /\ Terms(b, n) = t BY DEF t
  <2> QED BY <1>2, <1>3, <2>1 DEF Aggregate
<1>5. WeightedSum(a, n) = WeightedSum(b, n) BY DEF WeightedSum
<1>6. Mark(a, n) = Mark(b, n) BY <1>3 DEF Mark
<1>7. Standard(a, n) = Standard(b, n) BY <1>5 DEF Standard
<1> QED BY <1>1, <1>4, <1>5, <1>6, <1>7 DEF Scalar

LEMMA SameTerms ==
  ASSUME NEW a, NEW b, NEW n, \A k \in 1 .. Len(n.in) : a[n.in[k].from] = b[n.in[k].from]
  PROVE  Terms(a, n) = Terms(b, n)
BY DEF Terms

-----------------------------------------------------------------------------
(* A record through a buffer *)

LEMMA ActsLen ==
  ASSUME NEW net, IsNetwork(net), NEW act \in Acts(net)
  PROVE  act \in Seq(Int) /\ Len(act) = NodeCount(net)
<1>1. NodeCount(net) \in Nat BY NetworkFacts
<1> QED BY <1>1, MadeSeq DEF Acts

LEMMA SameActs ==
  ASSUME NEW net, NEW a \in Acts(net), NEW b \in Acts(net),
         \A k \in 1 .. NodeCount(net) : a[k] = b[k]
  PROVE  a = b
<1>1. a \in [1 .. NodeCount(net) -> Int] /\ b \in [1 .. NodeCount(net) -> Int] BY DEF Acts
<1> DEFINE D == 1 .. NodeCount(net)
<1>2. a \in [D -> Int] /\ b \in [D -> Int] /\ \A k \in D : a[k] = b[k] BY <1>1
<1> HIDE DEF D
<1> QED BY <1>2

LEMMA PutTyped ==
  ASSUME NEW net, IsNetwork(net), NEW act \in Acts(net), NEW at, NEW x \in Int
  PROVE  /\ Put(act, at, x) \in Acts(net)
         /\ \A k \in 1 .. NodeCount(net) : Put(act, at, x)[k] = IF k = at THEN x ELSE act[k]
<1>1. Len(act) = NodeCount(net) BY ActsLen
<1> QED BY <1>1 DEF Put, Acts

LEMMA LoadTyped ==
  ASSUME NEW net, IsNetwork(net), NEW act \in Acts(net), NEW x \in Seq(Int)
  PROVE  /\ Load(net, act, x) \in Acts(net)
         /\ \A k \in 1 .. NodeCount(net) :
              Load(net, act, x)[k] =
                IF k > net.inputs THEN act[k] ELSE IF k <= Len(x) THEN x[k] ELSE 0
<1>1. Len(act) = NodeCount(net) BY ActsLen
<1>2. Len(x) \in Nat /\ \A k \in 1 .. Len(x) : x[k] \in Int BY LenProperties, ElementOfSeq
<1>3. net.inputs \in Nat /\ NodeCount(net) \in Nat BY NetworkFacts
<1>4. \A k \in 1 .. NodeCount(net) : k <= Len(x) => x[k] \in Int BY <1>2, <1>3
<1> QED BY <1>1, <1>4 DEF Load, Acts

LEMMA ZerosTyped ==
  ASSUME NEW net, IsNetwork(net)
  PROVE  Zeros(net) \in Acts(net) /\ \A k \in 1 .. NodeCount(net) : Zeros(net)[k] = 0
BY DEF Zeros, Acts

\* Whatever the buffer held, the inputs are those of the record.
LEMMA LoadsAgree ==
  ASSUME NEW net, IsNetwork(net), NEW a \in Acts(net), NEW b \in Acts(net), NEW x \in Seq(Int)
  PROVE  \A k \in 1 .. net.inputs : Load(net, a, x)[k] = Load(net, b, x)[k]
<1>1. net.inputs \in Nat /\ NodeCount(net) \in Nat /\ net.inputs <= NodeCount(net) BY NetworkFacts
<1> TAKE k \in 1 .. net.inputs
<1>2. k \in 1 .. NodeCount(net) /\ ~(k > net.inputs) BY <1>1
<1> QED BY <1>2, LoadTyped

-----------------------------------------------------------------------------
(* The pass *)

\* f is the buffer after each neuron.
Passes(f, net, act) ==
  /\ f \in [0 .. Len(net.neurons) -> Acts(net)] /\ f[0] = act
  /\ \A i \in 1 .. Len(net.neurons) :
       f[i] = Put(f[i - 1], net.inputs + i, Scalar(f[i - 1], net.neurons[i]))

LEMMA PassSteps ==
  ASSUME NEW net, IsNetwork(net), NEW act \in Acts(net)
  PROVE  \E f : Passes(f, net, act) /\ Pass(net, act) = f[Len(net.neurons)]
<1> DEFINE n == Len(net.neurons)
           D == Acts(net)
           E(i, a) == Put(a, net.inputs + i, Scalar(a, net.neurons[i]))
           after[i \in 0 .. n] == IF i = 0 THEN act ELSE E(i, after[i - 1])
           step == [p \in (1 .. n) \X D |-> E(p[1], p[2])]
<1>1. n \in Nat /\ act \in D BY NetworkFacts
<1>2. \A k \in 1 .. n : \A a \in D : E(k, a) \in D
  <2> TAKE k \in 1 .. n
  <2> TAKE a \in D
  <2>1. Scalar(a, net.neurons[k]) \in Int BY NetworkFacts, ScalarIsInt
  <2> QED BY <2>1, PutTyped
<1> HIDE DEF E, D
<1>3. \A k \in 1 .. n : \A a \in D : step[<<k, a>>] = E(k, a) /\ step[<<k, a>>] \in D BY <1>2
<1> HIDE DEF step
<1>4. PICK g \in [0 .. n -> D] : StepsBy(g, n, act, step)
  <2> HIDE DEF n, after
  <2> QED BY <1>1, <1>3, Recursion
<1>5. g[0] = act /\ \A k \in 1 .. n : g[k] = E(k, g[k - 1])
  <2>1. g[0] = act BY <1>4 DEF StepsBy
  <2>2. ASSUME NEW k \in 1 .. n PROVE g[k] = E(k, g[k - 1])
    <3>1. g[k - 1] \in D BY <1>1
    <3>2. g[k] = step[<<k, g[k - 1]>>] BY <1>4 DEF StepsBy
    <3> QED BY <1>3, <3>1, <3>2
  <2> QED BY <2>1, <2>2
<1>6. after = [i \in 0 .. n |-> IF i = 0 THEN act ELSE E(i, after[i - 1])]
  <2>1. g = [i \in 0 .. n |-> IF i = 0 THEN act ELSE E(i, g[i - 1])] BY <1>1, <1>5
  <2> QED BY <2>1 DEF after
<1> HIDE DEF after
<1>7. after = g
  <2> DEFINE T == {k \in 0 .. n : after[k] = g[k]}
  <2>1. 0 \in T BY <1>1, <1>5, <1>6
  <2>2. ASSUME NEW k \in 1 .. n, k - 1 \in T PROVE k \in T
    <3>1. after[k] = E(k, after[k - 1]) BY <1>1, <1>6
    <3>2. g[k] = E(k, g[k - 1]) BY <1>5
    <3> QED BY <1>1, <2>2, <3>1, <3>2
  <2>3. 0 .. n \subseteq T
    <3> HIDE DEF T, n
    <3> QED BY <1>1, <2>1, <2>2, InductionUpTo
  <2> QED BY <1>6, <2>3
<1>8. Pass(net, act) = after[n] BY DEF Pass, after, E, n
<1>9. Passes(g, net, act) BY <1>5 DEF Passes, E, D, n
<1> QED BY <1>7, <1>8, <1>9 DEF n

LEMMA PassTyped ==
  ASSUME NEW net, IsNetwork(net), NEW act \in Acts(net)
  PROVE  Pass(net, act) \in Acts(net)
<1>1. PICK f : Passes(f, net, act) /\ Pass(net, act) = f[Len(net.neurons)] BY PassSteps
<1>2. Len(net.neurons) \in 0 .. Len(net.neurons) BY NetworkFacts
<1> QED BY <1>1, <1>2 DEF Passes

\* On a forward-only network neuron i reads places before its own.
LEMMA SourcesBefore ==
  ASSUME NEW net, IsNetwork(net), ForwardOnly(net), NEW i \in 1 .. Len(net.neurons),
         NEW k \in 1 .. Len(net.neurons[i].in)
  PROVE  /\ net.neurons[i].in[k].from \in 1 .. net.inputs + i - 1
         /\ net.neurons[i].in[k].from \in 1 .. NodeCount(net)
<1> DEFINE n == net.neurons[i]
<1>1. n \in NeuronsOf(net) /\ net.inputs \in Nat /\ NodeCount(net) \in Nat BY NetworkFacts
<1>2. n.in \in Seq(SynapsesOf(net)) BY <1>1 DEF NeuronsOf
<1>3. n.in[k] \in SynapsesOf(net) /\ Len(n.in) \in Nat BY <1>2, ElementOfSeq, LenProperties
<1>4. n.in[k] \in ToSet(n.in) BY <1>2, LenProperties DEF ToSet
<1>5. n.in[k].from < net.inputs + i BY <1>4 DEF ForwardOnly
<1>6. n.in[k].from \in 1 .. NodeCount(net) BY <1>3 DEF SynapsesOf
<1>7. i \in Int OBVIOUS
<1>8. n.in[k].from \in 1 .. net.inputs + i - 1
  <2> DEFINE f == n.in[k].from
  <2>1. f \in 1 .. NodeCount(net) /\ f < net.inputs + i BY <1>5, <1>6
  <2> HIDE DEF f, n
  <2>2. f \in 1 .. net.inputs + i - 1 BY ONLY <1>1, <1>7, <2>1
  <2> QED BY <2>2 DEF f
<1> QED BY <1>6, <1>8

LEMMA NeuronForgets ==
  ASSUME NEW net, IsNetwork(net), ForwardOnly(net), NEW i \in 1 .. Len(net.neurons),
         NEW a, NEW b, \A k \in 1 .. net.inputs + i - 1 : a[k] = b[k]
  PROVE  Terms(a, net.neurons[i]) = Terms(b, net.neurons[i])
<1>1. \A k \in 1 .. Len(net.neurons[i].in) : net.neurons[i].in[k].from \in 1 .. net.inputs + i - 1
  BY SourcesBefore
<1>2. \A k \in 1 .. Len(net.neurons[i].in) :
        a[net.neurons[i].in[k].from] = b[net.neurons[i].in[k].from]
  BY <1>1
<1> QED BY <1>2, SameTerms

LEMMA PassesForget ==
  ASSUME NEW net, IsNetwork(net), ForwardOnly(net), NEW a \in Acts(net), NEW b \in Acts(net),
         NEW f, Passes(f, net, a), NEW g, Passes(g, net, b),
         \A k \in 1 .. net.inputs : a[k] = b[k]
  PROVE  \A i \in 0 .. Len(net.neurons) : \A k \in 1 .. net.inputs + i : f[i][k] = g[i][k]
<1> DEFINE n == Len(net.neurons)
           T == {i \in 0 .. n : \A k \in 1 .. net.inputs + i : f[i][k] = g[i][k]}
<1>1. n \in Nat /\ net.inputs \in Nat /\ NodeCount(net) = net.inputs + n BY NetworkFacts
<1>2. 0 \in T BY <1>1 DEF Passes
<1>3. ASSUME NEW i \in 1 .. n, i - 1 \in T PROVE i \in T
  <2>0. i - 1 \in 0 .. n BY <1>1
  <2>1. f[i - 1] \in Acts(net) /\ g[i - 1] \in Acts(net) BY <2>0 DEF Passes
  <2>2. \A k \in 1 .. net.inputs + (i - 1) : f[i - 1][k] = g[i - 1][k] BY <1>3
  <2>3. \A k \in 1 .. net.inputs + i - 1 : f[i - 1][k] = g[i - 1][k] BY <1>1, <2>2
  <2>4. Scalar(f[i - 1], net.neurons[i]) = Scalar(g[i - 1], net.neurons[i])
    <3>1. Terms(f[i - 1], net.neurons[i]) = Terms(g[i - 1], net.neurons[i]) BY <2>3, NeuronForgets
    <3> QED BY <3>1, OnlyTermsCount
  <2> DEFINE x == Scalar(f[i - 1], net.neurons[i])
  <2>5. x \in Int BY <2>1, NetworkFacts, ScalarIsInt
  <2>6. f[i] = Put(f[i - 1], net.inputs + i, x) /\ g[i] = Put(g[i - 1], net.inputs + i, x)
    BY <2>4 DEF Passes
  <2> HIDE DEF x
  <2>7. ASSUME NEW k \in 1 .. net.inputs + i PROVE f[i][k] = g[i][k]
    <3>1. k \in 1 .. NodeCount(net) BY <1>1
    <3>2. f[i][k] = (IF k = net.inputs + i THEN x ELSE f[i - 1][k]) BY <2>1, <2>5, <2>6, <3>1, PutTyped
    <3>3. g[i][k] = (IF k = net.inputs + i THEN x ELSE g[i - 1][k]) BY <2>1, <2>5, <2>6, <3>1, PutTyped
    <3>4. k # net.inputs + i => k \in 1 .. net.inputs + i - 1 BY <1>1
    <3> QED BY <2>3, <3>2, <3>3, <3>4
  <2> QED BY <1>1, <2>7
<1>4. 0 .. n \subseteq T
  <2> HIDE DEF T, n
  <2> QED BY <1>1, <1>2, <1>3, InductionUpTo
<1> QED BY <1>4

\* What a forward-only network makes of a record owes nothing to the buffer.
LEMMA PassForgets ==
  ASSUME NEW net, IsNetwork(net), ForwardOnly(net), NEW a \in Acts(net), NEW b \in Acts(net),
         \A k \in 1 .. net.inputs : a[k] = b[k]
  PROVE  Pass(net, a) = Pass(net, b)
<1> DEFINE n == Len(net.neurons)
<1>1. PICK f : Passes(f, net, a) /\ Pass(net, a) = f[n] BY PassSteps
<1>2. PICK g : Passes(g, net, b) /\ Pass(net, b) = g[n] BY PassSteps
<1>3. n \in 0 .. n /\ net.inputs + n = NodeCount(net) BY NetworkFacts
<1>4. \A i \in 0 .. n : \A k \in 1 .. net.inputs + i : f[i][k] = g[i][k]
  BY <1>1, <1>2, PassesForget
<1>5. \A k \in 1 .. NodeCount(net) : f[n][k] = g[n][k] BY <1>3, <1>4
<1>6. f[n] \in Acts(net) /\ g[n] \in Acts(net) BY <1>1, <1>2, <1>3 DEF Passes
<1>7. f[n] = g[n] BY <1>5, <1>6, SameActs
<1> QED BY <1>1, <1>2, <1>7

\* From any buffer the pass of a record is that of a fresh network.
LEMMA LoneAnswer ==
  ASSUME NEW net, IsNetwork(net), ForwardOnly(net), NEW a \in Acts(net), NEW x \in Seq(Int)
  PROVE  /\ Pass(net, Load(net, a, x)) = Pass(net, Load(net, Zeros(net), x))
         /\ Outputs(net, Pass(net, Load(net, a, x))) = Lone(net, x)
         /\ Pass(net, Load(net, a, x)) \in Acts(net)
<1>1. Zeros(net) \in Acts(net) BY ZerosTyped
<1>2. Load(net, a, x) \in Acts(net) /\ Load(net, Zeros(net), x) \in Acts(net) BY <1>1, LoadTyped
<1>3. \A k \in 1 .. net.inputs : Load(net, a, x)[k] = Load(net, Zeros(net), x)[k]
  BY <1>1, LoadsAgree
<1>4. Pass(net, Load(net, a, x)) = Pass(net, Load(net, Zeros(net), x)) BY <1>2, <1>3, PassForgets
<1> QED BY <1>2, <1>4, PassTyped DEF Lone

\* A buffer that holds zeros behind the inputs is that of a fresh network.
LEMMA LoadsOfFresh ==
  ASSUME NEW net, IsNetwork(net), NEW a \in Acts(net), NEW x \in Seq(Int),
         \A k \in 1 .. NodeCount(net) : k > net.inputs => a[k] = 0
  PROVE  Load(net, a, x) = Load(net, Zeros(net), x)
<1>1. Zeros(net) \in Acts(net) /\ \A k \in 1 .. NodeCount(net) : Zeros(net)[k] = 0 BY ZerosTyped
<1>2. Load(net, a, x) \in Acts(net) /\ Load(net, Zeros(net), x) \in Acts(net) BY <1>1, LoadTyped
<1>3. \A k \in 1 .. NodeCount(net) : Load(net, a, x)[k] = Load(net, Zeros(net), x)[k]
  BY <1>1, LoadTyped
<1> QED BY <1>2, <1>3, SameActs

LEMMA ResetTyped ==
  ASSUME NEW net, IsNetwork(net), NEW a \in Acts(net)
  PROVE  /\ ResetState(net, a) \in Acts(net)
         /\ \A k \in 1 .. NodeCount(net) : k > net.inputs => ResetState(net, a)[k] = 0
<1>1. Len(a) = NodeCount(net) BY ActsLen
<1> QED BY <1>1 DEF ResetState, Acts

\* Without an aggregate the kernels that know sums only are the scalar ones.
LEMMA SumsPassIsPass ==
  ASSUME NEW net, IsNetwork(net), NEW act \in Acts(net), ~HasAggregateSquash(net)
  PROVE  SumsPass(net, act) = Pass(net, act)
<1> DEFINE n == Len(net.neurons)
           E(i, a) == Put(a, net.inputs + i, Standard(a, net.neurons[i]))
           after[i \in 0 .. n] == IF i = 0 THEN act ELSE E(i, after[i - 1])
<1>1. n \in Nat BY NetworkFacts
<1>2. PICK g : Passes(g, net, act) /\ Pass(net, act) = g[n] BY PassSteps
<1>3. \A i \in 1 .. n : g[i] = E(i, g[i - 1])
  <2> TAKE i \in 1 .. n
  <2>1. ~(~net.neurons[i].constant /\ net.neurons[i].squash \in Aggregates) BY DEF HasAggregateSquash
  <2>2. Scalar(g[i - 1], net.neurons[i]) = Standard(g[i - 1], net.neurons[i]) BY <2>1 DEF Scalar
  <2> QED BY <1>2, <2>2 DEF Passes
<1>4. g[0] = act /\ g \in [0 .. n -> Acts(net)] BY <1>2 DEF Passes
<1> HIDE DEF E
<1>6. after = [i \in 0 .. n |-> IF i = 0 THEN act ELSE E(i, after[i - 1])]
  <2>1. g = [i \in 0 .. n |-> IF i = 0 THEN act ELSE E(i, g[i - 1])] BY <1>1, <1>3, <1>4
  <2> QED BY <2>1 DEF after
<1> HIDE DEF after
<1>7. after = g
  <2> DEFINE T == {k \in 0 .. n : after[k] = g[k]}
  <2>1. 0 \in T BY <1>1, <1>4, <1>6
  <2>2. ASSUME NEW k \in 1 .. n, k - 1 \in T PROVE k \in T
    <3>1. after[k] = E(k, after[k - 1]) BY <1>1, <1>6
    <3>2. g[k] = E(k, g[k - 1]) BY <1>3
    <3> QED BY <1>1, <2>2, <3>1, <3>2
  <2>3. 0 .. n \subseteq T
    <3> HIDE DEF T, n
    <3> QED BY <1>1, <2>1, <2>2, InductionUpTo
  <2> QED BY <1>4, <1>6, <2>3
<1>8. SumsPass(net, act) = after[n] BY DEF SumsPass, after, E, n
<1> QED BY <1>2, <1>7, <1>8

-----------------------------------------------------------------------------
(* The traced pass *)

Signs == {1, -1}

\* k is the first place of an extreme.
FirstExtreme(s, sign, k) ==
  /\ k \in 1 .. Len(s)
  /\ \A j \in 1 .. Len(s) : sign * s[k] <= sign * s[j]
  /\ \A j \in 1 .. k - 1 : s[j] # s[k]

LEMMA Signed ==
  ASSUME NEW sign \in Signs, NEW a \in Int, NEW b \in Int
  PROVE  /\ sign * a \in Int /\ sign * b \in Int
         /\ sign * a <= sign * b /\ sign * b <= sign * a => a = b
         /\ sign = 1 => sign * a = a /\ sign * b = b
         /\ sign = -1 => sign * a = -a /\ sign * b = -b
<1>1. CASE sign = 1
  <2>1. sign * a = a /\ sign * b = b BY <1>1
  <2> QED BY <1>1, <2>1
<1>2. CASE sign = -1
  <2>1. sign * a = -a /\ sign * b = -b BY <1>2
  <2> QED BY <1>2, <2>1
<1> QED BY <1>1, <1>2 DEF Signs

LEMMA WinnerIs ==
  ASSUME NEW s \in Seq(Int), NEW sign \in Signs, NEW k, FirstExtreme(s, sign, k)
  PROVE  Winner(s, sign) = k - 1
<1>1. Len(s) \in Nat /\ \A j \in 1 .. Len(s) : s[j] \in Int BY LenProperties, ElementOfSeq
<1>2. s # <<>> BY <1>1, EmptySeq DEF FirstExtreme
<1>3. ASSUME NEW a, FirstExtreme(s, sign, a), NEW b, FirstExtreme(s, sign, b) PROVE ~(a < b)
  <2> SUFFICES ASSUME a < b PROVE FALSE OBVIOUS
  <2>1. a \in 1 .. Len(s) /\ b \in 1 .. Len(s) /\ a \in 1 .. b - 1 BY <1>1, <1>3 DEF FirstExtreme
  <2>2. sign * s[a] <= sign * s[b] /\ sign * s[b] <= sign * s[a] BY <1>3, <2>1 DEF FirstExtreme
  <2>3. s[a] = s[b] BY <1>1, <2>1, <2>2, Signed
  <2> QED BY <1>3, <2>1, <2>3 DEF FirstExtreme
<1>4. ASSUME NEW j, FirstExtreme(s, sign, j) PROVE j = k
  <2>1. j \in Int /\ k \in Int BY <1>1, <1>4 DEF FirstExtreme
  <2>2. ~(j < k) /\ ~(k < j) BY <1>3, <1>4
  <2> QED BY <2>1, <2>2
<1> DEFINE w == CHOOSE x \in 1 .. Len(s) : /\ \A j \in 1 .. Len(s) : sign * s[x] <= sign * s[j]
                                           /\ \A j \in 1 .. x - 1 : s[j] # s[x]
<1>5. FirstExtreme(s, sign, w) BY DEF FirstExtreme
<1>6. w = k BY <1>4, <1>5
<1>7. Winner(s, sign) = w - 1 BY <1>2 DEF Winner
<1> QED BY <1>6, <1>7

LEMMA WinnerExists ==
  ASSUME NEW s \in Seq(Int), s # <<>>, NEW sign \in Signs
  PROVE  \E k : FirstExtreme(s, sign, k)
<1>1. Len(s) \in Nat /\ \A j \in 1 .. Len(s) : s[j] \in Int BY LenProperties, ElementOfSeq
<1> DEFINE T == {k \in 1 .. Len(s) : \A j \in 1 .. Len(s) : sign * s[k] <= sign * s[j]}
<1>2. T # {}
  <2>1. CASE sign = 1
    <3>1. PICK k \in 1 .. Len(s) : s[k] = Least(s) BY ExtremeOf
    <3>2. \A j \in 1 .. Len(s) : s[k] <= s[j] BY <3>1, ExtremeOf
    <3>3. \A j \in 1 .. Len(s) : sign * s[k] <= sign * s[j] BY <1>1, <2>1, <3>2, Signed
    <3> QED BY <3>3
  <2>2. CASE sign = -1
    <3>1. PICK k \in 1 .. Len(s) : s[k] = Greatest(s) BY ExtremeOf
    <3>2. \A j \in 1 .. Len(s) : s[j] <= s[k] BY <3>1, ExtremeOf
    <3>3. \A j \in 1 .. Len(s) : sign * s[k] <= sign * s[j]
      <4> TAKE j \in 1 .. Len(s)
      <4>1. s[j] \in Int /\ s[k] \in Int /\ s[j] <= s[k] BY <1>1, <3>2
      <4>2. sign * s[k] = -s[k] /\ sign * s[j] = -s[j] BY <2>2, <4>1, Signed
      <4> QED BY <4>1, <4>2
    <3> QED BY <3>3
  <2> QED BY <2>1, <2>2 DEF Signs
<1>3. PICK m \in T : \A k \in T : m <= k
  <2>1. T \subseteq Nat BY <1>1
  <2> HIDE DEF T
  <2> QED BY <1>2, <2>1, LeastMember
<1>4. \A j \in 1 .. m - 1 : s[j] # s[m]
  <2> SUFFICES ASSUME NEW j \in 1 .. m - 1, s[j] = s[m] PROVE FALSE OBVIOUS
  <2>1. m \in 1 .. Len(s) /\ j \in 1 .. Len(s) /\ ~(m <= j) BY <1>1
  <2>2. j \in T BY <2>1
  <2> QED BY <1>3, <2>1, <2>2
<1> QED BY <1>4 DEF FirstExtreme

LEMMA WinnerFacts ==
  ASSUME NEW s \in Seq(Int), NEW sign \in Signs
  PROVE  /\ Winner(s, sign) \in Nat
         /\ s # <<>> => /\ Winner(s, sign) + 1 \in 1 .. Len(s)
                        /\ sign = 1 => s[Winner(s, sign) + 1] = Least(s)
                        /\ sign = -1 => s[Winner(s, sign) + 1] = Greatest(s)
<1>0. CASE s = <<>> BY <1>0 DEF Winner
<1>1. CASE s # <<>>
  <2>0. Len(s) \in Nat /\ \A j \in 1 .. Len(s) : s[j] \in Int BY LenProperties, ElementOfSeq
  <2>1. PICK k : FirstExtreme(s, sign, k) BY <1>1, WinnerExists
  <2>2. Winner(s, sign) = k - 1 BY <2>1, WinnerIs
  <2>3. k \in 1 .. Len(s) /\ \A j \in 1 .. Len(s) : sign * s[k] <= sign * s[j] BY <2>1 DEF FirstExtreme
  <2>4. Winner(s, sign) + 1 = k /\ Winner(s, sign) \in Nat BY <2>0, <2>2, <2>3
  <2>5. ASSUME sign = 1 PROVE s[k] = Least(s)
    <3>1. PICK j \in 1 .. Len(s) : s[j] = Least(s) BY <1>1, ExtremeOf
    <3>2. Least(s) <= s[k] BY <1>1, <2>3, ExtremeOf
    <3>3. s[k] <= s[j] BY <2>0, <2>3, <2>5, Signed
    <3> QED BY <2>0, <2>3, <3>1, <3>2, <3>3
  <2>6. ASSUME sign = -1 PROVE s[k] = Greatest(s)
    <3>1. PICK j \in 1 .. Len(s) : s[j] = Greatest(s) BY <1>1, ExtremeOf
    <3>2. s[k] <= Greatest(s) BY <1>1, <2>3, ExtremeOf
    <3>3. s[k] \in Int /\ s[j] \in Int BY <2>0, <2>3
    <3>4. sign * s[k] = -s[k] /\ sign * s[j] = -s[j] BY <2>6, <3>3, Signed
    <3>5. -s[k] <= -s[j] BY <2>3, <3>4
    <3> QED BY <3>1, <3>2, <3>3, <3>5
  <2> QED BY <2>3, <2>4, <2>5, <2>6
<1> QED BY <1>0, <1>1

LEMMA MarkIsInt ==
  ASSUME NEW net, IsNetwork(net), NEW act \in Acts(net), NEW n \in NeuronsOf(net)
  PROVE  Mark(act, n) \in Int
<1>1. Terms(act, n) \in Seq(Int) BY TermsTyped
<1>2. Winner(Terms(act, n), 1) \in Nat /\ Winner(Terms(act, n), -1) \in Nat
  BY <1>1, WinnerFacts DEF Signs
<1> QED BY <1>2 DEF Mark

Traces(net) ==
  [act : Acts(net), hints : [1 .. Len(net.neurons) -> Int], trace : Seq(Int)]

LEMMA ToldTyped ==
  ASSUME NEW net, IsNetwork(net), NEW t \in Traces(net), NEW i \in 1 .. Len(net.neurons),
         NEW value \in Int, NEW hint \in Int, NEW pair \in Seq(Int)
  PROVE  /\ Told(net, t, i, value, hint, pair) \in Traces(net)
         /\ Told(net, t, i, value, hint, pair).act = Put(t.act, net.inputs + i, value)
         /\ Told(net, t, i, value, hint, pair).trace = t.trace \o pair
         /\ \A k \in 1 .. Len(net.neurons) :
              Told(net, t, i, value, hint, pair).hints[k] = IF k = i THEN hint ELSE t.hints[k]
<1> DEFINE n == Len(net.neurons)
<1>1. t.act \in Acts(net) /\ t.hints \in [1 .. n -> Int] /\ t.trace \in Seq(Int) BY DEF Traces
<1>2. n \in Nat BY NetworkFacts
<1>3. Len(t.hints) = n BY <1>1, <1>2, MadeSeq
<1>4. Put(t.act, net.inputs + i, value) \in Acts(net) BY <1>1, PutTyped
<1>5. /\ Put(t.hints, i, hint) \in [1 .. n -> Int]
      /\ \A k \in 1 .. n : Put(t.hints, i, hint)[k] = IF k = i THEN hint ELSE t.hints[k]
  BY <1>1, <1>3 DEF Put
<1>6. t.trace \o pair \in Seq(Int) BY <1>1, ConcatProperties
<1> QED BY <1>4, <1>5, <1>6 DEF Told, Traces

\* What neuron i leaves in each case.
LEMMA TracedTyped ==
  ASSUME NEW net, IsNetwork(net), NEW t \in Traces(net), NEW i \in 1 .. Len(net.neurons)
  PROVE  Traced(net, t, i) \in Traces(net)
<1> DEFINE n == net.neurons[i]
<1>1. n \in NeuronsOf(net) /\ t.act \in Acts(net) BY NetworkFacts DEF Traces
<1>2. /\ Scalar(t.act, n) \in Int /\ WeightedSum(t.act, n) \in Int /\ n.bias \in Int
      /\ Mark(t.act, n) \in Int
  BY <1>1, ScalarIsInt, MarkIsInt
<1>3. <<>> \in Seq(Int) /\ <<i - 1, Mark(t.act, n)>> \in Seq(Int)
  <2>1. i - 1 \in Int BY NetworkFacts
  <2> QED BY <1>2, <2>1
<1>4. CASE n.constant
  <2>1. Traced(net, t, i) = Told(net, t, i, n.bias, n.bias, <<>>) BY <1>4 DEF Traced
  <2> DEFINE pair == <<>>
             bias == n.bias
  <2>2. pair \in Seq(Int) /\ bias \in Int BY <1>2, <1>3
  <2> HIDE DEF pair, bias, n
  <2>3. Told(net, t, i, bias, bias, pair) \in Traces(net) BY <2>2, ToldTyped
  <2> QED BY <2>1, <2>3 DEF pair, bias
<1>5. CASE ~n.constant /\ n.squash \in Aggregates BY <1>2, <1>3, <1>5, ToldTyped DEF Traced
<1>6. CASE ~n.constant /\ n.squash \notin Aggregates BY <1>2, <1>3, <1>6, ToldTyped DEF Traced
<1> QED BY <1>1, <1>4, <1>5, <1>6 DEF NeuronsOf

LEMMA UntoldTyped ==
  ASSUME NEW net, IsNetwork(net), NEW act \in Acts(net) PROVE Untold(net, act) \in Traces(net)
BY EmptySeq DEF Untold, Traces

\* f is the trace after each neuron.
TraceSteps(f, net, act) ==
  /\ f \in [0 .. Len(net.neurons) -> Traces(net)] /\ f[0] = Untold(net, act)
  /\ \A i \in 1 .. Len(net.neurons) : f[i] = Traced(net, f[i - 1], i)

LEMMA TracePassSteps ==
  ASSUME NEW net, IsNetwork(net), NEW act \in Acts(net)
  PROVE  \E f : TraceSteps(f, net, act) /\ TracePass(net, act) = Ended(f[Len(net.neurons)])
<1> DEFINE n == Len(net.neurons)
           D == Traces(net)
           z == Untold(net, act)
           E(i, a) == Traced(net, a, i)
           after[i \in 0 .. n] == IF i = 0 THEN z ELSE E(i, after[i - 1])
           step == [p \in (1 .. n) \X D |-> E(p[1], p[2])]
<1>1. n \in Nat /\ z \in D BY NetworkFacts, UntoldTyped
<1>2. \A k \in 1 .. n : \A a \in D : E(k, a) \in D BY TracedTyped
<1> HIDE DEF E, D, z
<1>3. \A k \in 1 .. n : \A a \in D : step[<<k, a>>] = E(k, a) /\ step[<<k, a>>] \in D BY <1>2
<1> HIDE DEF step
<1>4. PICK g \in [0 .. n -> D] : StepsBy(g, n, z, step)
  <2> HIDE DEF n, after
  <2> QED BY <1>1, <1>3, Recursion
<1>5. g[0] = z /\ \A k \in 1 .. n : g[k] = E(k, g[k - 1])
  <2>1. g[0] = z BY <1>4 DEF StepsBy
  <2>2. ASSUME NEW k \in 1 .. n PROVE g[k] = E(k, g[k - 1])
    <3>1. g[k - 1] \in D BY <1>1
    <3>2. g[k] = step[<<k, g[k - 1]>>] BY <1>4 DEF StepsBy
    <3> QED BY <1>3, <3>1, <3>2
  <2> QED BY <2>1, <2>2
<1>6. after = [i \in 0 .. n |-> IF i = 0 THEN z ELSE E(i, after[i - 1])]
  <2>1. g = [i \in 0 .. n |-> IF i = 0 THEN z ELSE E(i, g[i - 1])] BY <1>1, <1>5
  <2> QED BY <2>1 DEF after
<1> HIDE DEF after
<1>7. after = g
  <2> DEFINE T == {k \in 0 .. n : after[k] = g[k]}
  <2>1. 0 \in T BY <1>1, <1>5, <1>6
  <2>2. ASSUME NEW k \in 1 .. n, k - 1 \in T PROVE k \in T
    <3>1. after[k] = E(k, after[k - 1]) BY <1>1, <1>6
    <3>2. g[k] = E(k, g[k - 1]) BY <1>5
    <3> QED BY <1>1, <2>2, <3>1, <3>2
  <2>3. 0 .. n \subseteq T
    <3> HIDE DEF T, n
    <3> QED BY <1>1, <2>1, <2>2, InductionUpTo
  <2> QED BY <1>6, <2>3
<1>8. TracePass(net, act) = Ended(after[n]) BY DEF TracePass, after, E, n, z
<1>9. TraceSteps(g, net, act) BY <1>5 DEF TraceSteps, E, D, n, z
<1> QED BY <1>7, <1>8, <1>9 DEF n

\* Two traces tell the same up to neuron i.
SameTo(net, s, t, i) ==
  /\ s.hints = t.hints /\ s.trace = t.trace
  /\ \A k \in 1 .. net.inputs + i : s.act[k] = t.act[k]

\* A neuron tells what its terms tell it.
LEMMA ToldAgree ==
  ASSUME NEW net, IsNetwork(net), NEW i \in 1 .. Len(net.neurons),
         NEW s \in Traces(net), NEW t \in Traces(net), SameTo(net, s, t, i - 1),
         NEW value \in Int, NEW hint \in Int, NEW pair \in Seq(Int)
  PROVE  SameTo(net, Told(net, s, i, value, hint, pair), Told(net, t, i, value, hint, pair), i)
<1> DEFINE a == Told(net, s, i, value, hint, pair)
           b == Told(net, t, i, value, hint, pair)
           m == Len(net.neurons)
<1>0. /\ net.inputs \in Nat /\ m \in Nat /\ NodeCount(net) = net.inputs + m
      /\ s.act \in Acts(net) /\ t.act \in Acts(net)
  BY NetworkFacts DEF Traces
<1>1. a.trace = b.trace /\ a.hints = b.hints BY DEF SameTo, Told
<1>2. a.act = Put(s.act, net.inputs + i, value) /\ b.act = Put(t.act, net.inputs + i, value)
  BY DEF Told
<1>3. ASSUME NEW k \in 1 .. net.inputs + i PROVE a.act[k] = b.act[k]
  <2>1. k \in 1 .. NodeCount(net) BY <1>0
  <2>2. a.act[k] = (IF k = net.inputs + i THEN value ELSE s.act[k]) BY <1>0, <1>2, <2>1, PutTyped
  <2>3. b.act[k] = (IF k = net.inputs + i THEN value ELSE t.act[k]) BY <1>0, <1>2, <2>1, PutTyped
  <2>4. k # net.inputs + i => k \in 1 .. net.inputs + (i - 1) BY <1>0
  <2>5. k # net.inputs + i => s.act[k] = t.act[k] BY <2>4 DEF SameTo
  <2> QED BY <2>2, <2>3, <2>5
<1> QED BY <1>1, <1>3 DEF SameTo

LEMMA TracedAgree ==
  ASSUME NEW net, IsNetwork(net), ForwardOnly(net), NEW i \in 1 .. Len(net.neurons),
         NEW s \in Traces(net), NEW t \in Traces(net), SameTo(net, s, t, i - 1)
  PROVE  SameTo(net, Traced(net, s, i), Traced(net, t, i), i)
<1> DEFINE n == net.neurons[i]
           sc == Scalar(s.act, n)
           ws == WeightedSum(s.act, n)
           mk == Mark(s.act, n)
<1>1. n \in NeuronsOf(net) /\ s.act \in Acts(net) /\ t.act \in Acts(net) BY NetworkFacts DEF Traces
<1>2. sc \in Int /\ ws \in Int /\ n.bias \in Int /\ mk \in Int BY <1>1, ScalarIsInt, MarkIsInt
<1>3. Terms(s.act, n) = Terms(t.act, n)
  <2>1. net.inputs + (i - 1) = net.inputs + i - 1 BY NetworkFacts
  <2>2. \A k \in 1 .. net.inputs + i - 1 : s.act[k] = t.act[k] BY <2>1 DEF SameTo
  <2> QED BY <2>2, NeuronForgets
<1>4. Scalar(t.act, n) = sc /\ WeightedSum(t.act, n) = ws /\ Mark(t.act, n) = mk
  BY <1>3, OnlyTermsCount
<1>5. <<>> \in Seq(Int) /\ <<i - 1, mk>> \in Seq(Int)
  <2>1. i - 1 \in Int BY NetworkFacts
  <2> QED BY <1>2, <2>1
<1> HIDE DEF sc, ws, mk
<1>6. CASE n.constant
  <2>1. /\ Traced(net, s, i) = Told(net, s, i, n.bias, n.bias, <<>>)
        /\ Traced(net, t, i) = Told(net, t, i, n.bias, n.bias, <<>>)
    BY <1>6 DEF Traced
  <2> QED BY <1>2, <1>5, <2>1, ToldAgree
<1>7. CASE ~n.constant /\ n.squash \in Aggregates
  <2>1. /\ Traced(net, s, i) = Told(net, s, i, sc, sc, <<i - 1, mk>>)
        /\ Traced(net, t, i) = Told(net, t, i, sc, sc, <<i - 1, mk>>)
    BY <1>4, <1>7 DEF Traced, sc, mk
  <2> QED BY <1>2, <1>5, <2>1, ToldAgree
<1>8. CASE ~n.constant /\ n.squash \notin Aggregates
  <2>1. /\ Traced(net, s, i) = Told(net, s, i, sc, ws, <<>>)
        /\ Traced(net, t, i) = Told(net, t, i, sc, ws, <<>>)
    BY <1>4, <1>8 DEF Traced, sc, ws
  <2> QED BY <1>2, <1>5, <2>1, ToldAgree
<1> QED BY <1>1, <1>6, <1>7, <1>8 DEF NeuronsOf

\* Nor does what the traced pass tells owe anything to the buffer.
LEMMA TraceForgets ==
  ASSUME NEW net, IsNetwork(net), ForwardOnly(net), NEW a \in Acts(net), NEW b \in Acts(net),
         \A k \in 1 .. net.inputs : a[k] = b[k]
  PROVE  TracePass(net, a) = TracePass(net, b)
<1> DEFINE n == Len(net.neurons)
<1>1. PICK f : TraceSteps(f, net, a) /\ TracePass(net, a) = Ended(f[n]) BY TracePassSteps
<1>2. PICK g : TraceSteps(g, net, b) /\ TracePass(net, b) = Ended(g[n]) BY TracePassSteps
<1>3. n \in Nat /\ net.inputs \in Nat /\ net.inputs + n = NodeCount(net) BY NetworkFacts
<1> DEFINE T == {i \in 0 .. n : SameTo(net, f[i], g[i], i)}
<1>4. 0 \in T
  <2>1. net.inputs + 0 = net.inputs BY <1>3
  <2>2. SameTo(net, Untold(net, a), Untold(net, b), 0) BY <2>1 DEF SameTo, Untold
  <2> QED BY <1>1, <1>2, <1>3, <2>2 DEF TraceSteps
<1>5. ASSUME NEW i \in 1 .. n, i - 1 \in T PROVE i \in T
  <2>0. i - 1 \in 0 .. n /\ i \in 0 .. n BY <1>3
  <2>1. f[i - 1] \in Traces(net) /\ g[i - 1] \in Traces(net) BY <1>1, <1>2, <2>0 DEF TraceSteps
  <2>2. f[i] = Traced(net, f[i - 1], i) /\ g[i] = Traced(net, g[i - 1], i) BY <1>1, <1>2 DEF TraceSteps
  <2>3. SameTo(net, f[i - 1], g[i - 1], i - 1) BY <1>5
  <2>4. SameTo(net, f[i], g[i], i) BY <2>1, <2>2, <2>3, TracedAgree
  <2> QED BY <2>0, <2>4
<1>6. 0 .. n \subseteq T
  <2> HIDE DEF T, n
  <2> QED BY <1>3, <1>4, <1>5, InductionUpTo
<1>7. n \in 0 .. n BY <1>3
<1>8. SameTo(net, f[n], g[n], n) BY <1>6, <1>7
<1>9. f[n] \in Traces(net) /\ g[n] \in Traces(net) BY <1>1, <1>2, <1>7 DEF TraceSteps
<1>10. f[n].act = g[n].act
  <2>1. f[n].act \in Acts(net) /\ g[n].act \in Acts(net) BY <1>9 DEF Traces
  <2>2. \A k \in 1 .. NodeCount(net) : f[n].act[k] = g[n].act[k] BY <1>3, <1>8 DEF SameTo
  <2> QED BY <2>1, <2>2, SameActs
<1>11. f[n] = g[n]
  <2>1. \A t \in Traces(net) : t = [act |-> t.act, hints |-> t.hints, trace |-> t.trace]
    BY DEF Traces
  <2>2. f[n].hints = g[n].hints /\ f[n].trace = g[n].trace BY <1>8 DEF SameTo
  <2> HIDE DEF n
  <2> QED BY <1>9, <1>10, <2>1, <2>2
<1> QED BY <1>1, <1>2, <1>11

-----------------------------------------------------------------------------
(* The kernels of a group of records *)

Bests == [seen : BOOLEAN, value : Int, at : Nat]

\* What the loop over the terms has found after k of them.
Found(s, sign, b, k) ==
  IF k = 0 THEN ~b.seen /\ b.value = 0 /\ b.at = 0
  ELSE /\ b.seen /\ b.at + 1 \in 1 .. k /\ b.value = s[b.at + 1]
       /\ \A j \in 1 .. k : sign * b.value <= sign * s[j]
       /\ \A j \in 1 .. b.at : s[j] # b.value

Better(s, sign, b, k) ==
  IF ~b.seen \/ sign * s[k] < sign * b.value THEN [seen |-> TRUE, value |-> s[k], at |-> k - 1] ELSE b

LEMMA FoundMore ==
  ASSUME NEW s \in Seq(Int), NEW sign \in Signs, NEW k \in 1 .. Len(s), NEW b \in Bests,
         Found(s, sign, b, k - 1)
  PROVE  Better(s, sign, b, k) \in Bests /\ Found(s, sign, Better(s, sign, b, k), k)
<1>1. Len(s) \in Nat /\ \A j \in 1 .. Len(s) : s[j] \in Int BY LenProperties, ElementOfSeq
<1>2. b.seen \in BOOLEAN /\ b.value \in Int /\ b.at \in Nat BY DEF Bests
<1>3. s[k] \in Int /\ k - 1 \in Nat /\ k \in Nat /\ k # 0 BY <1>1
<1> DEFINE new == [seen |-> TRUE, value |-> s[k], at |-> k - 1]
<1>4. new \in Bests BY <1>3 DEF Bests
<1>5. (k - 1) + 1 = k BY <1>3
<1>6. CASE k = 1
  <2>1. Better(s, sign, b, k) = new BY <1>6 DEF Found, Better
  <2>2. \A j \in 1 .. k : sign * s[k] <= sign * s[j]
    <3>1. \A j \in 1 .. k : j = k BY <1>6
    <3>2. sign * s[k] <= sign * s[k] BY <1>3, Signed
    <3> QED BY <3>1, <3>2
  <2>3. 1 .. k - 1 = {} BY <1>6
  <2>4. new.seen /\ new.value = s[k] /\ new.at = k - 1 /\ new.at + 1 = k BY <1>3
  <2> HIDE DEF new
  <2>5. new.at + 1 \in 1 .. k /\ new.value = s[new.at + 1] BY <1>3, <2>4
  <2>6. \A j \in 1 .. k : sign * new.value <= sign * s[j] BY ONLY <2>2, <2>4
  <2>7. \A j \in 1 .. new.at : s[j] # new.value BY ONLY <2>3, <2>4
  <2>8. Found(s, sign, new, k) BY ONLY <1>3, <2>4, <2>5, <2>6, <2>7 DEF Found
  <2> QED BY <1>4, <2>1, <2>8
<1>7. CASE k # 1
  <2>1. /\ b.seen /\ b.at + 1 \in 1 .. k - 1 /\ b.value = s[b.at + 1]
        /\ \A j \in 1 .. k - 1 : sign * b.value <= sign * s[j]
        /\ \A j \in 1 .. b.at : s[j] # b.value
    <3>1. k - 1 # 0 BY <1>3, <1>7
    <3> QED BY <3>1 DEF Found
  <2>2. CASE sign * s[k] < sign * b.value
    <3>1. Better(s, sign, b, k) = new BY <2>2 DEF Better
    <3>2. \A j \in 1 .. k - 1 : s[j] # s[k] /\ sign * s[k] <= sign * s[j]
      <4> TAKE j \in 1 .. k - 1
      <4>1. s[j] \in Int /\ sign * b.value <= sign * s[j] BY <1>1, <2>1
      <4>2. sign * s[k] \in Int /\ sign * b.value \in Int /\ sign * s[j] \in Int
        BY <1>2, <1>3, <4>1, Signed
      <4>3. sign * s[k] < sign * s[j] BY <2>2, <4>1, <4>2
      <4> QED BY <4>2, <4>3
    <3>3. sign * s[k] <= sign * s[k] BY <1>3, Signed
    <3>4. \A j \in 1 .. k : j = k \/ j \in 1 .. k - 1 BY <1>3
    <3>5. Found(s, sign, new, k) BY <1>3, <1>5, <3>2, <3>3, <3>4 DEF Found
    <3> QED BY <1>4, <3>1, <3>5
  <2>3. CASE ~(sign * s[k] < sign * b.value)
    <3>1. Better(s, sign, b, k) = b BY <2>1, <2>3 DEF Better
    <3>2. sign * b.value <= sign * s[k]
      <4>1. sign * s[k] \in Int /\ sign * b.value \in Int BY <1>2, <1>3, Signed
      <4> QED BY <2>3, <4>1
    <3>3. \A j \in 1 .. k : j = k \/ j \in 1 .. k - 1 BY <1>3
    <3>4. \A j \in 1 .. k : sign * b.value <= sign * s[j] BY <2>1, <3>2, <3>3
    <3>5. b.at + 1 \in 1 .. k BY <1>2, <1>3, <2>1
    <3>6. Found(s, sign, b, k) BY <1>3, <2>1, <3>4, <3>5 DEF Found
    <3> QED BY <3>1, <3>6
  <2> QED BY <2>2, <2>3
<1> QED BY <1>6, <1>7

\* The loop finds the first extreme.
LEMMA ExtremeFound ==
  ASSUME NEW net, IsNetwork(net), NEW act \in Acts(net), NEW n \in NeuronsOf(net), NEW sign \in Signs
  PROVE  \E b \in Bests :
           /\ Found(Terms(act, n), sign, b, Len(n.in))
           /\ Extreme4(act, n, sign) = [value |-> n.bias + b.value, mark |-> b.at]
<1> DEFINE s == Terms(act, n)
           m == Len(n.in)
           z == [seen |-> FALSE, value |-> 0, at |-> 0]
           E(k, b) == Better(s, sign, b, k)
           best[k \in 0 .. m] == IF k = 0 THEN z ELSE E(k, best[k - 1])
           D == Bests
           step == [p \in (1 .. m) \X D |-> E(p[1], p[2])]
<1>1. m \in Nat /\ z \in D /\ s \in Seq(Int) /\ Len(s) = m BY TermsTyped DEF Bests
<1>2. \A k \in 1 .. m : \A b \in D : E(k, b) \in D
  <2> TAKE k \in 1 .. m
  <2> TAKE b \in D
  <2>1. s[k] \in Int /\ k - 1 \in Nat BY <1>1, ElementOfSeq
  <2> QED BY <2>1 DEF Better, Bests
<1>z. Found(s, sign, z, 0) BY DEF Found
<1> HIDE DEF E, D, z, s
<1>3. \A k \in 1 .. m : \A a \in D : step[<<k, a>>] = E(k, a) /\ step[<<k, a>>] \in D BY <1>2
<1> HIDE DEF step
<1>4. PICK g \in [0 .. m -> D] : StepsBy(g, m, z, step)
  <2> HIDE DEF m, best
  <2> QED BY <1>1, <1>3, Recursion
<1>5. g[0] = z /\ \A k \in 1 .. m : g[k] = E(k, g[k - 1])
  <2>1. g[0] = z BY <1>4 DEF StepsBy
  <2>2. ASSUME NEW k \in 1 .. m PROVE g[k] = E(k, g[k - 1])
    <3>1. g[k - 1] \in D BY <1>1
    <3>2. g[k] = step[<<k, g[k - 1]>>] BY <1>4 DEF StepsBy
    <3> QED BY <1>3, <3>1, <3>2
  <2> QED BY <2>1, <2>2
<1>6. best = [k \in 0 .. m |-> IF k = 0 THEN z ELSE E(k, best[k - 1])]
  <2>1. g = [k \in 0 .. m |-> IF k = 0 THEN z ELSE E(k, g[k - 1])] BY <1>1, <1>5
  <2> QED BY <2>1 DEF best
<1> HIDE DEF best
<1>7. best = g
  <2> DEFINE T == {k \in 0 .. m : best[k] = g[k]}
  <2>1. 0 \in T BY <1>1, <1>5, <1>6
  <2>2. ASSUME NEW k \in 1 .. m, k - 1 \in T PROVE k \in T
    <3>0. k \in 0 .. m /\ k # 0 BY <1>1
    <3>1. best[k] = E(k, best[k - 1])
      <4> HIDE DEF m
      <4> QED BY <1>6, <3>0
    <3>2. g[k] = E(k, g[k - 1]) BY <1>5
    <3> QED BY <1>1, <2>2, <3>1, <3>2
  <2>3. 0 .. m \subseteq T
    <3> HIDE DEF T, m
    <3> QED BY <1>1, <2>1, <2>2, InductionUpTo
  <2> QED BY <1>6, <2>3
<1>8. Extreme4(act, n, sign) = [value |-> n.bias + best[m].value, mark |-> best[m].at]
  BY DEF Extreme4, best, E, z, s, m, Better
<1> DEFINE F == {k \in 0 .. m : Found(s, sign, g[k], k)}
<1>9. 0 \in F BY <1>1, <1>5, <1>z
<1>10. ASSUME NEW k \in 1 .. m, k - 1 \in F PROVE k \in F
  <2>1. k - 1 \in 0 .. m /\ k \in 0 .. m BY <1>1
  <2>2. g[k - 1] \in Bests BY <2>1 DEF D
  <2>3. g[k] = Better(s, sign, g[k - 1], k) BY <1>5 DEF E
  <2>4. k \in 1 .. Len(s) BY <1>1
  <2>5. Found(s, sign, g[k - 1], k - 1) BY <1>10
  <2>6. Found(s, sign, g[k], k) BY <1>1, <2>2, <2>3, <2>4, <2>5, FoundMore
  <2> QED BY <2>1, <2>6
<1>11. 0 .. m \subseteq F
  <2> HIDE DEF F, m
  <2> QED BY <1>1, <1>9, <1>10, InductionUpTo
<1>12. m \in 0 .. m BY <1>1
<1>13. g[m] \in Bests /\ Found(s, sign, g[m], m) BY <1>11, <1>12 DEF D
<1> QED BY <1>7, <1>8, <1>13 DEF s, m

LEMMA Extreme4Is ==
  ASSUME NEW net, IsNetwork(net), NEW act \in Acts(net), NEW n \in NeuronsOf(net), NEW sign \in Signs
  PROVE  Extreme4(act, n, sign) =
           [value |-> n.bias + (IF n.in = <<>> THEN 0
                                ELSE Terms(act, n)[Winner(Terms(act, n), sign) + 1]),
            mark |-> Winner(Terms(act, n), sign)]
<1> DEFINE s == Terms(act, n)
           w == Winner(s, sign)
<1>1. s \in Seq(Int) /\ Len(s) = Len(n.in) /\ n.in \in Seq(SynapsesOf(net)) /\ Len(n.in) \in Nat
  BY TermsTyped DEF NeuronsOf
<1>2. PICK b \in Bests : /\ Found(s, sign, b, Len(n.in))
                         /\ Extreme4(act, n, sign) = [value |-> n.bias + b.value, mark |-> b.at]
  BY ExtremeFound
<1>3. CASE n.in = <<>>
  <2>1. Len(n.in) = 0 /\ s = <<>> BY <1>1, <1>3, EmptySeq
  <2>2. b.value = 0 /\ b.at = 0 BY <1>2, <2>1 DEF Found
  <2>3. w = 0 BY <2>1 DEF Winner
  <2> HIDE DEF w
  <2> QED BY <1>2, <1>3, <2>2, <2>3 DEF w
<1>4. CASE n.in # <<>>
  <2>1. Len(n.in) # 0 BY <1>1, <1>4, EmptySeq
  <2>2. /\ b.at + 1 \in 1 .. Len(s) /\ b.value = s[b.at + 1] /\ b.at \in Nat
        /\ \A j \in 1 .. Len(s) : sign * b.value <= sign * s[j]
        /\ \A j \in 1 .. b.at : s[j] # b.value
    BY <1>1, <1>2, <2>1 DEF Found, Bests
  <2> DEFINE k == b.at + 1
  <2>3. k \in 1 .. Len(s) /\ b.value = s[k] /\ k - 1 = b.at BY <2>2
  <2> HIDE DEF k, s
  <2>4. FirstExtreme(s, sign, k) BY <2>2, <2>3 DEF FirstExtreme
  <2>5. w = b.at BY <1>1, <2>3, <2>4, WinnerIs
  <2>6. b.value = s[w + 1] BY <2>2, <2>5
  <2> HIDE DEF w
  <2> QED BY <1>2, <1>4, <2>5, <2>6 DEF w, s
<1> QED BY <1>3, <1>4

\* The kernels of a group answer and tell what the single ones do.
LEMMA Aggregate4Is ==
  ASSUME NEW net, IsNetwork(net), NEW act \in Acts(net), NEW n \in NeuronsOf(net),
         n.squash \in Aggregates
  PROVE  Aggregate4(act, n).value = Aggregate(act, n) /\ Aggregate4(act, n).mark = Mark(act, n)
<1> DEFINE s == Terms(act, n)
<1>1. s \in Seq(Int) /\ Len(s) = Len(n.in) /\ n.in \in Seq(SynapsesOf(net)) /\ Len(n.in) \in Nat
  BY TermsTyped DEF NeuronsOf
<1>2. n.in # <<>> => s # <<>> BY <1>1, EmptySeq
<1>3. 1 \in Signs /\ -1 \in Signs BY DEF Signs
<1>4. n.in # <<>> => /\ s[Winner(s, 1) + 1] = Least(s)
                     /\ s[Winner(s, -1) + 1] = Greatest(s)
  BY <1>1, <1>2, <1>3, WinnerFacts
<1>5. CASE n.squash = "MINIMUM"
  <2>1. Aggregate4(act, n) = Extreme4(act, n, 1) BY <1>5 DEF Aggregate4, Minimum4
  <2>2. Extreme4(act, n, 1) = [value |-> n.bias + (IF n.in = <<>> THEN 0 ELSE s[Winner(s, 1) + 1]),
                               mark |-> Winner(s, 1)]
    BY <1>3, Extreme4Is
  <2> HIDE DEF s
  <2>3. /\ Aggregate(act, n) = n.bias + (IF n.in = <<>> THEN 0 ELSE Least(s))
        /\ Mark(act, n) = Winner(s, 1)
    BY <1>5 DEF Aggregate, Mark, s
  <2> QED BY <1>4, <2>1, <2>2, <2>3
<1>6. CASE n.squash = "MAXIMUM"
  <2>1. Aggregate4(act, n) = Extreme4(act, n, -1) BY <1>6 DEF Aggregate4, Maximum4
  <2>2. Extreme4(act, n, -1) = [value |-> n.bias + (IF n.in = <<>> THEN 0 ELSE s[Winner(s, -1) + 1]),
                                mark |-> Winner(s, -1)]
    BY <1>3, Extreme4Is
  <2> HIDE DEF s
  <2>3. /\ Aggregate(act, n) = n.bias + (IF n.in = <<>> THEN 0 ELSE Greatest(s))
        /\ Mark(act, n) = Winner(s, -1)
    BY <1>6 DEF Aggregate, Mark, s
  <2> QED BY <1>4, <2>1, <2>2, <2>3
<1>7. CASE n.squash = "IF" BY <1>7 DEF Aggregate4, If4, Aggregate, Mark, Taken, TakesPositive
<1>8. CASE n.squash = "HYPOT" BY <1>8 DEF Aggregate4, Hypotenuse4, Aggregate, Mark
<1>9. CASE n.squash = "HYPOTv2" BY <1>9 DEF Aggregate4, HypotenuseV24, Aggregate, Mark
<1>10. CASE n.squash = "MEAN" BY <1>10 DEF Aggregate4, Mean4, Aggregate, Mark
<1> QED BY <1>5, <1>6, <1>7, <1>8, <1>9, <1>10 DEF Aggregates

\* One neuron of a group is that neuron of each of its lanes.
LEMMA Traced4Is ==
  ASSUME NEW net, IsNetwork(net), NEW i \in 1 .. Len(net.neurons), NEW K \in Nat,
         NEW lanes \in [1 .. K -> Traces(net)]
  PROVE  Traced4(net, lanes, i) = [r \in 1 .. K |-> Traced(net, lanes[r], i)]
<1> DEFINE n == net.neurons[i]
           lane(t) ==
             IF ~n.constant /\ n.squash \in Aggregates
               THEN LET got == Aggregate4(t.act, n)
                        value == Limited(n.squash, got.value)
                    IN Told(net, t, i, value, value, <<i - 1, got.mark>>)
             ELSE IF n.constant THEN Told(net, t, i, n.bias, n.bias, <<>>)
             ELSE Told(net, t, i, Standard(t.act, n), WeightedSum(t.act, n), <<>>)
<1>1. Len(lanes) = K BY MadeSeq
<1>2. Traced4(net, lanes, i) = [r \in 1 .. Len(lanes) |-> lane(lanes[r])] BY DEF Traced4
<1>3. ASSUME NEW t \in Traces(net) PROVE lane(t) = Traced(net, t, i)
  <2>1. n \in NeuronsOf(net) /\ t.act \in Acts(net) BY NetworkFacts DEF Traces
  <2>2. CASE n.constant BY <2>2 DEF Traced
  <2>3. CASE ~n.constant /\ n.squash \in Aggregates
    <3>1. /\ Aggregate4(t.act, n).value = Aggregate(t.act, n)
          /\ Aggregate4(t.act, n).mark = Mark(t.act, n)
      BY <2>1, <2>3, Aggregate4Is
    <3>2. Scalar(t.act, n) = Limited(n.squash, Aggregate(t.act, n)) BY <2>3 DEF Scalar
    <3> QED BY <2>3, <3>1, <3>2 DEF Traced
  <2>4. CASE ~n.constant /\ n.squash \notin Aggregates
    <3>1. Scalar(t.act, n) = Standard(t.act, n) BY <2>4 DEF Scalar
    <3> QED BY <2>4, <3>1 DEF Traced
  <2> QED BY <2>1, <2>2, <2>3, <2>4 DEF NeuronsOf
<1> HIDE DEF lane, n
<1>4. \A r \in 1 .. K : lane(lanes[r]) = Traced(net, lanes[r], i) BY <1>3
<1> QED BY <1>1, <1>2, <1>4

\* The traced pass of a group is the traced pass of each record, from zero.
LEMMA TracePass4Is ==
  ASSUME NEW net, IsNetwork(net), NEW K \in Nat, NEW records \in [1 .. K -> Seq(Int)]
  PROVE  TracePass4(net, records) =
           [r \in 1 .. K |-> TracePass(net, Load(net, Zeros(net), records[r]))]
<1> DEFINE n == Len(net.neurons)
           a(r) == Load(net, Zeros(net), records[r])
           z == [r \in 1 .. Len(records) |-> Untold(net, a(r))]
           E(i, lanes) == Traced4(net, lanes, i)
           after[i \in 0 .. n] == IF i = 0 THEN z ELSE E(i, after[i - 1])
           Of(f, r) == TraceSteps(f, net, a(r)) /\ TracePass(net, a(r)) = Ended(f[n])
           fs == [r \in 1 .. K |-> CHOOSE f : Of(f, r)]
           g == [i \in 0 .. n |-> [r \in 1 .. K |-> fs[r][i]]]
<1>1. n \in Nat /\ Len(records) = K BY NetworkFacts, MadeSeq
<1>2. \A r \in 1 .. K : a(r) \in Acts(net) BY ZerosTyped, LoadTyped
<1>3. \A r \in 1 .. K : Of(fs[r], r)
  <2> TAKE r \in 1 .. K
  <2>1. \E f : TraceSteps(f, net, a(r)) /\ TracePass(net, a(r)) = Ended(f[n])
    <3> HIDE DEF a
    <3> QED BY <1>2, TracePassSteps
  <2> HIDE DEF a, n
  <2>2. fs[r] = CHOOSE f : Of(f, r) OBVIOUS
  <2> HIDE DEF fs
  <2> QED BY ONLY <2>1, <2>2, Zenon
<1>4. \A r \in 1 .. K : /\ fs[r] \in [0 .. n -> Traces(net)] /\ fs[r][0] = Untold(net, a(r))
                        /\ \A i \in 1 .. n : fs[r][i] = Traced(net, fs[r][i - 1], i)
                        /\ TracePass(net, a(r)) = Ended(fs[r][n])
  <2> HIDE DEF a, fs
  <2> QED BY <1>3 DEF TraceSteps
<1> HIDE DEF fs
<1>5. \A i \in 0 .. n : g[i] = [r \in 1 .. K |-> fs[r][i]] /\ g[i] \in [1 .. K -> Traces(net)]
  <2> HIDE DEF n, a
  <2> QED BY <1>4
<1>6. g[0] = z
  <2>1. 0 \in 0 .. n BY <1>1
  <2>2. g[0] = [r \in 1 .. K |-> fs[r][0]] BY <2>1
  <2> HIDE DEF a, g
  <2> QED BY <1>1, <1>4, <2>2
<1>7. \A i \in 1 .. n : g[i] = E(i, g[i - 1])
  <2> TAKE i \in 1 .. n
  <2>1. i \in 0 .. n /\ i - 1 \in 0 .. n BY <1>1
  <2> HIDE DEF g, a, n
  <2>2. g[i - 1] \in [1 .. K -> Traces(net)] /\ g[i - 1] = [r \in 1 .. K |-> fs[r][i - 1]] BY ONLY <1>5, <2>1
  <2>3. E(i, g[i - 1]) = [r \in 1 .. K |-> Traced(net, g[i - 1][r], i)]
    <3> DEFINE lanes == g[i - 1]
    <3>1. lanes \in [1 .. K -> Traces(net)] BY <2>2
    <3> HIDE DEF lanes
    <3>2. Traced4(net, lanes, i) = [r \in 1 .. K |-> Traced(net, lanes[r], i)]
      <4> HIDE DEF n, z, E
      <4> QED BY ONLY <3>1, Traced4Is, IsNetwork(net), i \in 1 .. n, K \in Nat DEF n
    <3> QED BY <3>2 DEF lanes
  <2>4. \A r \in 1 .. K : g[i - 1][r] = fs[r][i - 1] BY <2>2
  <2>5. \A r \in 1 .. K : fs[r][i] = Traced(net, g[i - 1][r], i) BY <1>4, <2>4
  <2>6. g[i] = [r \in 1 .. K |-> fs[r][i]] BY <1>5, <2>1
  <2> HIDE DEF E
  <2> QED BY <2>3, <2>5, <2>6
<1> HIDE DEF E, z, g
<1>8. after = [i \in 0 .. n |-> IF i = 0 THEN z ELSE E(i, after[i - 1])]
  <2>1. g = [i \in 0 .. n |-> IF i = 0 THEN z ELSE E(i, g[i - 1])]
    <3>1. g = [i \in 0 .. n |-> g[i]] BY DEF g
    <3>2. \A i \in 0 .. n : i = 0 \/ i \in 1 .. n BY <1>1
    <3>3. \A i \in 0 .. n : g[i] = IF i = 0 THEN z ELSE E(i, g[i - 1])
      <4> HIDE DEF n
      <4> QED BY <1>1, <1>6, <1>7, <3>2
    <3> HIDE DEF n
    <3>4. [i \in 0 .. n |-> g[i]] = [i \in 0 .. n |-> IF i = 0 THEN z ELSE E(i, g[i - 1])] BY <3>3
    <3> QED BY <3>1, <3>4
  <2> QED BY <2>1 DEF after
<1> HIDE DEF after
<1>9. after[n] = g[n]
  <2> DEFINE T == {k \in 0 .. n : after[k] = g[k]}
  <2>1. 0 \in T BY <1>1, <1>6, <1>8
  <2>2. ASSUME NEW k \in 1 .. n, k - 1 \in T PROVE k \in T
    <3>0. k \in 0 .. n /\ k # 0 BY <1>1
    <3>1. after[k] = E(k, after[k - 1]) BY <1>8, <3>0
    <3>2. g[k] = E(k, g[k - 1]) BY <1>7
    <3> QED BY <2>2, <3>0, <3>1, <3>2
  <2>3. 0 .. n \subseteq T
    <3> HIDE DEF T, n
    <3> QED BY <1>1, <2>1, <2>2, InductionUpTo
  <2>4. n \in 0 .. n BY <1>1
  <2> QED BY <2>3, <2>4
<1>10. TracePass4(net, records) = [r \in 1 .. Len(records) |-> Ended(after[n][r])]
  BY DEF TracePass4, after, E, z, n, a
<1>11. \A r \in 1 .. K : after[n][r] = fs[r][n]
  <2>1. n \in 0 .. n BY <1>1
  <2>2. g[n] = [r \in 1 .. K |-> fs[r][n]] BY <1>5, <2>1
  <2> QED BY <1>9, <2>2
<1>12. \A r \in 1 .. K : Ended(after[n][r]) = TracePass(net, a(r))
  <2> HIDE DEF a, n
  <2> QED BY <1>4, <1>11
<1> HIDE DEF n
<1>13. TracePass4(net, records) = [r \in 1 .. K |-> TracePass(net, a(r))] BY <1>1, <1>10, <1>12
<1> QED BY <1>13

LEMMA TracePassTyped ==
  ASSUME NEW net, IsNetwork(net), NEW act \in Acts(net)
  PROVE  TracePass(net, act) \in Traces(net)
<1> DEFINE n == Len(net.neurons)
<1>1. PICK f : TraceSteps(f, net, act) /\ TracePass(net, act) = Ended(f[n]) BY TracePassSteps
<1>2. n \in 0 .. n BY NetworkFacts
<1>3. f[n] \in Traces(net) BY <1>1, <1>2 DEF TraceSteps
<1>4. Append(f[n].trace, -1) \in Seq(Int) BY <1>3, AppendProperties DEF Traces
<1>5. Ended(f[n]) \in Traces(net) BY <1>3, <1>4 DEF Ended, Traces
<1> QED BY <1>1, <1>5

-----------------------------------------------------------------------------
(* The groups of a batch *)

Span == [base : Nat, width : Nat \ {0}]
End(s, j) == IF j = 0 THEN 0 ELSE s[j].base + s[j].width

\* Groups of n records, one behind the other.
Adjacent(s, n, W) ==
  s \in Seq(Span) /\ \A j \in 1 .. Len(s) : s[j].width \in W /\ s[j].base = End(s, j - 1) /\ End(s, j) <= n

LEMMA SpanFacts ==
  ASSUME NEW n \in Nat, NEW W, NEW s, Adjacent(s, n, W)
  PROVE  /\ Len(s) \in Nat /\ \A j \in 1 .. Len(s) : s[j] \in Span
         /\ \A j \in 0 .. Len(s) : End(s, j) \in 0 .. n
         /\ Done(s) = End(s, Len(s))
<1>1. s \in Seq(Span) BY DEF Adjacent
<1>2. Len(s) \in Nat /\ \A j \in 1 .. Len(s) : s[j] \in Span BY <1>1, LenProperties, ElementOfSeq
<1>3. ASSUME NEW j \in 0 .. Len(s) PROVE End(s, j) \in 0 .. n
  <2>1. CASE j = 0 BY <2>1 DEF End
  <2>2. CASE j # 0
    <3>1. j \in 1 .. Len(s) BY <1>2, <2>2
    <3>2. s[j].base \in Nat /\ s[j].width \in Nat BY <1>2, <3>1 DEF Span
    <3>3. End(s, j) <= n BY <3>1 DEF Adjacent
    <3> QED BY <2>2, <3>2, <3>3 DEF End
  <2> QED BY <2>1, <2>2
<1>4. Done(s) = End(s, Len(s))
  <2>1. CASE s = <<>>
    <3>1. Len(s) = 0 BY <2>1
    <3> QED BY <2>1, <3>1 DEF Done, End
  <2>2. CASE s # <<>>
    <3>1. Len(s) # 0 BY <1>1, <2>2, EmptySeq
    <3> QED BY <2>2, <3>1 DEF Done, End, Last
  <2> QED BY <2>1, <2>2
<1> QED BY <1>2, <1>3, <1>4

LEMMA TierAdjacent ==
  ASSUME NEW n \in Nat, NEW W, NEW s, Adjacent(s, n, W), NEW w \in Nat \ {0}, w \in W
  PROVE  Adjacent(Tier(s, n, w), n, W) /\ (w = 1 => Done(Tier(s, n, w)) = n)
<1> DEFINE d == Done(s)
           q == (n - d) \div w
           f == [k \in 1 .. q |-> [base |-> d + (k - 1) * w, width |-> w]]
           t == s \o f
           m == Len(s)
<1>1. /\ s \in Seq(Span) /\ m \in Nat /\ d = End(s, m) /\ d \in 0 .. n
      /\ \A j \in 1 .. m : s[j] \in Span
  <2>1. Len(s) \in 0 .. Len(s) BY SpanFacts
  <2> QED BY <2>1, SpanFacts DEF Adjacent
<1>2. q \in Nat /\ q * w <= n - d
  <2> DEFINE r == n - d
  <2>1. r \in Nat /\ w > 0 BY <1>1
  <2> HIDE DEF r, d
  <2>2. r \div w \in Nat /\ (r \div w) * w <= r BY <2>1, Division
  <2> QED BY <2>2 DEF r
<1>3. w = 1 => q = n - d
  <2> DEFINE r == n - d
  <2>1. r \in Nat BY <1>1
  <2>2. r \div 1 = r BY <2>1
  <2> QED BY <2>2
<1>4. \A k \in 0 .. q : k * w \in Nat /\ d + k * w <= n
  <2> TAKE k \in 0 .. q
  <2> HIDE DEF q, d
  <2>1. k * w \in Nat /\ k * w <= q * w BY <1>2, Monotone
  <2> DEFINE x == k * w
             y == q * w
  <2>2. x \in Nat /\ x <= y BY <2>1
  <2>3. y \in Int /\ y <= n - d /\ d \in Int /\ n \in Int BY <1>1, <1>2
  <2> HIDE DEF x, y
  <2>4. d + x <= n BY ONLY <2>2, <2>3
  <2> QED BY <2>2, <2>4 DEF x
<1>5. \A k \in 1 .. q : k - 1 \in 0 .. q /\ (k - 1) * w + w = k * w
  <2> HIDE DEF q
  <2> QED BY <1>2
<1>6. \A k \in 1 .. q : d + (k - 1) * w \in Nat /\ (d + (k - 1) * w) + w = d + k * w
  <2> HIDE DEF q, d
  <2> TAKE k \in 1 .. q
  <2>1. (k - 1) * w \in Nat /\ (k - 1) * w + w = k * w BY <1>4, <1>5
  <2> QED BY <1>1, <2>1
<1> HIDE DEF q, d
<1>7. f \in [1 .. q -> Span] /\ \A k \in 1 .. q : f[k] = [base |-> d + (k - 1) * w, width |-> w]
  BY <1>6 DEF Span
<1> HIDE DEF f
<1>8. f \in Seq(Span) /\ Len(f) = q BY <1>2, <1>7, MadeSeq
<1>9. /\ t \in Seq(Span) /\ Len(t) = m + q
      /\ \A j \in 1 .. m + q : t[j] = IF j <= m THEN s[j] ELSE f[j - m]
  BY <1>1, <1>8, ConcatProperties
<1> HIDE DEF t, m
<1>10. \A j \in 0 .. m : End(t, j) = End(s, j)
  <2> TAKE j \in 0 .. m
  <2>1. j # 0 => j \in 1 .. m + q /\ j <= m BY <1>1, <1>2
  <2>2. j # 0 => t[j] = s[j] BY <1>9, <2>1
  <2> QED BY <2>2 DEF End
<1>11. \A k \in 0 .. q : End(t, m + k) = d + k * w
  <2> TAKE k \in 0 .. q
  <2>1. CASE k = 0
    <3>1. End(t, m) = d BY <1>1, <1>10 DEF m
    <3>2. m + k = m /\ d + k * w = d BY <1>1, <2>1
    <3> QED BY <3>1, <3>2
  <2>2. CASE k # 0
    <3>1. k \in 1 .. q /\ m + k \in 1 .. m + q /\ ~(m + k <= m) /\ (m + k) - m = k /\ m + k # 0
      BY <1>1, <1>2, <2>2
    <3>2. t[m + k] = f[k] BY <1>9, <3>1
    <3>3. f[k] = [base |-> d + (k - 1) * w, width |-> w] BY <1>7, <3>1
    <3>4. End(t, m + k) = (d + (k - 1) * w) + w BY <3>1, <3>2, <3>3 DEF End
    <3> QED BY <1>6, <3>1, <3>4
  <2> QED BY <2>1, <2>2
<1>12. ASSUME NEW j \in 1 .. Len(t)
       PROVE  t[j].width \in W /\ t[j].base = End(t, j - 1) /\ End(t, j) <= n
  <2>1. CASE j <= m
    <3>1. t[j] = s[j] /\ j \in 1 .. m BY <1>1, <1>2, <1>9, <2>1
    <3>2. j \in 0 .. m /\ j - 1 \in 0 .. m BY <1>1, <3>1
    <3>3. End(t, j) = End(s, j) /\ End(t, j - 1) = End(s, j - 1) BY <1>10, <3>2
    <3> QED BY <3>1, <3>3 DEF Adjacent, m
  <2>2. CASE ~(j <= m)
    <3> DEFINE k == j - m
    <3>1. k \in 1 .. q /\ j = m + k /\ j - 1 = m + (k - 1) /\ k - 1 \in 0 .. q /\ k \in 0 .. q
      <4>1. j \in 1 .. m + q /\ m \in Nat /\ q \in Nat BY <1>1, <1>2, <1>9
      <4> QED BY ONLY <2>2, <4>1
    <3>2. t[j] = f[k] BY <1>1, <1>2, <1>9, <2>2
    <3> HIDE DEF k
    <3>3. t[j] = [base |-> d + (k - 1) * w, width |-> w] BY <1>7, <3>1, <3>2
    <3>4. End(t, j - 1) = d + (k - 1) * w /\ End(t, j) = d + k * w BY <1>11, <3>1
    <3> QED BY <1>4, <3>1, <3>3, <3>4
  <2> QED BY <2>1, <2>2
<1>13. Adjacent(t, n, W) BY <1>9, <1>12 DEF Adjacent
<1>14. ASSUME w = 1 PROVE Done(t) = n
  <2>1. Done(t) = End(t, Len(t)) BY <1>13, SpanFacts
  <2>2. q \in 0 .. q BY <1>2
  <2>3. End(t, m + q) = d + q * w BY <1>11, <2>2
  <2>4. q * w = n - d BY <1>1, <1>2, <1>3, <1>14
  <2> QED BY <1>1, <1>9, <2>1, <2>3, <2>4
<1>15. Tier(s, n, w) = t BY DEF Tier, t, f, q, d
<1> QED BY <1>13, <1>14, <1>15

\* Whatever the widths, if the last is 1 the groups are all of the batch.
LEMMA SpansCover ==
  ASSUME NEW n \in Nat, NEW W \in SUBSET (Nat \ {0}), NEW widths \in Seq(W),
         widths # <<>>, widths[Len(widths)] = 1
  PROVE  Adjacent(Spans(n, widths), n, W) /\ Done(Spans(n, widths)) = n
<1> DEFINE m == Len(widths)
           D == {s \in Seq(Span) : Adjacent(s, n, W)}
           z == <<>>
           E(t, s) == Tier(s, n, widths[t])
           tiers[t \in 0 .. m] == IF t = 0 THEN z ELSE E(t, tiers[t - 1])
           step == [p \in (1 .. m) \X D |-> E(p[1], p[2])]
<1>1. m \in Nat /\ m # 0 /\ \A t \in 1 .. m : widths[t] \in W /\ widths[t] \in Nat \ {0}
  BY LenProperties, ElementOfSeq, EmptySeq
<1>z. z \in D
  <2>1. <<>> \in Seq(Span) /\ Len(<<>>) = 0 BY EmptySeq
  <2>2. Adjacent(<<>>, n, W) BY <2>1 DEF Adjacent
  <2> QED BY <2>1, <2>2
<1>2. \A t \in 1 .. m : \A s \in D : E(t, s) \in D /\ (widths[t] = 1 => Done(E(t, s)) = n)
  <2> TAKE t \in 1 .. m
  <2> TAKE s \in D
  <2> DEFINE w == widths[t]
  <2>1. w \in Nat \ {0} /\ w \in W BY <1>1
  <2> HIDE DEF w
  <2>2. Adjacent(s, n, W) OBVIOUS
  <2>3. Adjacent(Tier(s, n, w), n, W) /\ (w = 1 => Done(Tier(s, n, w)) = n)
    BY <2>1, <2>2, TierAdjacent
  <2> QED BY <2>3 DEF w, Adjacent
<1> HIDE DEF E, D, z
<1>3. \A k \in 1 .. m : \A a \in D : step[<<k, a>>] = E(k, a) /\ step[<<k, a>>] \in D BY <1>2
<1> HIDE DEF step
<1>4. PICK g \in [0 .. m -> D] : StepsBy(g, m, z, step)
  <2> HIDE DEF m, tiers
  <2> QED BY <1>1, <1>z, <1>3, Recursion
<1>5. g[0] = z /\ \A k \in 1 .. m : g[k] = E(k, g[k - 1])
  <2>1. g[0] = z BY <1>4 DEF StepsBy
  <2>2. ASSUME NEW k \in 1 .. m PROVE g[k] = E(k, g[k - 1])
    <3>1. g[k - 1] \in D BY <1>1
    <3>2. g[k] = step[<<k, g[k - 1]>>] BY <1>4 DEF StepsBy
    <3> QED BY <1>3, <3>1, <3>2
  <2> QED BY <2>1, <2>2
<1>6. tiers = [t \in 0 .. m |-> IF t = 0 THEN z ELSE E(t, tiers[t - 1])]
  <2>1. g = [t \in 0 .. m |-> IF t = 0 THEN z ELSE E(t, g[t - 1])] BY <1>1, <1>5
  <2> QED BY <2>1 DEF tiers
<1> HIDE DEF tiers
<1>7. tiers = g
  <2> DEFINE T == {k \in 0 .. m : tiers[k] = g[k]}
  <2>1. 0 \in T BY <1>1, <1>5, <1>6
  <2>2. ASSUME NEW k \in 1 .. m, k - 1 \in T PROVE k \in T
    <3>0. k \in 0 .. m /\ k # 0 BY <1>1
    <3>1. tiers[k] = E(k, tiers[k - 1])
      <4> HIDE DEF m
      <4> QED BY <1>6, <3>0
    <3>2. g[k] = E(k, g[k - 1]) BY <1>5
    <3> QED BY <2>2, <3>0, <3>1, <3>2
  <2>3. 0 .. m \subseteq T
    <3> HIDE DEF T, m
    <3> QED BY <1>1, <2>1, <2>2, InductionUpTo
  <2> QED BY <1>6, <2>3
<1>8. Spans(n, widths) = tiers[m] BY DEF Spans, tiers, E, m, z
<1>9. g[m] \in D /\ g[m] = E(m, g[m - 1]) /\ g[m - 1] \in D
  <2>1. m \in 1 .. m /\ m \in 0 .. m /\ m - 1 \in 0 .. m BY <1>1
  <2> HIDE DEF m
  <2> QED BY <1>5, <2>1
<1>10. Done(g[m]) = n
  <2>1. m \in 1 .. m BY <1>1
  <2> QED BY <1>2, <1>9, <2>1
<1> QED BY <1>7, <1>8, <1>9, <1>10 DEF D

\* The rows of a group.
Slice(rows, span) == [l \in 1 .. span.width |-> rows[span.base + l]]

Gathers(out, rows, s) ==
  out[0] = <<>> /\ \A j \in 1 .. Len(s) : out[j] = out[j - 1] \o Slice(rows, s[j])

\* Groups one behind the other, each leaving its rows, leave all the rows.
LEMMA GroupsCover ==
  ASSUME NEW n \in Nat, NEW W, NEW s, Adjacent(s, n, W), Done(s) = n,
         NEW X, NEW rows \in [1 .. n -> X], NEW out, Gathers(out, rows, s)
  PROVE  out[Len(s)] = rows
<1> DEFINE m == Len(s)
           T == {j \in 0 .. m : out[j] = [k \in 1 .. End(s, j) |-> rows[k]]}
<1>1. /\ m \in Nat /\ \A j \in 1 .. m : s[j] \in Span
      /\ \A j \in 0 .. m : End(s, j) \in 0 .. n
      /\ End(s, m) = n
  BY SpanFacts
<1>2. 0 \in T
  <2>1. End(s, 0) = 0 BY DEF End
  <2>2. [k \in 1 .. 0 |-> rows[k]] = <<>>
    <3>1. \A k \in 1 .. 0 : rows[k] \in X OBVIOUS
    <3>2. [k \in 1 .. 0 |-> rows[k]] \in [1 .. 0 -> X] BY <3>1
    <3>3. [k \in 1 .. 0 |-> rows[k]] \in Seq(X) /\ Len([k \in 1 .. 0 |-> rows[k]]) = 0
      BY <3>2, MadeSeq
    <3> QED BY <3>3, EmptySeq
  <2> QED BY <1>1, <2>1, <2>2 DEF Gathers
<1>3. ASSUME NEW j \in 1 .. m, j - 1 \in T PROVE j \in T
  <2> DEFINE d == End(s, j - 1)
             w == s[j].width
             a == [k \in 1 .. d |-> rows[k]]
             b == [l \in 1 .. w |-> rows[d + l]]
  <2>1. j \in 0 .. m /\ j - 1 \in 0 .. m /\ j # 0 BY <1>1
  <2>2. s[j].base = d /\ w \in Nat \ {0} /\ d \in Nat BY <1>1, <2>1 DEF Adjacent, Span
  <2>3. End(s, j) = d + w BY <2>1, <2>2 DEF End
  <2>4. End(s, j) <= n BY <1>1, <2>1
  <2> HIDE DEF d, w
  <2>5. a \in [1 .. d -> X]
    <3>1. \A k \in 1 .. d : k \in 1 .. n BY <2>2, <2>3, <2>4
    <3> QED BY <3>1
  <2>6. b \in [1 .. w -> X]
    <3>1. \A l \in 1 .. w : d + l \in 1 .. n BY <2>2, <2>3, <2>4
    <3> QED BY <3>1
  <2>7. \A l \in 1 .. w : b[l] = rows[d + l] OBVIOUS
  <2>8. \A k \in 1 .. d : a[k] = rows[k] OBVIOUS
  <2>9. out[j] = a \o b BY <1>3, <2>2 DEF d, w, Slice, Gathers
  <2> HIDE DEF a, b
  <2>10. a \in Seq(X) /\ b \in Seq(X) /\ Len(a) = d /\ Len(b) = w BY <2>2, <2>5, <2>6, MadeSeq
  <2>11. /\ a \o b \in [1 .. d + w -> X]
         /\ \A k \in 1 .. d + w : (a \o b)[k] = IF k <= d THEN a[k] ELSE b[k - d]
    <3>1. /\ a \o b \in Seq(X) /\ Len(a \o b) = d + w
          /\ \A k \in 1 .. d + w : (a \o b)[k] = IF k <= d THEN a[k] ELSE b[k - d]
      BY <2>10, ConcatProperties
    <3> DEFINE c == a \o b
    <3>2. c \in Seq(X) /\ Len(c) = d + w BY <3>1
    <3> HIDE DEF c
    <3>3. c \in [1 .. Len(c) -> X] BY <3>2, SeqDef
    <3> QED BY <3>1, <3>2, <3>3 DEF c
  <2>12. \A k \in 1 .. d + w : (a \o b)[k] = rows[k]
    <3> TAKE k \in 1 .. d + w
    <3>1. CASE k <= d
      <4>1. k \in 1 .. d BY <2>2, <3>1
      <4> QED BY <2>8, <2>11, <3>1, <4>1
    <3>2. CASE ~(k <= d)
      <4>1. k - d \in 1 .. w /\ d + (k - d) = k BY <2>2, <3>2
      <4>2. b[k - d] = rows[d + (k - d)] BY <2>7, <4>1
      <4> QED BY <2>11, <3>2, <4>1, <4>2
    <3> QED BY <3>1, <3>2
  <2>13. a \o b = [k \in 1 .. d + w |-> rows[k]] BY <2>11, <2>12
  <2> QED BY <2>1, <2>3, <2>9, <2>13
<1>4. 0 .. m \subseteq T
  <2> HIDE DEF T, m
  <2> QED BY <1>1, <1>2, <1>3, InductionUpTo
<1>5. m \in T
  <2>1. m \in 0 .. m BY <1>1
  <2> QED BY <1>4, <2>1
<1>6. out[m] = [k \in 1 .. n |-> rows[k]] BY <1>1, <1>5
<1>7. [k \in 1 .. n |-> rows[k]] = rows OBVIOUS
<1> QED BY <1>6, <1>7

\* The records of a group.
LEMMA GroupIs ==
  ASSUME NEW X, NEW records \in Seq(X), NEW n, n = Len(records), NEW W, NEW s, Adjacent(s, n, W),
         NEW j \in 1 .. Len(s)
  PROVE  /\ Group(records, s[j]) \in Seq(X) /\ Len(Group(records, s[j])) = s[j].width
         /\ \A l \in 1 .. s[j].width :
              /\ s[j].base + l \in 1 .. n
              /\ Group(records, s[j])[l] = records[s[j].base + l]
         /\ s[j].width \in W /\ s[j].width \in Nat \ {0}
<1> DEFINE b == s[j].base
           w == s[j].width
<1>1. n \in Nat BY LenProperties
<1>2. b \in Nat /\ w \in Nat \ {0} /\ w \in W /\ b + w <= n
  <2>1. s[j] \in Span /\ Len(s) \in Nat BY <1>1, SpanFacts
  <2>2. End(s, j) = b + w BY <2>1 DEF End
  <2> QED BY <2>1, <2>2 DEF Span, Adjacent
<1> HIDE DEF b, w
<1>3. \A i \in b + 1 .. b + w : records[i] \in X BY <1>1, <1>2, ElementOfSeq
<1> DEFINE g == SubSeq(records, b + 1, b + w)
<1>4. /\ g \in Seq(X)
      /\ Len(g) = IF b + 1 <= b + w THEN (b + w) - (b + 1) + 1 ELSE 0
      /\ \A i \in 1 .. (b + w) - (b + 1) + 1 : g[i] = records[(b + 1) + i - 1]
  <2> DEFINE lo == b + 1
             hi == b + w
  <2>1. lo \in Int /\ hi \in Int /\ \A i \in lo .. hi : records[i] \in X BY <1>2, <1>3
  <2> HIDE DEF lo, hi
  <2>2. /\ SubSeq(records, lo, hi) \in Seq(X)
        /\ Len(SubSeq(records, lo, hi)) = IF lo <= hi THEN hi - lo + 1 ELSE 0
        /\ \A i \in 1 .. hi - lo + 1 : SubSeq(records, lo, hi)[i] = records[lo + i - 1]
    BY <2>1, SubSeqProperties
  <2> QED BY <2>2 DEF lo, hi
<1>5. Len(g) = w BY <1>2, <1>4
<1>6. \A l \in 1 .. w : b + l \in 1 .. n /\ g[l] = records[b + l]
  <2> TAKE l \in 1 .. w
  <2>1. b + l \in 1 .. n /\ (b + 1) + l - 1 = b + l /\ l \in 1 .. (b + w) - (b + 1) + 1 BY <1>1, <1>2
  <2>2. g[l] = records[(b + 1) + l - 1] BY <1>4, <2>1
  <2> QED BY <2>1, <2>2
<1>7. Group(records, s[j]) = g BY DEF Group, b, w
<1> HIDE DEF g
<1> QED BY <1>2, <1>4, <1>5, <1>6, <1>7 DEF b, w

Answers(net, acts, group) ==
  \A l \in 1 .. Len(group) : Outputs(net, acts[l]) = Lone(net, group[l])

LEMMA AcrossIs ==
  ASSUME NEW net, IsNetwork(net), ForwardOnly(net), NEW L \in Nat,
         NEW acts \in [1 .. L -> Acts(net)], NEW group \in Seq(Seq(Int)), Len(group) <= L
  PROVE  /\ Across(net, acts, group) \in [1 .. L -> Acts(net)]
         /\ Answers(net, Across(net, acts, group), group)
<1> DEFINE p(l) == Pass(net, Load(net, acts[l], group[l]))
<1>1. Len(acts) = L /\ Len(group) \in Nat BY MadeSeq, LenProperties
<1>2. \A l \in 1 .. Len(group) : p(l) \in Acts(net) /\ Outputs(net, p(l)) = Lone(net, group[l])
  <2> TAKE l \in 1 .. Len(group)
  <2>1. acts[l] \in Acts(net) /\ group[l] \in Seq(Int) BY <1>1, ElementOfSeq
  <2> QED BY <2>1, LoneAnswer
<1> HIDE DEF p
<1>3. Across(net, acts, group) = [l \in 1 .. L |-> IF l <= Len(group) THEN p(l) ELSE acts[l]]
  BY <1>1 DEF Across, p
<1>4. \A l \in 1 .. L : l <= Len(group) => l \in 1 .. Len(group) BY <1>1
<1>5. Across(net, acts, group) \in [1 .. L -> Acts(net)] BY <1>2, <1>3, <1>4
<1>6. \A l \in 1 .. Len(group) : l \in 1 .. L /\ l <= Len(group) BY <1>1
<1>7. \A l \in 1 .. Len(group) : Across(net, acts, group)[l] = p(l) BY <1>3, <1>6
<1> QED BY <1>2, <1>5, <1>7 DEF Answers

\* A buffer that holds B lanes.
Interleaved(net, B) == [1 .. NodeCount(net) * B -> Int]

LEMMA LaneTyped ==
  ASSUME NEW net, IsNetwork(net), NEW B \in Nat, NEW inter \in Interleaved(net, B),
         NEW R \in Nat, R <= B, NEW l \in 1 .. R
  PROVE  LaneOf(net, inter, R, l) \in Acts(net)
<1> DEFINE N == NodeCount(net)
<1>1. N \in Nat BY NetworkFacts
<1> HIDE DEF N
<1>2. \A i \in 1 .. N : (i - 1) * R + l \in 1 .. N * B
  <2> TAKE i \in 1 .. N
  <2>1. i - 1 \in Nat /\ i \in Nat /\ i <= N BY <1>1
  <2>2. (i - 1) * R \in Nat /\ i * R \in Nat /\ N * R \in Nat /\ i * R <= N * R
    BY <1>1, <2>1, Monotone
  <2>3. i * R = (i - 1) * R + R BY <2>1
  <2>4. R * N <= B * N /\ R * N \in Nat /\ B * N \in Nat BY <1>1, Monotone
  <2>5. R * N = N * R /\ B * N = N * B BY <1>1
  <2> DEFINE p == (i - 1) * R
             q == i * R
             u == N * R
             v == N * B
  <2>6. p \in Nat /\ q \in Nat /\ u \in Nat /\ v \in Nat /\ q = p + R /\ q <= u /\ u <= v
    BY <2>2, <2>3, <2>4, <2>5
  <2> HIDE DEF p, q, u, v
  <2>7. p + l \in 1 .. v BY <2>6
  <2> QED BY <2>7 DEF p, v
<1>3. \A i \in 1 .. N : inter[(i - 1) * R + l] \in Int BY <1>2 DEF Interleaved, N
<1> QED BY <1>3 DEF LaneOf, Acts, N

LEMMA PutLanesTyped ==
  ASSUME NEW net, IsNetwork(net), NEW B \in Nat, NEW inter \in Interleaved(net, B),
         NEW R \in Nat \ {0}, NEW lanes \in [1 .. R -> Acts(net)]
  PROVE  PutLanes(inter, lanes) \in Interleaved(net, B)
<1> DEFINE N == NodeCount(net)
           D == 1 .. N * B
<1>1. N \in Nat BY NetworkFacts
<1>2. Len(lanes) = R /\ Len(lanes[1]) = N
  <2>1. lanes[1] \in Acts(net) OBVIOUS
  <2> QED BY <2>1, ActsLen, MadeSeq
<1>3. Len(inter) = N * B
  <2>1. N * B \in Nat BY <1>1
  <2> QED BY <2>1, MadeSeq DEF Interleaved
<1>4. PutLanes(inter, lanes) =
        [p \in D |-> IF p <= R * N THEN lanes[((p - 1) % R) + 1][((p - 1) \div R) + 1] ELSE inter[p]]
  BY <1>2, <1>3 DEF PutLanes
<1>5. inter \in [D -> Int] BY DEF Interleaved
<1>6. ASSUME NEW p \in D, p <= R * N
      PROVE  lanes[((p - 1) % R) + 1][((p - 1) \div R) + 1] \in Int
  <2> DEFINE x == p - 1
             q == x \div R
  <2>1. x \in Nat /\ R \in Nat /\ R > 0 /\ x < R * N
    <3>1. p \in Nat /\ p >= 1 BY <1>6
    <3>2. R * N \in Nat BY <1>1
    <3> QED BY <1>6, <3>1, <3>2
  <2> HIDE DEF x
  <2>2. x % R \in 0 .. R - 1 BY <2>1
  <2>3. q \in Nat /\ q * R <= x BY <2>1, Division
  <2>4. q < N
    <3> SUFFICES ASSUME N <= q PROVE FALSE BY <1>1, <2>3
    <3>1. N * R <= q * R /\ N * R \in Nat /\ q * R \in Nat
      <4> HIDE DEF q, N
      <4> QED BY <1>1, <2>3, Monotone
    <3>2. N * R = R * N BY <1>1
    <3> HIDE DEF q, N
    <3> QED BY <2>1, <2>3, <3>1, <3>2
  <2> HIDE DEF q
  <2>5. (x % R) + 1 \in 1 .. R /\ q + 1 \in 1 .. N BY <1>1, <2>2, <2>3, <2>4
  <2>6. lanes[(x % R) + 1] \in Acts(net) BY <2>5
  <2>7. lanes[(x % R) + 1][q + 1] \in Int BY <2>5, <2>6 DEF Acts, N
  <2> QED BY <2>7 DEF x, q
<1> HIDE DEF D
<1>7. \A p \in D : (IF p <= R * N THEN lanes[((p - 1) % R) + 1][((p - 1) \div R) + 1] ELSE inter[p]) \in Int
  BY <1>5, <1>6
<1>8. PutLanes(inter, lanes) \in [D -> Int] BY <1>4, <1>7
<1> QED BY <1>8 DEF Interleaved, D, N

LEMMA RunInterleavedIs ==
  ASSUME NEW net, IsNetwork(net), ForwardOnly(net), ~HasAggregateSquash(net),
         NEW B \in Nat, NEW inter \in Interleaved(net, B),
         NEW group \in Seq(Seq(Int)), Len(group) <= B, Len(group) # 0
  PROVE  /\ RunInterleaved(net, inter, group) \in [1 .. Len(group) -> Acts(net)]
         /\ Answers(net, RunInterleaved(net, inter, group), group)
         /\ PutLanes(inter, RunInterleaved(net, inter, group)) \in Interleaved(net, B)
<1> DEFINE R == Len(group)
           lane(l) == LaneOf(net, inter, R, l)
           run(l) == SumsPass(net, Load(net, lane(l), group[l]))
<1>1. R \in Nat \ {0} BY LenProperties
<1>2. \A l \in 1 .. R : lane(l) \in Acts(net) /\ group[l] \in Seq(Int)
  <2> TAKE l \in 1 .. R
  <2>1. group[l] \in Seq(Int) BY ElementOfSeq
  <2>2. lane(l) \in Acts(net)
    <3> HIDE DEF R
    <3>1. R <= B BY DEF R
    <3> QED BY <1>1, <3>1, LaneTyped
  <2> QED BY <2>1, <2>2
<1> HIDE DEF lane
<1>3. \A l \in 1 .. R : run(l) \in Acts(net) /\ Outputs(net, run(l)) = Lone(net, group[l])
  <2> TAKE l \in 1 .. R
  <2>1. Load(net, lane(l), group[l]) \in Acts(net) BY <1>2, LoadTyped
  <2>2. run(l) = Pass(net, Load(net, lane(l), group[l])) BY <2>1, SumsPassIsPass
  <2> QED BY <1>2, <2>2, LoneAnswer
<1>4. RunInterleaved(net, inter, group) = [l \in 1 .. R |-> run(l)] BY DEF RunInterleaved, run, lane, R
<1> HIDE DEF run
<1>5. RunInterleaved(net, inter, group) \in [1 .. R -> Acts(net)] BY <1>3, <1>4
<1>6. Answers(net, RunInterleaved(net, inter, group), group) BY <1>3, <1>4 DEF Answers
<1> DEFINE lanes == RunInterleaved(net, inter, group)
<1>7. lanes \in [1 .. R -> Acts(net)] BY <1>5
<1> HIDE DEF lanes, R
<1>8. PutLanes(inter, lanes) \in Interleaved(net, B) BY <1>1, <1>7, PutLanesTyped
<1> QED BY <1>5, <1>6, <1>8 DEF lanes, R

LEMMA OutputsTyped ==
  ASSUME NEW net, IsNetwork(net), NEW act \in Acts(net)
  PROVE  Outputs(net, act) \in Seq(Int) /\ Len(Outputs(net, act)) = net.outputs
<1> DEFINE n == NodeCount(net)
           lo == n - net.outputs + 1
<1>1. n \in Nat /\ net.outputs \in 1 .. n BY NetworkFacts
<1>2. Len(act) = n BY ActsLen
<1>3. lo \in Int /\ \A i \in lo .. n : act[i] \in Int
  <2>1. \A i \in lo .. n : i \in 1 .. n BY <1>1
  <2> QED BY <1>1, <2>1 DEF Acts
<1>4. lo <= n => n - lo + 1 = net.outputs BY <1>1
<1>5. ~(lo <= n) => net.outputs = 0 BY <1>1
<1> HIDE DEF lo, n
<1>6. /\ SubSeq(act, lo, n) \in Seq(Int)
      /\ Len(SubSeq(act, lo, n)) = IF lo <= n THEN n - lo + 1 ELSE 0
  BY <1>1, <1>3, SubSeqProperties
<1>7. Outputs(net, act) = SubSeq(act, lo, n) BY <1>2 DEF Outputs, lo
<1> QED BY <1>4, <1>5, <1>6, <1>7

LEMMA LoneTyped ==
  ASSUME NEW net, IsNetwork(net), NEW x \in Seq(Int)
  PROVE  Lone(net, x) \in Seq(Int) /\ Len(Lone(net, x)) = net.outputs
<1>1. Load(net, Zeros(net), x) \in Acts(net) BY ZerosTyped, LoadTyped
<1>2. Pass(net, Load(net, Zeros(net), x)) \in Acts(net) BY <1>1, PassTyped
<1> QED BY <1>2, OutputsTyped DEF Lone

\* What a fresh network answers each record of a batch.
Rows(net, records) == [k \in 1 .. Len(records) |-> Lone(net, records[k])]

LEMMA RowsTyped ==
  ASSUME NEW net, IsNetwork(net), NEW records \in Seq(Seq(Int))
  PROVE  /\ Len(records) \in Nat
         /\ Rows(net, records) \in [1 .. Len(records) -> Seq(Int)]
         /\ Rows(net, records) \in Seq(Seq(Int)) /\ Len(Rows(net, records)) = Len(records)
<1>1. Len(records) \in Nat /\ \A k \in 1 .. Len(records) : records[k] \in Seq(Int)
  BY LenProperties, ElementOfSeq
<1>2. \A k \in 1 .. Len(records) : Lone(net, records[k]) \in Seq(Int) BY <1>1, LoneTyped
<1>3. Rows(net, records) \in [1 .. Len(records) -> Seq(Int)] BY <1>2 DEF Rows
<1> QED BY <1>1, <1>3, MadeSeq

-----------------------------------------------------------------------------
(* Record scoring *)

Scratches(net) == [acts : [1 .. Lanes -> Acts(net)], inter : Interleaved(net, Lanes)]
Scorings(net) == [scratch : Scratches(net), out : Seq(Seq(Int))]

LEMMA LaneWidths == Quad \in Nat \ {0} /\ Lanes \in Nat \ {0} /\ Quad < Lanes
BY WidthsAssumption

LEMMA ScratchTyped ==
  ASSUME NEW net, IsNetwork(net)
  PROVE  BatchScratch(net) \in Scratches(net)
<1>1. [l \in 1 .. Lanes |-> Zeros(net)] \in [1 .. Lanes -> Acts(net)] BY ZerosTyped
<1>2. [p \in 1 .. NodeCount(net) * Lanes |-> 0] \in Interleaved(net, Lanes) BY DEF Interleaved
<1> QED BY <1>1, <1>2 DEF BatchScratch, Scratches

LEMMA AnswersRows ==
  ASSUME NEW net, NEW acts, NEW group, Answers(net, acts, group)
  PROVE  [l \in 1 .. Len(group) |-> Outputs(net, acts[l])] = Rows(net, group)
BY DEF Answers, Rows

LEMMA PerLaneGroupIs ==
  ASSUME NEW net, IsNetwork(net), ForwardOnly(net), NEW state \in Scorings(net),
         NEW group \in Seq(Seq(Int)), Len(group) <= Lanes
  PROVE  /\ PerLaneGroup(net, state, group) \in Scorings(net)
         /\ PerLaneGroup(net, state, group).out = state.out \o Rows(net, group)
<1> DEFINE acts == Across(net, state.scratch.acts, group)
           out == [l \in 1 .. Len(group) |-> Outputs(net, acts[l])]
<1>1. /\ state.scratch \in Scratches(net) /\ state.out \in Seq(Seq(Int))
      /\ state.scratch.acts \in [1 .. Lanes -> Acts(net)]
      /\ state.scratch.inter \in Interleaved(net, Lanes)
  BY DEF Scorings, Scratches
<1>2. acts \in [1 .. Lanes -> Acts(net)] /\ Answers(net, acts, group)
  <2> DEFINE a == state.scratch.acts
             L == Lanes
  <2>1. a \in [1 .. L -> Acts(net)] /\ L \in Nat /\ Len(group) <= L BY <1>1, LaneWidths
  <2> HIDE DEF a, L
  <2>2. /\ Across(net, a, group) \in [1 .. L -> Acts(net)]
        /\ Answers(net, Across(net, a, group), group)
    BY <2>1, AcrossIs
  <2> QED BY <2>2 DEF a, L
<1> HIDE DEF acts
<1>3. out = Rows(net, group) BY <1>2, AnswersRows
<1> HIDE DEF out
<1>4. state.out \o Rows(net, group) \in Seq(Seq(Int)) BY <1>1, RowsTyped, ConcatProperties
<1>5. [state.scratch EXCEPT !.acts = acts] \in Scratches(net) BY <1>1, <1>2 DEF Scratches
<1>6. PerLaneGroup(net, state, group) =
        [scratch |-> [state.scratch EXCEPT !.acts = acts], out |-> state.out \o out]
  BY DEF PerLaneGroup, acts, out
<1> QED BY <1>3, <1>4, <1>5, <1>6 DEF Scorings

LEMMA InterleavedGroupIs ==
  ASSUME NEW net, IsNetwork(net), ForwardOnly(net), ~HasAggregateSquash(net),
         NEW state \in Scorings(net), NEW group \in Seq(Seq(Int)), Len(group) <= Lanes
  PROVE  /\ InterleavedGroup(net, state, group) \in Scorings(net)
         /\ InterleavedGroup(net, state, group).out = state.out \o Rows(net, group)
<1>1. Len(group) \in Nat /\ Lanes \in Nat \ {0} BY LenProperties, LaneWidths
<1>2. CASE Len(group) < Lanes BY <1>2, PerLaneGroupIs DEF InterleavedGroup
<1>3. CASE ~(Len(group) < Lanes)
  <2> DEFINE lanes == RunInterleaved(net, state.scratch.inter, group)
             out == [l \in 1 .. Lanes |-> Outputs(net, lanes[l])]
             inter == PutLanes(state.scratch.inter, lanes)
  <2>1. /\ state.scratch \in Scratches(net) /\ state.out \in Seq(Seq(Int))
        /\ state.scratch.inter \in Interleaved(net, Lanes)
    BY DEF Scorings, Scratches
  <2>2. Len(group) = Lanes /\ Len(group) # 0 BY <1>1, <1>3
  <2>3. Answers(net, lanes, group) /\ inter \in Interleaved(net, Lanes)
    <3> DEFINE a == state.scratch.inter
               B == Lanes
    <3>1. a \in Interleaved(net, B) /\ B \in Nat /\ Len(group) <= B BY <1>1, <2>1
    <3> HIDE DEF a, B
    <3>2. /\ Answers(net, RunInterleaved(net, a, group), group)
          /\ PutLanes(a, RunInterleaved(net, a, group)) \in Interleaved(net, B)
      BY <2>2, <3>1, RunInterleavedIs
    <3> QED BY <3>2 DEF a, B
  <2> HIDE DEF lanes
  <2>4. out = Rows(net, group) BY <2>2, <2>3, AnswersRows
  <2>5. InterleavedGroup(net, state, group) =
          [scratch |-> [state.scratch EXCEPT !.inter = inter], out |-> state.out \o out]
    BY <1>3 DEF InterleavedGroup, lanes
  <2> HIDE DEF out, inter
  <2>6. state.out \o Rows(net, group) \in Seq(Seq(Int)) BY <2>1, RowsTyped, ConcatProperties
  <2>7. [state.scratch EXCEPT !.inter = inter] \in Scratches(net) BY <2>1, <2>3 DEF Scratches
  <2> QED BY <2>4, <2>5, <2>6, <2>7 DEF Scorings
<1> QED BY <1>2, <1>3

LEMMA GroupRows ==
  ASSUME NEW net, NEW records \in Seq(Seq(Int)), NEW n, n = Len(records), NEW W, NEW s,
         Adjacent(s, n, W), NEW j \in 1 .. Len(s)
  PROVE  Rows(net, Group(records, s[j])) = Slice(Rows(net, records), s[j])
<1> DEFINE g == Group(records, s[j])
           w == s[j].width
           b == s[j].base
<1>1. /\ Len(g) = w
      /\ \A l \in 1 .. w : b + l \in 1 .. n /\ g[l] = records[b + l]
  BY GroupIs
<1> HIDE DEF g, w, b
<1>2. \A l \in 1 .. w : Rows(net, records)[b + l] = Lone(net, g[l]) BY <1>1 DEF Rows
<1>3. Rows(net, g) = [l \in 1 .. w |-> Rows(net, records)[b + l]] BY <1>1, <1>2 DEF Rows
<1> QED BY <1>3 DEF g, w, b, Slice

\* Each step of a loop over the groups leaves the rows of its own.
Leaves(step, D, net, records, s) ==
  \A j \in 1 .. Len(s) : \A x \in D :
    /\ step[<<j, x>>] \in D
    /\ step[<<j, x>>].out = x.out \o Rows(net, Group(records, s[j]))

\* A loop over the groups of a batch whose step leaves the rows of its group.
LEMMA GroupLoop ==
  ASSUME NEW net, IsNetwork(net), NEW records \in Seq(Seq(Int)), NEW n, n = Len(records),
         NEW W, NEW s, Adjacent(s, n, W), Done(s) = n,
         NEW D, NEW z \in D, z.out = <<>>, NEW step,
         Leaves(step, D, net, records, s)
  PROVE  \E g \in [0 .. Len(s) -> D] :
           StepsBy(g, Len(s), z, step) /\ g[Len(s)].out = Rows(net, records)
<1>0. \A j \in 1 .. Len(s) : Rows(net, Group(records, s[j])) = Slice(Rows(net, records), s[j])
  BY GroupRows
<1> DEFINE m == Len(s)
           rows == Rows(net, records)
<1>1. n \in Nat /\ m \in Nat /\ rows \in [1 .. n -> Seq(Int)] BY RowsTyped, SpanFacts
<1>2. PICK g \in [0 .. m -> D] : StepsBy(g, m, z, step)
  <2> HIDE DEF m, rows
  <2>1. \A k \in 1 .. m : \A x \in D : step[<<k, x>>] \in D BY DEF m, Leaves
  <2> QED BY <1>1, <2>1, Recursion
<1> DEFINE out == [j \in 0 .. m |-> g[j].out]
<1>3. out[0] = <<>> BY <1>1, <1>2 DEF StepsBy
<1>4. ASSUME NEW j \in 1 .. m
      PROVE  out[j] = out[j - 1] \o Slice(rows, s[j])
  <2>1. j \in 0 .. m /\ j - 1 \in 0 .. m BY <1>1
  <2>2. g[j - 1] \in D BY <2>1
  <2>3. g[j] = step[<<j, g[j - 1]>>] BY <1>2 DEF StepsBy
  <2>4. g[j].out = g[j - 1].out \o Rows(net, Group(records, s[j])) BY <2>2, <2>3 DEF Leaves
  <2>5. Rows(net, Group(records, s[j])) = Slice(rows, s[j])
    BY <1>0
  <2> QED BY <2>1, <2>4, <2>5
<1>5. out[m] = rows
  <2> DEFINE X == Seq(Int)
  <2>1. rows \in [1 .. n -> X] BY <1>1
  <2> HIDE DEF out, rows, X
  <2>2. \A j \in 1 .. Len(s) : out[j] = out[j - 1] \o Slice(rows, s[j])
    BY <1>4
  <2>3. Gathers(out, rows, s) BY <1>3, <2>2 DEF Gathers
  <2>4. out[Len(s)] = rows BY <1>1, <2>1, <2>3, GroupsCover
  <2> QED BY <2>4
<1>6. m \in 0 .. m BY <1>1
<1> QED BY <1>2, <1>5, <1>6

TakesSteps(f, m, D, step) == \A j \in 1 .. m : f[j - 1] \in D => f[j] = step[<<j, f[j - 1]>>]
OnSteps(f, m) == f = [j \in 0 .. m |-> f[j]]

\* A function that makes the steps of g is g.
LEMMA SameSteps ==
  ASSUME NEW D, NEW m \in Nat, NEW z, NEW step, NEW g \in [0 .. m -> D], StepsBy(g, m, z, step),
         NEW f, OnSteps(f, m), f[0] = z,
         TakesSteps(f, m, D, step)
  PROVE  f = g
<1> DEFINE T == {j \in 0 .. m : f[j] = g[j]}
<1>1. 0 \in T BY DEF StepsBy
<1>2. ASSUME NEW j \in 1 .. m, j - 1 \in T PROVE j \in T
  <2>1. j \in 0 .. m /\ j - 1 \in 0 .. m OBVIOUS
  <2>2. g[j] = step[<<j, g[j - 1]>>] BY DEF StepsBy
  <2>3. f[j - 1] = g[j - 1] /\ g[j - 1] \in D BY <1>2, <2>1
  <2>4. f[j] = step[<<j, f[j - 1]>>] BY <2>3 DEF TakesSteps
  <2> QED BY <2>1, <2>2, <2>3, <2>4
<1>3. 0 .. m \subseteq T
  <2> HIDE DEF T
  <2> QED BY <1>1, <1>2, InductionUpTo
<1>4. g = [j \in 0 .. m |-> g[j]] OBVIOUS
<1>5. \A j \in 0 .. m : f[j] = g[j] BY <1>3
<1>6. [j \in 0 .. m |-> f[j]] = [j \in 0 .. m |-> g[j]] BY <1>5
<1> QED BY <1>4, <1>6 DEF OnSteps

LEMMA ScorePerLaneIs ==
  ASSUME NEW net, IsNetwork(net), ForwardOnly(net), NEW scratch \in Scratches(net),
         NEW records \in Seq(Seq(Int))
  PROVE  /\ ScorePerLane(net, scratch, records) \in Scorings(net)
         /\ ScorePerLane(net, scratch, records).out = Rows(net, records)
<1> DEFINE n == Len(records)
           W == {Lanes, Quad, 1}
           s == Spans(n, <<Lanes, Quad, 1>>)
           m == Len(s)
           D == Scorings(net)
           z == [scratch |-> scratch, out |-> <<>>]
           reads == records
           E(j, state) == PerLaneGroup(net, state, Group(records, s[j]))
           after[j \in 0 .. m] == IF j = 0 THEN z ELSE E(j, after[j - 1])
           step == [p \in (1 .. m) \X D |-> E(p[1], p[2])]
<1>1. n \in Nat /\ n = Len(reads) /\ reads \in Seq(Seq(Int)) BY LenProperties
<1> HIDE DEF reads
<1>2. Adjacent(s, n, W) /\ Done(s) = n
  <2> DEFINE widths == <<Lanes, Quad, 1>>
  <2>1. W \in SUBSET (Nat \ {0}) BY LaneWidths
  <2>2. widths \in Seq(W) /\ widths # <<>> /\ widths[Len(widths)] = 1 OBVIOUS
  <2> HIDE DEF widths, W
  <2>3. Adjacent(Spans(n, widths), n, W) /\ Done(Spans(n, widths)) = n
    BY <1>1, <2>1, <2>2, SpansCover
  <2> QED BY <2>3 DEF widths
<1>3. m \in Nat BY <1>1, <1>2, SpanFacts
<1>4. z \in D /\ z.out = <<>> BY EmptySeq DEF Scorings
<1>5. \A j \in 1 .. m : \A x \in D :
        E(j, x) \in D /\ E(j, x).out = x.out \o Rows(net, Group(reads, s[j]))
  <2> TAKE j \in 1 .. m
  <2> TAKE x \in D
  <2> DEFINE group == Group(reads, s[j])
  <2>1. group \in Seq(Seq(Int)) /\ Len(group) \in W
    <3> DEFINE X == Seq(Int)
    <3>1. reads \in Seq(X) BY <1>1
    <3> HIDE DEF W, s, X, n
    <3>2. /\ Group(reads, s[j]) \in Seq(X) /\ Len(Group(reads, s[j])) = s[j].width
          /\ s[j].width \in W
      BY <1>1, <1>2, <3>1, GroupIs
    <3> QED BY <3>2 DEF X
  <2> HIDE DEF group, s
  <2>2. Len(group) <= Lanes
    <3>1. \A w \in W : w <= Lanes BY LaneWidths DEF W
    <3> QED BY <2>1, <3>1
  <2>3. PerLaneGroup(net, x, group) \in Scorings(net) /\ PerLaneGroup(net, x, group).out = x.out \o Rows(net, group)
    BY <2>1, <2>2, PerLaneGroupIs
  <2> QED BY <2>3 DEF group, reads
<1> HIDE DEF E, D, z, W
<1>6. \A j \in 1 .. m : \A x \in D : step[<<j, x>>] = E(j, x) OBVIOUS
<1> HIDE DEF step
<1>7. PICK g \in [0 .. m -> D] : StepsBy(g, m, z, step) /\ g[m].out = Rows(net, reads)
  <2> HIDE DEF s, after
  <2>1. Leaves(step, D, net, reads, s) BY <1>5, <1>6 DEF Leaves
  <2> HIDE DEF n, m
  <2>2. \E g \in [0 .. Len(s) -> D] :
           StepsBy(g, Len(s), z, step) /\ g[Len(s)].out = Rows(net, reads)
    BY <1>1, <1>2, <1>4, <2>1, GroupLoop
  <2> QED BY <2>2 DEF m
<1> HIDE DEF s
<1>8. \A j \in 1 .. m : g[j] = E(j, g[j - 1])
  <2> TAKE j \in 1 .. m
  <2> HIDE DEF m
  <2>1. j - 1 \in 0 .. m BY <1>3
  <2> QED BY <1>6, <1>7, <2>1 DEF StepsBy
<1>9. after = [j \in 0 .. m |-> IF j = 0 THEN z ELSE E(j, after[j - 1])]
  <2>1. g = [j \in 0 .. m |-> IF j = 0 THEN z ELSE E(j, g[j - 1])]
    <3> HIDE DEF m
    <3>1. g[0] = z /\ g = [j \in 0 .. m |-> g[j]] BY <1>7 DEF StepsBy
    <3>2. \A j \in 0 .. m : j = 0 \/ j \in 1 .. m BY <1>3
    <3>3. \A j \in 0 .. m : g[j] = IF j = 0 THEN z ELSE E(j, g[j - 1]) BY <1>8, <3>1, <3>2
    <3> QED BY <3>1, <3>3
  <2> QED BY <2>1 DEF after
<1> HIDE DEF after
<1>10. after = g
  <2> HIDE DEF m
  <2>1. \A j \in 1 .. m : j \in 0 .. m /\ j # 0 BY <1>3
  <2>2. \A j \in 1 .. m : after[j] = E(j, after[j - 1]) BY <1>9, <2>1
  <2>3. after[0] = z /\ OnSteps(after, m) BY <1>3, <1>9 DEF OnSteps
  <2>4. TakesSteps(after, m, D, step) BY <1>6, <2>2 DEF TakesSteps
  <2>5. StepsBy(g, m, z, step) /\ g \in [0 .. m -> D] BY <1>7
  <2> QED BY <1>3, <2>3, <2>4, <2>5, SameSteps
<1>11. ScorePerLane(net, scratch, records) = after[m]
  BY DEF ScorePerLane, after, E, z, m, s, n, reads
<1>12. g[m] \in D
  <2> HIDE DEF m
  <2>1. m \in 0 .. m BY <1>3
  <2> QED BY <2>1
<1> QED BY <1>7, <1>10, <1>11, <1>12 DEF D, reads

LEMMA ScoreInterleavedIs ==
  ASSUME NEW net, IsNetwork(net), ForwardOnly(net), ~HasAggregateSquash(net),
         NEW scratch \in Scratches(net),
         NEW records \in Seq(Seq(Int))
  PROVE  /\ ScoreInterleaved(net, scratch, records) \in Scorings(net)
         /\ ScoreInterleaved(net, scratch, records).out = Rows(net, records)
<1> DEFINE n == Len(records)
           W == {Lanes, 1}
           s == Spans(n, <<Lanes, 1>>)
           m == Len(s)
           D == Scorings(net)
           z == [scratch |-> scratch, out |-> <<>>]
           reads == records
           E(j, state) == InterleavedGroup(net, state, Group(records, s[j]))
           after[j \in 0 .. m] == IF j = 0 THEN z ELSE E(j, after[j - 1])
           step == [p \in (1 .. m) \X D |-> E(p[1], p[2])]
<1>1. n \in Nat /\ n = Len(reads) /\ reads \in Seq(Seq(Int)) BY LenProperties
<1> HIDE DEF reads
<1>2. Adjacent(s, n, W) /\ Done(s) = n
  <2> DEFINE widths == <<Lanes, 1>>
  <2>1. W \in SUBSET (Nat \ {0}) BY LaneWidths
  <2>2. widths \in Seq(W) /\ widths # <<>> /\ widths[Len(widths)] = 1 OBVIOUS
  <2> HIDE DEF widths, W
  <2>3. Adjacent(Spans(n, widths), n, W) /\ Done(Spans(n, widths)) = n
    BY <1>1, <2>1, <2>2, SpansCover
  <2> QED BY <2>3 DEF widths
<1>3. m \in Nat BY <1>1, <1>2, SpanFacts
<1>4. z \in D /\ z.out = <<>> BY EmptySeq DEF Scorings
<1>5. \A j \in 1 .. m : \A x \in D :
        E(j, x) \in D /\ E(j, x).out = x.out \o Rows(net, Group(reads, s[j]))
  <2> TAKE j \in 1 .. m
  <2> TAKE x \in D
  <2> DEFINE group == Group(reads, s[j])
  <2>1. group \in Seq(Seq(Int)) /\ Len(group) \in W
    <3> DEFINE X == Seq(Int)
    <3>1. reads \in Seq(X) BY <1>1
    <3> HIDE DEF W, s, X, n
    <3>2. /\ Group(reads, s[j]) \in Seq(X) /\ Len(Group(reads, s[j])) = s[j].width
          /\ s[j].width \in W
      BY <1>1, <1>2, <3>1, GroupIs
    <3> QED BY <3>2 DEF X
  <2> HIDE DEF group, s
  <2>2. Len(group) <= Lanes
    <3>1. \A w \in W : w <= Lanes BY LaneWidths DEF W
    <3> QED BY <2>1, <3>1
  <2>3. InterleavedGroup(net, x, group) \in Scorings(net) /\ InterleavedGroup(net, x, group).out = x.out \o Rows(net, group)
    BY <2>1, <2>2, InterleavedGroupIs
  <2> QED BY <2>3 DEF group, reads
<1> HIDE DEF E, D, z, W
<1>6. \A j \in 1 .. m : \A x \in D : step[<<j, x>>] = E(j, x) OBVIOUS
<1> HIDE DEF step
<1>7. PICK g \in [0 .. m -> D] : StepsBy(g, m, z, step) /\ g[m].out = Rows(net, reads)
  <2> HIDE DEF s, after
  <2>1. Leaves(step, D, net, reads, s) BY <1>5, <1>6 DEF Leaves
  <2> HIDE DEF n, m
  <2>2. \E g \in [0 .. Len(s) -> D] :
           StepsBy(g, Len(s), z, step) /\ g[Len(s)].out = Rows(net, reads)
    BY <1>1, <1>2, <1>4, <2>1, GroupLoop
  <2> QED BY <2>2 DEF m
<1> HIDE DEF s
<1>8. \A j \in 1 .. m : g[j] = E(j, g[j - 1])
  <2> TAKE j \in 1 .. m
  <2> HIDE DEF m
  <2>1. j - 1 \in 0 .. m BY <1>3
  <2> QED BY <1>6, <1>7, <2>1 DEF StepsBy
<1>9. after = [j \in 0 .. m |-> IF j = 0 THEN z ELSE E(j, after[j - 1])]
  <2>1. g = [j \in 0 .. m |-> IF j = 0 THEN z ELSE E(j, g[j - 1])]
    <3> HIDE DEF m
    <3>1. g[0] = z /\ g = [j \in 0 .. m |-> g[j]] BY <1>7 DEF StepsBy
    <3>2. \A j \in 0 .. m : j = 0 \/ j \in 1 .. m BY <1>3
    <3>3. \A j \in 0 .. m : g[j] = IF j = 0 THEN z ELSE E(j, g[j - 1]) BY <1>8, <3>1, <3>2
    <3> QED BY <3>1, <3>3
  <2> QED BY <2>1 DEF after
<1> HIDE DEF after
<1>10. after = g
  <2> HIDE DEF m
  <2>1. \A j \in 1 .. m : j \in 0 .. m /\ j # 0 BY <1>3
  <2>2. \A j \in 1 .. m : after[j] = E(j, after[j - 1]) BY <1>9, <2>1
  <2>3. after[0] = z /\ OnSteps(after, m) BY <1>3, <1>9 DEF OnSteps
  <2>4. TakesSteps(after, m, D, step) BY <1>6, <2>2 DEF TakesSteps
  <2>5. StepsBy(g, m, z, step) /\ g \in [0 .. m -> D] BY <1>7
  <2> QED BY <1>3, <2>3, <2>4, <2>5, SameSteps
<1>11. ScoreInterleaved(net, scratch, records) = after[m]
  BY DEF ScoreInterleaved, after, E, z, m, s, n, reads
<1>12. g[m] \in D
  <2> HIDE DEF m
  <2>1. m \in 0 .. m BY <1>3
  <2> QED BY <2>1
<1> QED BY <1>7, <1>10, <1>11, <1>12 DEF D, reads


\* A batch is scored record by record, whichever the kernels.
LEMMA ScoreBatchIs ==
  ASSUME NEW net, IsNetwork(net), ForwardOnly(net), NEW scratch \in Scratches(net),
         NEW records \in Seq(Seq(Int))
  PROVE  /\ ScoreBatchInto(net, scratch, records).scratch \in Scratches(net)
         /\ ScoreBatchInto(net, scratch, records).out = Rows(net, records)
<1>1. CASE HasAggregateSquash(net)
  <2>1. ScoreBatchInto(net, scratch, records) = ScorePerLane(net, scratch, records)
    BY <1>1 DEF ScoreBatchInto
  <2>2. /\ ScorePerLane(net, scratch, records) \in Scorings(net)
        /\ ScorePerLane(net, scratch, records).out = Rows(net, records)
    BY ScorePerLaneIs
  <2> QED BY <2>1, <2>2 DEF Scorings
<1>2. CASE ~HasAggregateSquash(net)
  <2>1. ScoreBatchInto(net, scratch, records) = ScoreInterleaved(net, scratch, records)
    BY <1>2 DEF ScoreBatchInto
  <2>2. /\ ScoreInterleaved(net, scratch, records) \in Scorings(net)
        /\ ScoreInterleaved(net, scratch, records).out = Rows(net, records)
    BY <1>2, ScoreInterleavedIs
  <2> QED BY <2>1, <2>2 DEF Scorings
<1> QED BY <1>1, <1>2

-----------------------------------------------------------------------------
(* The fused losses *)

LossRecords == [in : Seq(Int), target : Seq(Int)]

LEMMA ReadsTyped ==
  ASSUME NEW records \in Seq(LossRecords)
  PROVE  /\ Len(records) \in Nat /\ Reads(records) \in Seq(Seq(Int))
         /\ Len(Reads(records)) = Len(records)
         /\ \A k \in 1 .. Len(records) : Reads(records)[k] = records[k].in /\ records[k] \in LossRecords
<1>1. Len(records) \in Nat /\ \A k \in 1 .. Len(records) : records[k] \in LossRecords
  BY LenProperties, ElementOfSeq
<1>2. Reads(records) \in [1 .. Len(records) -> Seq(Int)] BY <1>1 DEF Reads, LossRecords
<1>3. Reads(records) \in Seq(Seq(Int)) /\ Len(Reads(records)) = Len(records) BY <1>1, <1>2, MadeSeq
<1> QED BY <1>1, <1>3 DEF Reads

LEMMA TileWidths == TileLanes \in Nat \ {0} /\ Lanes <= TileLanes
<1>1. TileLanes \in Nat \ {0} /\ Lanes \in Nat \ {0} /\ TileLanes % Lanes = 0
  BY LaneWidths, WidthsAssumption
<1>2. ASSUME TileLanes < Lanes PROVE TileLanes % Lanes = TileLanes BY <1>1, <1>2
<1> QED BY <1>1, <1>2

\* The lanes a tail reuses are zeroed behind the inputs, or left.
Cleared(net, acts, group) ==
  IF Len(group) = 1 THEN [acts EXCEPT ![1] = ResetState(net, @)] ELSE acts

LEMMA ClearedTyped ==
  ASSUME NEW net, IsNetwork(net), NEW L \in Nat \ {0}, NEW acts \in [1 .. L -> Acts(net)],
         NEW group
  PROVE  Cleared(net, acts, group) \in [1 .. L -> Acts(net)]
<1>1. ResetState(net, acts[1]) \in Acts(net) BY ResetTyped
<1> QED BY <1>1 DEF Cleared

Scatters(net) == [acts : [1 .. Lanes -> Acts(net)], out : Seq(Seq(Int))]

LEMMA ScatteredGroupIs ==
  ASSUME NEW net, IsNetwork(net), ForwardOnly(net), NEW state \in Scatters(net),
         NEW group \in Seq(Seq(Int)), Len(group) <= Lanes
  PROVE  /\ ScatteredGroup(net, state, group) \in Scatters(net)
         /\ ScatteredGroup(net, state, group).out = state.out \o Rows(net, group)
<1> DEFINE start == Cleared(net, state.acts, group)
           acts == Across(net, start, group)
           out == [l \in 1 .. Len(group) |-> Outputs(net, acts[l])]
           L == Lanes
<1>1. state.acts \in [1 .. L -> Acts(net)] /\ state.out \in Seq(Seq(Int)) /\ L \in Nat \ {0}
  BY LaneWidths DEF Scatters
<1>2. start \in [1 .. L -> Acts(net)]
  <2> DEFINE a == state.acts
  <2>1. a \in [1 .. L -> Acts(net)] BY <1>1
  <2> HIDE DEF a, L
  <2>2. Cleared(net, a, group) \in [1 .. L -> Acts(net)] BY <1>1, <2>1, ClearedTyped
  <2> QED BY <2>2 DEF a
<1>3. acts \in [1 .. L -> Acts(net)] /\ Answers(net, acts, group)
  <2>1. Len(group) <= L OBVIOUS
  <2> HIDE DEF start, L
  <2> QED BY <1>1, <1>2, <2>1, AcrossIs
<1>4. ScatteredGroup(net, state, group) = [acts |-> acts, out |-> state.out \o out]
  BY DEF ScatteredGroup, Cleared
<1> HIDE DEF acts
<1>5. out = Rows(net, group) BY <1>3, AnswersRows
<1> HIDE DEF out
<1>6. state.out \o Rows(net, group) \in Seq(Seq(Int)) BY <1>1, RowsTyped, ConcatProperties
<1> QED BY <1>3, <1>4, <1>5, <1>6 DEF Scatters

Tiles(net) ==
  [quads : [1 .. Quad -> Acts(net)], inter : Interleaved(net, TileLanes), out : Seq(Seq(Int))]

LEMMA TileGroupIs ==
  ASSUME NEW net, IsNetwork(net), ForwardOnly(net), ~HasAggregateSquash(net),
         NEW state \in Tiles(net), NEW group \in Seq(Seq(Int)),
         Len(group) \in {TileLanes, Lanes, Quad, 1}
  PROVE  /\ TileGroup(net, state, group) \in Tiles(net)
         /\ TileGroup(net, state, group).out = state.out \o Rows(net, group)
<1>1. /\ state.quads \in [1 .. Quad -> Acts(net)] /\ state.out \in Seq(Seq(Int))
      /\ state.inter \in Interleaved(net, TileLanes)
      /\ state = [quads |-> state.quads, inter |-> state.inter, out |-> state.out]
  BY DEF Tiles
<1>2. /\ Len(group) >= Lanes => Len(group) <= TileLanes /\ Len(group) # 0
      /\ ~(Len(group) >= Lanes) => Len(group) <= Quad
  <2> DEFINE k == Len(group)
  <2>1. k \in Nat /\ (k = TileLanes \/ k = Lanes \/ k = Quad \/ k = 1) BY LenProperties
  <2> HIDE DEF k
  <2>2. (k >= Lanes => k <= TileLanes /\ k # 0) /\ (~(k >= Lanes) => k <= Quad)
    BY <2>1, LaneWidths, TileWidths
  <2> QED BY <2>2 DEF k
<1>3. state.out \o Rows(net, group) \in Seq(Seq(Int)) BY <1>1, RowsTyped, ConcatProperties
<1>4. CASE Len(group) >= Lanes
  <2> DEFINE lanes == RunInterleaved(net, state.inter, group)
             out == [l \in 1 .. Len(group) |-> Outputs(net, lanes[l])]
             inter == PutLanes(state.inter, lanes)
  <2>1. Len(group) <= TileLanes /\ Len(group) # 0 BY <1>2, <1>4
  <2>2. Answers(net, lanes, group) /\ inter \in Interleaved(net, TileLanes)
    <3> DEFINE a == state.inter
               B == TileLanes
    <3>1. a \in Interleaved(net, B) /\ B \in Nat /\ Len(group) <= B BY <1>1, <2>1, TileWidths
    <3> HIDE DEF a, B
    <3>2. /\ Answers(net, RunInterleaved(net, a, group), group)
          /\ PutLanes(a, RunInterleaved(net, a, group)) \in Interleaved(net, B)
      BY <2>1, <3>1, RunInterleavedIs
    <3> QED BY <3>2 DEF a, B
  <2> HIDE DEF lanes
  <2>3. out = Rows(net, group) BY <2>2, AnswersRows
  <2>4. TileGroup(net, state, group) =
          [state EXCEPT !.inter = inter, !.out = state.out \o out]
    BY <1>4 DEF TileGroup, lanes
  <2> HIDE DEF out, inter
  <2> QED BY <1>1, <1>3, <2>2, <2>3, <2>4 DEF Tiles
<1>5. CASE ~(Len(group) >= Lanes)
  <2> DEFINE start == Cleared(net, state.quads, group)
             quads == Across(net, start, group)
             out == [l \in 1 .. Len(group) |-> Outputs(net, quads[l])]
             L == Quad
  <2>1. L \in Nat \ {0} /\ Len(group) <= L BY <1>2, <1>5, LaneWidths
  <2>2. start \in [1 .. L -> Acts(net)]
    <3> DEFINE a == state.quads
    <3>1. a \in [1 .. L -> Acts(net)] BY <1>1
    <3> HIDE DEF a, L
    <3>2. Cleared(net, a, group) \in [1 .. L -> Acts(net)] BY <2>1, <3>1, ClearedTyped
    <3> QED BY <3>2 DEF a
  <2>3. quads \in [1 .. L -> Acts(net)] /\ Answers(net, quads, group)
    <3> HIDE DEF start, L
    <3> QED BY <2>1, <2>2, AcrossIs
  <2>4. TileGroup(net, state, group) = [state EXCEPT !.quads = quads, !.out = state.out \o out]
    BY <1>5 DEF TileGroup, Cleared
  <2> HIDE DEF quads
  <2>5. out = Rows(net, group) BY <2>3, AnswersRows
  <2> HIDE DEF out
  <2> QED BY <1>1, <1>3, <2>3, <2>4, <2>5 DEF Tiles
<1> QED BY <1>4, <1>5

LEMMA ScatteredIs ==
  ASSUME NEW net, IsNetwork(net), ForwardOnly(net), NEW records \in Seq(LossRecords)
  PROVE  Scattered(net, records) = Rows(net, Reads(records))
<1> DEFINE n == Len(records)
           W == {Lanes, Quad, 1}
           s == Spans(n, <<Lanes, Quad, 1>>)
           m == Len(s)
           D == Scatters(net)
           z == [acts |-> BatchScratch(net).acts, out |-> <<>>]
           reads == Reads(records)
           E(j, state) == ScatteredGroup(net, state, Group(Reads(records), s[j]))
           after[j \in 0 .. m] == IF j = 0 THEN z ELSE E(j, after[j - 1])
           step == [p \in (1 .. m) \X D |-> E(p[1], p[2])]
<1>1. n \in Nat /\ n = Len(reads) /\ reads \in Seq(Seq(Int)) BY ReadsTyped
<1> HIDE DEF reads
<1>2. Adjacent(s, n, W) /\ Done(s) = n
  <2> DEFINE widths == <<Lanes, Quad, 1>>
  <2>1. W \in SUBSET (Nat \ {0}) BY LaneWidths
  <2>2. widths \in Seq(W) /\ widths # <<>> /\ widths[Len(widths)] = 1 OBVIOUS
  <2> HIDE DEF widths, W
  <2>3. Adjacent(Spans(n, widths), n, W) /\ Done(Spans(n, widths)) = n
    BY <1>1, <2>1, <2>2, SpansCover
  <2> QED BY <2>3 DEF widths
<1>3. m \in Nat BY <1>1, <1>2, SpanFacts
<1>4. z \in D /\ z.out = <<>> 
  <2>1. BatchScratch(net).acts \in [1 .. Lanes -> Acts(net)] BY ScratchTyped DEF Scratches
  <2> QED BY <2>1, EmptySeq DEF Scatters
<1>5. \A j \in 1 .. m : \A x \in D :
        E(j, x) \in D /\ E(j, x).out = x.out \o Rows(net, Group(reads, s[j]))
  <2> TAKE j \in 1 .. m
  <2> TAKE x \in D
  <2> DEFINE group == Group(reads, s[j])
  <2>1. group \in Seq(Seq(Int)) /\ Len(group) \in W
    <3> DEFINE X == Seq(Int)
    <3>1. reads \in Seq(X) BY <1>1
    <3> HIDE DEF W, s, X, n
    <3>2. /\ Group(reads, s[j]) \in Seq(X) /\ Len(Group(reads, s[j])) = s[j].width
          /\ s[j].width \in W
      BY <1>1, <1>2, <3>1, GroupIs
    <3> QED BY <3>2 DEF X
  <2> HIDE DEF group, s
  <2>2. Len(group) <= Lanes
    <3>1. \A w \in W : w <= Lanes BY LaneWidths DEF W
    <3> QED BY <2>1, <3>1
  <2>3. ScatteredGroup(net, x, group) \in Scatters(net) /\ ScatteredGroup(net, x, group).out = x.out \o Rows(net, group)
    BY <2>1, <2>2, ScatteredGroupIs
  <2> QED BY <2>3 DEF group, reads
<1> HIDE DEF E, D, z, W
<1>6. \A j \in 1 .. m : \A x \in D : step[<<j, x>>] = E(j, x) OBVIOUS
<1> HIDE DEF step
<1>7. PICK g \in [0 .. m -> D] : StepsBy(g, m, z, step) /\ g[m].out = Rows(net, reads)
  <2> HIDE DEF s, after
  <2>1. Leaves(step, D, net, reads, s) BY <1>5, <1>6 DEF Leaves
  <2> HIDE DEF n, m
  <2>2. \E g \in [0 .. Len(s) -> D] :
           StepsBy(g, Len(s), z, step) /\ g[Len(s)].out = Rows(net, reads)
    BY <1>1, <1>2, <1>4, <2>1, GroupLoop
  <2> QED BY <2>2 DEF m
<1> HIDE DEF s
<1>8. \A j \in 1 .. m : g[j] = E(j, g[j - 1])
  <2> TAKE j \in 1 .. m
  <2> HIDE DEF m
  <2>1. j - 1 \in 0 .. m BY <1>3
  <2> QED BY <1>6, <1>7, <2>1 DEF StepsBy
<1>9. after = [j \in 0 .. m |-> IF j = 0 THEN z ELSE E(j, after[j - 1])]
  <2>1. g = [j \in 0 .. m |-> IF j = 0 THEN z ELSE E(j, g[j - 1])]
    <3> HIDE DEF m
    <3>1. g[0] = z /\ g = [j \in 0 .. m |-> g[j]] BY <1>7 DEF StepsBy
    <3>2. \A j \in 0 .. m : j = 0 \/ j \in 1 .. m BY <1>3
    <3>3. \A j \in 0 .. m : g[j] = IF j = 0 THEN z ELSE E(j, g[j - 1]) BY <1>8, <3>1, <3>2
    <3> QED BY <3>1, <3>3
  <2> QED BY <2>1 DEF after
<1> HIDE DEF after
<1>10. after = g
  <2> HIDE DEF m
  <2>1. \A j \in 1 .. m : j \in 0 .. m /\ j # 0 BY <1>3
  <2>2. \A j \in 1 .. m : after[j] = E(j, after[j - 1]) BY <1>9, <2>1
  <2>3. after[0] = z /\ OnSteps(after, m) BY <1>3, <1>9 DEF OnSteps
  <2>4. TakesSteps(after, m, D, step) BY <1>6, <2>2 DEF TakesSteps
  <2>5. StepsBy(g, m, z, step) /\ g \in [0 .. m -> D] BY <1>7
  <2> QED BY <1>3, <2>3, <2>4, <2>5, SameSteps
<1>11. Scattered(net, records) = after[m].out
  BY DEF Scattered, after, E, z, m, s, n, reads
<1> QED BY <1>7, <1>10, <1>11 DEF reads

LEMMA InterleavedLossIs ==
  ASSUME NEW net, IsNetwork(net), ForwardOnly(net), ~HasAggregateSquash(net),
         NEW quads \in [1 .. Quad -> Acts(net)], NEW inter \in Interleaved(net, TileLanes),
         NEW records \in Seq(LossRecords)
  PROVE  /\ InterleavedLoss(net, quads, inter, records) \in Tiles(net)
         /\ InterleavedLoss(net, quads, inter, records).out = Rows(net, Reads(records))
<1> DEFINE n == Len(records)
           W == {TileLanes, Lanes, Quad, 1}
           s == Spans(n, <<TileLanes, Lanes, Quad, 1>>)
           m == Len(s)
           D == Tiles(net)
           z == [quads |-> quads, inter |-> inter, out |-> <<>>]
           reads == Reads(records)
           E(j, state) == TileGroup(net, state, Group(Reads(records), s[j]))
           after[j \in 0 .. m] == IF j = 0 THEN z ELSE E(j, after[j - 1])
           step == [p \in (1 .. m) \X D |-> E(p[1], p[2])]
<1>1. n \in Nat /\ n = Len(reads) /\ reads \in Seq(Seq(Int)) BY ReadsTyped
<1> HIDE DEF reads
<1>2. Adjacent(s, n, W) /\ Done(s) = n
  <2> DEFINE widths == <<TileLanes, Lanes, Quad, 1>>
  <2>1. W \in SUBSET (Nat \ {0}) BY LaneWidths, TileWidths
  <2>2. widths \in Seq(W) /\ widths # <<>> /\ widths[Len(widths)] = 1 OBVIOUS
  <2> HIDE DEF widths, W
  <2>3. Adjacent(Spans(n, widths), n, W) /\ Done(Spans(n, widths)) = n
    BY <1>1, <2>1, <2>2, SpansCover
  <2> QED BY <2>3 DEF widths
<1>3. m \in Nat BY <1>1, <1>2, SpanFacts
<1>4. z \in D /\ z.out = <<>> BY EmptySeq DEF Tiles
<1>5. \A j \in 1 .. m : \A x \in D :
        E(j, x) \in D /\ E(j, x).out = x.out \o Rows(net, Group(reads, s[j]))
  <2> TAKE j \in 1 .. m
  <2> TAKE x \in D
  <2> DEFINE group == Group(reads, s[j])
  <2>1. group \in Seq(Seq(Int)) /\ Len(group) \in W
    <3> DEFINE X == Seq(Int)
    <3>1. reads \in Seq(X) BY <1>1
    <3> HIDE DEF W, s, X, n
    <3>2. /\ Group(reads, s[j]) \in Seq(X) /\ Len(Group(reads, s[j])) = s[j].width
          /\ s[j].width \in W
      BY <1>1, <1>2, <3>1, GroupIs
    <3> QED BY <3>2 DEF X
  <2> HIDE DEF group, s
  <2>2. Len(group) \in {TileLanes, Lanes, Quad, 1} BY <2>1 DEF W
  <2>3. TileGroup(net, x, group) \in Tiles(net) /\ TileGroup(net, x, group).out = x.out \o Rows(net, group)
    BY <2>1, <2>2, TileGroupIs
  <2> QED BY <2>3 DEF group, reads
<1> HIDE DEF E, D, z, W
<1>6. \A j \in 1 .. m : \A x \in D : step[<<j, x>>] = E(j, x) OBVIOUS
<1> HIDE DEF step
<1>7. PICK g \in [0 .. m -> D] : StepsBy(g, m, z, step) /\ g[m].out = Rows(net, reads)
  <2> HIDE DEF s, after
  <2>1. Leaves(step, D, net, reads, s) BY <1>5, <1>6 DEF Leaves
  <2> HIDE DEF n, m
  <2>2. \E g \in [0 .. Len(s) -> D] :
           StepsBy(g, Len(s), z, step) /\ g[Len(s)].out = Rows(net, reads)
    BY <1>1, <1>2, <1>4, <2>1, GroupLoop
  <2> QED BY <2>2 DEF m
<1> HIDE DEF s
<1>8. \A j \in 1 .. m : g[j] = E(j, g[j - 1])
  <2> TAKE j \in 1 .. m
  <2> HIDE DEF m
  <2>1. j - 1 \in 0 .. m BY <1>3
  <2> QED BY <1>6, <1>7, <2>1 DEF StepsBy
<1>9. after = [j \in 0 .. m |-> IF j = 0 THEN z ELSE E(j, after[j - 1])]
  <2>1. g = [j \in 0 .. m |-> IF j = 0 THEN z ELSE E(j, g[j - 1])]
    <3> HIDE DEF m
    <3>1. g[0] = z /\ g = [j \in 0 .. m |-> g[j]] BY <1>7 DEF StepsBy
    <3>2. \A j \in 0 .. m : j = 0 \/ j \in 1 .. m BY <1>3
    <3>3. \A j \in 0 .. m : g[j] = IF j = 0 THEN z ELSE E(j, g[j - 1]) BY <1>8, <3>1, <3>2
    <3> QED BY <3>1, <3>3
  <2> QED BY <2>1 DEF after
<1> HIDE DEF after
<1>10. after = g
  <2> HIDE DEF m
  <2>1. \A j \in 1 .. m : j \in 0 .. m /\ j # 0 BY <1>3
  <2>2. \A j \in 1 .. m : after[j] = E(j, after[j - 1]) BY <1>9, <2>1
  <2>3. after[0] = z /\ OnSteps(after, m) BY <1>3, <1>9 DEF OnSteps
  <2>4. TakesSteps(after, m, D, step) BY <1>6, <2>2 DEF TakesSteps
  <2>5. StepsBy(g, m, z, step) /\ g \in [0 .. m -> D] BY <1>7
  <2> QED BY <1>3, <2>3, <2>4, <2>5, SameSteps
<1>11. InterleavedLoss(net, quads, inter, records) = after[m]
  BY DEF InterleavedLoss, after, E, z, m, s, n, reads
<1>12. g[m] \in D
  <2> HIDE DEF m
  <2>1. m \in 0 .. m BY <1>3
  <2> QED BY <2>1
<1> QED BY <1>7, <1>10, <1>11, <1>12 DEF D, reads

Scans(net) == [act : Acts(net), out : Seq(Seq(Int))]

\* Where a record of the scan starts.
Start(net, act, forwardOnly) == IF forwardOnly THEN act ELSE ResetState(net, act)

\* One record, from wherever the scan may start it.
LEMMA ScannedIs ==
  ASSUME NEW net, IsNetwork(net), NEW forwardOnly \in BOOLEAN, forwardOnly => ForwardOnly(net),
         NEW s \in Scans(net), NEW record \in LossRecords
  PROVE  /\ Scanned(net, s, record, Start(net, s.act, forwardOnly)) \in Scans(net)
         /\ Scanned(net, s, record, Start(net, s.act, forwardOnly)).out
              = Append(s.out, Lone(net, record.in))
<1> DEFINE start == Start(net, s.act, forwardOnly)
           x == record.in
           done == Pass(net, Load(net, start, x))
<1>1. s.act \in Acts(net) /\ s.out \in Seq(Seq(Int)) /\ x \in Seq(Int)
  BY DEF Scans, LossRecords
<1>2. done \in Acts(net) /\ Outputs(net, done) = Lone(net, x)
  <2>1. CASE forwardOnly
    <3>1. start = s.act BY <2>1 DEF Start
    <3> HIDE DEF start, x
    <3> QED BY <1>1, <2>1, <3>1, LoneAnswer
  <2>2. CASE ~forwardOnly
    <3>1. start = ResetState(net, s.act) BY <2>2 DEF Start
    <3>2. start \in Acts(net) /\ \A k \in 1 .. NodeCount(net) : k > net.inputs => start[k] = 0
      BY <1>1, <3>1, ResetTyped
    <3> HIDE DEF start, x
    <3>3. Load(net, start, x) = Load(net, Zeros(net), x) BY <1>1, <3>2, LoadsOfFresh
    <3>4. Load(net, start, x) \in Acts(net) BY <1>1, <3>2, LoadTyped
    <3> QED BY <3>3, <3>4, PassTyped DEF Lone
  <2> QED BY <2>1, <2>2
<1>3. Scanned(net, s, record, start) = [act |-> done, out |-> Append(s.out, Outputs(net, done))]
  BY DEF Scanned
<1> HIDE DEF done, start, x
<1>4. Lone(net, x) \in Seq(Int) BY <1>1, LoneTyped
<1>5. Append(s.out, Lone(net, x)) \in Seq(Seq(Int)) BY <1>1, <1>4, AppendProperties
<1> QED BY <1>2, <1>3, <1>5 DEF Scans, start, x

\* Rows appended one by one.
LEMMA Appended ==
  ASSUME NEW n \in Nat, NEW X, NEW rows \in [1 .. n -> X], NEW out, out[0] = <<>>,
         \A k \in 1 .. n : out[k] = Append(out[k - 1], rows[k])
  PROVE  out[n] = rows
<1> DEFINE T == {k \in 0 .. n : out[k] \in [1 .. k -> X] /\ \A i \in 1 .. k : out[k][i] = rows[i]}
<1>1. 0 \in T
  <2>1. <<>> \in Seq(X) /\ Len(<<>>) = 0 BY EmptySeq
  <2> DEFINE e == out[0]
  <2>2. e \in Seq(X) /\ Len(e) = 0 BY <2>1
  <2> HIDE DEF e
  <2>3. e \in [1 .. Len(e) -> X] BY <2>2, SeqDef
  <2>4. e \in [1 .. 0 -> X] /\ 0 \in 0 .. n /\ \A i \in 1 .. 0 : e[i] = rows[i] BY <2>2, <2>3
  <2> QED BY <2>4 DEF e
<1>2. ASSUME NEW k \in 1 .. n, k - 1 \in T PROVE k \in T
  <2> DEFINE before == out[k - 1]
  <2>1. before \in [1 .. k - 1 -> X] /\ \A i \in 1 .. k - 1 : before[i] = rows[i] BY <1>2
  <2>2. rows[k] \in X /\ k - 1 \in Nat /\ out[k] = Append(before, rows[k]) OBVIOUS
  <2> HIDE DEF before
  <2>3. before \in Seq(X) /\ Len(before) = k - 1 BY <2>1, <2>2, MadeSeq
  <2>4. /\ out[k] \in Seq(X) /\ Len(out[k]) = Len(before) + 1
        /\ \A i \in 1 .. Len(before) : out[k][i] = before[i]
        /\ out[k][Len(before) + 1] = rows[k]
    BY <2>2, <2>3, AppendProperties
  <2>5. Len(out[k]) = k BY <2>3, <2>4
  <2>6. out[k] \in [1 .. k -> X]
    <3> DEFINE a == out[k]
    <3>1. a \in Seq(X) /\ Len(a) = k BY <2>4, <2>5
    <3> HIDE DEF a
    <3>2. a \in [1 .. Len(a) -> X] BY <3>1, SeqDef
    <3> QED BY <3>1, <3>2 DEF a
  <2>7. \A i \in 1 .. k : out[k][i] = rows[i]
    <3> TAKE i \in 1 .. k
    <3>1. CASE i = k
      <4>1. Len(before) + 1 = k BY <2>3
      <4> QED BY <2>4, <3>1, <4>1
    <3>2. CASE i # k
      <4>1. i \in 1 .. k - 1 /\ i \in 1 .. Len(before) BY <2>3, <3>2
      <4> QED BY <2>1, <2>4, <4>1
    <3> QED BY <3>1, <3>2
  <2>8. k \in 0 .. n OBVIOUS
  <2> QED BY <2>6, <2>7, <2>8
<1>3. 0 .. n \subseteq T
  <2> HIDE DEF T
  <2> QED BY <1>1, <1>2, InductionUpTo
<1>4. n \in 0 .. n OBVIOUS
<1>5. out[n] \in [1 .. n -> X] /\ \A i \in 1 .. n : out[n][i] = rows[i] BY <1>3, <1>4
<1> DEFINE a == out[n]
<1>6. a \in [1 .. n -> X] /\ \A i \in 1 .. n : a[i] = rows[i] BY <1>5
<1> HIDE DEF a
<1>7. a = rows BY <1>6, SameSeq
<1> QED BY <1>7 DEF a

LEMMA RecordScanIs ==
  ASSUME NEW net, IsNetwork(net), NEW forwardOnly \in BOOLEAN, forwardOnly => ForwardOnly(net),
         NEW act \in Acts(net), NEW records \in Seq(LossRecords)
  PROVE  /\ RecordScan(net, act, records, forwardOnly) \in Scans(net)
         /\ RecordScan(net, act, records, forwardOnly).out = Rows(net, Reads(records))
<1> DEFINE n == Len(records)
           D == Scans(net)
           rows == Rows(net, Reads(records))
           z == [act |-> act, out |-> <<>>]
           E(k, s) == Scanned(net, s, records[k], Start(net, s.act, forwardOnly))
           after[k \in 0 .. n] == IF k = 0 THEN z ELSE E(k, after[k - 1])
           step == [p \in (1 .. n) \X D |-> E(p[1], p[2])]
<1>1. /\ n \in Nat /\ \A k \in 1 .. n : records[k] \in LossRecords
      /\ rows \in [1 .. n -> Seq(Int)] /\ \A k \in 1 .. n : rows[k] = Lone(net, records[k].in)
  BY ReadsTyped, RowsTyped DEF Rows
<1>2. z \in D /\ z.out = <<>> BY EmptySeq DEF Scans
<1>3. \A k \in 1 .. n : \A s \in D : E(k, s) \in D /\ E(k, s).out = Append(s.out, rows[k])
  <2> TAKE k \in 1 .. n
  <2> TAKE s \in D
  <2> DEFINE r == records[k]
  <2>1. r \in LossRecords /\ rows[k] = Lone(net, r.in) BY <1>1
  <2> HIDE DEF r, rows
  <2>2. /\ Scanned(net, s, r, Start(net, s.act, forwardOnly)) \in Scans(net)
        /\ Scanned(net, s, r, Start(net, s.act, forwardOnly)).out = Append(s.out, Lone(net, r.in))
    BY <2>1, ScannedIs
  <2> QED BY <2>1, <2>2 DEF r
<1>4. RecordScan(net, act, records, forwardOnly) = after[n]
  BY DEF RecordScan, Start
<1> HIDE DEF E, D, z, rows
<1>5. \A k \in 1 .. n : \A s \in D : step[<<k, s>>] = E(k, s) OBVIOUS
<1> HIDE DEF step
<1>6. PICK g \in [0 .. n -> D] : StepsBy(g, n, z, step)
  <2> HIDE DEF n, after
  <2>1. \A k \in 1 .. n : \A s \in D : step[<<k, s>>] \in D BY <1>3, <1>5
  <2> QED BY <1>1, <1>2, <2>1, Recursion
<1>7. g[0] = z /\ \A k \in 1 .. n : k - 1 \in 0 .. n /\ g[k - 1] \in D /\ g[k] = E(k, g[k - 1])
  <2> HIDE DEF n
  <2>1. \A k \in 1 .. n : k - 1 \in 0 .. n BY <1>1
  <2> QED BY <1>5, <1>6, <2>1 DEF StepsBy
<1>8. after = [k \in 0 .. n |-> IF k = 0 THEN z ELSE E(k, after[k - 1])]
  <2>1. g = [k \in 0 .. n |-> IF k = 0 THEN z ELSE E(k, g[k - 1])]
    <3> HIDE DEF n
    <3>1. g = [k \in 0 .. n |-> g[k]] OBVIOUS
    <3>2. \A k \in 0 .. n : k = 0 \/ k \in 1 .. n BY <1>1
    <3>3. \A k \in 0 .. n : g[k] = IF k = 0 THEN z ELSE E(k, g[k - 1]) BY <1>7, <3>2
    <3> QED BY <3>1, <3>3
  <2> QED BY <2>1 DEF after
<1> HIDE DEF after
<1>9. after = g
  <2> HIDE DEF n
  <2>1. \A k \in 1 .. n : k \in 0 .. n /\ k # 0 BY <1>1
  <2>2. \A k \in 1 .. n : after[k] = E(k, after[k - 1]) BY <1>8, <2>1
  <2>3. after[0] = z /\ OnSteps(after, n) BY <1>1, <1>8 DEF OnSteps
  <2>4. TakesSteps(after, n, D, step) BY <1>5, <2>2 DEF TakesSteps
  <2> QED BY <1>1, <1>6, <2>3, <2>4, SameSteps
<1> DEFINE out == [k \in 0 .. n |-> g[k].out]
<1>10. out[n] = rows
  <2>1. out[0] = <<>> BY <1>1, <1>2, <1>7
  <2>2. \A k \in 1 .. n : out[k] = Append(out[k - 1], rows[k])
    <3> TAKE k \in 1 .. n
    <3>1. k \in 0 .. n BY <1>1
    <3>2. g[k].out = Append(g[k - 1].out, rows[k]) BY <1>3, <1>7
    <3> QED BY <1>7, <3>1, <3>2
  <2> DEFINE X == Seq(Int)
  <2>3. rows \in [1 .. n -> X] BY <1>1
  <2> HIDE DEF out, n, X
  <2> QED BY <1>1, <2>1, <2>2, <2>3, Appended
<1>11. n \in 0 .. n BY <1>1
<1>12. g[n] \in D /\ g[n].out = rows
  <2> HIDE DEF n
  <2> QED BY <1>6, <1>10, <1>11
<1> QED BY <1>4, <1>9, <1>12 DEF D, rows

-----------------------------------------------------------------------------
(* One network, one caller *)

LEMMA NetworksAre == \A net \in Networks : IsNetwork(net)
BY ScoringAssumption

LEMMA TakeTyped ==
  ASSUME NEW n \in Sizes, NEW stride \in Strides
  PROVE  n \in Nat /\ Take(n, stride) \in Seq(LossRecords) /\ Len(Take(n, stride)) = n
<1> DEFINE m == Len(Stock)
           r(k) == Stock[((k - 1) % m) + 1]
           x(k) == r(k).in
           t(k) == [r(k) EXCEPT !.in = SubSeq(@, 1, IF stride < Len(@) THEN stride ELSE Len(@))]
<1>1. n \in Nat /\ stride \in Nat /\ Stock \in Seq(LossRecords) /\ Stock # <<>>
  BY ScoringAssumption DEF LossRecords
<1>2. m \in Nat /\ m > 0 BY <1>1, LenProperties, EmptySeq
<1>3. \A k \in 1 .. n : t(k) \in LossRecords
  <2> TAKE k \in 1 .. n
  <2>1. ((k - 1) % m) + 1 \in 1 .. m
    <3> HIDE DEF m
    <3>1. (k - 1) % m \in 0 .. m - 1 BY <1>1, <1>2
    <3> QED BY <1>2, <3>1
  <2>2. r(k) \in LossRecords BY <1>1, <2>1, ElementOfSeq
  <2> HIDE DEF r
  <2> DEFINE y == r(k).in
             q == IF stride < Len(y) THEN stride ELSE Len(y)
  <2>3. y \in Seq(Int) BY <2>2 DEF LossRecords
  <2>4. Len(y) \in Nat /\ \A i \in 1 .. Len(y) : y[i] \in Int BY <2>3, LenProperties, ElementOfSeq
  <2>5. q \in Nat /\ \A i \in 1 .. q : y[i] \in Int BY <1>1, <2>4
  <2>6. SubSeq(y, 1, q) \in Seq(Int)
    <3> HIDE DEF y, q
    <3> QED BY <2>5, SubSeqProperties
  <2>7. t(k) = [r(k) EXCEPT !.in = SubSeq(y, 1, q)] OBVIOUS
  <2> HIDE DEF y, q, t
  <2> QED BY <2>2, <2>6, <2>7 DEF LossRecords
<1>4. Take(n, stride) = [k \in 1 .. n |-> t(k)] BY DEF Take
<1> HIDE DEF t
<1>5. Take(n, stride) \in [1 .. n -> LossRecords] BY <1>3, <1>4
<1> QED BY <1>1, <1>5, MadeSeq

BuffersOf(net) ==
  [act : Acts(net), quads : [1 .. Quad -> Acts(net)], inter : Interleaved(net, TileLanes)]

ZeroBehind(net, act) == \A k \in 1 .. NodeCount(net) : k > net.inputs => act[k] = 0

\* The buffers are those of the network, and hold zeros when they are fresh.
BuffersInv ==
  /\ network \in Networks /\ buffers \in BuffersOf(network)
  /\ fresh => ZeroBehind(network, buffers.act)

LEMMA NewBuffersTyped ==
  ASSUME NEW net, IsNetwork(net)
  PROVE  NewBuffers(net) \in BuffersOf(net) /\ ZeroBehind(net, NewBuffers(net).act)
<1>1. Zeros(net) \in Acts(net) /\ ZeroBehind(net, Zeros(net)) BY ZerosTyped DEF ZeroBehind
<1>2. [p \in 1 .. NodeCount(net) * TileLanes |-> 0] \in Interleaved(net, TileLanes) BY DEF Interleaved
<1> QED BY <1>1, <1>2 DEF NewBuffers, BuffersOf

\* What a pass from the kept buffer answers, where the invariant reads it.
LEMMA KeptAnswer ==
  ASSUME BuffersInv, NEW x \in Seq(Int)
  PROVE  LET start == Load(network, buffers.act, x)
             new == Load(network, Zeros(network), x) IN
         /\ IsNetwork(network) /\ start \in Acts(network)
         /\ ForwardOnly(network) \/ fresh =>
              Pass(network, start) = Pass(network, new) /\ TracePass(network, start) = TracePass(network, new)
<1> DEFINE net == network
           a == buffers.act
           start == Load(net, a, x)
           new == Load(net, Zeros(net), x)
<1>1. IsNetwork(net) /\ a \in Acts(net) BY NetworksAre DEF BuffersInv, BuffersOf
<1>2. Zeros(net) \in Acts(net) BY <1>1, ZerosTyped
<1>3. start \in Acts(net) /\ new \in Acts(net)
  <2> HIDE DEF net, a
  <2> QED BY <1>1, <1>2, LoadTyped
<1>4. ASSUME ForwardOnly(net)
      PROVE  Pass(net, start) = Pass(net, new) /\ TracePass(net, start) = TracePass(net, new)
  <2>1. \A k \in 1 .. net.inputs : start[k] = new[k]
    <3> HIDE DEF net, a
    <3> QED BY <1>1, <1>2, LoadsAgree
  <2> HIDE DEF start, new, net
  <2> QED BY <1>1, <1>3, <1>4, <2>1, PassForgets, TraceForgets
<1>5. ASSUME fresh PROVE start = new
  <2>1. \A k \in 1 .. NodeCount(net) : k > net.inputs => a[k] = 0 BY <1>5 DEF BuffersInv, ZeroBehind
  <2> HIDE DEF net, a
  <2> QED BY <1>1, <2>1, LoadsOfFresh
<1> QED BY <1>1, <1>3, <1>4, <1>5

LEMMA CallerActivates ==
  ASSUME BuffersInv, Activate \/ ActivateInto PROVE BuffersInv' /\ AnswersForgetHistory' /\ LossTakesEachRecord'
<1>1. PICK x \in Inputs :
        LET act == Pass(network, Load(network, buffers.act, x)) IN
        /\ Answered("activate", <<x>>, Outputs(network, act))
        /\ buffers' = [buffers EXCEPT !.act = act] /\ fresh' = FALSE
  BY DEF Activate, ActivateInto
<1> DEFINE start == Load(network, buffers.act, x)
           new == Load(network, Zeros(network), x)
           act == Pass(network, start)
<1>2. x \in Seq(Int) BY ScoringAssumption
<1>3. /\ IsNetwork(network) /\ start \in Acts(network)
      /\ ForwardOnly(network) \/ fresh => act = Pass(network, new)
  BY <1>2, KeptAnswer
<1>4. act \in Acts(network)
  <2> HIDE DEF start
  <2> QED BY <1>3, PassTyped
<1>5. /\ network' = network /\ fresh' = FALSE /\ buffers' = [buffers EXCEPT !.act = act]
      /\ reply' = [op |-> "activate", records |-> <<x>>, answer |-> Outputs(network, act), clean |-> fresh]
  BY <1>1 DEF Answered
<1>6. ForwardOnly(network) \/ fresh => Outputs(network, act) = Lone(network, x)
  BY <1>3 DEF Lone
<1> HIDE DEF act, start, new
<1>7. BuffersInv' BY <1>4, <1>5 DEF BuffersInv, BuffersOf
<1>8. reply'.op = "activate" /\ reply'.records[1] = x /\ reply'.answer = Outputs(network, act) /\ reply'.clean = fresh
  BY <1>5
<1>9. AnswersForgetHistory' BY <1>5, <1>6, <1>8 DEF AnswersForgetHistory
<1>10. LossTakesEachRecord' BY <1>8 DEF LossTakesEachRecord
<1> QED BY <1>7, <1>9, <1>10

LEMMA CallerTraces ==
  ASSUME BuffersInv, ActivateAndTrace PROVE BuffersInv' /\ AnswersForgetHistory' /\ LossTakesEachRecord'
<1>1. PICK x \in Inputs :
        LET t == TracePass(network, Load(network, buffers.act, x)) IN
        /\ Answered("trace", <<x>>, TraceReply(network, t))
        /\ buffers' = [buffers EXCEPT !.act = t.act] /\ fresh' = FALSE
  BY DEF ActivateAndTrace
<1> DEFINE start == Load(network, buffers.act, x)
           new == Load(network, Zeros(network), x)
           t == TracePass(network, start)
<1>2. x \in Seq(Int) BY ScoringAssumption
<1>3. /\ IsNetwork(network) /\ start \in Acts(network)
      /\ ForwardOnly(network) \/ fresh => t = TracePass(network, new)
  BY <1>2, KeptAnswer
<1>4. t.act \in Acts(network)
  <2> HIDE DEF start
  <2>1. t \in Traces(network) BY <1>3, TracePassTyped
  <2> QED BY <2>1 DEF Traces
<1>5. /\ network' = network /\ fresh' = FALSE /\ buffers' = [buffers EXCEPT !.act = t.act]
      /\ reply' = [op |-> "trace", records |-> <<x>>, answer |-> TraceReply(network, t), clean |-> fresh]
  BY <1>1 DEF Answered
<1>6. ForwardOnly(network) \/ fresh => TraceReply(network, t) = FreshTrace(x)
  BY <1>3 DEF FreshTrace
<1> HIDE DEF t, start, new
<1>7. BuffersInv' BY <1>4, <1>5 DEF BuffersInv, BuffersOf
<1>8. reply'.op = "trace" /\ reply'.records[1] = x /\ reply'.answer = TraceReply(network, t) /\ reply'.clean = fresh
  BY <1>5
<1>9. AnswersForgetHistory'
  <2>1. FreshTrace(x)' = FreshTrace(x) BY <1>5 DEF FreshTrace
  <2>2. AnswersForgetHistory' <=>
          (ForwardOnly(network') \/ reply'.clean => reply'.answer = FreshTrace(x)')
    BY <1>8 DEF AnswersForgetHistory, FreshTrace
  <2> QED BY <1>5, <1>6, <1>8, <2>1, <2>2
<1>10. LossTakesEachRecord' BY <1>8 DEF LossTakesEachRecord
<1> QED BY <1>7, <1>9, <1>10

LEMMA CallerTracesQuad ==
  ASSUME BuffersInv, TraceQuad PROVE BuffersInv' /\ AnswersForgetHistory' /\ LossTakesEachRecord'
<1>1. PICK xs \in [1 .. Quad -> Inputs] :
        LET lanes == TracePass4(network, xs) IN
        /\ \A r \in 1 .. Quad : Len(xs[r]) = Len(xs[1])
        /\ Answered("quad", xs, [r \in 1 .. Quad |-> TraceReply(network, lanes[r])])
        /\ buffers' = [buffers EXCEPT !.quads = [r \in 1 .. Quad |-> lanes[r].act]]
        /\ UNCHANGED fresh
  BY DEF TraceQuad
<1> DEFINE lanes == TracePass4(network, xs)
           t(r) == TracePass(network, Load(network, Zeros(network), xs[r]))
           answer == [r \in 1 .. Quad |-> TraceReply(network, lanes[r])]
           quads == [r \in 1 .. Quad |-> lanes[r].act]
<1>2. IsNetwork(network) /\ \A r \in 1 .. Quad : xs[r] \in Seq(Int)
  BY NetworksAre, ScoringAssumption DEF BuffersInv
<1>3. lanes = [r \in 1 .. Quad |-> t(r)]
  <2> DEFINE K == Quad
  <2>1. K \in Nat /\ xs \in [1 .. K -> Seq(Int)] BY <1>2, LaneWidths
  <2> HIDE DEF K
  <2>2. TracePass4(network, xs)
          = [r \in 1 .. K |-> TracePass(network, Load(network, Zeros(network), xs[r]))]
    BY <1>2, <2>1, TracePass4Is
  <2> QED BY <2>2 DEF K
<1>4. \A r \in 1 .. Quad : lanes[r] = t(r) /\ t(r).act \in Acts(network)
  <2> TAKE r \in 1 .. Quad
  <2>1. Load(network, Zeros(network), xs[r]) \in Acts(network) BY <1>2, ZerosTyped, LoadTyped
  <2>2. t(r) \in Traces(network) BY <1>2, <2>1, TracePassTyped
  <2> HIDE DEF t
  <2> QED BY <1>3, <2>2 DEF Traces
<1>5. /\ network' = network /\ fresh' = fresh /\ buffers' = [buffers EXCEPT !.quads = quads]
      /\ reply' = [op |-> "quad", records |-> xs, answer |-> answer, clean |-> fresh]
  BY <1>1 DEF Answered
<1>6. \A r \in 1 .. Quad : answer[r] = FreshTrace(xs[r]) BY <1>4 DEF FreshTrace
<1>7. quads \in [1 .. Quad -> Acts(network)] BY <1>4
<1> HIDE DEF lanes, t, answer, quads
<1>8. BuffersInv' BY <1>5, <1>7 DEF BuffersInv, BuffersOf
<1>9. reply'.op = "quad" /\ reply'.records = xs /\ reply'.answer = answer BY <1>5
<1>10. AnswersForgetHistory'
  <2>1. \A r \in 1 .. Quad :
          answer[r] = TraceReply(network, TracePass(network, Load(network, Zeros(network), xs[r])))
    BY <1>6 DEF FreshTrace
  <2>2. \A r \in 1 .. Quad :
          reply'.answer[r] = TraceReply(network', TracePass(network', Load(network', Zeros(network'), reply'.records[r])))
    BY <1>5, <1>9, <2>1
  <2> QED BY <1>9, <2>2 DEF AnswersForgetHistory, FreshTrace
<1>11. LossTakesEachRecord' BY <1>9 DEF LossTakesEachRecord
<1> QED BY <1>8, <1>10, <1>11

LEMMA CallerResets ==
  ASSUME BuffersInv, Reset PROVE BuffersInv' /\ UNCHANGED <<network, reply, batch>>
<1>1. /\ buffers' = [buffers EXCEPT !.act = ResetState(network, buffers.act)]
      /\ fresh' = TRUE /\ UNCHANGED <<network, reply, batch>>
  BY DEF Reset
<1>2. IsNetwork(network) /\ buffers.act \in Acts(network) BY NetworksAre DEF BuffersInv, BuffersOf
<1>3. ResetState(network, buffers.act) \in Acts(network) /\ ZeroBehind(network, ResetState(network, buffers.act))
  BY <1>2, ResetTyped DEF ZeroBehind
<1>4. buffers'.act = ResetState(network, buffers.act) BY <1>1 DEF BuffersInv, BuffersOf
<1>5. buffers' \in BuffersOf(network) BY <1>1, <1>3 DEF BuffersInv, BuffersOf
<1> QED BY <1>1, <1>3, <1>4, <1>5 DEF BuffersInv

LEMMA CallerSums ==
  ASSUME BuffersInv, SumLoss
  PROVE  BuffersInv' /\ AnswersForgetHistory' /\ LossTakesEachRecord'
         /\ UNCHANGED <<network, batch>> /\ reply'.op \in {"loss", "recurrent loss"}
<1>1. PICK kind \in Kinds, n \in Sizes, stride \in Strides, forwardOnly \in {ForwardOnly(network), FALSE} :
        LET records == Take(n, stride)
            path == LossPath(network, kind, n, forwardOnly)
            scan == RecordScan(network, buffers.act, records, forwardOnly)
            tiles == InterleavedLoss(network, buffers.quads, buffers.inter, records)
            out == CASE path = "scan" -> scan.out [] path = "tiles" -> tiles.out
                     [] path = "lanes" -> Scattered(network, records)
        IN /\ Answered(IF forwardOnly THEN "loss" ELSE "recurrent loss", records, LossTerms(records, out))
           /\ buffers' = [act |-> IF path = "scan" THEN scan.act ELSE buffers.act,
                          quads |-> IF path = "tiles" THEN tiles.quads ELSE buffers.quads,
                          inter |-> IF path = "tiles" THEN tiles.inter ELSE buffers.inter]
           /\ fresh' = (fresh /\ path # "scan")
  BY DEF SumLoss
<1> DEFINE records == Take(n, stride)
           path == LossPath(network, kind, n, forwardOnly)
           scan == RecordScan(network, buffers.act, records, forwardOnly)
           tiles == InterleavedLoss(network, buffers.quads, buffers.inter, records)
           out == CASE path = "scan" -> scan.out [] path = "tiles" -> tiles.out
                    [] path = "lanes" -> Scattered(network, records)
           rows == Rows(network, Reads(records))
           op == IF forwardOnly THEN "loss" ELSE "recurrent loss"
           act == IF path = "scan" THEN scan.act ELSE buffers.act
           quads == IF path = "tiles" THEN tiles.quads ELSE buffers.quads
           inter == IF path = "tiles" THEN tiles.inter ELSE buffers.inter
<1>2. records \in Seq(LossRecords) BY TakeTyped
<1>3. /\ IsNetwork(network) /\ buffers.act \in Acts(network)
      /\ buffers.quads \in [1 .. Quad -> Acts(network)]
      /\ buffers.inter \in Interleaved(network, TileLanes)
      /\ buffers \in BuffersOf(network)
  BY NetworksAre DEF BuffersInv, BuffersOf
<1>4. forwardOnly \in BOOLEAN /\ (forwardOnly => ForwardOnly(network)) BY DEF ForwardOnly
<1>5. /\ path \in {"scan", "tiles", "lanes"}
      /\ path # "scan" => ForwardOnly(network)
      /\ path = "tiles" => ~HasAggregateSquash(network)
  BY <1>4 DEF LossPath
<1> HIDE DEF records, path
<1>6. scan.act \in Acts(network) /\ scan.out = rows
  <2>1. scan \in Scans(network) /\ scan.out = rows
    <3> DEFINE a == buffers.act
    <3>1. a \in Acts(network) BY <1>3
    <3> HIDE DEF a
    <3> QED BY <1>2, <1>3, <1>4, <3>1, RecordScanIs DEF a
  <2> HIDE DEF scan
  <2> QED BY <2>1 DEF Scans
<1>7. path = "tiles" =>
        tiles.out = rows /\ tiles.quads \in [1 .. Quad -> Acts(network)]
        /\ tiles.inter \in Interleaved(network, TileLanes)
  <2> SUFFICES ASSUME path = "tiles" PROVE tiles \in Tiles(network) /\ tiles.out = rows
    <3> HIDE DEF tiles
    <3> QED BY DEF Tiles
  <2>1. ForwardOnly(network) /\ ~HasAggregateSquash(network) BY <1>5
  <2> DEFINE q == buffers.quads
             i == buffers.inter
  <2>2. q \in [1 .. Quad -> Acts(network)] /\ i \in Interleaved(network, TileLanes) BY <1>3
  <2> HIDE DEF q, i
  <2> QED BY <1>2, <1>3, <2>1, <2>2, InterleavedLossIs DEF q, i
<1>8. path = "lanes" => Scattered(network, records) = rows BY <1>2, <1>3, <1>5, ScatteredIs
<1> HIDE DEF scan, tiles, rows
<1>9. out = rows BY <1>5, <1>6, <1>7, <1>8
<1>10. /\ network' = network /\ batch' = batch
       /\ reply' = [op |-> op, records |-> records, answer |-> LossTerms(records, out), clean |-> fresh]
       /\ buffers' = [act |-> act, quads |-> quads, inter |-> inter]
       /\ fresh' = (fresh /\ path # "scan")
  BY <1>1 DEF Answered, records, path, scan, tiles
<1> HIDE DEF out, op
<1>11. act \in Acts(network) /\ quads \in [1 .. Quad -> Acts(network)] /\ inter \in Interleaved(network, TileLanes)
  BY <1>3, <1>6, <1>7
<1>12. fresh' => ZeroBehind(network, buffers'.act)
  <2>1. fresh' => fresh /\ buffers'.act = buffers.act BY <1>10
  <2> QED BY <2>1 DEF BuffersInv
<1> HIDE DEF act, quads, inter
<1>13. BuffersInv' BY <1>10, <1>11, <1>12 DEF BuffersInv, BuffersOf
<1>14. op \in {"loss", "recurrent loss"} BY DEF op
<1>15. LossTerms(records, rows)
         = [k \in 1 .. Len(records) |->
              [target |-> records[k].target, output |-> Lone(network, records[k].in)]]
  <2>1. \A k \in 1 .. Len(records) : rows[k] = Lone(network, records[k].in)
    BY <1>2, ReadsTyped DEF rows, Rows
  <2> QED BY <2>1 DEF LossTerms
<1>16. reply'.op = op /\ reply'.records = records /\ reply'.answer = LossTerms(records, rows)
  BY <1>9, <1>10
<1>17. LossTakesEachRecord' BY <1>10, <1>15, <1>16 DEF LossTakesEachRecord
<1>18. AnswersForgetHistory' BY <1>14, <1>16 DEF AnswersForgetHistory
<1> QED BY <1>10, <1>13, <1>14, <1>16, <1>17, <1>18

-----------------------------------------------------------------------------
(* Batches *)

LEMMA ChunkWidth == ChunkRecords \in Nat /\ ChunkRecords > 0
BY ChunkAssumption

\* Chunk c starts within the batch.
LEMMA ChunkStarts ==
  ASSUME NEW n \in Nat, NEW c \in 1 .. ChunkCount(n)
  PROVE  /\ c \in Nat /\ c >= 1
         /\ (c - 1) * ChunkRecords \in Nat /\ (c - 1) * ChunkRecords < n
         /\ c * ChunkRecords = (c - 1) * ChunkRecords + ChunkRecords
<1> DEFINE R == ChunkRecords
           x == n + R - 1
           q == x \div R
<1>1. R \in Nat /\ R > 0 BY ChunkWidth
<1> HIDE DEF R
<1>2. x \in Nat BY <1>1
<1> HIDE DEF x
<1>3. q \in Nat /\ q * R <= x BY <1>1, <1>2, Division
<1>4. c \in 1 .. q BY DEF ChunkCount, q, x, R
<1> HIDE DEF q
<1>5. c \in Nat /\ c - 1 \in Nat /\ c <= q BY <1>3, <1>4
<1>6. c * R \in Nat /\ q * R \in Nat /\ c * R <= q * R BY <1>1, <1>3, <1>5, Monotone
<1>7. (c - 1) * R \in Nat /\ c * R = (c - 1) * R + R BY <1>1, <1>5
<1> DEFINE b == (c - 1) * R
           t == c * R
           u == q * R
<1>8. b \in Nat /\ t \in Nat /\ u \in Nat /\ t = b + R /\ t <= u /\ u <= x BY <1>3, <1>6, <1>7
<1> HIDE DEF b, t, u
<1>9. b < n BY <1>1, <1>8 DEF x
<1> QED BY <1>4, <1>5, <1>7, <1>9 DEF R, b

\* Every record is of a chunk.
LEMMA ChunkOfRecord ==
  ASSUME NEW n \in Nat, NEW k \in 1 .. n
  PROVE  \E c \in 1 .. ChunkCount(n) : (c - 1) * ChunkRecords < k /\ k <= c * ChunkRecords
<1> DEFINE R == ChunkRecords
           x == n + R - 1
           q == x \div R
           y == k - 1
           d == y \div R
<1>1. R \in Nat /\ R > 0 BY ChunkWidth
<1> HIDE DEF R
<1>2. x \in Nat /\ y \in Nat /\ y < n /\ k = y + 1 /\ x = n + R - 1 BY <1>1
<1> HIDE DEF x, y
<1>3. q \in Nat /\ q * R <= x /\ x - q * R < R BY <1>1, <1>2, Division
<1>4. d \in Nat /\ d * R <= y /\ y - d * R < R BY <1>1, <1>2, Division
<1>5. ChunkCount(n) = q BY <1>2 DEF ChunkCount, q, R
<1> HIDE DEF q, d
<1>6. (d + 1) * R = d * R + R /\ d * R \in Nat /\ q * R \in Nat BY <1>1, <1>3, <1>4
<1>7. d + 1 <= q
  <2> SUFFICES ASSUME q <= d PROVE FALSE BY <1>3, <1>4
  <2>1. q * R <= d * R BY <1>1, <1>3, <1>4, Monotone
  <2> DEFINE a == q * R
             b == d * R
  <2>2. a \in Nat /\ b \in Nat /\ a <= b /\ b <= y /\ x - a < R BY <1>3, <1>4, <1>6, <2>1
  <2> HIDE DEF a, b
  <2> QED BY <1>1, <1>2, <2>2
<1> DEFINE c == d + 1
<1>8. c \in 1 .. q /\ c - 1 = d BY <1>3, <1>4, <1>7
<1>9. d * R < k /\ k <= c * R
  <2> DEFINE b == d * R
             t == c * R
  <2>1. b \in Nat /\ t = b + R /\ b <= y /\ y - b < R BY <1>4, <1>6
  <2> HIDE DEF b, t
  <2>2. b < k /\ k <= t BY <1>1, <1>2, <2>1
  <2> QED BY <2>2 DEF b, t
<1> HIDE DEF c
<1> QED BY <1>5, <1>8, <1>9 DEF R

LEMMA ChunkIs ==
  ASSUME NEW records \in Seq(Seq(Int)), NEW n, n = Len(records), NEW c \in 1 .. ChunkCount(n)
  PROVE  /\ Chunk(records, c) \in Seq(Seq(Int))
         /\ \A k \in 1 .. n :
              k - (c - 1) * ChunkRecords \in 1 .. Len(Chunk(records, c)) <=>
                (c - 1) * ChunkRecords < k /\ k <= c * ChunkRecords
         /\ \A k \in 1 .. n :
              k - (c - 1) * ChunkRecords \in 1 .. Len(Chunk(records, c)) =>
                Chunk(records, c)[k - (c - 1) * ChunkRecords] = records[k]
<1> DEFINE R == ChunkRecords
           b == (c - 1) * R
           t == c * R
           hi == IF t < n THEN t ELSE n
           s == SubSeq(records, b + 1, hi)
<1>1. n \in Nat /\ \A i \in 1 .. n : records[i] \in Seq(Int) BY LenProperties, ElementOfSeq
<1>2. b \in Nat /\ b < n /\ t = b + R BY <1>1, ChunkStarts
<1>3. R \in Nat /\ R > 0 BY ChunkWidth
<1>4. Chunk(records, c) = s BY DEF Chunk
<1> HIDE DEF b, t, R
<1>5. b + 1 <= hi /\ hi \in Nat /\ hi <= n BY <1>1, <1>2, <1>3
<1>6. s \in Seq(Seq(Int)) /\ Len(s) = hi - b /\ \A i \in 1 .. hi - b : s[i] = records[b + i]
  <2> DEFINE lo == b + 1
  <2>1. lo \in Int /\ hi \in Int /\ \A i \in lo .. hi : records[i] \in Seq(Int) BY <1>1, <1>2, <1>5
  <2>2. lo <= hi /\ hi - lo + 1 = hi - b /\ \A i \in 1 .. hi - b : lo + i - 1 = b + i BY <1>2, <1>5
  <2> HIDE DEF lo, hi
  <2>3. /\ SubSeq(records, lo, hi) \in Seq(Seq(Int))
        /\ Len(SubSeq(records, lo, hi)) = IF lo <= hi THEN hi - lo + 1 ELSE 0
        /\ \A i \in 1 .. hi - lo + 1 : SubSeq(records, lo, hi)[i] = records[lo + i - 1]
    BY <2>1, SubSeqProperties
  <2> QED BY <2>2, <2>3 DEF lo
<1> HIDE DEF s
<1>7. ASSUME NEW k \in 1 .. n PROVE k - b \in 1 .. hi - b <=> b < k /\ k <= t
  BY <1>1, <1>2, <1>3
<1>8. \A k \in 1 .. n : k - b \in 1 .. Len(s) <=> b < k /\ k <= t BY <1>6, <1>7
<1>9. ASSUME NEW k \in 1 .. n, k - b \in 1 .. Len(s) PROVE s[k - b] = records[k]
  <2>1. b + (k - b) = k BY <1>1, <1>2
  <2>2. k - b \in 1 .. hi - b BY <1>6, <1>9
  <2>3. s[k - b] = records[b + (k - b)] BY <1>6, <2>2
  <2> QED BY <2>1, <2>3
<1> QED BY <1>4, <1>6, <1>8, <1>9 DEF b, t, R

Right(net, records, out, k) == out[k] = Rows(net, records)[k]

\* Writing the rows of a chunk makes its places right and leaves the others.
LEMMA WriteIs ==
  ASSUME NEW net, IsNetwork(net), NEW records \in Seq(Seq(Int)), NEW n, n = Len(records),
         NEW c \in 1 .. ChunkCount(n), NEW out \in [1 .. n -> Seq(Int)]
  PROVE  LET new == Write(out, c, Rows(net, Chunk(records, c))) IN
         /\ new \in [1 .. n -> Seq(Int)]
         /\ \A k \in 1 .. n :
              IF (c - 1) * ChunkRecords < k /\ k <= c * ChunkRecords
                THEN Right(net, records, new, k) ELSE new[k] = out[k]
<1> DEFINE b == (c - 1) * ChunkRecords
           t == c * ChunkRecords
           s == Chunk(records, c)
           rows == Rows(net, s)
           new == Write(out, c, rows)
<1>1. n \in Nat /\ Len(out) = n BY LenProperties, MadeSeq
<1>2. /\ s \in Seq(Seq(Int))
      /\ \A k \in 1 .. n : k - b \in 1 .. Len(s) <=> b < k /\ k <= t
      /\ \A k \in 1 .. n : k - b \in 1 .. Len(s) => s[k - b] = records[k]
  BY ChunkIs
<1>3. new = [k \in 1 .. n |-> IF k - b \in 1 .. Len(rows) THEN rows[k - b] ELSE out[k]]
  BY <1>1 DEF Write
<1> HIDE DEF b, t, s, new
<1>4. rows \in [1 .. Len(s) -> Seq(Int)] /\ Len(rows) = Len(s) BY <1>2, RowsTyped
<1>5. \A k \in 1 .. n : new[k] = IF k - b \in 1 .. Len(s) THEN rows[k - b] ELSE out[k]
  <2> HIDE DEF rows
  <2> QED BY <1>3, <1>4
<1>6. \A k \in 1 .. n : k - b \in 1 .. Len(s) => rows[k - b] = Rows(net, records)[k]
  BY <1>2 DEF Rows
<1> HIDE DEF rows
<1>7. new \in [1 .. n -> Seq(Int)] BY <1>3, <1>4
<1>8. \A k \in 1 .. n : IF b < k /\ k <= t THEN Right(net, records, new, k) ELSE new[k] = out[k]
  BY <1>2, <1>5, <1>6 DEF Right
<1> QED BY <1>7, <1>8 DEF b, t, new, rows, s

\* A batch between two chunks: what is written is right, and what is not yet
\* right is of a chunk that a job still has.
UnderWay(net, b, n) ==
  /\ b = [state |-> "scoring", records |-> b.records, out |-> b.out, jobs |-> b.jobs, scratch |-> b.scratch]
  /\ b.records \in Seq(Seq(Int)) /\ n = Len(b.records) /\ b.out \in [1 .. n -> Seq(Int)]
  /\ b.jobs \in [1 .. Workers -> SUBSET (1 .. ChunkCount(n))]
  /\ b.scratch \in [1 .. Workers -> Scratches(net)]
  /\ \A k \in 1 .. n : b.out[k] = <<>> \/ Right(net, b.records, b.out, k)
  /\ \A c \in 1 .. ChunkCount(n) :
       \/ \E w \in 1 .. Workers : c \in b.jobs[w]
       \/ \A k \in 1 .. n :
            (c - 1) * ChunkRecords < k /\ k <= c * ChunkRecords => Right(net, b.records, b.out, k)

Scored(net, b) ==
  b.state = "done" /\ b.records \in Seq(Seq(Int)) /\ b.out = Rows(net, b.records)

BatchInv ==
  /\ network \in Networks
  /\ ForwardOnly(network) =>
       batch = NoBatch \/ Scored(network, batch) \/ UnderWay(network, batch, Len(batch.records))

LEMMA FlatScored ==
  ASSUME BatchInv, ScoreFlat PROVE BatchInv'
<1>1. PICK n \in Sizes, stride \in Strides :
        batch' = [state |-> "done", records |-> Reads(Take(n, stride)),
                  out |-> ScoreBatchInto(network, BatchScratch(network), Reads(Take(n, stride))).out,
                  jobs |-> <<>>, scratch |-> <<>>]
  BY DEF ScoreFlat
<1> DEFINE records == Reads(Take(n, stride))
<1>2. network' = network BY DEF ScoreFlat
<1>3. records \in Seq(Seq(Int)) BY TakeTyped, ReadsTyped
<1>4. IsNetwork(network) BY NetworksAre DEF BatchInv
<1> HIDE DEF records
<1>5. ASSUME ForwardOnly(network) PROVE Scored(network, batch')
  <2>1. BatchScratch(network) \in Scratches(network) BY <1>4, ScratchTyped
  <2>2. ScoreBatchInto(network, BatchScratch(network), records).out = Rows(network, records)
    BY <1>3, <1>4, <1>5, <2>1, ScoreBatchIs
  <2> QED BY <1>1, <1>3, <2>2 DEF Scored, records
<1> QED BY <1>2, <1>5 DEF BatchInv

LEMMA ParallelStarts ==
  ASSUME BatchInv, ScoreParallel PROVE BatchInv'
<1>1. PICK n \in Sizes \ {0}, stride \in Strides : \E cut \in Splits(ChunkCount(n)) :
        batch' = [state |-> "scoring", records |-> Reads(Take(n, stride)), out |-> NothingWritten(n),
                  jobs |-> [w \in 1 .. Workers |-> {c \in 1 .. ChunkCount(n) : cut[c] = w}],
                  scratch |-> [w \in 1 .. Workers |-> BatchScratch(network)]]
  BY DEF ScoreParallel
<1>2. PICK cut \in Splits(ChunkCount(n)) :
        batch' = [state |-> "scoring", records |-> Reads(Take(n, stride)), out |-> NothingWritten(n),
                  jobs |-> [w \in 1 .. Workers |-> {c \in 1 .. ChunkCount(n) : cut[c] = w}],
                  scratch |-> [w \in 1 .. Workers |-> BatchScratch(network)]]
  BY <1>1
<1> DEFINE records == Reads(Take(n, stride))
           out == NothingWritten(n)
           jobs == [w \in 1 .. Workers |-> {c \in 1 .. ChunkCount(n) : cut[c] = w}]
           scratch == [w \in 1 .. Workers |-> BatchScratch(network)]
<1>3. network' = network BY DEF ScoreParallel
<1>4. records \in Seq(Seq(Int)) /\ Len(records) = n /\ n \in Nat BY TakeTyped, ReadsTyped
<1>5. IsNetwork(network) BY NetworksAre DEF BatchInv
<1>6. out \in [1 .. n -> Seq(Int)] /\ \A k \in 1 .. n : out[k] = <<>>
  BY EmptySeq DEF NothingWritten
<1>7. jobs \in [1 .. Workers -> SUBSET (1 .. ChunkCount(n))] OBVIOUS
<1>8. scratch \in [1 .. Workers -> Scratches(network)] BY <1>5, ScratchTyped
<1>9. \A c \in 1 .. ChunkCount(n) : \E w \in 1 .. Workers : c \in jobs[w]
  <2> TAKE c \in 1 .. ChunkCount(n)
  <2>1. cut[c] \in 1 .. Workers BY DEF Splits
  <2>2. c \in jobs[cut[c]] BY <2>1
  <2> QED BY <2>1, <2>2
<1>10. batch' = [state |-> "scoring", records |-> records, out |-> out, jobs |-> jobs, scratch |-> scratch]
  BY <1>2
<1> HIDE DEF records, out, jobs, scratch
<1>11. UnderWay(network, batch', n)
  <2> DEFINE b == [state |-> "scoring", records |-> records, out |-> out, jobs |-> jobs, scratch |-> scratch]
  <2>1. /\ b = [state |-> "scoring", records |-> b.records, out |-> b.out, jobs |-> b.jobs, scratch |-> b.scratch]
        /\ b.records = records /\ b.out = out /\ b.jobs = jobs /\ b.scratch = scratch
    OBVIOUS
  <2> HIDE DEF b
  <2>2. UnderWay(network, b, n) BY <1>4, <1>6, <1>7, <1>8, <1>9, <2>1 DEF UnderWay
  <2> QED BY <1>10, <2>2 DEF b
<1>12. Len(batch'.records) = n BY <1>4, <1>10
<1> QED BY <1>3, <1>11, <1>12 DEF BatchInv

LEMMA ChunkScored ==
  ASSUME BatchInv, NEW w \in 1 .. Workers, ScoreChunk(w) PROVE BatchInv'
<1>1. batch.state = "scoring" /\ network' = network BY DEF ScoreChunk
<1> SUFFICES ASSUME ForwardOnly(network) PROVE UnderWay(network, batch', Len(batch'.records))
  BY <1>1 DEF BatchInv
<1> DEFINE n == Len(batch.records)
<1>2. UnderWay(network, batch, n) BY <1>1 DEF BatchInv, NoBatch, Scored
<1>3. IsNetwork(network) BY NetworksAre DEF BatchInv
<1>4. PICK c \in batch.jobs[w] :
        LET done == ScoreBatchInto(network, batch.scratch[w], Chunk(batch.records, c)) IN
        batch' = [batch EXCEPT !.jobs[w] = @ \ {c}, !.scratch[w] = done.scratch, !.out = Write(@, c, done.out)]
  BY DEF ScoreChunk
<1> DEFINE records == batch.records
           out == batch.out
           chunk == Chunk(records, c)
           done == ScoreBatchInto(network, batch.scratch[w], chunk)
           new == Write(out, c, Rows(network, chunk))
           jobs == [batch.jobs EXCEPT ![w] = @ \ {c}]
           scratch == [batch.scratch EXCEPT ![w] = done.scratch]
<1>5. /\ records \in Seq(Seq(Int)) /\ n = Len(records) /\ n \in Nat /\ out \in [1 .. n -> Seq(Int)]
      /\ batch.jobs \in [1 .. Workers -> SUBSET (1 .. ChunkCount(n))]
      /\ batch.scratch \in [1 .. Workers -> Scratches(network)]
      /\ c \in 1 .. ChunkCount(n)
  BY <1>2, LenProperties DEF UnderWay
<1>6. chunk \in Seq(Seq(Int))
  <2> HIDE DEF n
  <2> QED BY <1>5, ChunkIs
<1>7. done.scratch \in Scratches(network) /\ done.out = Rows(network, chunk)
  <2> DEFINE s == batch.scratch[w]
  <2>1. s \in Scratches(network) BY <1>5
  <2> HIDE DEF s, chunk
  <2> QED BY <1>3, <1>6, <2>1, ScoreBatchIs DEF s
<1>8. /\ new \in [1 .. n -> Seq(Int)]
      /\ \A k \in 1 .. n :
           IF (c - 1) * ChunkRecords < k /\ k <= c * ChunkRecords
             THEN Right(network, records, new, k) ELSE new[k] = out[k]
  <2> HIDE DEF n, records, out
  <2>1. LET v == Write(out, c, Rows(network, Chunk(records, c))) IN
        /\ v \in [1 .. n -> Seq(Int)]
        /\ \A k \in 1 .. n :
             IF (c - 1) * ChunkRecords < k /\ k <= c * ChunkRecords
               THEN Right(network, records, v, k) ELSE v[k] = out[k]
    BY <1>3, <1>5, WriteIs
  <2> QED BY <2>1
<1>9. batch' = [batch EXCEPT !.jobs[w] = @ \ {c}, !.scratch[w] = done.scratch, !.out = Write(@, c, done.out)]
  BY <1>4
<1> HIDE DEF done
<1>10. batch' = [state |-> "scoring", records |-> records, out |-> new, jobs |-> jobs, scratch |-> scratch]
  <2>1. batch = [state |-> "scoring", records |-> records, out |-> out, jobs |-> batch.jobs, scratch |-> batch.scratch]
    BY <1>2 DEF UnderWay
  <2> DEFINE js == batch.jobs
             ss == batch.scratch
  <2>2. batch = [state |-> "scoring", records |-> records, out |-> out, jobs |-> js, scratch |-> ss] BY <2>1
  <2>3. Write(out, c, done.out) = new BY <1>7
  <2> HIDE DEF records, out, js, ss, new
  <2>4. batch' = [state |-> "scoring", records |-> records, out |-> new,
                  jobs |-> [js EXCEPT ![w] = @ \ {c}], scratch |-> [ss EXCEPT ![w] = done.scratch]]
    BY <1>9, <2>2, <2>3
  <2> QED BY <2>4 DEF js, ss
<1>11. jobs \in [1 .. Workers -> SUBSET (1 .. ChunkCount(n))] BY <1>5
<1>12. scratch \in [1 .. Workers -> Scratches(network)] BY <1>5, <1>7
<1>13. \A d \in 1 .. ChunkCount(n) : d # c =>
         \A v \in 1 .. Workers : d \in batch.jobs[v] => d \in jobs[v]
  BY <1>5
<1> HIDE DEF new, jobs, scratch, chunk
<1>14. \A k \in 1 .. n : Right(network, records, out, k) => Right(network, records, new, k)
  BY <1>8 DEF Right
<1>15. \A k \in 1 .. n : new[k] = <<>> \/ Right(network, records, new, k)
  <2>1. \A k \in 1 .. n : out[k] = <<>> \/ Right(network, records, out, k) BY <1>2 DEF UnderWay
  <2> QED BY <1>8, <1>14, <2>1
<1>16. ASSUME NEW d \in 1 .. ChunkCount(n)
       PROVE  \/ \E v \in 1 .. Workers : d \in jobs[v]
              \/ \A k \in 1 .. n :
                   (d - 1) * ChunkRecords < k /\ k <= d * ChunkRecords => Right(network, records, new, k)
  <2>1. CASE d = c BY <1>8, <2>1
  <2>2. CASE d # c
    <3>1. \/ \E v \in 1 .. Workers : d \in batch.jobs[v]
          \/ \A k \in 1 .. n :
               (d - 1) * ChunkRecords < k /\ k <= d * ChunkRecords => Right(network, records, out, k)
      BY <1>2 DEF UnderWay
    <3> QED BY <1>13, <1>14, <2>2, <3>1
  <2> QED BY <2>1, <2>2
<1>17. UnderWay(network, batch', n)
  <2> DEFINE b == [state |-> "scoring", records |-> records, out |-> new, jobs |-> jobs, scratch |-> scratch]
  <2> HIDE DEF records, n
  <2>1. /\ b = [state |-> "scoring", records |-> b.records, out |-> b.out, jobs |-> b.jobs, scratch |-> b.scratch]
        /\ b.records = records /\ b.out = new /\ b.jobs = jobs /\ b.scratch = scratch
    OBVIOUS
  <2> HIDE DEF b
  <2>2. UnderWay(network, b, n) BY <1>5, <1>8, <1>11, <1>12, <1>15, <1>16, <2>1 DEF UnderWay
  <2> QED BY <1>10, <2>2 DEF b
<1>18. batch'.records = records
  <2> HIDE DEF records
  <2> QED BY <1>10
<1> QED BY <1>17, <1>18

LEMMA JobsJoined ==
  ASSUME BatchInv, Join PROVE BatchInv'
<1>1. /\ batch.state = "scoring" /\ network' = network /\ \A w \in 1 .. Workers : batch.jobs[w] = {}
      /\ batch' = [batch EXCEPT !.state = "done", !.jobs = <<>>, !.scratch = <<>>]
  BY DEF Join
<1> SUFFICES ASSUME ForwardOnly(network) PROVE Scored(network, batch')
  BY <1>1 DEF BatchInv
<1> DEFINE n == Len(batch.records)
           records == batch.records
           out == batch.out
<1>2. UnderWay(network, batch, n) BY <1>1 DEF BatchInv, NoBatch, Scored
<1>3. IsNetwork(network) BY NetworksAre DEF BatchInv
<1>4. records \in Seq(Seq(Int)) /\ n = Len(records) /\ n \in Nat /\ out \in [1 .. n -> Seq(Int)]
  BY <1>2, LenProperties DEF UnderWay
<1>5. \A k \in 1 .. n : out[k] = Rows(network, records)[k]
  <2> TAKE k \in 1 .. n
  <2>1. PICK c \in 1 .. ChunkCount(n) : (c - 1) * ChunkRecords < k /\ k <= c * ChunkRecords
    <3> HIDE DEF n
    <3> QED BY <1>4, ChunkOfRecord
  <2>2. Right(network, records, out, k) BY <1>1, <1>2, <2>1 DEF UnderWay
  <2> QED BY <2>2 DEF Right
<1>6. out = Rows(network, records)
  <2> HIDE DEF records, out
  <2>1. Rows(network, records) \in [1 .. n -> Seq(Int)] BY <1>3, <1>4, RowsTyped
  <2> DEFINE X == Seq(Int)
             r == Rows(network, records)
  <2>2. r \in [1 .. n -> X] /\ out \in [1 .. n -> X] /\ \A k \in 1 .. n : out[k] = r[k] BY <1>4, <1>5, <2>1
  <2> HIDE DEF X, r, n
  <2>3. out = r BY <1>4, <2>2, SameSeq
  <2> QED BY <2>3 DEF r
<1>7. batch'.state = "done" /\ batch'.records = records /\ batch'.out = out
  BY <1>1, <1>2 DEF UnderWay
<1> QED BY <1>4, <1>6, <1>7 DEF Scored

-----------------------------------------------------------------------------
(* The theorems *)

\* What holds between any two calls, whether a caller or a pool of jobs uses
\* the network.
ScoringInv == BuffersInv /\ BatchInv /\ AnswersForgetHistory /\ LossTakesEachRecord

LEMMA StartsClean == Init => ScoringInv
<1> SUFFICES ASSUME Init PROVE ScoringInv
  OBVIOUS
<1>1. network \in Networks
  BY ScoringAssumption DEF Init, ScoringInit, ScoringRests
<1>2. buffers = NewBuffers(network) /\ reply = NoReply /\ batch = NoBatch
  BY DEF Init, ScoringInit, ScoringRests
<1>3. BuffersInv BY <1>1, <1>2, NetworksAre, NewBuffersTyped DEF BuffersInv
<1>4. BatchInv BY <1>1, <1>2 DEF BatchInv
<1>5. reply.op = "none" BY <1>2 DEF NoReply
<1>6. AnswersForgetHistory /\ LossTakesEachRecord BY <1>5 DEF AnswersForgetHistory, LossTakesEachRecord
<1> QED BY <1>3, <1>4, <1>6 DEF ScoringInv

\* Between calls of a caller the batch is not touched, and of a batch the rest.
LEMMA BatchKept == ASSUME BatchInv, UNCHANGED <<network, batch>> PROVE BatchInv'
BY DEF BatchInv

LEMMA CallsKept ==
  ASSUME BuffersInv, AnswersForgetHistory, LossTakesEachRecord, UNCHANGED <<network, buffers, fresh, reply>>
  PROVE  BuffersInv' /\ AnswersForgetHistory' /\ LossTakesEachRecord'
<1>1. BuffersInv' BY DEF BuffersInv
<1>2. AnswersForgetHistory' BY DEF AnswersForgetHistory, FreshTrace
<1>3. LossTakesEachRecord' BY DEF LossTakesEachRecord
<1> QED BY <1>1, <1>2, <1>3

LEMMA StepsKeep == ASSUME ScoringInv, [Next]_<<svars, scanVars>> PROVE ScoringInv'
<1>1. BuffersInv /\ BatchInv /\ AnswersForgetHistory /\ LossTakesEachRecord BY DEF ScoringInv
<1> SUFFICES BuffersInv' /\ BatchInv' /\ AnswersForgetHistory' /\ LossTakesEachRecord'
  BY DEF ScoringInv
<1>2. CASE Activate \/ ActivateInto
  <2>1. UNCHANGED <<network, batch>> BY <1>2 DEF Activate, ActivateInto, Answered
  <2> QED BY <1>1, <1>2, <2>1, CallerActivates, BatchKept
<1>3. CASE ActivateAndTrace
  <2>1. UNCHANGED <<network, batch>> BY <1>3 DEF ActivateAndTrace, Answered
  <2> QED BY <1>1, <1>3, <2>1, CallerTraces, BatchKept
<1>4. CASE TraceQuad
  <2>1. UNCHANGED <<network, batch>> BY <1>4 DEF TraceQuad, Answered
  <2> QED BY <1>1, <1>4, <2>1, CallerTracesQuad, BatchKept
<1>5. CASE Reset
  <2>1. BuffersInv' /\ UNCHANGED <<network, reply, batch>> BY <1>1, <1>5, CallerResets
  <2>2. AnswersForgetHistory' BY <1>1, <2>1 DEF AnswersForgetHistory, FreshTrace
  <2>3. LossTakesEachRecord' BY <1>1, <2>1 DEF LossTakesEachRecord
  <2> QED BY <1>1, <2>1, <2>2, <2>3, BatchKept
<1>6. CASE SumLoss
  <2>1. UNCHANGED <<network, batch>> BY <1>1, <1>6, CallerSums
  <2> QED BY <1>1, <1>6, <2>1, CallerSums, BatchKept
<1>7. CASE ScoreFlat
  <2>1. UNCHANGED <<network, buffers, fresh, reply>> BY <1>7 DEF ScoreFlat
  <2> QED BY <1>1, <1>7, <2>1, FlatScored, CallsKept
<1>8. CASE ScoreParallel
  <2>1. UNCHANGED <<network, buffers, fresh, reply>> BY <1>8 DEF ScoreParallel
  <2> QED BY <1>1, <1>8, <2>1, ParallelStarts, CallsKept
<1>9. CASE \E w \in 1 .. Workers : ScoreChunk(w)
  <2>1. PICK w \in 1 .. Workers : ScoreChunk(w) BY <1>9
  <2>2. UNCHANGED <<network, buffers, fresh, reply>> BY <2>1 DEF ScoreChunk
  <2> QED BY <1>1, <2>1, <2>2, ChunkScored, CallsKept
<1>10. CASE Join
  <2>1. UNCHANGED <<network, buffers, fresh, reply>> BY <1>10 DEF Join
  <2> QED BY <1>1, <1>10, <2>1, JobsJoined, CallsKept
<1>11. CASE UNCHANGED svars
  <2>1. UNCHANGED <<network, buffers, fresh, reply>> /\ UNCHANGED <<network, batch>> BY <1>11 DEF svars
  <2> QED BY <1>1, <2>1, CallsKept, BatchKept
<1>12. \/ Activate \/ ActivateInto \/ ActivateAndTrace \/ TraceQuad \/ Reset \/ SumLoss
       \/ ScoreFlat \/ ScoreParallel \/ (\E w \in 1 .. Workers : ScoreChunk(w)) \/ Join
       \/ UNCHANGED svars
  BY DEF Next, ScoringNext
<1> QED BY <1>2, <1>3, <1>4, <1>5, <1>6, <1>7, <1>8, <1>9, <1>10, <1>11, <1>12

\* The invariant the results below are parts of.
THEOREM ScoringInvHolds == Spec => []ScoringInv
BY StartsClean, StepsKeep, PTL DEF Spec

\* The activations, the four records' and the tile keep the shape of the
\* network, and `act` holds nothing behind the inputs once it was zeroed.
THEOREM BuffersKeepShape == Spec => []BuffersInv
<1>1. ScoringInv => BuffersInv BY DEF ScoringInv
<1> QED BY <1>1, ScoringInvHolds, PTL

\* Whatever the buffers hold from earlier calls, activate and the traced passes
\* of network.rs answer what a fresh network answers.
THEOREM AnswersAlwaysForget == Spec => []AnswersForgetHistory
<1>1. ScoringInv => AnswersForgetHistory BY DEF ScoringInv
<1> QED BY <1>1, ScoringInvHolds, PTL

\* The packed sums of loss.rs take one term of each record, in order, down
\* every path.
THEOREM LossAlwaysTakesEach == Spec => []LossTakesEachRecord
<1>1. ScoringInv => LossTakesEachRecord BY DEF ScoringInv
<1> QED BY <1>1, ScoringInvHolds, PTL

\* score_records_flat and the jobs of score_records_parallel_flat write a row
\* only where its record stands, and the right one, however the chunks are cut.
THEOREM ScoresAlwaysRecordwise == Spec => []ScoresAreRecordwise
<1>1. BatchInv => ScoresAreRecordwise
  <2> SUFFICES ASSUME BatchInv, ForwardOnly(network), NEW k \in 1 .. Len(batch.out),
                      batch.state = "done" \/ batch.out[k] # <<>>
               PROVE  batch.out[k] = Lone(network, batch.records[k])
    BY DEF ScoresAreRecordwise
  <2>1. CASE batch = NoBatch
    <3>1. batch.out = <<>> BY <2>1 DEF NoBatch
    <3>2. Len(batch.out) = 0 BY <3>1
    <3> QED BY <3>2
  <2>2. CASE Scored(network, batch)
    <3>1. batch.records \in Seq(Seq(Int)) /\ batch.out = Rows(network, batch.records) BY <2>2 DEF Scored
    <3>2. Len(batch.out) = Len(batch.records) BY <3>1, RowsTyped, NetworksAre DEF BatchInv
    <3> QED BY <3>1, <3>2 DEF Rows
  <2>3. CASE UnderWay(network, batch, Len(batch.records))
    <3> DEFINE n == Len(batch.records)
    <3>1. /\ batch.records \in Seq(Seq(Int)) /\ batch.out \in [1 .. n -> Seq(Int)]
          /\ \A i \in 1 .. n : batch.out[i] = <<>> \/ Right(network, batch.records, batch.out, i)
      BY <2>3 DEF UnderWay
    <3>2. batch.state = "scoring" BY <2>3 DEF UnderWay
    <3>3. n \in Nat BY <3>1, LenProperties
    <3>4. Len(batch.out) = n
      <4> DEFINE o == batch.out
      <4>1. o \in [1 .. n -> Seq(Int)] BY <3>1
      <4> HIDE DEF o, n
      <4> QED BY <3>3, <4>1, MadeSeq DEF o
    <3>5. Right(network, batch.records, batch.out, k) BY <3>1, <3>2, <3>4
    <3>6. k \in 1 .. Len(batch.records) BY <3>4
    <3> QED BY <3>5, <3>6 DEF Right, Rows
  <2> QED BY <2>1, <2>2, <2>3 DEF BatchInv
<1>2. ScoringInv => ScoresAreRecordwise BY <1>1 DEF ScoringInv
<1> QED BY <1>2, ScoringInvHolds, PTL

\* parallel_scoring.rs promises that the results are those of the sequential
\* path whatever the number of threads; it keeps the promise on every
\* forward-only network (and on no other kind it can be held to: the run
\* Scoring_parallel).
THEOREM ParallelAlwaysSequential == Spec => [](ForwardOnly(network) => ParallelIsSequential)
<1>1. BatchInv => (ForwardOnly(network) => ParallelIsSequential)
  <2> SUFFICES ASSUME BatchInv, ForwardOnly(network), batch.state = "done"
               PROVE  batch.out = ScoreBatchInto(network, BatchScratch(network), batch.records).out
    BY DEF ParallelIsSequential
  <2>1. Scored(network, batch) BY DEF BatchInv, NoBatch, UnderWay
  <2>2. batch.records \in Seq(Seq(Int)) /\ batch.out = Rows(network, batch.records) BY <2>1 DEF Scored
  <2>3. IsNetwork(network) BY NetworksAre DEF BatchInv
  <2>4. BatchScratch(network) \in Scratches(network) BY <2>3, ScratchTyped
  <2> QED BY <2>2, <2>3, <2>4, ScoreBatchIs
<1>2. ScoringInv => (ForwardOnly(network) => ParallelIsSequential) BY <1>1 DEF ScoringInv
<1> QED BY <1>2, ScoringInvHolds, PTL

-----------------------------------------------------------------------------
(* What a trace tells *)

IsListed(net, i) == ~net.neurons[i].constant /\ net.neurons[i].squash \in Aggregates

\* Aggregates up to neuron i: each has a pair in the trace.
Nth(net, i) == Cardinality({k \in 1 .. i : IsListed(net, k)})

LEMMA NthCounts ==
  ASSUME NEW net, NEW i \in Nat \ {0}
  PROVE  /\ Nth(net, i) \in Nat /\ Nth(net, i - 1) \in Nat
         /\ Nth(net, i) = Nth(net, i - 1) + (IF IsListed(net, i) THEN 1 ELSE 0)
<1> DEFINE S(j) == {k \in 1 .. j : IsListed(net, k)}
<1>1. i \in Int /\ i - 1 \in Int OBVIOUS
<1>2. IsFiniteSet(1 .. i) /\ IsFiniteSet(1 .. i - 1) BY <1>1, FS_Interval
<1>3. IsFiniteSet(S(i)) /\ IsFiniteSet(S(i - 1)) BY <1>2, FS_Subset
<1>4. Nth(net, i) \in Nat /\ Nth(net, i - 1) \in Nat BY <1>3, FS_CardinalityType DEF Nth
<1>5. CASE IsListed(net, i)
  <2>1. S(i) = S(i - 1) \cup {i} BY <1>5
  <2>2. i \notin S(i - 1) OBVIOUS
  <2> HIDE DEF S
  <2>3. Cardinality(S(i)) = Cardinality(S(i - 1)) + 1 BY <1>3, <2>1, <2>2, FS_AddElement
  <2> QED BY <1>4, <1>5, <2>3 DEF Nth, S
<1>6. CASE ~IsListed(net, i)
  <2>1. S(i) = S(i - 1) BY <1>6
  <2>2. Nth(net, i) = Cardinality(S(i)) /\ Nth(net, i - 1) = Cardinality(S(i - 1)) BY DEF Nth
  <2> HIDE DEF S
  <2> QED BY <1>4, <1>6, <2>1, <2>2
<1> QED BY <1>4, <1>5, <1>6

LEMMA NoneListed == ASSUME NEW net PROVE Nth(net, 0) = 0
<1>1. {k \in 1 .. 0 : IsListed(net, k)} = {} OBVIOUS
<1> QED BY <1>1, FS_EmptySet DEF Nth

\* The pairs of an earlier neuron lie before those of a later one.
LEMMA NthGrows ==
  ASSUME NEW net, NEW i \in Nat, NEW j \in 1 .. i
  PROVE  Nth(net, j) \in Nat /\ Nth(net, i) \in Nat /\ Nth(net, j) <= Nth(net, i)
<1> DEFINE S(m) == {k \in 1 .. m : IsListed(net, k)}
<1>1. i \in Int /\ j \in Int OBVIOUS
<1>2. IsFiniteSet(1 .. i) /\ IsFiniteSet(1 .. j) BY <1>1, FS_Interval
<1>3. IsFiniteSet(S(i)) /\ IsFiniteSet(S(j)) BY <1>2, FS_Subset
<1>4. S(j) \in SUBSET S(i) OBVIOUS
<1> HIDE DEF S
<1>5. Cardinality(S(j)) <= Cardinality(S(i)) BY <1>3, <1>4, FS_Subset
<1>6. Cardinality(S(i)) \in Nat /\ Cardinality(S(j)) \in Nat BY <1>3, FS_CardinalityType
<1> QED BY <1>5, <1>6 DEF Nth, S

\* What neuron i leaves behind in each case.
LEMMA TracedTells ==
  ASSUME NEW net, IsNetwork(net), NEW t \in Traces(net), NEW i \in 1 .. Len(net.neurons)
  PROVE  LET n == net.neurons[i]
             u == Traced(net, t, i) IN
         /\ u \in Traces(net)
         /\ \A k \in 1 .. NodeCount(net) : k # net.inputs + i => u.act[k] = t.act[k]
         /\ \A k \in 1 .. Len(net.neurons) : k # i => u.hints[k] = t.hints[k]
         /\ ~n.constant => u.act[net.inputs + i] = Scalar(t.act, n)
         /\ IsListed(net, i) => u.hints[i] = Scalar(t.act, n)
                                /\ u.trace = t.trace \o <<i - 1, Mark(t.act, n)>>
         /\ ~IsListed(net, i) => u.trace = t.trace
         /\ ~n.constant /\ ~IsListed(net, i) => u.hints[i] = WeightedSum(t.act, n)
<1> DEFINE n == net.neurons[i]
           u == Traced(net, t, i)
           none == <<>>
<1>1. n \in NeuronsOf(net) /\ t.act \in Acts(net) /\ t.trace \in Seq(Int) BY NetworkFacts DEF Traces
<1>2. /\ Scalar(t.act, n) \in Int /\ WeightedSum(t.act, n) \in Int /\ n.bias \in Int
      /\ Mark(t.act, n) \in Int
  BY <1>1, ScalarIsInt, MarkIsInt
<1>3. none \in Seq(Int) /\ t.trace \o none = t.trace
  <2>1. none \in Seq(Int) OBVIOUS
  <2> QED BY <1>1, <2>1, ConcatEmptySeq
<1> DEFINE pair == <<i - 1, Mark(t.act, n)>>
<1>4. pair \in Seq(Int)
  <2>1. i - 1 \in Int BY NetworkFacts
  <2> QED BY <1>2, <2>1
<1>5. net.inputs + i \in 1 .. NodeCount(net) /\ i \in 1 .. Len(net.neurons) BY NetworkFacts
<1>6. ASSUME NEW value \in Int, NEW hint \in Int, NEW p \in Seq(Int), u = Told(net, t, i, value, hint, p)
      PROVE  /\ u.act[net.inputs + i] = value /\ u.hints[i] = hint /\ u.trace = t.trace \o p
             /\ \A k \in 1 .. NodeCount(net) : k # net.inputs + i => u.act[k] = t.act[k]
             /\ \A k \in 1 .. Len(net.neurons) : k # i => u.hints[k] = t.hints[k]
  <2>1. /\ u.act = Put(t.act, net.inputs + i, value) /\ u.trace = t.trace \o p
        /\ \A k \in 1 .. Len(net.neurons) : u.hints[k] = IF k = i THEN hint ELSE t.hints[k]
    BY <1>6, ToldTyped
  <2>2. \A k \in 1 .. NodeCount(net) : u.act[k] = IF k = net.inputs + i THEN value ELSE t.act[k]
    BY <1>1, <1>5, <1>6, <2>1, PutTyped
  <2> HIDE DEF u
  <2> QED BY <1>5, <2>1, <2>2
<1>7. u \in Traces(net) BY TracedTyped
<1>8. CASE n.constant
  <2>1. u = Told(net, t, i, n.bias, n.bias, none) BY <1>8 DEF Traced
  <2> HIDE DEF u, none, pair
  <2>2. /\ u.trace = t.trace
        /\ \A k \in 1 .. NodeCount(net) : k # net.inputs + i => u.act[k] = t.act[k]
        /\ \A k \in 1 .. Len(net.neurons) : k # i => u.hints[k] = t.hints[k]
    BY <1>2, <1>3, <1>6, <2>1
  <2>3. ~IsListed(net, i) BY <1>8 DEF IsListed
  <2> HIDE DEF n
  <2> QED BY <1>7, <1>8, <2>2, <2>3 DEF u, n
<1>9. CASE IsListed(net, i)
  <2>0. ~n.constant /\ n.squash \in Aggregates BY <1>9 DEF IsListed
  <2> DEFINE v == Scalar(t.act, n)
  <2>1. u = Told(net, t, i, v, v, pair) BY <2>0 DEF Traced
  <2> HIDE DEF u, none, pair, v
  <2>2. /\ u.trace = t.trace \o pair /\ u.act[net.inputs + i] = v /\ u.hints[i] = v
        /\ \A k \in 1 .. NodeCount(net) : k # net.inputs + i => u.act[k] = t.act[k]
        /\ \A k \in 1 .. Len(net.neurons) : k # i => u.hints[k] = t.hints[k]
    BY <1>2, <1>4, <1>6, <2>1 DEF v
  <2> QED BY <1>7, <1>9, <2>0, <2>2 DEF u, v, pair
<1>10. CASE ~n.constant /\ ~IsListed(net, i)
  <2>0. n.squash \notin Aggregates BY <1>10 DEF IsListed
  <2> DEFINE v == Scalar(t.act, n)
             w == WeightedSum(t.act, n)
  <2>1. u = Told(net, t, i, v, w, none) BY <1>10, <2>0 DEF Traced
  <2> HIDE DEF u, none, pair, v, w
  <2>2. /\ u.trace = t.trace /\ u.act[net.inputs + i] = v /\ u.hints[i] = w
        /\ \A k \in 1 .. NodeCount(net) : k # net.inputs + i => u.act[k] = t.act[k]
        /\ \A k \in 1 .. Len(net.neurons) : k # i => u.hints[k] = t.hints[k]
    BY <1>2, <1>3, <1>6, <2>1 DEF v, w
  <2> QED BY <1>7, <1>10, <2>2 DEF u, v, w
<1> HIDE DEF u, pair, none
<1>11. n.constant \/ IsListed(net, i) \/ (~n.constant /\ ~IsListed(net, i))
  OBVIOUS
<1> QED BY <1>8, <1>9, <1>10, <1>11 DEF u

\* Trace t still shows what neuron j left when s was before it.
Shows(net, t, s, j) ==
  LET n == net.neurons[j] IN
  /\ \A k \in 1 .. net.inputs + j - 1 : t.act[k] = s.act[k]
  /\ ~n.constant => t.act[net.inputs + j] = Scalar(s.act, n)
  /\ IsListed(net, j) =>
       /\ t.hints[j] = Scalar(s.act, n)
       /\ t.trace[2 * Nth(net, j) - 1] = j - 1 /\ t.trace[2 * Nth(net, j)] = Mark(s.act, n)
  /\ ~n.constant /\ ~IsListed(net, j) => t.hints[j] = WeightedSum(s.act, n)

LEMMA PairBehind ==
  ASSUME NEW s \in Seq(Int), NEW pair \in Seq(Int), NEW c \in Nat, Len(s) = 2 * c, Len(pair) = 2
  PROVE  /\ Len(s \o pair) = 2 * c + 2
         /\ \A k \in 1 .. 2 * c + 2 : (s \o pair)[k] = IF k <= 2 * c THEN s[k] ELSE pair[k - 2 * c]
<1> DEFINE e == 2 * c
<1>1. e \in Nat OBVIOUS
<1> HIDE DEF e
<1>2. Len(s) = e BY DEF e
<1>3. /\ Len(s \o pair) = e + 2
      /\ \A k \in 1 .. e + 2 : (s \o pair)[k] = IF k <= e THEN s[k] ELSE pair[k - e]
  <2>1. /\ Len(s \o pair) = Len(s) + Len(pair)
        /\ \A k \in 1 .. Len(s) + Len(pair) : (s \o pair)[k] = IF k <= Len(s) THEN s[k] ELSE pair[k - Len(s)]
    BY ConcatProperties
  <2> QED BY <1>2, <2>1
<1> QED BY <1>3 DEF e

\* An own step shows.
LEMMA ShowsAtOnce ==
  ASSUME NEW net, IsNetwork(net), NEW t \in Traces(net), NEW i \in 1 .. Len(net.neurons),
         Len(t.trace) = 2 * Nth(net, i - 1)
  PROVE  /\ Shows(net, Traced(net, t, i), t, i)
         /\ Len(Traced(net, t, i).trace) = 2 * Nth(net, i)
<1> DEFINE u == Traced(net, t, i)
           n == net.neurons[i]
           c == Nth(net, i - 1)
           tr == t.trace
           mk == Mark(t.act, n)
<1>1. /\ u \in Traces(net)
      /\ \A k \in 1 .. NodeCount(net) : k # net.inputs + i => u.act[k] = t.act[k]
      /\ ~n.constant => u.act[net.inputs + i] = Scalar(t.act, n)
      /\ IsListed(net, i) => u.hints[i] = Scalar(t.act, n) /\ u.trace = tr \o <<i - 1, mk>>
      /\ ~IsListed(net, i) => u.trace = tr
      /\ ~n.constant /\ ~IsListed(net, i) => u.hints[i] = WeightedSum(t.act, n)
  BY TracedTells
<1>2. /\ net.inputs \in Nat /\ i \in Nat \ {0} /\ i \in Int
      /\ NodeCount(net) = net.inputs + Len(net.neurons) /\ Len(net.neurons) \in Nat
  BY NetworkFacts
<1>3. c \in Nat /\ Nth(net, i) = c + (IF IsListed(net, i) THEN 1 ELSE 0) BY <1>2, NthCounts
<1>4. tr \in Seq(Int) /\ Len(tr) = 2 * c BY DEF Traces
<1>5. mk \in Int BY NetworkFacts, MarkIsInt DEF Traces
<1> HIDE DEF u, c, tr, mk
<1>6. \A k \in 1 .. net.inputs + i - 1 : u.act[k] = t.act[k] BY <1>1, <1>2
<1>7. IsListed(net, i) =>
        /\ Len(u.trace) = 2 * c + 2
        /\ u.trace[2 * Nth(net, i) - 1] = i - 1 /\ u.trace[2 * Nth(net, i)] = mk
  <2> SUFFICES ASSUME IsListed(net, i)
               PROVE  /\ Len(u.trace) = 2 * c + 2
                      /\ u.trace[2 * Nth(net, i) - 1] = i - 1 /\ u.trace[2 * Nth(net, i)] = mk
    OBVIOUS
  <2> DEFINE pair == <<i - 1, mk>>
  <2>1. pair \in Seq(Int) /\ Len(pair) = 2 /\ pair[1] = i - 1 /\ pair[2] = mk BY <1>2, <1>5
  <2>2. u.trace = tr \o pair BY <1>1
  <2> HIDE DEF pair
  <2>3. /\ Len(tr \o pair) = 2 * c + 2
        /\ \A k \in 1 .. 2 * c + 2 : (tr \o pair)[k] = IF k <= 2 * c THEN tr[k] ELSE pair[k - 2 * c]
    BY <1>3, <1>4, <2>1, PairBehind
  <2>4. 2 * Nth(net, i) - 1 = 2 * c + 1 /\ 2 * Nth(net, i) = 2 * c + 2 BY <1>3
  <2>5. /\ 2 * c + 1 \in 1 .. 2 * c + 2 /\ 2 * c + 2 \in 1 .. 2 * c + 2
        /\ ~(2 * c + 1 <= 2 * c) /\ ~(2 * c + 2 <= 2 * c)
        /\ (2 * c + 1) - 2 * c = 1 /\ (2 * c + 2) - 2 * c = 2
    BY <1>3
  <2>6. (tr \o pair)[2 * c + 1] = pair[1] /\ (tr \o pair)[2 * c + 2] = pair[2] BY <2>3, <2>5
  <2> QED BY <2>1, <2>2, <2>3, <2>4, <2>6
<1>8. Len(u.trace) = 2 * Nth(net, i)
  <2>1. CASE IsListed(net, i)
    <3>1. Nth(net, i) = c + 1 BY <1>3, <2>1
    <3> QED BY <1>3, <1>7, <2>1, <3>1
  <2>2. CASE ~IsListed(net, i)
    <3>1. Nth(net, i) = c /\ u.trace = tr BY <1>1, <1>3, <2>2
    <3> QED BY <1>4, <3>1
  <2> QED BY <2>1, <2>2
<1>9. Shows(net, u, t, i) BY <1>1, <1>6, <1>7 DEF Shows, mk
<1> QED BY <1>8, <1>9 DEF u

\* And goes on showing behind later steps.
LEMMA ShowsStill ==
  ASSUME NEW net, IsNetwork(net), NEW t \in Traces(net), NEW i \in 1 .. Len(net.neurons),
         NEW s, NEW j \in 1 .. i - 1, Len(t.trace) = 2 * Nth(net, i - 1), Shows(net, t, s, j)
  PROVE  Shows(net, Traced(net, t, i), s, j)
<1> DEFINE u == Traced(net, t, i)
           n == net.neurons[i]
           c == Nth(net, i - 1)
           b == Nth(net, j)
           tr == t.trace
           mk == Mark(t.act, n)
<1>0. /\ u \in Traces(net)
      /\ \A k \in 1 .. NodeCount(net) : k # net.inputs + i => u.act[k] = t.act[k]
      /\ \A k \in 1 .. Len(net.neurons) : k # i => u.hints[k] = t.hints[k]
      /\ ~n.constant => u.act[net.inputs + i] = Scalar(t.act, n)
      /\ IsListed(net, i) => u.hints[i] = Scalar(t.act, n)
                             /\ u.trace = t.trace \o <<i - 1, mk>>
      /\ ~IsListed(net, i) => u.trace = t.trace
      /\ ~n.constant /\ ~IsListed(net, i) => u.hints[i] = WeightedSum(t.act, n)
  BY TracedTells
<1>1. /\ \A k \in 1 .. NodeCount(net) : k # net.inputs + i => u.act[k] = t.act[k]
      /\ \A k \in 1 .. Len(net.neurons) : k # i => u.hints[k] = t.hints[k]
      /\ IsListed(net, i) => u.hints[i] = Scalar(t.act, n) /\ u.trace = tr \o <<i - 1, mk>>
      /\ ~IsListed(net, i) => u.trace = tr
  BY <1>0
<1>2. /\ net.inputs \in Nat /\ i \in Nat \ {0} /\ i - 1 \in Nat
      /\ NodeCount(net) = net.inputs + Len(net.neurons) /\ Len(net.neurons) \in Nat
  BY NetworkFacts
<1>3. c \in Nat /\ b \in Nat /\ b <= c BY <1>2, NthGrows
<1>4. tr \in Seq(Int) /\ Len(tr) = 2 * c BY DEF Traces
<1>5. mk \in Int BY NetworkFacts, MarkIsInt DEF Traces
<1>6. IsListed(net, j) => b >= 1
  <2>1. j \in Nat \ {0} BY <1>2
  <2>2. Nth(net, j - 1) \in Nat /\ b = Nth(net, j - 1) + (IF IsListed(net, j) THEN 1 ELSE 0)
    BY <2>1, NthCounts
  <2> HIDE DEF b
  <2> QED BY <2>2
<1> HIDE DEF u, c, b, tr, mk
<1>7. \A k \in 1 .. 2 * c : u.trace[k] = tr[k]
  <2>1. CASE ~IsListed(net, i) BY <1>1, <2>1
  <2>2. CASE IsListed(net, i)
    <3> DEFINE pair == <<i - 1, mk>>
    <3>1. pair \in Seq(Int) /\ Len(pair) = 2 BY <1>2, <1>5
    <3>2. u.trace = tr \o pair BY <1>1, <2>2
    <3> HIDE DEF pair
    <3>3. \A k \in 1 .. 2 * c + 2 : (tr \o pair)[k] = IF k <= 2 * c THEN tr[k] ELSE pair[k - 2 * c]
      BY <1>3, <1>4, <3>1, PairBehind
    <3>4. \A k \in 1 .. 2 * c : k \in 1 .. 2 * c + 2 /\ k <= 2 * c BY <1>3
    <3> QED BY <3>2, <3>3, <3>4
  <2> QED BY <2>1, <2>2
<1>8. j \in 1 .. Len(net.neurons) /\ j # i /\ net.inputs + j # net.inputs + i
      /\ \A k \in 1 .. net.inputs + j : k \in 1 .. NodeCount(net) /\ k # net.inputs + i
  BY <1>2
<1>9. \A k \in 1 .. net.inputs + j - 1 : k \in 1 .. net.inputs + j BY <1>2
<1>10. \A k \in 1 .. net.inputs + j : u.act[k] = t.act[k] BY <1>1, <1>8
<1>11. u.hints[j] = t.hints[j] BY <1>1, <1>8
<1>12. net.inputs + j \in 1 .. net.inputs + j BY <1>2
<1>13. IsListed(net, j) => u.trace[2 * b - 1] = tr[2 * b - 1] /\ u.trace[2 * b] = tr[2 * b]
  <2>1. b >= 1 => 2 * b - 1 \in 1 .. 2 * c /\ 2 * b \in 1 .. 2 * c BY <1>3
  <2> QED BY <1>6, <1>7, <2>1
<1> DEFINE m == net.neurons[j]
<1>14. /\ \A k \in 1 .. net.inputs + j - 1 : t.act[k] = s.act[k]
       /\ ~m.constant => t.act[net.inputs + j] = Scalar(s.act, m)
       /\ IsListed(net, j) =>
            /\ t.hints[j] = Scalar(s.act, m)
            /\ tr[2 * b - 1] = j - 1 /\ tr[2 * b] = Mark(s.act, m)
       /\ ~m.constant /\ ~IsListed(net, j) => t.hints[j] = WeightedSum(s.act, m)
  BY DEF Shows, b, tr
<1> HIDE DEF m
<1>15. /\ \A k \in 1 .. net.inputs + j - 1 : u.act[k] = s.act[k]
       /\ ~m.constant => u.act[net.inputs + j] = Scalar(s.act, m)
       /\ IsListed(net, j) =>
            /\ u.hints[j] = Scalar(s.act, m)
            /\ u.trace[2 * b - 1] = j - 1 /\ u.trace[2 * b] = Mark(s.act, m)
       /\ ~m.constant /\ ~IsListed(net, j) => u.hints[j] = WeightedSum(s.act, m)
  BY <1>9, <1>10, <1>11, <1>12, <1>13, <1>14
<1> QED BY <1>15 DEF Shows, b, m, u

LEMMA OthersStay ==
  ASSUME NEW net, IsNetwork(net), NEW t \in Traces(net), NEW i \in 1 .. Len(net.neurons),
         NEW k \in 1 .. NodeCount(net), k # net.inputs + i
  PROVE  Traced(net, t, i).act[k] = t.act[k]
<1> DEFINE u == Traced(net, t, i)
           n == net.neurons[i]
<1>1. /\ u \in Traces(net)
      /\ \A q \in 1 .. NodeCount(net) : q # net.inputs + i => u.act[q] = t.act[q]
      /\ \A q \in 1 .. Len(net.neurons) : q # i => u.hints[q] = t.hints[q]
      /\ ~n.constant => u.act[net.inputs + i] = Scalar(t.act, n)
      /\ IsListed(net, i) => u.hints[i] = Scalar(t.act, n)
                             /\ u.trace = t.trace \o <<i - 1, Mark(t.act, n)>>
      /\ ~IsListed(net, i) => u.trace = t.trace
      /\ ~n.constant /\ ~IsListed(net, i) => u.hints[i] = WeightedSum(t.act, n)
  BY TracedTells
<1> HIDE DEF u
<1> QED BY <1>1 DEF u

\* At its end a trace shows every neuron.
LEMMA AllShow ==
  ASSUME NEW net, IsNetwork(net), NEW act \in Acts(net), NEW f, TraceSteps(f, net, act)
  PROVE  LET m == Len(net.neurons) IN
         /\ Len(f[m].trace) = 2 * Nth(net, m)
         /\ \A k \in 1 .. net.inputs : f[m].act[k] = act[k]
         /\ \A j \in 1 .. m : Shows(net, f[m], f[j - 1], j)
<1> DEFINE m == Len(net.neurons)
           Yet(i) ==  /\ Len(f[i].trace) = 2 * Nth(net, i)
                      /\ \A k \in 1 .. net.inputs : f[i].act[k] = act[k]
                      /\ \A j \in 1 .. i : Shows(net, f[i], f[j - 1], j)
           T == {i \in 0 .. m : Yet(i)}
<1>1. /\ m \in Nat /\ net.inputs \in Nat /\ NodeCount(net) = net.inputs + m
      /\ \A i \in 0 .. m : f[i] \in Traces(net)
  BY NetworkFacts DEF TraceSteps
<1>2. 0 \in T
  <2>1. f[0].trace = <<>> /\ f[0].act = act BY DEF TraceSteps, Untold
  <2>2. Len(f[0].trace) = 0 BY <2>1
  <2> QED BY <1>1, <2>1, <2>2, NoneListed
<1>3. ASSUME NEW i \in 1 .. m, i - 1 \in T PROVE i \in T
  <2>1. i - 1 \in 0 .. m /\ i \in 0 .. m BY <1>1
  <2> DEFINE t == f[i - 1]
  <2>2. /\ t \in Traces(net) /\ Len(t.trace) = 2 * Nth(net, i - 1)
        /\ \A k \in 1 .. net.inputs : t.act[k] = act[k]
        /\ \A j \in 1 .. i - 1 : Shows(net, t, f[j - 1], j)
    BY <1>1, <1>3, <2>1
  <2>3. f[i] = Traced(net, t, i) BY DEF TraceSteps
  <2> HIDE DEF t, m
  <2>4. Shows(net, f[i], t, i) /\ Len(f[i].trace) = 2 * Nth(net, i)
    BY <2>2, <2>3, ShowsAtOnce DEF m
  <2>5. ASSUME NEW j \in 1 .. i - 1 PROVE Shows(net, f[i], f[j - 1], j)
    <3>1. Shows(net, t, f[j - 1], j) BY <2>2
    <3> QED BY <2>2, <2>3, <3>1, ShowsStill DEF m
  <2>6. ASSUME NEW j \in 1 .. i PROVE Shows(net, f[i], f[j - 1], j)
    <3>1. j \in 1 .. i - 1 \/ j = i BY <1>1
    <3> QED BY <2>4, <2>5, <3>1 DEF t
  <2>7. ASSUME NEW k \in 1 .. net.inputs PROVE f[i].act[k] = act[k]
    <3>1. k \in 1 .. NodeCount(net) /\ k # net.inputs + i BY <1>1
    <3>2. Traced(net, t, i).act[k] = t.act[k] BY <2>2, <3>1, OthersStay DEF m
    <3> QED BY <2>2, <2>3, <3>1, <3>2
  <2>8. Yet(i) BY <2>4, <2>6, <2>7
  <2> QED BY <2>1, <2>8
<1>4. 0 .. m \subseteq T
  <2> HIDE DEF T, m
  <2> QED BY <1>1, <1>2, <1>3, InductionUpTo
<1>5. m \in 0 .. m BY <1>1
<1>6. Yet(m) BY <1>4, <1>5
<1> QED BY <1>6 DEF m

\* On a forward-only network the terms of a neuron are those of the buffer the
\* trace ends with.
LEMMA LateTerms ==
  ASSUME NEW net, IsNetwork(net), ForwardOnly(net), NEW j \in 1 .. Len(net.neurons),
         NEW t, NEW s, Shows(net, t, s, j)
  PROVE  LET n == net.neurons[j] IN
         /\ ~n.constant => t.act[net.inputs + j] = Scalar(t.act, n)
         /\ IsListed(net, j) =>
              /\ t.hints[j] = Scalar(t.act, n)
              /\ t.trace[2 * Nth(net, j) - 1] = j - 1 /\ t.trace[2 * Nth(net, j)] = Mark(t.act, n)
         /\ ~n.constant /\ ~IsListed(net, j) => t.hints[j] = WeightedSum(t.act, n)
<1> DEFINE n == net.neurons[j]
           a == t.act
           b == s.act
<1>1. /\ \A k \in 1 .. net.inputs + j - 1 : a[k] = b[k]
      /\ ~n.constant => a[net.inputs + j] = Scalar(b, n)
      /\ IsListed(net, j) =>
           /\ t.hints[j] = Scalar(b, n)
           /\ t.trace[2 * Nth(net, j) - 1] = j - 1 /\ t.trace[2 * Nth(net, j)] = Mark(b, n)
      /\ ~n.constant /\ ~IsListed(net, j) => t.hints[j] = WeightedSum(b, n)
  BY DEF Shows
<1> HIDE DEF a, b
<1>2. Terms(a, n) = Terms(b, n) BY <1>1, NeuronForgets
<1>3. Scalar(a, n) = Scalar(b, n) /\ WeightedSum(a, n) = WeightedSum(b, n) /\ Mark(a, n) = Mark(b, n)
  BY <1>2, OnlyTermsCount
<1> HIDE DEF n
<1>4. /\ ~n.constant => a[net.inputs + j] = Scalar(a, n)
      /\ IsListed(net, j) =>
           /\ t.hints[j] = Scalar(a, n)
           /\ t.trace[2 * Nth(net, j) - 1] = j - 1 /\ t.trace[2 * Nth(net, j)] = Mark(a, n)
      /\ ~n.constant /\ ~IsListed(net, j) => t.hints[j] = WeightedSum(a, n)
  BY <1>1, <1>3
<1> QED BY <1>4 DEF a, n

\* What the mark of an aggregate says of its value.
LEMMA MarkExplains ==
  ASSUME NEW net, IsNetwork(net), NEW act \in Acts(net), NEW j \in 1 .. Len(net.neurons),
         IsListed(net, j)
  PROVE  LET n == net.neurons[j]
             mark == Mark(act, n) IN
         /\ n.squash \in {"MINIMUM", "MAXIMUM"} =>
              Scalar(act, n) = Limited(n.squash,
                                 n.bias + (IF n.in = <<>> THEN 0 ELSE Terms(act, n)[mark + 1]))
         /\ n.squash = "IF" =>
              Scalar(act, n) = Limited(n.squash, n.bias +
                                 Arm(act, n, IF mark = 1 THEN {"positive", "standard"} ELSE {"negative"}))
<1> DEFINE n == net.neurons[j]
           s == Terms(act, n)
<1>1. n \in NeuronsOf(net) /\ ~n.constant /\ n.squash \in Aggregates BY NetworkFacts DEF IsListed
<1>2. s \in Seq(Int) /\ Len(s) = Len(n.in) BY <1>1, TermsTyped
<1>3. Scalar(act, n) = Limited(n.squash, Aggregate(act, n)) BY <1>1 DEF Scalar
<1>4. n.in # <<>> => s # <<>>
  <2>1. n.in \in Seq(SynapsesOf(net)) BY <1>1 DEF NeuronsOf
  <2> HIDE DEF s, n
  <2>2. n.in # <<>> => Len(n.in) # 0 BY <2>1, EmptySeq
  <2>3. Len(<<>>) = 0 OBVIOUS
  <2> QED BY <1>2, <2>2, <2>3
<1>5. /\ s # <<>> => s[Winner(s, 1) + 1] = Least(s)
      /\ s # <<>> => s[Winner(s, -1) + 1] = Greatest(s)
  <2>1. 1 \in Signs /\ -1 \in Signs BY DEF Signs
  <2> HIDE DEF s
  <2> QED BY <1>2, <2>1, WinnerFacts
<1>6. CASE n.squash = "MINIMUM"
  <2>1. Mark(act, n) = Winner(s, 1) BY <1>6 DEF Mark
  <2>2. Aggregate(act, n) = n.bias + (IF n.in = <<>> THEN 0 ELSE Least(s)) BY <1>6 DEF Aggregate
  <2> HIDE DEF s
  <2>3. Aggregate(act, n) = n.bias + (IF n.in = <<>> THEN 0 ELSE s[Mark(act, n) + 1])
    BY <1>4, <1>5, <2>1, <2>2
  <2> QED BY <1>3, <1>6, <2>3 DEF s
<1>7. CASE n.squash = "MAXIMUM"
  <2>1. Mark(act, n) = Winner(s, -1) BY <1>7 DEF Mark
  <2>2. Aggregate(act, n) = n.bias + (IF n.in = <<>> THEN 0 ELSE Greatest(s)) BY <1>7 DEF Aggregate
  <2> HIDE DEF s
  <2>3. Aggregate(act, n) = n.bias + (IF n.in = <<>> THEN 0 ELSE s[Mark(act, n) + 1])
    BY <1>4, <1>5, <2>1, <2>2
  <2> QED BY <1>3, <1>7, <2>3 DEF s
<1>8. CASE n.squash = "IF"
  <2>1. Mark(act, n) = IF TakesPositive(act, n) THEN 1 ELSE 0 BY <1>8 DEF Mark
  <2>2. Aggregate(act, n) = n.bias + Taken(act, n) BY <1>8 DEF Aggregate
  <2>3. Taken(act, n) = Arm(act, n, IF Mark(act, n) = 1 THEN {"positive", "standard"} ELSE {"negative"})
    BY <2>1 DEF Taken
  <2> QED BY <1>3, <1>8, <2>2, <2>3
<1>9. CASE n.squash \notin {"MINIMUM", "MAXIMUM", "IF"} BY <1>9
<1> QED BY <1>6, <1>7, <1>8, <1>9

\* The inputs and the activations a traced reply tells are the buffer.
LEMMA BufferFromReply ==
  ASSUME NEW net, IsNetwork(net), NEW start \in Acts(net), NEW act \in Acts(net),
         \A k \in 1 .. net.inputs : act[k] = start[k]
  PROVE  /\ SubSeq(start, 1, net.inputs) \o SubSeq(act, net.inputs + 1, Len(act)) = act
         /\ \A i \in 1 .. Len(net.neurons) :
              SubSeq(act, net.inputs + 1, Len(act))[i] = act[net.inputs + i]
<1> DEFINE p == net.inputs
           m == Len(net.neurons)
           n == NodeCount(net)
           a == SubSeq(start, 1, p)
           b == SubSeq(act, p + 1, n)
<1>1. p \in Nat /\ m \in Nat /\ n = p + m /\ n \in Nat BY NetworkFacts
<1>2. Len(act) = n /\ Len(start) = n BY ActsLen
<1>3. act \in [1 .. n -> Int] /\ start \in [1 .. n -> Int] BY DEF Acts
<1> HIDE DEF p, m, n
<1>4. a \in Seq(Int) /\ Len(a) = p /\ \A i \in 1 .. p : a[i] = start[i]
  <2>1. p <= n /\ \A i \in 1 .. p : start[i] \in Int BY <1>1, <1>3
  <2>2. /\ a \in Seq(Int) /\ Len(a) = IF 1 <= p THEN p - 1 + 1 ELSE 0
        /\ \A i \in 1 .. p - 1 + 1 : a[i] = start[1 + i - 1]
    BY <1>1, <2>1, SubSeqProperties
  <2> HIDE DEF a
  <2>3. Len(a) = p BY <1>1, <2>2
  <2>4. \A i \in 1 .. p : i \in 1 .. p - 1 + 1 /\ 1 + i - 1 = i BY <1>1
  <2> QED BY <2>2, <2>3, <2>4
<1>5. b \in Seq(Int) /\ Len(b) = m /\ \A i \in 1 .. m : b[i] = act[p + i]
  <2>1. p + 1 \in Int /\ \A i \in p + 1 .. n : act[i] \in Int BY <1>1, <1>3
  <2>2. /\ b \in Seq(Int) /\ Len(b) = IF p + 1 <= n THEN n - (p + 1) + 1 ELSE 0
        /\ \A i \in 1 .. n - (p + 1) + 1 : b[i] = act[p + 1 + i - 1]
    BY <1>1, <2>1, SubSeqProperties
  <2> HIDE DEF b
  <2>3. Len(b) = m BY <1>1, <2>2
  <2>4. \A i \in 1 .. m : i \in 1 .. n - (p + 1) + 1 /\ p + 1 + i - 1 = p + i BY <1>1
  <2> QED BY <2>2, <2>3, <2>4
<1> HIDE DEF a, b
<1>6. a \o b = act
  <2>1. /\ a \o b \in Seq(Int) /\ Len(a \o b) = n
        /\ \A i \in 1 .. n : (a \o b)[i] = IF i <= p THEN a[i] ELSE b[i - p]
    <3>1. /\ a \o b \in Seq(Int) /\ Len(a \o b) = Len(a) + Len(b)
          /\ \A i \in 1 .. Len(a) + Len(b) : (a \o b)[i] = IF i <= Len(a) THEN a[i] ELSE b[i - Len(a)]
      BY <1>4, <1>5, ConcatProperties
    <3> QED BY <1>1, <1>4, <1>5, <3>1
  <2>2. ASSUME NEW i \in 1 .. n PROVE (a \o b)[i] = act[i]
    <3>1. CASE i <= p
      <4>1. i \in 1 .. p BY <1>1, <3>1
      <4> QED BY <1>4, <2>1, <3>1, <4>1 DEF p
    <3>2. CASE ~(i <= p)
      <4>1. i - p \in 1 .. m /\ p + (i - p) = i BY <1>1, <3>2
      <4> QED BY <1>5, <2>1, <3>2, <4>1
    <3> QED BY <3>1, <3>2
  <2>3. a \o b \in [1 .. n -> Int] BY <1>1, <2>1, LenProperties
  <2> DEFINE g == a \o b
  <2>4. g \in [1 .. n -> Int] /\ \A i \in 1 .. n : g[i] = act[i] BY <2>2, <2>3
  <2> HIDE DEF g
  <2>5. g = act BY <1>1, <1>3, <2>4, SameSeq
  <2> QED BY <2>5 DEF g
<1> QED BY <1>2, <1>5, <1>6 DEF a, b, p, m, n

\* A fresh network's trace explains its activations.
LEMMA FreshExplained ==
  ASSUME IsNetwork(network), ForwardOnly(network), NEW x \in Seq(Int)
  PROVE  Explained(x, FreshTrace(x))
<1> DEFINE net == network
           start == Load(net, Zeros(net), x)
           m == Len(net.neurons)
<1>1. start \in Acts(net) BY ZerosTyped, LoadTyped
<1>2. PICK f : TraceSteps(f, net, start) /\ TracePass(net, start) = Ended(f[m])
  <2> HIDE DEF start
  <2> QED BY <1>1, TracePassSteps
<1> DEFINE last == f[m]
           t == FreshTrace(x)
           full == SubSeq(start, 1, net.inputs) \o t.acts
<1>3. m \in Nat /\ m \in 0 .. m /\ net.inputs \in Nat BY NetworkFacts
<1>4. last \in Traces(net) BY <1>2, <1>3 DEF TraceSteps
<1>5. /\ Len(last.trace) = 2 * Nth(net, m)
      /\ \A k \in 1 .. net.inputs : last.act[k] = start[k]
      /\ \A j \in 1 .. m : Shows(net, last, f[j - 1], j)
  <2> HIDE DEF start
  <2> QED BY <1>1, <1>2, AllShow
<1>6. /\ last.act \in Acts(net) /\ last.trace \in Seq(Int)
      /\ last = [act |-> last.act, hints |-> last.hints, trace |-> last.trace]
  BY <1>4 DEF Traces
<1>7. /\ Ended(last).act = last.act /\ Ended(last).hints = last.hints
      /\ Ended(last).trace = Append(last.trace, -1)
  <2> HIDE DEF last
  <2> QED BY <1>6 DEF Ended
<1>8. /\ t.outputs = Outputs(net, last.act) /\ t.hints = last.hints /\ t.trace = Append(last.trace, -1)
      /\ t.acts = SubSeq(last.act, net.inputs + 1, Len(last.act))
  <2>1. t = TraceReply(net, Ended(last)) BY <1>2 DEF FreshTrace
  <2> HIDE DEF last, t
  <2> QED BY <1>7, <2>1 DEF TraceReply
<1> HIDE DEF last, start, t
<1>9. /\ full = last.act
      /\ \A i \in 1 .. m : t.acts[i] = last.act[net.inputs + i]
  <2> DEFINE a == last.act
  <2>1. a \in Acts(net) /\ \A k \in 1 .. net.inputs : a[k] = start[k] BY <1>5, <1>6
  <2> HIDE DEF a
  <2>2. /\ SubSeq(start, 1, net.inputs) \o SubSeq(a, net.inputs + 1, Len(a)) = a
        /\ \A i \in 1 .. m : SubSeq(a, net.inputs + 1, Len(a))[i] = a[net.inputs + i]
    BY <1>1, <2>1, BufferFromReply
  <2> QED BY <1>8, <2>2 DEF a
<1>10. /\ Len(t.trace) = 2 * Nth(net, m) + 1 /\ t.trace[Len(t.trace)] = -1
       /\ \A k \in 1 .. 2 * Nth(net, m) : t.trace[k] = last.trace[k]
  <2> DEFINE tr == last.trace
             e == 2 * Nth(net, m)
  <2>1. tr \in Seq(Int) /\ Len(tr) = e /\ e \in Nat BY <1>5, <1>6, LenProperties
  <2>2. t.trace = Append(tr, -1) BY <1>8
  <2> HIDE DEF tr, e
  <2>3. /\ Len(Append(tr, -1)) = e + 1 /\ Append(tr, -1)[e + 1] = -1
        /\ \A k \in 1 .. e : Append(tr, -1)[k] = tr[k]
    BY <2>1, AppendProperties
  <2> QED BY <2>2, <2>3 DEF tr, e
<1> DEFINE nth(i) == Nth(net, i)
<1>11. ASSUME NEW i \in 1 .. m, IsListed(net, i)
       PROVE  /\ 2 * nth(i) - 1 \in 1 .. 2 * nth(m) /\ 2 * nth(i) \in 1 .. 2 * nth(m)
  <2>1. nth(i) \in Nat /\ nth(m) \in Nat /\ nth(i) <= nth(m) BY <1>3, NthGrows
  <2>2. i \in Nat \ {0} BY <1>3
  <2>3. nth(i - 1) \in Nat /\ nth(i) = nth(i - 1) + 1 BY <1>11, <2>2, NthCounts
  <2> HIDE DEF nth
  <2> QED BY <2>1, <2>3
<1>12. ASSUME NEW i \in 1 .. m
       PROVE  LET n == net.neurons[i] IN
              /\ ~n.constant => t.acts[i] = Scalar(full, n)
              /\ IsListed(net, i) => /\ t.hints[i] = t.acts[i]
                                     /\ t.trace[2 * nth(i) - 1] = i - 1
                                     /\ t.trace[2 * nth(i)] = Mark(full, n)
              /\ ~n.constant /\ ~IsListed(net, i) => t.hints[i] = WeightedSum(full, n)
  <2> DEFINE n == net.neurons[i]
             a == last.act
  <2>1. Shows(net, last, f[i - 1], i) BY <1>5
  <2>2. /\ ~n.constant => a[net.inputs + i] = Scalar(a, n)
        /\ IsListed(net, i) =>
             /\ last.hints[i] = Scalar(a, n)
             /\ last.trace[2 * nth(i) - 1] = i - 1 /\ last.trace[2 * nth(i)] = Mark(a, n)
        /\ ~n.constant /\ ~IsListed(net, i) => last.hints[i] = WeightedSum(a, n)
    BY <2>1, LateTerms
  <2>3. IsListed(net, i) => ~n.constant BY DEF IsListed
  <2>4. IsListed(net, i) => /\ t.trace[2 * nth(i) - 1] = last.trace[2 * nth(i) - 1]
                            /\ t.trace[2 * nth(i)] = last.trace[2 * nth(i)]
    BY <1>10, <1>11
  <2>5. t.hints = last.hints /\ t.acts[i] = a[net.inputs + i] /\ full = a BY <1>8, <1>9
  <2> HIDE DEF nth, n, a, full
  <2>6. /\ ~n.constant => t.acts[i] = Scalar(full, n)
        /\ IsListed(net, i) => /\ t.hints[i] = t.acts[i]
                               /\ t.trace[2 * nth(i) - 1] = i - 1
                               /\ t.trace[2 * nth(i)] = Mark(full, n)
        /\ ~n.constant /\ ~IsListed(net, i) => t.hints[i] = WeightedSum(full, n)
    BY <2>2, <2>3, <2>4, <2>5
  <2> QED BY <2>6 DEF n
<1>13. ASSUME NEW i \in 1 .. m
       PROVE  LET n == net.neurons[i]
                  mark == t.trace[2 * nth(i)]
                  terms == Terms(full, n)
              IN IsListed(net, i) =>
                   /\ t.trace[2 * nth(i) - 1] = i - 1
                   /\ t.hints[i] = t.acts[i]
                   /\ n.squash \in {"MINIMUM", "MAXIMUM"} =>
                        t.acts[i] = Limited(n.squash,
                                      n.bias + (IF n.in = <<>> THEN 0 ELSE terms[mark + 1]))
                   /\ n.squash = "IF" =>
                        t.acts[i] = Limited(n.squash, n.bias +
                                      Arm(full, n, IF mark = 1 THEN {"positive", "standard"} ELSE {"negative"}))
  <2> DEFINE n == net.neurons[i]
             mark == t.trace[2 * nth(i)]
  <2> SUFFICES ASSUME IsListed(net, i)
               PROVE  /\ t.trace[2 * nth(i) - 1] = i - 1
                      /\ t.hints[i] = t.acts[i]
                      /\ n.squash \in {"MINIMUM", "MAXIMUM"} =>
                           t.acts[i] = Limited(n.squash,
                                         n.bias + (IF n.in = <<>> THEN 0 ELSE Terms(full, n)[mark + 1]))
                      /\ n.squash = "IF" =>
                           t.acts[i] = Limited(n.squash, n.bias +
                                         Arm(full, n, IF mark = 1 THEN {"positive", "standard"} ELSE {"negative"}))
    OBVIOUS
  <2>1. ~n.constant BY DEF IsListed
  <2>2. /\ t.acts[i] = Scalar(full, n) /\ t.hints[i] = t.acts[i]
        /\ t.trace[2 * nth(i) - 1] = i - 1 /\ mark = Mark(full, n)
    BY <1>12, <2>1
  <2>3. full \in Acts(net) BY <1>6, <1>9
  <2> HIDE DEF full, mark, nth
  <2>4. /\ n.squash \in {"MINIMUM", "MAXIMUM"} =>
             Scalar(full, n) = Limited(n.squash,
                                n.bias + (IF n.in = <<>> THEN 0 ELSE Terms(full, n)[mark + 1]))
        /\ n.squash = "IF" =>
             Scalar(full, n) = Limited(n.squash, n.bias +
                                Arm(full, n, IF mark = 1 THEN {"positive", "standard"} ELSE {"negative"}))
    BY <2>2, <2>3, MarkExplains
  <2> QED BY <2>2, <2>4
<1>14. ASSUME NEW i \in 1 .. m
       PROVE  LET n == net.neurons[i] IN
              ~n.constant /\ ~IsListed(net, i) => t.acts[i] = Limited(n.squash, Squash(n.squash, t.hints[i]))
  <2> DEFINE n == net.neurons[i]
  <2> SUFFICES ASSUME ~n.constant, ~IsListed(net, i)
               PROVE  t.acts[i] = Limited(n.squash, Squash(n.squash, t.hints[i]))
    OBVIOUS
  <2>1. t.acts[i] = Scalar(full, n) /\ t.hints[i] = WeightedSum(full, n) BY <1>12
  <2>2. n.squash \notin Aggregates BY DEF IsListed
  <2> QED BY <2>1, <2>2 DEF Scalar, Standard
<1>15. t.outputs = Outputs(net, full) BY <1>8, <1>9
<1> HIDE DEF full
<1>16. full = SubSeq(Load(network, Zeros(network), x), 1, network.inputs) \o t.acts BY DEF full, start
<1>17. Explained(x, t)
  BY <1>10, <1>13, <1>14, <1>15, <1>16 DEF Explained, IsListed, Nth
<1> QED BY <1>17 DEF t

\* A traced reply is of records.
RepliesTyped ==
  /\ reply.op = "trace" => reply.records[1] \in Seq(Int)
  /\ reply.op = "quad" => \A r \in 1 .. Quad : reply.records[r] \in Seq(Int)

LEMMA OtherReplies ==
  ASSUME NEW op, NEW records, NEW answer, Answered(op, records, answer), op \notin {"trace", "quad"}
  PROVE  RepliesTyped'
<1>1. reply'.op = op BY DEF Answered
<1> QED BY <1>1 DEF RepliesTyped

LEMMA RepliesKeep == ASSUME BuffersInv, RepliesTyped, [Next]_<<svars, scanVars>> PROVE RepliesTyped'
<1>1. CASE Activate \/ ActivateInto
  <2>1. PICK x \in Inputs :
          LET act == Pass(network, Load(network, buffers.act, x)) IN
          Answered("activate", <<x>>, Outputs(network, act))
    BY <1>1 DEF Activate, ActivateInto
  <2> QED BY <2>1, OtherReplies
<1>2. CASE ActivateAndTrace
  <2>1. PICK x \in Inputs :
          LET t == TracePass(network, Load(network, buffers.act, x)) IN
          Answered("trace", <<x>>, TraceReply(network, t))
    BY <1>2 DEF ActivateAndTrace
  <2>2. reply'.op = "trace" /\ reply'.records = <<x>> BY <2>1 DEF Answered
  <2>3. x \in Seq(Int) BY ScoringAssumption
  <2>4. reply'.records[1] = x BY <2>2
  <2> QED BY <2>2, <2>3, <2>4 DEF RepliesTyped
<1>3. CASE TraceQuad
  <2>1. PICK xs \in [1 .. Quad -> Inputs] :
          LET lanes == TracePass4(network, xs) IN
          Answered("quad", xs, [r \in 1 .. Quad |-> TraceReply(network, lanes[r])])
    BY <1>3 DEF TraceQuad
  <2>2. reply'.op = "quad" /\ reply'.records = xs BY <2>1 DEF Answered
  <2>3. \A r \in 1 .. Quad : xs[r] \in Seq(Int) BY ScoringAssumption
  <2> QED BY <2>2, <2>3 DEF RepliesTyped
<1>4. CASE SumLoss
  <2>1. reply'.op \in {"loss", "recurrent loss"} BY <1>4, CallerSums
  <2> QED BY <2>1 DEF RepliesTyped
<1>5. CASE UNCHANGED reply BY <1>5 DEF RepliesTyped
<1>6. \/ Activate \/ ActivateInto \/ ActivateAndTrace \/ TraceQuad \/ SumLoss \/ UNCHANGED reply
  BY DEF Next, ScoringNext, Reset, ScoreFlat, ScoreParallel, ScoreChunk, Join, svars
<1> QED BY <1>1, <1>2, <1>3, <1>4, <1>5, <1>6

\* Backpropagation reads the trace in place of the pass: on every forward-only
\* network the winner, the branch and the hint activate_and_trace and its
\* four-record form tell give the activation told beside them, one pair for each
\* aggregate in order.
THEOREM TraceAlwaysExplains == Spec => []TraceExplains
<1>1. Init => RepliesTyped
  <2> SUFFICES ASSUME Init PROVE RepliesTyped OBVIOUS
  <2>1. reply.op = "none" BY DEF Init, ScoringInit, ScoringRests, NoReply
  <2> QED BY <2>1 DEF RepliesTyped
<1>2. ScoringInv /\ RepliesTyped /\ [Next]_<<svars, scanVars>> => RepliesTyped'
  BY RepliesKeep DEF ScoringInv
<1>3. ScoringInv /\ RepliesTyped => TraceExplains
  <2> SUFFICES ASSUME ScoringInv, RepliesTyped, ForwardOnly(network)
               PROVE  /\ reply.op = "trace" => Explained(reply.records[1], reply.answer)
                      /\ reply.op = "quad" => \A r \in 1 .. Quad : Explained(reply.records[r], reply.answer[r])
    BY DEF TraceExplains
  <2>1. IsNetwork(network) BY NetworksAre DEF ScoringInv, BuffersInv
  <2>2. AnswersForgetHistory BY DEF ScoringInv
  <2>3. ASSUME reply.op = "trace" PROVE Explained(reply.records[1], reply.answer)
    <3>1. reply.records[1] \in Seq(Int) BY <2>3 DEF RepliesTyped
    <3>2. reply.answer = FreshTrace(reply.records[1]) BY <2>2, <2>3 DEF AnswersForgetHistory
    <3> QED BY <2>1, <3>1, <3>2, FreshExplained
  <2>4. ASSUME reply.op = "quad", NEW r \in 1 .. Quad PROVE Explained(reply.records[r], reply.answer[r])
    <3>1. reply.records[r] \in Seq(Int) BY <2>4 DEF RepliesTyped
    <3>2. reply.answer[r] = FreshTrace(reply.records[r]) BY <2>2, <2>4 DEF AnswersForgetHistory
    <3> QED BY <2>1, <3>1, <3>2, FreshExplained
  <2> QED BY <2>3, <2>4
<1> QED BY <1>1, <1>2, <1>3, ScoringInvHolds, PTL DEF Spec

-----------------------------------------------------------------------------
(* The two largest magnitudes *)

Pairs == [max : Nat, second : Nat]

LEMMA MagnitudeIsNat == \A x \in Int : Magnitude(x) \in Nat
BY DEF Magnitude

\* `top` is a largest of the f[D], and s.second a largest of the others.
Leads(s, f, D, top) ==
  /\ s.max = f[top]
  /\ \A j \in D : f[j] <= s.max
  /\ \A j \in D \ {top} : f[j] <= s.second
  /\ IF D \ {top} = {} THEN s.second = 0 ELSE \E j \in D \ {top} : f[j] = s.second

TwoLargest(s, f, D) ==
  IF D = {} THEN s.max = 0 /\ s.second = 0 ELSE \E top \in D : Leads(s, f, D, top)

LEMMA ObserveTakes ==
  ASSUME NEW E, NEW f \in [E -> Nat], NEW D \in SUBSET E, NEW i \in E \ D, NEW x \in Int,
         Magnitude(x) = f[i], NEW s \in Pairs, TwoLargest(s, f, D)
  PROVE  Observe(s, x) \in Pairs /\ TwoLargest(Observe(s, x), f, D \cup {i})
<1> DEFINE a == f[i]
           r == Observe(s, x)
           G == D \cup {i}
<1>1. a \in Nat /\ s.max \in Nat /\ s.second \in Nat /\ \A j \in G : f[j] \in Nat BY DEF Pairs
<1>2. /\ i \in G /\ G # {} /\ G \ {i} = D
      /\ \A t \in D : G \ {t} = (D \ {t}) \cup {i} /\ G \ {t} # {}
  OBVIOUS
<1>3. r = IF a > s.max THEN [s EXCEPT !.max = a, !.second = s.max]
          ELSE IF a > s.second THEN [s EXCEPT !.second = a] ELSE s
  BY DEF Observe
<1> HIDE DEF r, a
<1>4. CASE a > s.max
  <2>1. r \in Pairs /\ r.max = a /\ r.second = s.max BY <1>1, <1>3, <1>4 DEF Pairs
  <2>2. \A j \in D : f[j] <= s.max BY DEF TwoLargest, Leads
  <2>3. IF D = {} THEN s.max = 0 ELSE \E j \in D : f[j] = s.max BY DEF TwoLargest, Leads
  <2>4. \A j \in G : f[j] <= a BY <1>1, <1>4, <2>2 DEF a
  <2> HIDE DEF G
  <2>5. Leads(r, f, G, i) BY <1>2, <2>1, <2>2, <2>3, <2>4 DEF Leads, a
  <2> QED BY <1>2, <2>1, <2>5 DEF TwoLargest, r, G
<1>5. CASE ~(a > s.max) /\ D = {}
  <2>1. s.max = 0 /\ s.second = 0 BY <1>5 DEF TwoLargest
  <2>2. a = 0 /\ r = s BY <1>1, <1>3, <1>5, <2>1
  <2>3. G = {i} /\ G \ {i} = {} BY <1>5
  <2>4. Leads(r, f, G, i) BY <1>1, <2>1, <2>2, <2>3 DEF Leads, a
  <2> QED BY <1>2, <2>2, <2>4 DEF TwoLargest, r
<1>6. CASE ~(a > s.max) /\ D # {}
  <2>1. PICK t \in D : Leads(s, f, D, t) BY <1>6 DEF TwoLargest
  <2>2. /\ s.max = f[t] /\ \A j \in D : f[j] <= s.max
        /\ \A j \in D \ {t} : f[j] <= s.second
        /\ IF D \ {t} = {} THEN s.second = 0 ELSE \E j \in D \ {t} : f[j] = s.second
    BY <2>1 DEF Leads
  <2>3. \A j \in G : f[j] <= s.max BY <1>1, <1>6, <2>2 DEF a
  <2>4. CASE a > s.second
    <3>1. r \in Pairs /\ r.max = s.max /\ r.second = a BY <1>1, <1>3, <1>6, <2>4 DEF Pairs
    <3>2. \A j \in G \ {t} : f[j] <= a BY <1>1, <2>2, <2>4 DEF a
    <3>3. i \in G \ {t} /\ f[i] = a BY DEF a
    <3> HIDE DEF G
    <3>4. Leads(r, f, G, t) BY <2>2, <2>3, <3>1, <3>2, <3>3 DEF Leads
    <3> QED BY <1>2, <3>1, <3>4 DEF TwoLargest, r, G
  <2>5. CASE ~(a > s.second)
    <3>1. r = s BY <1>3, <1>6, <2>5
    <3>2. \A j \in G \ {t} : f[j] <= s.second BY <1>1, <2>2, <2>5 DEF a
    <3>3. \E j \in G \ {t} : f[j] = s.second
      <4>1. CASE D \ {t} = {}
        <5>1. a = s.second BY <1>1, <2>2, <2>5, <4>1
        <5> QED BY <5>1 DEF a
      <4>2. CASE D \ {t} # {} BY <2>2, <4>2
      <4> QED BY <4>1, <4>2
    <3>4. t \in G /\ G \ {t} # {} BY <1>2
    <3> HIDE DEF G
    <3>5. Leads(r, f, G, t) BY <2>2, <2>3, <3>1, <3>2, <3>3, <3>4 DEF Leads
    <3> QED BY <1>2, <3>1, <3>4, <3>5 DEF TwoLargest, r, G
  <2> QED BY <2>4, <2>5
<1> QED BY <1>4, <1>5, <1>6

\* Places of a sequence among those of f, each new.
Places(values, f, E, D, at) ==
  /\ at \in [1 .. Len(values) -> E \ D]
  /\ \A k, j \in 1 .. Len(values) : at[k] = at[j] => k = j
  /\ \A k \in 1 .. Len(values) : Magnitude(values[k]) = f[at[k]]

\* A scan of the values from s on, that counts the members of D; it will count
\* those of G.
Scan(values, f, E, D, at, s, G) ==
  /\ f \in [E -> Nat] /\ D \in SUBSET E /\ values \in Seq(Int) /\ Places(values, f, E, D, at)
  /\ s \in Pairs /\ TwoLargest(s, f, D)
  /\ D \cup {at[k] : k \in 1 .. Len(values)} = G

LEMMA ObservedTakes ==
  ASSUME NEW E, NEW f, NEW D, NEW values, NEW at, NEW s, NEW G, Scan(values, f, E, D, at, s, G)
  PROVE  Observed(s, values) \in Pairs /\ TwoLargest(Observed(s, values), f, G)
<1>0. /\ f \in [E -> Nat] /\ D \in SUBSET E /\ values \in Seq(Int) /\ Places(values, f, E, D, at)
      /\ s \in Pairs /\ TwoLargest(s, f, D)
      /\ D \cup {at[k] : k \in 1 .. Len(values)} = G
  BY DEF Scan
<1> DEFINE n == Len(values)
           A(i, a) == Observe(a, values[i])
           after[k \in 0 .. n] == IF k = 0 THEN s ELSE A(k, after[k - 1])
           step == [p \in (1 .. n) \X Pairs |-> A(p[1], p[2])]
           Seen(k) == D \cup {at[j] : j \in 1 .. k}
<1>1. n \in Nat /\ \A k \in 1 .. n : values[k] \in Int BY <1>0, LenProperties, ElementOfSeq
<1>2. \A k \in 1 .. n : \A a \in Pairs : A(k, a) \in Pairs
  <2> TAKE k \in 1 .. n
  <2> TAKE a \in Pairs
  <2>1. Magnitude(values[k]) \in Nat BY <1>1, MagnitudeIsNat
  <2> QED BY <2>1 DEF Observe, Pairs
<1>2a. \A k \in 1 .. n : \A a : A(k, a) = Observe(a, values[k]) OBVIOUS
<1> HIDE DEF A
<1>3. \A k \in 1 .. n : \A a \in Pairs : step[<<k, a>>] = A(k, a) /\ step[<<k, a>>] \in Pairs BY <1>2
<1> HIDE DEF step
<1>4. PICK g \in [0 .. n -> Pairs] : StepsBy(g, n, s, step)
  <2> HIDE DEF n, after
  <2> QED BY <1>0, <1>1, <1>3, Recursion
<1>5. g[0] = s /\ \A k \in 1 .. n : g[k] = A(k, g[k - 1])
  <2>1. g[0] = s BY <1>4 DEF StepsBy
  <2>2. ASSUME NEW k \in 1 .. n PROVE g[k] = A(k, g[k - 1])
    <3>1. g[k - 1] \in Pairs BY <1>1
    <3>2. g[k] = step[<<k, g[k - 1]>>] BY <1>4 DEF StepsBy
    <3> QED BY <1>3, <3>1, <3>2
  <2> QED BY <2>1, <2>2
<1>6. after = [k \in 0 .. n |-> IF k = 0 THEN s ELSE A(k, after[k - 1])]
  <2>1. g = [k \in 0 .. n |-> IF k = 0 THEN s ELSE A(k, g[k - 1])] BY <1>1, <1>5
  <2> QED BY <2>1 DEF after
<1> HIDE DEF after
<1> DEFINE T == {k \in 0 .. n : after[k] \in Pairs /\ TwoLargest(after[k], f, Seen(k))}
<1>7. 0 \in T
  <2>1. after[0] = s BY <1>1, <1>6
  <2>2. Seen(0) = D OBVIOUS
  <2> HIDE DEF Seen
  <2> QED BY <1>0, <1>1, <2>1, <2>2
<1>8. ASSUME NEW k \in 1 .. n, k - 1 \in T PROVE k \in T
  <2>1. after[k] = Observe(after[k - 1], values[k])
    <3>1. k \in 0 .. n /\ k # 0 BY <1>1
    <3>2. after[k] = IF k = 0 THEN s ELSE A(k, after[k - 1]) BY <1>6, <3>1
    <3>3. after[k] = A(k, after[k - 1]) BY <3>1, <3>2
    <3> QED BY <1>2a, <3>3
  <2>2. after[k - 1] \in Pairs /\ TwoLargest(after[k - 1], f, Seen(k - 1)) BY <1>8
  <2>3. Seen(k - 1) \in SUBSET E /\ at[k] \in E \ Seen(k - 1)
    <3>1. /\ at \in [1 .. n -> E \ D] /\ \A i, j \in 1 .. n : at[i] = at[j] => i = j BY <1>0 DEF Places
    <3>2. \A j \in 1 .. k - 1 : j \in 1 .. n /\ j # k BY <1>1
    <3> QED BY <1>0, <3>1, <3>2
  <2>4. Seen(k) = Seen(k - 1) \cup {at[k]}
    <3>1. 1 .. k = (1 .. k - 1) \cup {k} BY <1>1
    <3> QED BY <3>1
  <2>5. Magnitude(values[k]) = f[at[k]] /\ values[k] \in Int BY <1>0, <1>1 DEF Places
  <2> HIDE DEF Seen
  <2> DEFINE x == values[k]
             i == at[k]
             B == Seen(k - 1)
             r == after[k - 1]
  <2>6. B \in SUBSET E /\ i \in E \ B /\ x \in Int /\ Magnitude(x) = f[i] /\ r \in Pairs /\ TwoLargest(r, f, B)
    BY <2>2, <2>3, <2>5
  <2>7. Observe(r, x) \in Pairs /\ TwoLargest(Observe(r, x), f, B \cup {i})
    <3> HIDE DEF x, i, B, r
    <3> QED BY <1>0, <2>6, ObserveTakes
  <2>8. after[k] \in Pairs /\ TwoLargest(after[k], f, Seen(k)) BY <2>1, <2>4, <2>7
  <2>9. k \in 0 .. n BY <1>1
  <2> QED BY <2>8, <2>9
<1>9. 0 .. n \subseteq T
  <2> HIDE DEF T, n
  <2> QED BY <1>1, <1>7, <1>8, InductionUpTo
<1>10. n \in 0 .. n BY <1>1
<1>11. after[n] \in Pairs /\ TwoLargest(after[n], f, Seen(n)) BY <1>9, <1>10
<1>12. Observed(s, values) = after[n] BY DEF Observed, after, A, n
<1>13. Seen(n) = G BY <1>0
<1> QED BY <1>11, <1>12, <1>13

LEMMA WithoutIs ==
  ASSUME NEW s \in Seq(Int), NEW i \in 1 .. Len(s)
  PROVE  /\ Without(s, i) \in Seq(Int) /\ Len(Without(s, i)) = Len(s) - 1
         /\ \A p \in 1 .. Len(s) - 1 : Without(s, i)[p] = s[IF p < i THEN p ELSE p + 1]
<1> DEFINE n == Len(s)
           before == SubSeq(s, 1, i - 1)
           after == SubSeq(s, i + 1, n)
<1>1. n \in Nat /\ i \in Int /\ 1 <= i /\ i <= n /\ \A k \in 1 .. n : s[k] \in Int BY LenProperties, ElementOfSeq
<1>2. before \in Seq(Int) /\ Len(before) = i - 1 /\ \A k \in 1 .. i - 1 : before[k] = s[k]
  <2>1. i - 1 \in Int /\ 1 \in Int /\ \A k \in 1 .. i - 1 : s[k] \in Int BY <1>1
  <2>2. /\ before \in Seq(Int) /\ Len(before) = IF 1 <= i - 1 THEN i - 1 - 1 + 1 ELSE 0
        /\ \A k \in 1 .. i - 1 - 1 + 1 : before[k] = s[1 + k - 1]
    BY <2>1, SubSeqProperties
  <2> HIDE DEF before
  <2> QED BY <1>1, <2>2
<1>3. after \in Seq(Int) /\ Len(after) = n - i /\ \A k \in 1 .. n - i : after[k] = s[i + k]
  <2>1. i + 1 \in Int /\ n \in Int /\ \A k \in i + 1 .. n : s[k] \in Int BY <1>1
  <2>2. /\ after \in Seq(Int) /\ Len(after) = IF i + 1 <= n THEN n - (i + 1) + 1 ELSE 0
        /\ \A k \in 1 .. n - (i + 1) + 1 : after[k] = s[i + 1 + k - 1]
    BY <2>1, SubSeqProperties
  <2> HIDE DEF after
  <2>3. \A k \in 1 .. n - i : after[k] = s[i + k]
    <3> TAKE k \in 1 .. n - i
    <3>1. k \in 1 .. n - (i + 1) + 1 /\ i + 1 + k - 1 = i + k BY <1>1
    <3> QED BY <2>2, <3>1
  <2> QED BY <1>1, <2>2, <2>3
<1>4. Without(s, i) = before \o after BY DEF Without
<1> HIDE DEF before, after
<1>5. /\ before \o after \in Seq(Int) /\ Len(before \o after) = n - 1
      /\ \A p \in 1 .. n - 1 : (before \o after)[p] = IF p <= i - 1 THEN before[p] ELSE after[p - (i - 1)]
  <2>1. /\ before \o after \in Seq(Int) /\ Len(before \o after) = Len(before) + Len(after)
        /\ \A p \in 1 .. Len(before) + Len(after) :
             (before \o after)[p] = IF p <= Len(before) THEN before[p] ELSE after[p - Len(before)]
    BY <1>2, <1>3, ConcatProperties
  <2>2. Len(before) + Len(after) = n - 1 /\ Len(before) = i - 1 BY <1>1, <1>2, <1>3
  <2> QED BY <2>1, <2>2
<1>6. ASSUME NEW p \in 1 .. n - 1 PROVE Without(s, i)[p] = s[IF p < i THEN p ELSE p + 1]
  <2>1. CASE p < i
    <3>1. p <= i - 1 /\ p \in 1 .. i - 1 BY <1>1, <2>1
    <3> QED BY <1>2, <1>4, <1>5, <2>1, <3>1
  <2>2. CASE ~(p < i)
    <3>1. ~(p <= i - 1) /\ p - (i - 1) \in 1 .. n - i /\ i + (p - (i - 1)) = p + 1 BY <1>1, <2>2
    <3>2. Without(s, i)[p] = after[p - (i - 1)] BY <1>4, <1>5, <3>1
    <3>3. after[p - (i - 1)] = s[i + (p - (i - 1))] BY <1>3, <3>1
    <3> QED BY <2>2, <3>1, <3>2, <3>3
  <2> QED BY <2>1, <2>2
<1> QED BY <1>4, <1>5, <1>6

Magnitudes(all) == [k \in 1 .. Len(all) |-> Magnitude(all[k])]

\* A scan takes the replacement and each of the values it leaves.
LEMMA ScanTakesAll ==
  ASSUME NEW all \in Seq(Int), NEW i \in 1 .. Len(all), NEW rest \in Seq(Int), Len(rest) = Len(all) - 1,
         \A p \in 1 .. Len(all) - 1 : rest[p] = all[IF p < i THEN p ELSE p + 1]
  PROVE  LET s == [max |-> Magnitude(all[i]), second |-> 0] IN
         Observed(s, rest) \in Pairs /\ TwoLargest(Observed(s, rest), Magnitudes(all), 1 .. Len(all))
<1> DEFINE s == [max |-> Magnitude(all[i]), second |-> 0]
           E == 1 .. Len(all)
           f == Magnitudes(all)
           D == {i}
           at == [p \in 1 .. Len(rest) |-> IF p < i THEN p ELSE p + 1]
<1>1. Len(all) \in Nat /\ i \in Int /\ 1 <= i /\ i <= Len(all) /\ \A k \in E : all[k] \in Int
  BY LenProperties, ElementOfSeq
<1>2. f \in [E -> Nat] /\ \A k \in E : f[k] = Magnitude(all[k])
  <2>1. \A k \in E : Magnitude(all[k]) \in Nat BY <1>1, MagnitudeIsNat
  <2> QED BY <2>1 DEF Magnitudes
<1>3. s \in Pairs /\ TwoLargest(s, f, D)
  <2>1. s \in Pairs /\ s.max = f[i] /\ s.second = 0 /\ f[i] \in Nat /\ D \ {i} = {} /\ D # {} BY <1>1, <1>2 DEF Pairs
  <2>2. Leads(s, f, D, i)
    <3> HIDE DEF s, f
    <3> QED BY <2>1 DEF Leads
  <2> QED BY <2>1, <2>2 DEF TwoLargest
<1>4. \A p \in 1 .. Len(rest) : at[p] \in E \ D /\ Magnitude(rest[p]) = f[at[p]]
  <2> TAKE p \in 1 .. Len(rest)
  <2>1. at[p] = IF p < i THEN p ELSE p + 1 OBVIOUS
  <2>2. at[p] \in E \ D
    <3>1. p \in 1 .. Len(all) - 1 /\ p \in Int BY <1>1
    <3> DEFINE x == at[p]
    <3>2. x = IF p < i THEN p ELSE p + 1 BY <2>1
    <3> HIDE DEF x, at
    <3>3. x \in 1 .. Len(all) /\ x # i BY ONLY <1>1, <3>1, <3>2
    <3> QED BY <3>3 DEF x
  <2>3. rest[p] = all[at[p]] BY <2>1
  <2> HIDE DEF at, f
  <2> QED BY <1>2, <2>2, <2>3
<1>5. Places(rest, f, E, D, at)
  <2>1. ASSUME NEW k \in 1 .. Len(rest), NEW j \in 1 .. Len(rest), at[k] = at[j] PROVE k = j
    <3>1. at[k] = (IF k < i THEN k ELSE k + 1) /\ at[j] = (IF j < i THEN j ELSE j + 1) OBVIOUS
    <3>2. k \in Int /\ j \in Int /\ i \in Int BY <1>1
    <3> HIDE DEF at
    <3>3. (IF k < i THEN k ELSE k + 1) = (IF j < i THEN j ELSE j + 1) BY ONLY <2>1, <3>1, Zenon
    <3> QED BY ONLY <3>2, <3>3
  <2>2. at \in [1 .. Len(rest) -> E \ D] BY <1>4
  <2> HIDE DEF at, f, E, D
  <2> QED BY <1>4, <2>1, <2>2 DEF Places
<1>6. D \cup {at[p] : p \in 1 .. Len(rest)} = E
  <2>1. ASSUME NEW k \in E, k # i PROVE \E p \in 1 .. Len(rest) : at[p] = k
    <3>1. CASE k < i
      <4>1. k \in 1 .. Len(rest) /\ at[k] = k BY <1>1, <3>1
      <4> QED BY <4>1
    <3>2. CASE k > i
      <4>1. k - 1 \in 1 .. Len(rest) BY <1>1, <3>2
      <4>2. at[k - 1] = k BY <1>1, <3>2, <4>1
      <4> QED BY <4>1, <4>2
    <3> QED BY <1>1, <2>1, <3>1, <3>2
  <2>2. \A p \in 1 .. Len(rest) : at[p] \in E BY <1>4
  <2>3. \A k \in E : k \in D \/ \E p \in 1 .. Len(rest) : at[p] = k BY <2>1
  <2>4. D \subseteq E OBVIOUS
  <2> HIDE DEF at, D, E
  <2> QED BY <2>2, <2>3, <2>4
<1>7. D \in SUBSET E OBVIOUS
<1>8. Observed(s, rest) \in Pairs /\ TwoLargest(Observed(s, rest), f, E)
  <2> HIDE DEF s, E, f, D, at
  <2>1. Scan(rest, f, E, D, at, s, E) BY <1>2, <1>3, <1>5, <1>6, <1>7 DEF Scan
  <2> QED BY <2>1, ObservedTakes
<1> QED BY <1>8

LEMMA WholeTakesAll ==
  ASSUME NEW ws \in Seq(Int), NEW bs \in Seq(Int)
  PROVE  /\ ScoreComponents(ws, bs) \in Pairs
         /\ TwoLargest(ScoreComponents(ws, bs), Magnitudes(ws \o bs), 1 .. Len(ws \o bs))
<1> DEFINE all == ws \o bs
           E == 1 .. Len(all)
           f == Magnitudes(all)
           s == [max |-> 0, second |-> 0]
           W == 1 .. Len(ws)
           N == {}
           first == [k \in 1 .. Len(ws) |-> k]
           later == [k \in 1 .. Len(bs) |-> Len(ws) + k]
<1>1. /\ all \in Seq(Int) /\ Len(all) = Len(ws) + Len(bs) /\ Len(ws) \in Nat /\ Len(bs) \in Nat
      /\ \A k \in 1 .. Len(ws) + Len(bs) : all[k] = IF k <= Len(ws) THEN ws[k] ELSE bs[k - Len(ws)]
  BY ConcatProperties, LenProperties
<1> HIDE DEF all
<1>2. f \in [E -> Nat] /\ \A k \in E : f[k] = Magnitude(all[k])
  <2>1. \A k \in E : all[k] \in Int BY <1>1, ElementOfSeq
  <2>2. \A k \in E : Magnitude(all[k]) \in Nat BY <2>1, MagnitudeIsNat
  <2> QED BY <2>2 DEF Magnitudes
<1>3. s \in Pairs /\ TwoLargest(s, f, N) BY DEF Pairs, TwoLargest
<1>4. Places(ws, f, E, N, first)
  <2>1. \A k \in 1 .. Len(ws) : k \in E /\ all[k] = ws[k]
    <3> TAKE k \in 1 .. Len(ws)
    <3>1. k \in 1 .. Len(ws) + Len(bs) /\ k <= Len(ws) BY <1>1
    <3>2. all[k] = ws[k] BY <1>1, <3>1
    <3>3. k \in E BY <1>1, <3>1
    <3> QED BY <3>2, <3>3
  <2>2. first \in [1 .. Len(ws) -> E \ N] /\ \A k \in 1 .. Len(ws) : first[k] = k
    <3> HIDE DEF E
    <3> QED BY <2>1
  <2> HIDE DEF f, E, N, first
  <2> QED BY <1>2, <2>1, <2>2 DEF Places
<1>5. N \cup {first[k] : k \in 1 .. Len(ws)} = W OBVIOUS
<1>6. Places(bs, f, E, W, later)
  <2>1. \A k \in 1 .. Len(bs) : Len(ws) + k \in E \ W /\ all[Len(ws) + k] = bs[k]
    <3> TAKE k \in 1 .. Len(bs)
    <3>1. Len(ws) + k \in 1 .. Len(ws) + Len(bs) /\ ~(Len(ws) + k <= Len(ws)) /\ Len(ws) + k - Len(ws) = k BY <1>1
    <3> QED BY <1>1, <3>1
  <2>2. later \in [1 .. Len(bs) -> E \ W] /\ \A k \in 1 .. Len(bs) : later[k] = Len(ws) + k BY <2>1
  <2>3. \A k, j \in 1 .. Len(bs) : Len(ws) + k = Len(ws) + j => k = j BY <1>1
  <2> HIDE DEF f, E, W, later
  <2> QED BY <1>2, <2>1, <2>2, <2>3 DEF Places
<1>7. W \cup {later[k] : k \in 1 .. Len(bs)} = E
  <2>1. ASSUME NEW k \in E, k \notin W PROVE \E p \in 1 .. Len(bs) : later[p] = k
    <3>1. k - Len(ws) \in 1 .. Len(bs) BY <1>1, <2>1
    <3>2. later[k - Len(ws)] = k BY <1>1, <3>1
    <3> QED BY <3>1, <3>2
  <2>2. W \subseteq E /\ \A p \in 1 .. Len(bs) : later[p] \in E BY <1>1
  <2> HIDE DEF later, W, E
  <2> QED BY <2>1, <2>2
<1>8. N \in SUBSET E /\ W \in SUBSET E BY <1>1
<1> DEFINE r == Observed(s, ws)
<1>9. r \in Pairs /\ TwoLargest(r, f, W)
  <2> HIDE DEF s, E, f, N, first, W
  <2>1. Scan(ws, f, E, N, first, s, W) BY <1>2, <1>3, <1>4, <1>5, <1>8 DEF Scan
  <2> QED BY <2>1, ObservedTakes
<1>10. Observed(r, bs) \in Pairs /\ TwoLargest(Observed(r, bs), f, E)
  <2> HIDE DEF r, E, f, W, later
  <2>1. Scan(bs, f, E, W, later, r, E) BY <1>2, <1>6, <1>7, <1>8, <1>9 DEF Scan
  <2> QED BY <2>1, ObservedTakes
<1>11. ScoreComponents(ws, bs) = Observed(r, bs) BY DEF ScoreComponents
<1> HIDE DEF r, f
<1>12. ScoreComponents(ws, bs) \in Pairs /\ TwoLargest(ScoreComponents(ws, bs), f, E) BY <1>10, <1>11
<1> QED BY <1>12 DEF all, f

\* The known pair is the two largest of the creature's magnitudes.
Known(ws, bs, s) ==
  /\ ws \in Seq(Int) /\ bs \in Seq(Int) /\ Len(ws) > 0
  /\ s \in Pairs /\ TwoLargest(s, Magnitudes(ws \o bs), 1 .. Len(ws \o bs))

ScanInv == Known(weights, biases, known)

LEMMA WeightChanged ==
  ASSUME NEW ws \in Seq(Int), NEW bs \in Seq(Int), Len(ws) > 0, NEW i \in 1 .. Len(ws), NEW new \in Int
  PROVE  Known([ws EXCEPT ![i] = new], bs, ScanMaxWeight(ws, bs, i, new))
<1> DEFINE vs == [ws EXCEPT ![i] = new]
           all == vs \o bs
           less == Without(ws, i)
           rest == less \o bs
           n == Len(ws)
           m == Len(bs)
<1>1. n \in Nat /\ m \in Nat /\ i \in Int /\ 1 <= i /\ i <= n BY LenProperties
<1>2. vs \in Seq(Int) /\ Len(vs) = n /\ vs[i] = new /\ \A k \in 1 .. n : k # i => vs[k] = ws[k]
  BY ExceptSeq
<1>3. /\ less \in Seq(Int) /\ Len(less) = n - 1
      /\ \A p \in 1 .. n - 1 : less[p] = ws[IF p < i THEN p ELSE p + 1]
  BY WithoutIs
<1> HIDE DEF vs, less
<1>4. all \in Seq(Int) /\ Len(all) = n + m /\ \A k \in 1 .. n + m : all[k] = IF k <= n THEN vs[k] ELSE bs[k - n]
  <2>1. /\ all \in Seq(Int) /\ Len(all) = Len(vs) + Len(bs)
        /\ \A k \in 1 .. Len(vs) + Len(bs) : all[k] = IF k <= Len(vs) THEN vs[k] ELSE bs[k - Len(vs)]
    BY <1>2, ConcatProperties
  <2> QED BY <1>2, <2>1
<1>5. /\ rest \in Seq(Int) /\ Len(rest) = n + m - 1
      /\ \A k \in 1 .. n + m - 1 : rest[k] = IF k <= n - 1 THEN less[k] ELSE bs[k - (n - 1)]
  <2>1. /\ rest \in Seq(Int) /\ Len(rest) = Len(less) + Len(bs)
        /\ \A k \in 1 .. Len(less) + Len(bs) : rest[k] = IF k <= Len(less) THEN less[k] ELSE bs[k - Len(less)]
    BY <1>3, ConcatProperties
  <2> HIDE DEF rest
  <2> QED BY <1>1, <1>3, <2>1
<1> HIDE DEF all, rest
<1>6. ASSUME NEW p \in 1 .. Len(all) - 1 PROVE rest[p] = all[IF p < i THEN p ELSE p + 1]
  <2>1. CASE p < i
    <3>1. p \in 1 .. n - 1 /\ p \in 1 .. n + m - 1 /\ p \in 1 .. n + m /\ p <= n /\ p <= n - 1 /\ p # i /\ p \in 1 .. n
      BY <1>1, <1>4, <2>1
    <3>2. rest[p] = less[p] /\ less[p] = ws[p] /\ all[p] = vs[p] /\ vs[p] = ws[p] BY <1>2, <1>3, <1>4, <1>5, <2>1, <3>1
    <3> QED BY <2>1, <3>2
  <2>2. CASE ~(p < i) /\ p <= n - 1
    <3>1. p \in 1 .. n - 1 /\ p \in 1 .. n + m - 1 /\ p + 1 \in 1 .. n + m /\ p + 1 <= n /\ p + 1 # i /\ p + 1 \in 1 .. n
      BY <1>1, <1>4, <2>2
    <3>2. rest[p] = less[p] /\ less[p] = ws[p + 1] /\ all[p + 1] = vs[p + 1] /\ vs[p + 1] = ws[p + 1]
      BY <1>2, <1>3, <1>4, <1>5, <2>2, <3>1
    <3> QED BY <2>2, <3>2
  <2>3. CASE ~(p <= n - 1)
    <3>1. /\ p \in 1 .. n + m - 1 /\ p + 1 \in 1 .. n + m /\ ~(p + 1 <= n) /\ ~(p < i)
          /\ p - (n - 1) = (p + 1) - n
      BY <1>1, <1>4, <2>3
    <3>2. rest[p] = bs[p - (n - 1)] BY <1>5, <2>3, <3>1
    <3>3. all[p + 1] = bs[(p + 1) - n] BY <1>4, <3>1
    <3>4. bs[p - (n - 1)] = bs[(p + 1) - n] BY ONLY <3>1, Zenon
    <3>5. rest[p] = all[p + 1] BY ONLY <3>2, <3>3, <3>4
    <3>6. (IF p < i THEN p ELSE p + 1) = p + 1 BY ONLY <3>1
    <3> QED BY ONLY <3>5, <3>6, Zenon
  <2> QED BY <2>1, <2>2, <2>3
<1>7. i \in 1 .. Len(all) /\ all[i] = new /\ Len(rest) = Len(all) - 1
  <2>1. i \in 1 .. n + m /\ i <= n BY ONLY <1>1
  <2>2. all[i] = vs[i] BY <1>4, <2>1
  <2> QED BY <1>1, <1>2, <1>4, <1>5, <2>1, <2>2
<1> DEFINE s == [max |-> Magnitude(all[i]), second |-> 0]
<1>8. Observed(s, rest) \in Pairs /\ TwoLargest(Observed(s, rest), Magnitudes(all), 1 .. Len(all))
  BY <1>4, <1>5, <1>6, <1>7, ScanTakesAll
<1>9. ScanMaxWeight(ws, bs, i, new) = Observed(s, rest) BY <1>7 DEF ScanMaxWeight, rest, less
<1> HIDE DEF s
<1> QED BY <1>1, <1>2, <1>8, <1>9 DEF Known, all, vs

LEMMA BiasChanged ==
  ASSUME NEW ws \in Seq(Int), NEW bs \in Seq(Int), Len(ws) > 0, NEW j \in 1 .. Len(bs), NEW new \in Int
  PROVE  Known(ws, [bs EXCEPT ![j] = new], ScanMaxBias(ws, bs, j, new))
<1> DEFINE vs == [bs EXCEPT ![j] = new]
           all == ws \o vs
           less == Without(bs, j)
           rest == ws \o less
           n == Len(ws)
           m == Len(bs)
           i == n + j
<1>1. n \in Nat /\ m \in Nat /\ j \in Int /\ 1 <= j /\ j <= m BY LenProperties
<1>2. vs \in Seq(Int) /\ Len(vs) = m /\ vs[j] = new /\ \A k \in 1 .. m : k # j => vs[k] = bs[k]
  BY ExceptSeq
<1>3. /\ less \in Seq(Int) /\ Len(less) = m - 1
      /\ \A p \in 1 .. m - 1 : less[p] = bs[IF p < j THEN p ELSE p + 1]
  BY WithoutIs
<1> HIDE DEF vs, less
<1>4. all \in Seq(Int) /\ Len(all) = n + m /\ \A k \in 1 .. n + m : all[k] = IF k <= n THEN ws[k] ELSE vs[k - n]
  <2>1. /\ all \in Seq(Int) /\ Len(all) = Len(ws) + Len(vs)
        /\ \A k \in 1 .. Len(ws) + Len(vs) : all[k] = IF k <= Len(ws) THEN ws[k] ELSE vs[k - Len(ws)]
    BY <1>2, ConcatProperties
  <2> QED BY <1>2, <2>1
<1>5. /\ rest \in Seq(Int) /\ Len(rest) = n + m - 1
      /\ \A k \in 1 .. n + m - 1 : rest[k] = IF k <= n THEN ws[k] ELSE less[k - n]
  <2>1. /\ rest \in Seq(Int) /\ Len(rest) = Len(ws) + Len(less)
        /\ \A k \in 1 .. Len(ws) + Len(less) : rest[k] = IF k <= Len(ws) THEN ws[k] ELSE less[k - Len(ws)]
    BY <1>3, ConcatProperties
  <2> HIDE DEF rest
  <2>2. Len(ws) + Len(less) = n + m - 1 BY <1>1, <1>3
  <2> QED BY <2>1, <2>2
<1> HIDE DEF all, rest
<1>6. ASSUME NEW p \in 1 .. Len(all) - 1 PROVE rest[p] = all[IF p < i THEN p ELSE p + 1]
  <2>0. p \in Int /\ 1 <= p /\ p <= n + m - 1 /\ i = n + j BY <1>1, <1>4
  <2> HIDE DEF i, n, m
  <2>1. CASE p <= n
    <3>1. p \in 1 .. n + m - 1 /\ p \in 1 .. n + m /\ p < i BY <1>1, <2>0, <2>1
    <3>2. rest[p] = ws[p] /\ all[p] = ws[p] BY <1>4, <1>5, <2>1, <3>1
    <3> QED BY <3>1, <3>2
  <2>2. CASE ~(p <= n) /\ p < i
    <3>1. p \in 1 .. n + m - 1 /\ p \in 1 .. n + m /\ p - n \in 1 .. m - 1 /\ p - n < j /\ p - n # j /\ p - n \in 1 .. m
      BY <1>1, <2>0, <2>2
    <3>2. rest[p] = less[p - n] /\ less[p - n] = bs[p - n] /\ all[p] = vs[p - n] /\ vs[p - n] = bs[p - n]
      BY <1>2, <1>3, <1>4, <1>5, <2>2, <3>1
    <3> QED BY <2>2, <3>2
  <2>3. CASE ~(p < i)
    <3>1. /\ p \in 1 .. n + m - 1 /\ p + 1 \in 1 .. n + m /\ ~(p <= n) /\ ~(p + 1 <= n)
          /\ p - n \in 1 .. m - 1 /\ ~(p - n < j)
          /\ (p + 1) - n = (p - n) + 1 /\ (p - n) + 1 # j /\ (p - n) + 1 \in 1 .. m
      BY <1>1, <2>0, <2>3
    <3>2. rest[p] = less[p - n] /\ less[p - n] = bs[(p - n) + 1] BY <1>3, <1>5, <3>1
    <3>3. all[p + 1] = vs[(p + 1) - n] /\ vs[(p - n) + 1] = bs[(p - n) + 1] BY <1>2, <1>4, <3>1
    <3> QED BY <2>3, <3>1, <3>2, <3>3
  <2> QED BY <2>1, <2>2, <2>3
<1>7. i \in 1 .. Len(all) /\ all[i] = new /\ Len(rest) = Len(all) - 1
  <2>1. i \in 1 .. n + m /\ ~(i <= n) /\ i - n = j /\ n + m - 1 = (n + m) - 1 BY <1>1
  <2>2. all[i] = vs[i - n]
    <3> HIDE DEF i, n, m
    <3> QED BY <1>4, <2>1
  <2> HIDE DEF i, n, m
  <2> QED BY <1>2, <1>4, <1>5, <2>1, <2>2
<1> DEFINE s == [max |-> Magnitude(all[i]), second |-> 0]
<1>8. Observed(s, rest) \in Pairs /\ TwoLargest(Observed(s, rest), Magnitudes(all), 1 .. Len(all))
  <2> HIDE DEF i
  <2> QED BY <1>4, <1>5, <1>6, <1>7, ScanTakesAll
<1>9. ScanMaxBias(ws, bs, j, new) = Observed(s, rest) BY <1>7 DEF ScanMaxBias, rest, less
<1> HIDE DEF s
<1> QED BY <1>1, <1>2, <1>8, <1>9 DEF Known, all, vs

LEMMA ScanKeeps == ASSUME ScanInv, [Next]_<<svars, scanVars>> PROVE ScanInv'
<1>1. /\ weights \in Seq(Int) /\ biases \in Seq(Int) /\ Len(weights) > 0 BY DEF ScanInv, Known
<1>2. CASE ChangeWeight
  <2>1. PICK i \in 1 .. Len(weights), new \in Values :
          /\ weights' = [weights EXCEPT ![i] = new] /\ known' = ScanMaxWeight(weights, biases, i, new)
          /\ biases' = biases
    BY <1>2 DEF ChangeWeight
  <2>2. new \in Int BY ScanAssumption
  <2>3. Known([weights EXCEPT ![i] = new], biases, ScanMaxWeight(weights, biases, i, new))
    BY <1>1, <2>2, WeightChanged
  <2> QED BY <2>1, <2>3 DEF ScanInv
<1>3. CASE ChangeBias
  <2>1. PICK i \in 1 .. Len(biases), new \in Values :
          /\ biases' = [biases EXCEPT ![i] = new] /\ known' = ScanMaxBias(weights, biases, i, new)
          /\ weights' = weights
    BY <1>3 DEF ChangeBias
  <2>2. new \in Int BY ScanAssumption
  <2>3. Known(weights, [biases EXCEPT ![i] = new], ScanMaxBias(weights, biases, i, new))
    BY <1>1, <2>2, BiasChanged
  <2> QED BY <2>1, <2>3 DEF ScanInv
<1>4. CASE UNCHANGED scanVars BY <1>4 DEF ScanInv, scanVars
<1> QED BY <1>2, <1>3, <1>4 DEF Next, ScanNext

LEMMA ScanStarts == Init => ScanInv
<1> SUFFICES ASSUME Init PROVE ScanInv OBVIOUS
<1>1. CASE ScanRests
  <2> DEFINE none == <<>>
  <2>1. <<0>> \in Seq(Int) /\ Len(<<0>>) = 1 /\ none \in Seq(Int) OBVIOUS
  <2>2. <<0>> \o none = <<0>> BY <2>1, ConcatEmptySeq
  <2>3. weights = <<0>> /\ biases = none /\ known = [max |-> 0, second |-> 0] BY <1>1 DEF ScanRests
  <2> HIDE DEF none
  <2> DEFINE all == weights \o biases
             f == Magnitudes(all)
             E == 1 .. Len(all)
  <2>4. all = <<0>> /\ E = {1} /\ f[1] = 0 BY <2>1, <2>2, <2>3 DEF Magnitudes, Magnitude
  <2> HIDE DEF all, f, E
  <2>5. known \in Pairs /\ known.max = 0 /\ known.second = 0 BY <2>3 DEF Pairs
  <2>6. Leads(known, f, E, 1) BY <2>4, <2>5 DEF Leads
  <2>7. TwoLargest(known, f, E) BY <2>4, <2>6 DEF TwoLargest
  <2> QED BY <2>1, <2>3, <2>5, <2>7 DEF ScanInv, Known, all, f, E
<1>2. CASE ScanInit
  <2>1. weights \in [1 .. 2 -> Int] /\ \E n \in 0 .. 1 : biases \in [1 .. n -> Int]
    BY <1>2, ScanAssumption DEF ScanInit
  <2>2. weights \in Seq(Int) /\ Len(weights) > 0
    <3>1. DOMAIN weights = 1 .. 2 /\ 2 \in Nat /\ weights = [k \in 1 .. 2 |-> weights[k]] BY <2>1
    <3>2. \A k \in 1 .. 2 : weights[k] \in Int BY <2>1
    <3> QED BY <3>1, <3>2, MadeSeq
  <2>2a. biases \in Seq(Int)
    <3>1. PICK n \in 0 .. 1 : biases \in [1 .. n -> Int] BY <2>1
    <3> QED BY <3>1, MadeSeq
  <2>3. known = ScoreComponents(weights, biases) BY <1>2 DEF ScanInit
  <2> QED BY <2>2, <2>2a, <2>3, WholeTakesAll DEF ScanInv, Known
<1> QED BY <1>1, <1>2 DEF Init

\* Any largest magnitude may be taken away: the next is the second.
LEMMA LeadsAnyway ==
  ASSUME NEW s \in Pairs, NEW E, NEW f \in [E -> Nat], NEW lead \in E, Leads(s, f, E, lead),
         NEW top \in E, \A j \in E : f[j] <= f[top]
  PROVE  Leads(s, f, E, top)
<1>1. /\ s.max = f[lead]
      /\ \A j \in E : f[j] <= s.max
      /\ \A j \in E \ {lead} : f[j] <= s.second
      /\ IF E \ {lead} = {} THEN s.second = 0 ELSE \E j \in E \ {lead} : f[j] = s.second
  BY DEF Leads
<1>2. s.max \in Nat /\ s.second \in Nat BY DEF Pairs
<1>3. CASE top = lead BY <1>3
<1>4. CASE top # lead
  <2>1. f[top] = s.max /\ f[lead] = s.max /\ top \in E \ {lead} /\ lead \in E \ {top} BY <1>1, <1>4
  <2>2. s.second = s.max
    <3>1. f[top] <= s.second BY <1>1, <2>1
    <3>2. PICK j \in E \ {lead} : f[j] = s.second BY <1>1, <2>1
    <3>3. s.second <= s.max BY <1>1, <3>2
    <3> QED BY <1>2, <2>1, <3>1, <3>3
  <2>3. \A j \in E \ {top} : f[j] <= s.second BY <1>1, <2>2
  <2>4. E \ {top} # {} /\ \E j \in E \ {top} : f[j] = s.second BY <2>1, <2>2
  <2> QED BY <1>1, <2>1, <2>3, <2>4 DEF Leads
<1> QED BY <1>3, <1>4

LEMMA KnownIsTrue == ScanInv => ScanStaysTrue
<1> SUFFICES ASSUME ScanInv PROVE ScanStaysTrue OBVIOUS
<1> DEFINE all == weights \o biases
           E == 1 .. Len(all)
           f == Magnitudes(all)
           Top(k) == \A j \in E : Magnitude(all[j]) <= Magnitude(all[k])
           top == CHOOSE k \in E : Top(k)
           rest == Without(all, top)
<1>1. /\ weights \in Seq(Int) /\ biases \in Seq(Int) /\ Len(weights) > 0
      /\ known \in Pairs /\ TwoLargest(known, f, E)
  BY DEF ScanInv, Known
<1>2. all \in Seq(Int) /\ Len(all) \in Nat /\ Len(all) > 0 /\ 1 \in E
  <2>1. all \in Seq(Int) /\ Len(all) = Len(weights) + Len(biases) BY <1>1, ConcatProperties
  <2>2. Len(weights) \in Nat /\ Len(biases) \in Nat BY <1>1, LenProperties
  <2> HIDE DEF all
  <2> QED BY <1>1, <2>1, <2>2
<1> HIDE DEF all
<1>3. f \in [E -> Nat] /\ \A k \in E : f[k] = Magnitude(all[k])
  <2>1. \A k \in E : all[k] \in Int BY <1>2, ElementOfSeq
  <2>2. \A k \in E : Magnitude(all[k]) \in Nat BY <2>1, MagnitudeIsNat
  <2> QED BY <2>2 DEF Magnitudes
<1> HIDE DEF f
<1>4. PICK lead \in E : Leads(known, f, E, lead)
  <2> HIDE DEF E
  <2> QED BY <1>1, <1>2 DEF TwoLargest
<1>5. Top(lead)
  <2> HIDE DEF E
  <2>1. known.max = f[lead] /\ \A j \in E : f[j] <= known.max BY <1>4 DEF Leads
  <2> QED BY <1>3, <2>1
<1>6. top \in E /\ Top(top)
  <2> HIDE DEF E, Top
  <2> QED BY <1>5
<1> HIDE DEF top
<1>7. Leads(known, f, E, top)
  <2> HIDE DEF E
  <2>1. \A j \in E : f[j] <= f[top] BY <1>3, <1>6
  <2> QED BY <1>1, <1>3, <1>4, <1>6, <2>1, LeadsAnyway
<1>8. /\ known.max = f[top]
      /\ \A j \in E \ {top} : f[j] <= known.second
      /\ E \ {top} # {} => \E j \in E \ {top} : f[j] = known.second
  BY <1>7 DEF Leads
<1>9. /\ rest \in Seq(Int) /\ Len(rest) = Len(all) - 1
      /\ \A p \in 1 .. Len(all) - 1 : rest[p] = all[IF p < top THEN p ELSE p + 1]
  BY <1>2, <1>6, WithoutIs
<1> HIDE DEF rest
<1>10. \A p \in 1 .. Len(rest) : (IF p < top THEN p ELSE p + 1) \in E \ {top}
  BY <1>2, <1>6, <1>9
<1>11. ASSUME NEW p \in 1 .. Len(rest) PROVE Magnitude(rest[p]) <= known.second
  <2> DEFINE k == IF p < top THEN p ELSE p + 1
  <2>1. k \in E \ {top} /\ rest[p] = all[k] BY <1>9, <1>10
  <2> HIDE DEF k
  <2> QED BY <1>3, <1>8, <2>1
<1>12. ASSUME Len(rest) # 0 PROVE \E p \in 1 .. Len(rest) : Magnitude(rest[p]) = known.second
  <2>1. E \ {top} # {}
    <3>1. Len(all) > 1 BY <1>2, <1>9, <1>12
    <3> QED BY <1>2, <1>6, <3>1
  <2>2. PICK k \in E \ {top} : f[k] = known.second BY <1>8, <2>1
  <2> DEFINE p == IF k < top THEN k ELSE k - 1
  <2>3. p \in 1 .. Len(rest) /\ (IF p < top THEN p ELSE p + 1) = k BY <1>2, <1>6, <1>9
  <2> HIDE DEF p
  <2>4. rest[p] = all[k] BY <1>9, <2>3
  <2>5. Magnitude(all[k]) = known.second BY <1>3, <2>2
  <2> QED BY <2>3, <2>4, <2>5
<1>13. known.max = Magnitude(all[top]) BY <1>3, <1>6, <1>8
<1>14. rest = <<>> \/ Len(rest) # 0 BY <1>9, EmptySeq
<1> QED BY <1>11, <1>12, <1>13, <1>14 DEF ScanStaysTrue, all, top, rest

\* The penalty of a score stays exact through any series of changes of one
\* weight or bias: the pair score_scan.rs scans for, or computes whole, holds the
\* two largest magnitudes of the creature as it stands, ties kept.
THEOREM ScanAlwaysTrue == Spec => []ScanStaysTrue
BY ScanStarts, ScanKeeps, KnownIsTrue, PTL DEF Spec
=============================================================================
