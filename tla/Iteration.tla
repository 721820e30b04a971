------------------------------ MODULE Iteration ------------------------------
(***************************************************************************)
(* Induction over the natural numbers, and functions defined by it, stated  *)
(* about sets and functions: the theorems of NaturalsInduction take an      *)
(* operator, which the provers cannot instantiate.                          *)
(***************************************************************************)
EXTENDS Integers, FiniteSets, FiniteSetTheorems, WellFoundedInduction, TLAPS

\* A set of numbers that is not empty has a least member.
LEMMA LeastMember ==
  ASSUME NEW T, T \subseteq Nat, T # {}
  PROVE  \E m \in T : \A k \in T : m <= k
<1> DEFINE R == {ss \in Nat \X Nat : ss[1] < ss[2]}
<1>1. IsWellFoundedOn(R, Nat) BY NatLessThanWellFounded DEF OpToRel
<1>2. \A k, m \in Nat : <<k, m>> \in R <=> k < m OBVIOUS
<1> HIDE DEF R
<1>3. PICK m \in T : \A k \in T : ~(<<k, m>> \in R) BY <1>1, WFMin
<1>4. ASSUME NEW k \in T PROVE m <= k
  <2>1. k \in Nat /\ m \in Nat OBVIOUS
  <2>2. ~(k < m) BY <1>2, <1>3, <2>1
  <2> QED BY <2>1, <2>2
<1> QED BY <1>4

\* A set that holds 0 and the successor of its members holds every number.
LEMMA Induction ==
  ASSUME NEW T, 0 \in T, \A n \in Nat : n \in T => n + 1 \in T
  PROVE  Nat \subseteq T
<1> SUFFICES ASSUME Nat \ T # {} PROVE FALSE OBVIOUS
<1>1. PICK m \in Nat \ T : \A k \in Nat \ T : m <= k BY LeastMember
<1>2. m \in Nat /\ m # 0 OBVIOUS
<1>3. m - 1 \in Nat /\ ~(m <= m - 1) /\ (m - 1) + 1 = m BY <1>2
<1>4. m - 1 \in T BY <1>1, <1>3
<1> QED BY <1>3, <1>4

\* f iterates step from x0, up to n: step[<<i, x>>] follows x at place i.
Iterates(f, n, x0, step) ==
  f[0] = x0 /\ \A i \in 0 .. n - 1 : f[i + 1] = step[<<i, f[i]>>]

LEMMA IteratesUnique ==
  ASSUME NEW x0, NEW step, NEW n \in Nat, NEW m \in Nat, NEW f, NEW g,
         Iterates(f, n, x0, step), Iterates(g, m, x0, step)
  PROVE  \A i \in Nat : i <= n /\ i <= m => f[i] = g[i]
<1> DEFINE T == {i \in Nat : i <= n /\ i <= m => f[i] = g[i]}
<1>1. 0 \in T BY DEF Iterates
<1>2. ASSUME NEW i \in Nat, i \in T PROVE i + 1 \in T
  <2> SUFFICES ASSUME i + 1 <= n, i + 1 <= m PROVE f[i + 1] = g[i + 1] OBVIOUS
  <2>1. i \in 0 .. n - 1 /\ i \in 0 .. m - 1 /\ f[i] = g[i] BY <1>2
  <2> QED BY <2>1 DEF Iterates
<1>3. Nat \subseteq T
  <2> HIDE DEF T
  <2> QED BY <1>1, <1>2, Induction
<1> QED BY <1>3

Steps(X) == [Nat \X X -> X]

Iterated(f, X, x0, step) ==
  f \in [Nat -> X] /\ f[0] = x0 /\ \A n \in Nat : f[n + 1] = step[<<n, f[n]>>]

\* Every start and every step have an iteration.
LEMMA IterationExists ==
  ASSUME NEW X, NEW x0 \in X, NEW step \in Steps(X)
  PROVE  \E f : Iterated(f, X, x0, step)
<1> DEFINE Upto(n) == {f \in [0 .. n -> X] : Iterates(f, n, x0, step)}
           T == {n \in Nat : Upto(n) # {}}
<1>0. step \in [Nat \X X -> X] BY DEF Steps
<1>1. 0 \in T
  <2>1. [i \in 0 .. 0 |-> x0] \in Upto(0) BY DEF Iterates
  <2> QED BY <2>1
<1>2. ASSUME NEW n \in Nat, n \in T PROVE n + 1 \in T
  <2>1. PICK f \in [0 .. n -> X] : Iterates(f, n, x0, step) BY <1>2
  <2> DEFINE g == [i \in 0 .. n + 1 |-> IF i <= n THEN f[i] ELSE step[<<n, f[n]>>]]
  <2>2. g \in [0 .. n + 1 -> X] BY <1>0
  <2>3. g[0] = x0 BY <2>1 DEF Iterates
  <2>4. ASSUME NEW i \in 0 .. n + 1 - 1 PROVE g[i + 1] = step[<<i, g[i]>>]
    <3>1. CASE i = n
      <4>1. g[n + 1] = step[<<n, f[n]>>] /\ g[n] = f[n] OBVIOUS
      <4> QED BY <3>1, <4>1
    <3>2. CASE i # n
      <4>1. i \in 0 .. n - 1 /\ g[i + 1] = f[i + 1] /\ g[i] = f[i] BY <3>2
      <4> QED BY <2>1, <4>1 DEF Iterates
    <3> QED BY <3>1, <3>2
  <2>5. g \in Upto(n + 1)
    <3> HIDE DEF g
    <3>1. Iterates(g, n + 1, x0, step) BY <2>3, <2>4 DEF Iterates
    <3> QED BY <2>2, <3>1
  <2> QED BY <2>5
<1>3. \A n \in Nat : Upto(n) # {}
  <2>1. Nat \subseteq T
    <3> HIDE DEF T
    <3> QED BY <1>1, <1>2, Induction
  <2> QED BY <2>1
<1> DEFINE of == [n \in Nat |-> CHOOSE f \in Upto(n) : TRUE]
           f == [n \in Nat |-> of[n][n]]
<1>4. \A n \in Nat : of[n] \in [0 .. n -> X] /\ Iterates(of[n], n, x0, step)
  <2> TAKE n \in Nat
  <2>1. of[n] \in Upto(n) BY <1>3
  <2> QED BY <2>1
<1>5. f \in [Nat -> X] BY <1>4
<1>6. f[0] = x0
  <2>1. f[0] = of[0][0] OBVIOUS
  <2> QED BY <1>4, <2>1 DEF Iterates
<1>7. ASSUME NEW n \in Nat PROVE f[n + 1] = step[<<n, f[n]>>]
  <2>1. f[n + 1] = of[n + 1][n + 1] /\ f[n] = of[n][n] OBVIOUS
  <2> HIDE DEF of, f
  <2>2. n \in 0 .. (n + 1) - 1 /\ n + 1 \in Nat OBVIOUS
  <2>3. Iterates(of[n + 1], n + 1, x0, step) /\ Iterates(of[n], n, x0, step) BY <1>4, <2>2
  <2>4. of[n + 1][n + 1] = step[<<n, of[n + 1][n]>>] BY <2>2, <2>3 DEF Iterates
  <2>5. of[n + 1][n] = of[n][n]
    <3>1. \A i \in Nat : i <= n + 1 /\ i <= n => of[n + 1][i] = of[n][i]
      <4> DEFINE g == of[n + 1]
                 h == of[n]
                 m == n + 1
      <4>1. m \in Nat /\ Iterates(g, m, x0, step) /\ Iterates(h, n, x0, step) BY <2>2, <2>3
      <4> HIDE DEF g, h, m
      <4>2. \A i \in Nat : i <= m /\ i <= n => g[i] = h[i] BY <4>1, IteratesUnique
      <4> QED BY <4>2 DEF g, h, m
    <3> QED BY <3>1
  <2> QED BY <2>1, <2>4, <2>5
<1> QED BY <1>5, <1>6, <1>7 DEF Iterated

\* The same up to n.
LEMMA IterationUpTo ==
  ASSUME NEW X, NEW x0 \in X, NEW n \in Nat, NEW step,
         \A i \in 0 .. n - 1 : \A x \in X : step[<<i, x>>] \in X
  PROVE  \E g \in [0 .. n -> X] : Iterates(g, n, x0, step)
<1> DEFINE total == [p \in Nat \X X |-> IF p[1] < n THEN step[p] ELSE p[2]]
<1>1. total \in Steps(X)
  <2>1. ASSUME NEW i \in Nat, NEW x \in X PROVE (IF i < n THEN step[<<i, x>>] ELSE x) \in X
    <3>1. i < n => i \in 0 .. n - 1 OBVIOUS
    <3> QED BY <3>1
  <2>2. \A p \in Nat \X X : p = <<p[1], p[2]>> /\ p[1] \in Nat /\ p[2] \in X OBVIOUS
  <2>3. \A p \in Nat \X X : (IF p[1] < n THEN step[p] ELSE p[2]) \in X BY <2>1, <2>2
  <2> QED BY <2>3 DEF Steps
<1>2. PICK f : Iterated(f, X, x0, total)
  <2> HIDE DEF total
  <2> QED BY <1>1, IterationExists
<1> DEFINE g == [i \in 0 .. n |-> f[i]]
<1>3. g \in [0 .. n -> X] /\ g[0] = x0 BY <1>2 DEF Iterated
<1>4. ASSUME NEW i \in 0 .. n - 1 PROVE g[i + 1] = step[<<i, g[i]>>]
  <2>1. i \in Nat /\ i < n /\ f[i] \in X /\ g[i + 1] = f[i + 1] /\ g[i] = f[i]
    BY <1>2 DEF Iterated
  <2>2. f[i + 1] = total[<<i, f[i]>>] BY <1>2, <2>1 DEF Iterated
  <2>3. total[<<i, f[i]>>] = step[<<i, f[i]>>] BY <2>1
  <2> QED BY <2>1, <2>2, <2>3
<1> QED
  <2> HIDE DEF g
  <2> QED BY <1>3, <1>4 DEF Iterates

\* Induction up to n.
LEMMA InductionUpTo ==
  ASSUME NEW T, NEW n \in Nat, 0 \in T, \A k \in 1 .. n : k - 1 \in T => k \in T
  PROVE  0 .. n \subseteq T
<1> DEFINE S == {k \in Nat : k <= n => k \in T}
<1>1. 0 \in S OBVIOUS
<1>2. ASSUME NEW k \in Nat, k \in S PROVE k + 1 \in S
  <2> SUFFICES ASSUME k + 1 <= n PROVE k + 1 \in T OBVIOUS
  <2>1. k + 1 \in 1 .. n /\ (k + 1) - 1 = k /\ k \in T BY <1>2
  <2> QED BY <2>1
<1>3. Nat \subseteq S
  <2> HIDE DEF S
  <2> QED BY <1>1, <1>2, Induction
<1> QED BY <1>3

\* g follows step from x0, up to n: step[<<k, x>>] is its value at k where x is
\* that at k - 1.
StepsBy(g, n, x0, step) == g[0] = x0 /\ \A k \in 1 .. n : g[k] = step[<<k, g[k - 1]>>]

LEMMA Recursion ==
  ASSUME NEW X, NEW x0 \in X, NEW n \in Nat, NEW step,
         \A k \in 1 .. n : \A x \in X : step[<<k, x>>] \in X
  PROVE  \E g \in [0 .. n -> X] : StepsBy(g, n, x0, step)
<1> DEFINE late == [p \in (0 .. n - 1) \X X |-> step[<<p[1] + 1, p[2]>>]]
<1>1. \A i \in 0 .. n - 1 : \A x \in X : late[<<i, x>>] = step[<<i + 1, x>>] /\ i + 1 \in 1 .. n
  <2> TAKE i \in 0 .. n - 1
  <2>1. i + 1 \in 1 .. n OBVIOUS
  <2>2. \A x \in X : late[<<i, x>>] = step[<<i + 1, x>>] OBVIOUS
  <2> QED BY <2>1, <2>2
<1> HIDE DEF late
<1>2. \A i \in 0 .. n - 1 : \A x \in X : late[<<i, x>>] \in X BY <1>1
<1>3. PICK g \in [0 .. n -> X] : Iterates(g, n, x0, late) BY <1>2, IterationUpTo
<1>4. ASSUME NEW k \in 1 .. n PROVE g[k] = step[<<k, g[k - 1]>>]
  <2>1. k - 1 \in 0 .. n - 1 /\ k - 1 \in 0 .. n /\ (k - 1) + 1 = k /\ g[k - 1] \in X OBVIOUS
  <2>2. g[(k - 1) + 1] = late[<<k - 1, g[k - 1]>>] BY <1>3, <2>1 DEF Iterates
  <2>3. late[<<k - 1, g[k - 1]>>] = step[<<(k - 1) + 1, g[k - 1]>>] BY <1>1, <2>1
  <2> QED BY <2>1, <2>2, <2>3
<1> QED BY <1>3, <1>4 DEF Iterates, StepsBy

-----------------------------------------------------------------------------
(* Ranks in a strict order, given as a set of pairs                         *)

Under(S, L, k) == {j \in S : <<j, k>> \in L}

\* In a finite set every rank is somebody's, and the ranks follow the order.
LEMMA Ranks ==
  ASSUME NEW S, IsFiniteSet(S), NEW L,
         \A j, k \in S : j # k => <<j, k>> \in L \/ <<k, j>> \in L,
         \A k \in S : <<k, k>> \notin L,
         \A i, j, k \in S : <<i, j>> \in L /\ <<j, k>> \in L => <<i, k>> \in L
  PROVE  /\ Cardinality(S) \in Nat
         /\ \A k \in S : Cardinality(Under(S, L, k)) + 1 \in 1 .. Cardinality(S)
         /\ \A j, k \in S : <<j, k>> \in L =>
              Cardinality(Under(S, L, j)) < Cardinality(Under(S, L, k))
         /\ \A i \in 1 .. Cardinality(S) : \E k \in S : Cardinality(Under(S, L, k)) + 1 = i
<1> DEFINE B(k) == Under(S, L, k)
           n == Cardinality(S)
           I == 1 .. n
           rank == [k \in S |-> Cardinality(B(k)) + 1]
<1>1. n \in Nat BY FS_CardinalityType
<1>2. \A k \in S : B(k) \in SUBSET S BY DEF Under
<1>3. \A j, k \in S : j \in B(k) <=> <<j, k>> \in L BY DEF Under
<1> HIDE DEF B, n
<1>4. \A k \in S : IsFiniteSet(B(k)) /\ Cardinality(B(k)) \in Nat
  BY <1>2, FS_Subset, FS_CardinalityType
<1>5. ASSUME NEW k \in S PROVE Cardinality(B(k)) + 1 \in I
  <2>1. B(k) \in SUBSET (S \ {k}) BY <1>2, <1>3
  <2>2. IsFiniteSet(S \ {k}) /\ Cardinality(S \ {k}) = n - 1 BY FS_RemoveElement DEF n
  <2>3. Cardinality(B(k)) <= n - 1 BY <2>1, <2>2, FS_Subset
  <2> QED BY <1>1, <1>4, <2>3
<1>6. ASSUME NEW j \in S, NEW k \in S, <<j, k>> \in L
      PROVE  Cardinality(B(j)) < Cardinality(B(k))
  <2>1. \A i \in B(j) : i \in B(k) /\ i # j BY <1>2, <1>3, <1>6
  <2>2. B(j) \in SUBSET (B(k) \ {j}) BY <2>1
  <2>3. j \in B(k) BY <1>3, <1>6
  <2>4. IsFiniteSet(B(k) \ {j}) /\ Cardinality(B(k) \ {j}) = Cardinality(B(k)) - 1
    BY <1>4, <2>3, FS_RemoveElement
  <2>5. Cardinality(B(j)) <= Cardinality(B(k)) - 1 BY <2>2, <2>4, FS_Subset
  <2> QED BY <1>4, <2>5
<1>7. rank \in Injection(S, I)
  <2>1. rank \in [S -> I] BY <1>5
  <2>2. ASSUME NEW j \in S, NEW k \in S, rank[j] = rank[k] PROVE j = k
    <3>1. Cardinality(B(j)) = Cardinality(B(k)) BY <1>4, <2>2
    <3>2. ~(Cardinality(B(j)) < Cardinality(B(k))) /\ ~(Cardinality(B(k)) < Cardinality(B(j)))
      BY <1>4, <3>1
    <3> QED BY <1>6, <3>2
  <2> HIDE DEF rank
  <2> QED BY <2>1, <2>2 DEF Injection, IsInjective
<1>8. rank \in Surjection(S, I)
  <2>1. IsFiniteSet(I) /\ Cardinality(I) = n
    <3>1. 1 \in Int /\ n \in Int BY <1>1
    <3>2. IsFiniteSet(1 .. n) /\ Cardinality(1 .. n) = IF 1 > n THEN 0 ELSE n - 1 + 1 BY <3>1, FS_Interval
    <3> QED BY <1>1, <3>2
  <2> HIDE DEF rank, I
  <2>2. Cardinality(S) = Cardinality(I) BY <2>1 DEF n
  <2> QED BY <1>7, <2>1, <2>2, FS_Injection
<1>9. ASSUME NEW i \in I PROVE \E k \in S : Cardinality(B(k)) + 1 = i
  <2>1. PICK k \in S : rank[k] = i
    <3> HIDE DEF rank
    <3> QED BY <1>8 DEF Surjection
  <2> QED BY <2>1
<1> QED BY <1>1, <1>5, <1>6, <1>9 DEF B, n

-----------------------------------------------------------------------------
(* Multiples and quotients                                                 *)

LEMMA Monotone == ASSUME NEW r \in Nat, NEW j \in Nat, NEW k \in Nat, j <= k
                  PROVE  j * r \in Nat /\ k * r \in Nat /\ j * r <= k * r
<1>1. PICK d \in Nat : k = j + d BY k - j \in Nat
<1>2. k * r = j * r + d * r BY <1>1, SMT
<1>3. d * r \in Nat /\ j * r \in Nat BY SMT
<1> QED BY <1>2, <1>3

LEMMA Division == ASSUME NEW r \in Nat, r > 0, NEW n \in Nat
                  PROVE  /\ n \div r \in Nat
                         /\ (n \div r) * r <= n
                         /\ n - (n \div r) * r < r
<1>1. n % r \in 0 .. r - 1 /\ n \div r \in Int BY SMT
<1>2. n = r * (n \div r) + (n % r) BY SMT
<1>3. (n \div r) >= 0 BY SMT
<1>4. r * (n \div r) = (n \div r) * r BY <1>1, SMT
<1> QED BY <1>1, <1>2, <1>3, <1>4

LEMMA ExactDivision == ASSUME NEW r \in Nat, r > 0, NEW k \in Nat
                       PROVE  (k * r) \div r = k
  BY SMT
=============================================================================
