---------------------------- MODULE TopologyProofs ----------------------------
(***************************************************************************)
(* That the topology operations answer what they promise, on buffers of any *)
(* size: detect_cycles finds a cycle just where there is one, the order of  *)
(* compute_reverse_topological_order has every consumer first, the scan for *)
(* free slots emits each open pair once and as many as it counted, and the  *)
(* ordering gate judges each topology of a batch by its own slice.          *)
(***************************************************************************)
EXTENDS Topology, Iteration, FiniteSetTheorems, SequenceTheorems, TLAPS

-----------------------------------------------------------------------------
(* The buffers.                                                             *)

TopoOK ==
  topo \in [from : Seq(Nat), to : Seq(Nat), n : Nat, inputs : Nat, constants : SUBSET Nat]

Holds(q, v) == \E i \in 1 .. Len(q) : q[i] = v
Distinct(q) == \A i, j \in 1 .. Len(q) : q[i] = q[j] => i = j

LEMMA BufferTypes ==
  ASSUME TopoOK, ~Malformed
  PROVE  /\ topo.n \in Nat /\ topo.inputs \in Nat /\ topo.inputs <= topo.n
         /\ Len(topo.from) \in Nat /\ Len(topo.to) = Len(topo.from)
         /\ \A k \in Edges : k \in Nat /\ topo.from[k] \in Nat /\ topo.to[k] \in Nat
         /\ NonInput \subseteq Neurons /\ NonInput \subseteq Nat
         /\ IsFiniteSet(NonInput) /\ Cardinality(NonInput) = topo.n - topo.inputs
         /\ IsFiniteSet(Edges)
<1>1. /\ topo.n \in Nat /\ topo.inputs \in Nat /\ topo.inputs <= topo.n
      /\ topo.from \in Seq(Nat) /\ topo.to \in Seq(Nat) /\ Len(topo.to) = Len(topo.from)
  BY DEF TopoOK, Malformed
<1>2. Len(topo.from) \in Nat BY <1>1, LenProperties
<1>3. \A k \in Edges : k \in Nat /\ topo.from[k] \in Nat /\ topo.to[k] \in Nat
  BY <1>1, <1>2, ElementOfSeq DEF Edges
<1>4. IsFiniteSet(Edges) BY <1>2, FS_Interval DEF Edges
<1>5. IsFiniteSet(NonInput) /\ Cardinality(NonInput) = topo.n - topo.inputs
  <2>1. topo.n - 1 \in Int /\ topo.inputs \in Int BY <1>1
  <2>2. /\ IsFiniteSet(topo.inputs .. topo.n - 1)
        /\ Cardinality(topo.inputs .. topo.n - 1) =
             IF topo.inputs > topo.n - 1 THEN 0 ELSE (topo.n - 1) - topo.inputs + 1
    BY <2>1, FS_Interval
  <2> QED BY <1>1, <2>2 DEF NonInput
<1> QED BY <1>1, <1>2, <1>3, <1>4, <1>5 DEF NonInput, Neurons

\* A sequence without repeats is as long as the set of what it holds.
LEMMA DistinctLength ==
  ASSUME NEW S, NEW q \in Seq(S), Distinct(q)
  PROVE  /\ IsFiniteSet({q[i] : i \in 1 .. Len(q)})
         /\ Cardinality({q[i] : i \in 1 .. Len(q)}) = Len(q)
<1> DEFINE R == {q[i] : i \in 1 .. Len(q)}
           D == 1 .. Len(q)
<1>1. Len(q) \in Nat /\ q \in [D -> S] BY LenProperties
<1>2. IsFiniteSet(D) /\ Cardinality(D) = Len(q) BY <1>1, FS_Interval
<1>3. q \in Bijection(D, R)
  BY <1>1 DEF Bijection, Injection, Surjection, IsInjective, Distinct
<1>4. ExistsBijection(D, R) BY <1>3 DEF ExistsBijection
<1> QED BY <1>2, <1>4, FS_Bijection

\* q lists the members of S below n.
ListsBelow(q, S, n) ==
  /\ q \in Seq(S)
  /\ \A i \in 1 .. Len(q) : q[i] < n
  /\ Distinct(q)
  /\ \A v \in S : v < n => Holds(q, v)

LEMMA ListsNext ==
  ASSUME NEW S, S \subseteq Nat, NEW n \in Nat, NEW q, ListsBelow(q, S, n)
  PROVE  ListsBelow(IF n \in S THEN Append(q, n) ELSE q, S, n + 1)
<1>1. /\ q \in Seq(S) /\ Len(q) \in Nat
      /\ \A i \in 1 .. Len(q) : q[i] \in Nat /\ q[i] < n
      /\ Distinct(q) /\ \A v \in S : v < n => Holds(q, v)
  BY ElementOfSeq, LenProperties DEF ListsBelow
<1>2. CASE n \notin S
  <2>1. \A i \in 1 .. Len(q) : q[i] < n + 1 BY <1>1
  <2>2. \A v \in S : v < n + 1 => v < n BY <1>2
  <2>3. ListsBelow(q, S, n + 1) BY <1>1, <2>1, <2>2 DEF ListsBelow
  <2> QED BY <1>2, <2>3
<1>3. CASE n \in S
  <2> DEFINE r == Append(q, n)
  <2>1. /\ r \in Seq(S) /\ Len(r) = Len(q) + 1 /\ r[Len(q) + 1] = n
        /\ \A i \in 1 .. Len(q) : r[i] = q[i]
    BY <1>1, <1>3, AppendProperties
  <2> HIDE DEF r
  <2>2. \A i \in 1 .. Len(r) : i \in 1 .. Len(q) \/ i = Len(q) + 1 BY <1>1, <2>1
  <2>3. \A i \in 1 .. Len(r) : r[i] < n + 1
    <3> TAKE i \in 1 .. Len(r)
    <3>1. CASE i \in 1 .. Len(q) BY <1>1, <2>1, <3>1
    <3>2. CASE i = Len(q) + 1 BY <2>1, <3>2
    <3> QED BY <2>2, <3>1, <3>2
  <2>4. Distinct(r)
    <3> SUFFICES ASSUME NEW i \in 1 .. Len(r), NEW j \in 1 .. Len(r), r[i] = r[j]
                 PROVE  i = j
      BY DEF Distinct
    <3>1. CASE i \in 1 .. Len(q) /\ j \in 1 .. Len(q) BY <1>1, <2>1, <3>1 DEF Distinct
    <3>2. CASE i \in 1 .. Len(q) /\ j = Len(q) + 1
      <4>1. r[i] \in Nat /\ r[i] < n /\ r[j] = n BY <1>1, <2>1, <3>2
      <4> QED BY <4>1
    <3>3. CASE i = Len(q) + 1 /\ j \in 1 .. Len(q)
      <4>1. r[j] \in Nat /\ r[j] < n /\ r[i] = n BY <1>1, <2>1, <3>3
      <4> QED BY <4>1
    <3> QED BY <2>2, <3>1, <3>2, <3>3
  <2>5. ASSUME NEW v \in S, v < n + 1 PROVE Holds(r, v)
    <3>1. 1 .. Len(q) \subseteq 1 .. Len(r) /\ Len(q) + 1 \in 1 .. Len(r) BY <1>1, <2>1
    <3>2. CASE v = n BY <2>1, <3>1, <3>2 DEF Holds
    <3>3. CASE v < n
      <4>1. PICK i \in 1 .. Len(q) : q[i] = v BY <1>1, <3>3 DEF Holds
      <4>2. i \in 1 .. Len(r) /\ r[i] = v BY <2>1, <3>1, <4>1
      <4> QED BY <4>2 DEF Holds
    <3> QED BY <2>5, <3>2, <3>3
  <2>6. ListsBelow(r, S, n + 1) BY <2>1, <2>3, <2>4, <2>5 DEF ListsBelow
  <2> QED BY <1>3, <2>6 DEF r
<1> QED BY <1>2, <1>3

\* Ordered lists a set of neurons: each once.
LEMMA OrderedLists ==
  ASSUME TopoOK, NEW S, S \subseteq Neurons
  PROVE  /\ Ordered(S) \in Seq(S)
         /\ Distinct(Ordered(S))
         /\ \A v \in S : Holds(Ordered(S), v)
<1> DEFINE upTo[v \in Nat] ==
             IF v = 0 THEN <<>>
             ELSE IF v - 1 \in S THEN Append(upTo[v - 1], v - 1) ELSE upTo[v - 1]
           X == Seq(S)
           none == <<>>
           step == [p \in Nat \X X |-> IF p[1] \in S THEN Append(p[2], p[1]) ELSE p[2]]
<1>1. /\ topo.n \in Nat /\ S \subseteq Nat
      /\ \A v \in S : v < topo.n
  BY DEF TopoOK, Neurons
<1>2. step \in Steps(X) /\ none \in X BY DEF Steps
<1>3. PICK f : Iterated(f, X, none, step)
  <2> HIDE DEF step, X, none
  <2> QED BY <1>2, IterationExists
<1>4. \A n \in Nat : f[n + 1] = IF n \in S THEN Append(f[n], n) ELSE f[n]
  BY <1>3 DEF Iterated
<1>5. f = [v \in Nat |-> IF v = 0 THEN <<>>
                         ELSE IF v - 1 \in S THEN Append(f[v - 1], v - 1) ELSE f[v - 1]]
  <2>1. ASSUME NEW v \in Nat, v # 0
        PROVE  f[v] = IF v - 1 \in S THEN Append(f[v - 1], v - 1) ELSE f[v - 1]
    <3>1. v - 1 \in Nat /\ (v - 1) + 1 = v BY <2>1
    <3> QED BY <1>4, <3>1
  <2> QED BY <1>3, <2>1 DEF Iterated
<1>6. upTo = [v \in Nat |-> IF v = 0 THEN <<>>
                            ELSE IF v - 1 \in S THEN Append(upTo[v - 1], v - 1) ELSE upTo[v - 1]]
  <2> HIDE DEF step
  <2> QED BY <1>5
<1>7. Ordered(S) = upTo[topo.n] BY DEF Ordered
<1> HIDE DEF step, upTo
<1>8. upTo[0] = <<>> BY <1>6
<1>9. \A n \in Nat : upTo[n + 1] = IF n \in S THEN Append(upTo[n], n) ELSE upTo[n]
  <2> TAKE n \in Nat
  <2>1. n + 1 \in Nat /\ n + 1 # 0 /\ (n + 1) - 1 = n OBVIOUS
  <2> QED BY <1>6, <2>1
<1> DEFINE T == {n \in Nat : ListsBelow(upTo[n], S, n)}
<1>10. 0 \in T
  <2>1. Len(<<>>) = 0 /\ <<>> \in Seq(S) OBVIOUS
  <2>2. ListsBelow(<<>>, S, 0) BY <1>1, <2>1 DEF ListsBelow, Distinct
  <2> QED BY <1>8, <2>2
<1>11. ASSUME NEW n \in Nat, n \in T PROVE n + 1 \in T
  <2> DEFINE q == upTo[n]
  <2>1. ListsBelow(q, S, n) BY <1>11
  <2> HIDE DEF q
  <2>2. ListsBelow(IF n \in S THEN Append(q, n) ELSE q, S, n + 1) BY <1>1, <2>1, ListsNext
  <2> QED BY <1>9, <2>2 DEF q
<1>12. topo.n \in T
  <2> HIDE DEF T
  <2> QED BY <1>1, <1>10, <1>11, Induction
<1> QED BY <1>1, <1>7, <1>12 DEF ListsBelow

-----------------------------------------------------------------------------
(* Kahn's algorithm, as detect_cycles and compute_reverse_topological_order *)
(* both run it: the edges E lead from a[k] to b[k], the neurons of N are    *)
(* queued in q once no edge of `left` leads to them.                        *)

Onto(F, b, v) == {k \in F : b[k] = v}

Kahn(E, a, b, N, q, deg, left) ==
  /\ IsFiniteSet(E) /\ left \subseteq E
  /\ q \in Seq(N) /\ Distinct(q)
  /\ \A v \in N : deg[v] = Cardinality(Onto(left, b, v))
  /\ \A v \in N : Holds(q, v) <=> Onto(left, b, v) = {}
  /\ \A k \in E \ left : Holds(q, a[k])
  /\ \A k \in E \ left : \A j \in 1 .. Len(q) :
       q[j] = b[k] => \E i \in 1 .. j - 1 : q[i] = a[k]

LEMMA OntoCardinality ==
  ASSUME NEW F, IsFiniteSet(F), NEW b, NEW v
  PROVE  /\ IsFiniteSet(Onto(F, b, v))
         /\ Cardinality(Onto(F, b, v)) \in Nat
         /\ Cardinality(Onto(F, b, v)) = 0 <=> Onto(F, b, v) = {}
<1>1. Onto(F, b, v) \in SUBSET F BY DEF Onto
<1>2. IsFiniteSet(Onto(F, b, v)) BY <1>1, FS_Subset
<1> QED BY <1>2, FS_CardinalityType, FS_EmptySet

\* Before any edge is looked at.
LEMMA KahnStart ==
  ASSUME NEW E, IsFiniteSet(E), NEW a, NEW b, NEW N, NEW deg, NEW q,
         \A v \in N : deg[v] = Cardinality(Onto(E, b, v)),
         q \in Seq({v \in N : deg[v] = 0}), Distinct(q),
         \A v \in {w \in N : deg[w] = 0} : Holds(q, v)
  PROVE  Kahn(E, a, b, N, q, deg, E)
<1>1. \A v \in N : deg[v] = 0 <=> Onto(E, b, v) = {} BY OntoCardinality
<1>2. \A i \in 1 .. Len(q) : q[i] \in N /\ deg[q[i]] = 0 BY ElementOfSeq
<1>3. q \in Seq(N)
  <2>1. Len(q) \in Nat /\ q \in [1 .. Len(q) -> {v \in N : deg[v] = 0}] BY LenProperties
  <2> QED BY <2>1
<1>4. \A v \in N : Holds(q, v) <=> Onto(E, b, v) = {} BY <1>1, <1>2 DEF Holds
<1> QED BY <1>3, <1>4 DEF Kahn

\* One edge is looked at.
LEMMA KahnRelax ==
  ASSUME NEW E, NEW a, NEW b, NEW N, NEW M, N \subseteq M, NEW q,
         NEW deg \in [M -> Int], NEW left, Kahn(E, a, b, N, q, deg, left),
         NEW k \in left, b[k] \in N, Holds(q, a[k])
  PROVE  /\ deg[b[k]] >= 1
         /\ ~Holds(q, b[k])
         /\ Kahn(E, a, b, N, IF deg[b[k]] = 1 THEN Append(q, b[k]) ELSE q,
                 [deg EXCEPT ![b[k]] = @ - 1], left \ {k})
<1> DEFINE w == b[k]
           d == [deg EXCEPT ![w] = @ - 1]
           rest == left \ {k}
           r == Append(q, w)
<1>1. /\ IsFiniteSet(E) /\ left \subseteq E /\ q \in Seq(N) /\ Distinct(q) /\ Len(q) \in Nat
      /\ \A v \in N : deg[v] = Cardinality(Onto(left, b, v))
      /\ \A v \in N : Holds(q, v) <=> Onto(left, b, v) = {}
      /\ \A e \in E \ left : Holds(q, a[e])
      /\ \A e \in E \ left : \A j \in 1 .. Len(q) :
           q[j] = b[e] => \E i \in 1 .. j - 1 : q[i] = a[e]
  BY LenProperties DEF Kahn
<1>2. IsFiniteSet(left) /\ IsFiniteSet(rest) /\ rest \subseteq E
  <2>1. IsFiniteSet(left) BY <1>1, FS_Subset
  <2> QED BY <1>1, <2>1, FS_RemoveElement
<1>3. /\ Onto(rest, b, w) = Onto(left, b, w) \ {k} /\ k \in Onto(left, b, w)
      /\ \A v : v # w => Onto(rest, b, v) = Onto(left, b, v)
  BY DEF Onto
<1>4. deg[w] >= 1 /\ deg[w] \in Nat
  <2>1. Cardinality(Onto(left, b, w)) \in Nat /\ Cardinality(Onto(left, b, w)) # 0
    BY <1>2, <1>3, OntoCardinality
  <2> QED BY <1>1, <2>1
<1>5. ~Holds(q, w) BY <1>1, <1>3
<1>6. \A v \in N : d[v] = Cardinality(Onto(rest, b, v))
  <2> TAKE v \in N
  <2>1. CASE v = w
    <3>1. Cardinality(Onto(left, b, w) \ {k}) = Cardinality(Onto(left, b, w)) - 1
      BY <1>2, <1>3, OntoCardinality, FS_RemoveElement
    <3>2. d[w] = deg[w] - 1 OBVIOUS
    <3> QED BY <1>1, <1>3, <2>1, <3>1, <3>2
  <2>2. CASE v # w
    <3>1. d[v] = deg[v] BY <2>2
    <3> QED BY <1>1, <1>3, <2>2, <3>1
  <2> QED BY <2>1, <2>2
<1>7. Onto(rest, b, w) = {} <=> deg[w] = 1
  <2>1. d[w] = deg[w] - 1 OBVIOUS
  <2>2. d[w] = Cardinality(Onto(rest, b, w)) BY <1>6
  <2>3. d[w] = 0 <=> Onto(rest, b, w) = {} BY <1>2, <2>2, OntoCardinality
  <2> HIDE DEF d, rest
  <2> QED BY <1>4, <2>1, <2>3
<1>8. \A e \in E \ rest : Holds(q, a[e]) BY <1>1
<1> HIDE DEF d, rest
<1>9. CASE deg[w] # 1
  <2>1. \A v \in N : Holds(q, v) <=> Onto(rest, b, v) = {}
    BY <1>1, <1>3, <1>5, <1>7, <1>9
  <2>2. ASSUME NEW e \in E \ rest, NEW j \in 1 .. Len(q), q[j] = b[e]
        PROVE  \E i \in 1 .. j - 1 : q[i] = a[e]
    <3>1. e # k BY <1>5, <2>2 DEF Holds
    <3>2. e \in E \ left BY <3>1 DEF rest
    <3> QED BY <1>1, <2>2, <3>2
  <2>3. Kahn(E, a, b, N, q, d, rest) BY <1>1, <1>2, <1>6, <1>8, <2>1, <2>2 DEF Kahn
  <2> QED BY <1>4, <1>5, <1>9, <2>3 DEF d, rest
<1>10. CASE deg[w] = 1
  <2>1. /\ r \in Seq(N) /\ Len(r) = Len(q) + 1 /\ r[Len(q) + 1] = w
        /\ \A i \in 1 .. Len(q) : r[i] = q[i]
    BY <1>1, AppendProperties
  <2> HIDE DEF r
  <2>2. \A i \in 1 .. Len(r) : i \in 1 .. Len(q) \/ i = Len(q) + 1 BY <1>1, <2>1
  <2>3. /\ 1 .. Len(q) \subseteq 1 .. Len(r) /\ Len(q) + 1 \in 1 .. Len(r)
        /\ Len(q) + 1 \notin 1 .. Len(q)
    BY <1>1, <2>1
  <2>4. \A v : Holds(r, v) <=> Holds(q, v) \/ v = w BY <2>1, <2>2, <2>3 DEF Holds
  <2>5. Distinct(r)
    <3> SUFFICES ASSUME NEW i \in 1 .. Len(r), NEW j \in 1 .. Len(r), r[i] = r[j]
                 PROVE  i = j
      BY DEF Distinct
    <3>1. CASE i \in 1 .. Len(q) /\ j \in 1 .. Len(q) BY <1>1, <2>1, <3>1 DEF Distinct
    <3>2. CASE i \in 1 .. Len(q) /\ j = Len(q) + 1 BY <1>5, <2>1, <3>2 DEF Holds
    <3>3. CASE i = Len(q) + 1 /\ j \in 1 .. Len(q) BY <1>5, <2>1, <3>3 DEF Holds
    <3> QED BY <2>2, <3>1, <3>2, <3>3
  <2>6. \A v \in N : Holds(r, v) <=> Onto(rest, b, v) = {}
    BY <1>1, <1>3, <1>7, <1>10, <2>4
  <2>7. \A e \in E \ rest : Holds(r, a[e]) BY <1>8, <2>4
  <2>8. ASSUME NEW e \in E \ rest, NEW j \in 1 .. Len(r), r[j] = b[e]
        PROVE  \E i \in 1 .. j - 1 : r[i] = a[e]
    <3>1. CASE j \in 1 .. Len(q)
      <4>1. q[j] = b[e] BY <2>1, <2>8, <3>1
      <4>2. e # k BY <1>5, <3>1, <4>1 DEF Holds
      <4>3. e \in E \ left BY <4>2 DEF rest
      <4>4. PICK i \in 1 .. j - 1 : q[i] = a[e] BY <1>1, <3>1, <4>1, <4>3
      <4>5. i \in 1 .. Len(q) BY <1>1, <3>1
      <4> QED BY <2>1, <4>4, <4>5
    <3>2. CASE j = Len(q) + 1
      <4>1. PICK i \in 1 .. Len(q) : q[i] = a[e] BY <1>8 DEF Holds
      <4>2. i \in 1 .. j - 1 /\ r[i] = a[e] BY <1>1, <2>1, <3>2, <4>1
      <4> QED BY <4>2
    <3> QED BY <2>2, <3>1, <3>2
  <2>9. Kahn(E, a, b, N, r, d, rest)
    BY <1>1, <1>2, <1>6, <2>1, <2>5, <2>6, <2>7, <2>8 DEF Kahn
  <2> QED BY <1>4, <1>5, <1>10, <2>9 DEF d, rest, r
<1> QED BY <1>9, <1>10

\* Whatever leads to a queued neuron was queued before it.
LEMMA KahnOrder ==
  ASSUME NEW E, NEW a, NEW b, NEW N, NEW q, NEW deg, NEW left,
         Kahn(E, a, b, N, q, deg, left), NEW k \in E, NEW j \in 1 .. Len(q), q[j] = b[k]
  PROVE  \E i \in 1 .. j - 1 : q[i] = a[k]
<1>1. q \in Seq(N) BY DEF Kahn
<1>2. b[k] \in N /\ Holds(q, b[k]) BY <1>1, ElementOfSeq DEF Holds
<1>3. k \notin left BY <1>2 DEF Kahn, Onto
<1> QED BY <1>3 DEF Kahn

\* The edges looked at once q[1 .. head] have been dequeued: all those that start at
\* an earlier neuron, and those up to place e that start at the last one.
Seen(E, a, q, head, e) ==
  {k \in E : \E i \in 1 .. head : q[i] = a[k] /\ (i < head \/ k <= e)}

\* No edge of the last neuron is left.
RunDone(E, a, q, head, e) ==
  /\ E \subseteq Nat /\ 0 \notin E /\ head \in Nat /\ e \in Nat
  /\ head # 0 => \A k \in E : a[k] = q[head] => k <= e

\* k is the next edge of the last neuron, if it is an edge of E at all.
RunNext(E, a, q, head, e, k) ==
  /\ E \subseteq Nat /\ e \in Nat /\ k \in Nat
  /\ Distinct(q) /\ Len(q) \in Nat /\ head \in 1 .. Len(q)
  /\ a[k] = q[head] /\ k > e
  /\ \A j \in E : a[j] = q[head] /\ j > e => k <= j

\* The next neuron is dequeued.
LEMMA SeenDequeue ==
  ASSUME NEW E, NEW a, NEW q, NEW head, NEW e, RunDone(E, a, q, head, e)
  PROVE  Seen(E, a, q, head + 1, 0) = Seen(E, a, q, head, e)
<1> USE DEF RunDone
<1>1. ASSUME NEW k \in E
      PROVE  k \in Seen(E, a, q, head + 1, 0) <=> k \in Seen(E, a, q, head, e)
  <2>1. k \in Nat /\ ~(k <= 0) OBVIOUS
  <2>2. k \in Seen(E, a, q, head + 1, 0) <=> \E i \in 1 .. head + 1 : q[i] = a[k] /\ i < head + 1
    BY <2>1 DEF Seen
  <2>3. \A i : i \in 1 .. head + 1 /\ i < head + 1 <=> i \in 1 .. head OBVIOUS
  <2>4. ASSUME NEW i \in 1 .. head, q[i] = a[k] PROVE k \in Seen(E, a, q, head, e)
    <3>1. i < head \/ (i = head /\ head # 0) OBVIOUS
    <3> QED BY <2>4, <3>1 DEF Seen
  <2> QED BY <2>2, <2>3, <2>4 DEF Seen
<1> QED BY <1>1 DEF Seen

\* The next edge of the last neuron is looked head; the queue may grow.
LEMMA SeenLook ==
  ASSUME NEW E, NEW a, NEW q, NEW head, NEW e, NEW k, RunNext(E, a, q, head, e, k),
         NEW r, \A i \in 1 .. head : r[i] = q[i]
  PROVE  /\ k \notin Seen(E, a, q, head, e)
         /\ Seen(E, a, r, head, k) = Seen(E, a, q, head, e) \cup (E \cap {k})
<1> USE DEF RunNext
<1>1. k \notin Seen(E, a, q, head, e)
  <2> SUFFICES ASSUME NEW i \in 1 .. head, q[i] = a[k], i < head \/ k <= e PROVE FALSE BY DEF Seen
  <2>1. i \in 1 .. Len(q) /\ i < head OBVIOUS
  <2> QED BY <2>1 DEF Distinct
<1>2. ASSUME NEW j \in E
      PROVE  j \in Seen(E, a, r, head, k) <=> j \in Seen(E, a, q, head, e) \/ j = k
  <2>1. j \in Seen(E, a, r, head, k) <=> \E i \in 1 .. head : q[i] = a[j] /\ (i < head \/ j <= k)
    BY DEF Seen
  <2>2. j \in Nat /\ head \in 1 .. head /\ head \in Nat /\ k <= k OBVIOUS
  <2>3. j = k => j \in Seen(E, a, r, head, k) BY <2>1, <2>2
  <2>4. j <= e => j <= k BY <2>2
  <2>5. j \in Seen(E, a, q, head, e) => j \in Seen(E, a, r, head, k) BY <2>1, <2>4 DEF Seen
  <2>6. ASSUME NEW i \in 1 .. head, q[i] = a[j], i < head \/ j <= k, j # k
        PROVE  j \in Seen(E, a, q, head, e)
    <3>1. CASE i < head BY <2>6, <3>1 DEF Seen
    <3>2. CASE i = head /\ j <= k
      <4>1. j <= e BY <2>2, <2>6, <3>2
      <4> QED BY <2>6, <4>1 DEF Seen
    <3> QED BY <2>6, <3>1, <3>2
  <2> QED BY <2>1, <2>3, <2>5, <2>6
<1>3. Seen(E, a, r, head, k) \subseteq E /\ Seen(E, a, q, head, e) \subseteq E BY DEF Seen
<1> QED BY <1>1, <1>2, <1>3

-----------------------------------------------------------------------------
(* detect_cycles.                                                           *)

Relaxed == Seen(Counted, topo.from, cqueue, cat, edge)

CycleWalk ==
  /\ ~Malformed /\ SelfLoops = {}
  /\ inDegree \in [Neurons -> Int]
  /\ cat \in 0 .. Len(cqueue) /\ edge \in Nat
  /\ Kahn(Counted, topo.from, topo.to, NonInput, cqueue, inDegree, Counted \ Relaxed)

CycleInv ==
  /\ TopoOK
  /\ cpc = "start" => cat = 0 /\ edge = 0
  /\ cpc = "walk" => CycleWalk
  /\ VerdictIsTrue

\* The topology stays, and all that is read off it.
LEMMA SameTopology ==
  ASSUME UNCHANGED topo
  PROVE  /\ TopoOK' = TopoOK /\ Malformed' = Malformed /\ Edges' = Edges
         /\ Neurons' = Neurons /\ NonInput' = NonInput
         /\ Counted' = Counted /\ SelfLoops' = SelfLoops /\ NoStaleSource' = NoStaleSource
         /\ HasCycle' = HasCycle /\ Kept' = Kept
  BY DEF TopoOK, Malformed, Edges, Neurons, NonInput, Counted, SelfLoops, NoStaleSource,
         HasCycle, IsLoop, Kept

LEMMA CountedEdges ==
  ASSUME TopoOK, ~Malformed
  PROVE  /\ IsFiniteSet(Counted) /\ Counted \subseteq Nat /\ 0 \notin Counted
         /\ \A k \in Counted : /\ k \in Edges /\ k \in Nat
                               /\ topo.to[k] \in NonInput /\ topo.from[k] \in Nat
                               /\ topo.from[k] >= topo.inputs /\ topo.from[k] # topo.to[k]
<1>1. Counted \in SUBSET Edges BY DEF Counted
<1>2. IsFiniteSet(Counted) BY <1>1, BufferTypes, FS_Subset
<1>3. Edges \subseteq Nat /\ 0 \notin Edges BY BufferTypes DEF Edges
<1> QED BY <1>1, <1>2, <1>3, BufferTypes DEF Counted

\* What a step of the walk has to show.
LEMMA CycleWalkNext ==
  ASSUME UNCHANGED topo, CycleWalk, NEW q, NEW deg, NEW left,
         cqueue' = q, inDegree' = deg, Counted' \ Relaxed' = left,
         deg \in [Neurons -> Int], cat' \in 0 .. Len(q), edge' \in Nat,
         Kahn(Counted, topo.from, topo.to, NonInput, q, deg, left)
  PROVE  CycleWalk'
<1>1. Malformed' = Malformed /\ SelfLoops' = SelfLoops /\ Neurons' = Neurons
      /\ NonInput' = NonInput /\ Counted' = Counted /\ topo' = topo
  BY SameTopology
<1>2. Kahn(Counted', topo'.from, topo'.to, NonInput', cqueue', inDegree', Counted' \ Relaxed')
  BY <1>1, Zenon
<1> QED BY <1>1, <1>2, Zenon DEF CycleWalk

LEMMA CycleBegins ==
  ASSUME CycleInv, StartCycles, UNCHANGED topo
  PROVE  CycleWalk'
<1>1. TopoOK /\ ~Malformed /\ SelfLoops = {} /\ cat = 0 /\ edge = 0
  BY DEF CycleInv, StartCycles
<1>2. cat' = 0 /\ edge' = 0 /\ inDegree' = InDegrees /\ cqueue' = Sources(InDegrees)
  BY <1>1 DEF StartCycles
<1> DEFINE Zero == {v \in NonInput : InDegrees[v] = 0}
<1>3. NonInput \subseteq Neurons /\ NonInput \subseteq Nat BY <1>1, BufferTypes
<1>4. \A v \in NonInput : InDegrees[v] = Cardinality(Onto(Counted, topo.to, v))
  BY <1>3 DEF InDegrees, Onto
<1>5. InDegrees \in [Neurons -> Int]
  <2>1. ASSUME NEW v \in Neurons PROVE Cardinality({k \in Counted : topo.to[k] = v}) \in Int
    <3>1. Cardinality(Onto(Counted, topo.to, v)) \in Nat BY <1>1, CountedEdges, OntoCardinality
    <3> QED BY <3>1 DEF Onto
  <2> QED BY <2>1 DEF InDegrees
<1>6. cqueue' \in Seq(Zero) /\ Distinct(cqueue') /\ \A v \in Zero : Holds(cqueue', v)
  BY <1>1, <1>2, <1>3, OrderedLists DEF Sources
<1>7. Kahn(Counted, topo.from, topo.to, NonInput, cqueue', InDegrees, Counted)
  <2>1. IsFiniteSet(Counted) BY <1>1, CountedEdges
  <2> DEFINE a == topo.from
             b == topo.to
             q == cqueue'
             E == Counted
             N == NonInput
             deg == InDegrees
  <2>2. IsFiniteSet(E) /\ \A v \in N : deg[v] = Cardinality(Onto(E, b, v)) BY <1>4, <2>1
  <2>3. /\ q \in Seq({v \in N : deg[v] = 0}) /\ Distinct(q)
        /\ \A v \in {w \in N : deg[w] = 0} : Holds(q, v)
    BY <1>6
  <2> HIDE DEF a, b, q, E, N, deg
  <2>4. Kahn(E, a, b, N, q, deg, E) BY <2>2, <2>3, KahnStart
  <2> QED BY <2>4 DEF a, b, q, E, N, deg
<1>8. Relaxed' = {} BY <1>2 DEF Relaxed, Seen
<1>9. Len(cqueue') \in Nat BY <1>6, LenProperties
<1> QED BY <1>1, <1>2, <1>5, <1>7, <1>8, <1>9, SameTopology DEF CycleWalk

LEMMA CycleDequeues ==
  ASSUME CycleInv, Dequeue, UNCHANGED topo
  PROVE  CycleWalk'
<1>1. TopoOK /\ CycleWalk BY DEF CycleInv, Dequeue
<1>2. /\ LeftInRun = {} /\ cat < Len(cqueue) /\ cat' = cat + 1 /\ edge' = 0
      /\ UNCHANGED <<inDegree, cqueue>>
  BY DEF Dequeue
<1>3. cat \in Nat /\ Len(cqueue) \in Nat /\ cat' \in 0 .. Len(cqueue)
  BY <1>1, <1>2, LenProperties DEF CycleWalk, Kahn
<1>4. Counted \subseteq Edges /\ Counted \subseteq Nat /\ 0 \notin Counted /\ edge \in Nat
  BY <1>1, CountedEdges DEF CycleWalk
<1>5. ASSUME cat # 0, NEW k \in Counted, topo.from[k] = cqueue[cat] PROVE k <= edge
  <2>1. k \notin LeftInRun /\ k \in Edges /\ k \in Nat BY <1>2, <1>4
  <2> QED BY <1>4, <1>5, <2>1 DEF LeftInRun
<1>6. Counted' \ Relaxed' = Counted \ Relaxed
  <2>1. RunDone(Counted, topo.from, cqueue, cat, edge) BY <1>3, <1>4, <1>5 DEF RunDone
  <2>2. Seen(Counted, topo.from, cqueue, cat + 1, 0) = Relaxed
    BY <2>1, SeenDequeue DEF Relaxed
  <2>3. Relaxed' = Seen(Counted, topo.from, cqueue, cat + 1, 0)
    BY <1>2, SameTopology DEF Relaxed
  <2> QED BY <2>2, <2>3, SameTopology
<1>7. edge' \in Nat BY <1>2
<1>8. /\ inDegree' \in [Neurons -> Int]
      /\ Kahn(Counted, topo.from, topo.to, NonInput, cqueue', inDegree', Counted \ Relaxed)
  BY <1>1, <1>2, Zenon DEF CycleWalk
<1>9. cat' \in 0 .. Len(cqueue') BY <1>2, <1>3
<1> QED BY <1>1, <1>6, <1>7, <1>8, <1>9, CycleWalkNext, Zenon

LEMMA CycleLooks ==
  ASSUME CycleInv, LookAtEdge, UNCHANGED topo
  PROVE  CycleWalk'
<1>1. TopoOK /\ CycleWalk /\ UNCHANGED cat BY DEF CycleInv, LookAtEdge
<1>2. PICK k \in LeftInRun : /\ \A j \in LeftInRun : k <= j
                             /\ edge' = k
                             /\ SkipEdge(k) \/ RelaxEdge(k)
  BY DEF LookAtEdge
<1>3. /\ cat # 0 /\ cat \in Nat /\ cat \in 1 .. Len(cqueue) /\ Len(cqueue) \in Nat
      /\ k \in Edges /\ k \in Nat /\ edge \in Nat /\ k > edge /\ topo.from[k] = cqueue[cat]
  BY <1>1, <1>2, BufferTypes, LenProperties DEF LeftInRun, CycleWalk, Kahn
<1>4. Counted \subseteq Edges /\ Counted \subseteq Nat BY <1>1, CountedEdges DEF CycleWalk
<1>5. /\ topo.from[k] \in NonInput /\ cqueue \in Seq(NonInput) /\ Distinct(cqueue)
      /\ Holds(cqueue, topo.from[k])
  <2>1. cqueue \in Seq(NonInput) /\ Distinct(cqueue) BY <1>1 DEF CycleWalk, Kahn
  <2> QED BY <1>3, <2>1, ElementOfSeq DEF Holds
<1>6. \A e \in Counted : topo.from[e] = cqueue[cat] /\ e > edge => k <= e
  BY <1>2, <1>3, <1>4 DEF LeftInRun
<1>7. ASSUME NEW r, \A i \in 1 .. cat : r[i] = cqueue[i], r = cqueue'
      PROVE  k \notin Relaxed /\ Relaxed' = Relaxed \cup (Counted \cap {k})
  <2>1. RunNext(Counted, topo.from, cqueue, cat, edge, k)
    BY <1>3, <1>4, <1>5, <1>6 DEF RunNext
  <2>2. /\ k \notin Relaxed
        /\ Seen(Counted, topo.from, r, cat, k) = Relaxed \cup (Counted \cap {k})
    BY <1>7, <2>1, SeenLook DEF Relaxed
  <2>3. Relaxed' = Seen(Counted, topo.from, r, cat, k)
    BY <1>1, <1>2, <1>7, SameTopology DEF Relaxed
  <2> QED BY <2>2, <2>3
<1>8. edge' \in Nat BY <1>2, <1>3
<1>9. CASE SkipEdge(k)
  <2>1. k \notin Counted /\ UNCHANGED <<inDegree, cqueue>> BY <1>9 DEF SkipEdge, Counted
  <2>2. Counted' \ Relaxed' = Counted \ Relaxed
    <3>1. Relaxed' = Relaxed \cup (Counted \cap {k}) BY <1>7, <2>1
    <3> QED BY <2>1, <3>1, SameTopology
  <2>3. /\ inDegree' \in [Neurons -> Int]
        /\ Kahn(Counted, topo.from, topo.to, NonInput, cqueue', inDegree', Counted \ Relaxed)
    BY <1>1, <2>1, Zenon DEF CycleWalk
  <2>4. cat' \in 0 .. Len(cqueue') BY <1>1, <1>3, <2>1
  <2> QED BY <1>1, <1>8, <2>2, <2>3, <2>4, CycleWalkNext, Zenon
<1>10. CASE RelaxEdge(k)
  <2>1. k \in Counted
    <3>1. topo.from[k] >= topo.inputs BY <1>1, <1>5, BufferTypes DEF NonInput, CycleWalk
    <3>2. topo.from[k] # topo.to[k] BY <1>1, <1>3, <3>1 DEF CycleWalk, SelfLoops
    <3> QED BY <1>3, <1>10, <3>1, <3>2 DEF Counted, RelaxEdge
  <2> DEFINE a == topo.from
             b == topo.to
             left == Counted \ Relaxed
             r == IF inDegree[b[k]] = 1 THEN Append(cqueue, b[k]) ELSE cqueue
             d == [inDegree EXCEPT ![b[k]] = @ - 1]
  <2>2. inDegree' = d /\ cqueue' = r /\ b[k] \in NonInput BY <1>10 DEF RelaxEdge
  <2>3. /\ \A i \in 1 .. cat : r[i] = cqueue[i]
        /\ Len(r) \in Nat /\ cat \in 0 .. Len(r)
    <3>1. /\ Len(Append(cqueue, b[k])) = Len(cqueue) + 1
          /\ \A i \in 1 .. Len(cqueue) : Append(cqueue, b[k])[i] = cqueue[i]
      BY <1>5, <2>2, AppendProperties
    <3> QED BY <1>3, <3>1
  <2>4. k \notin Relaxed /\ Relaxed' = Relaxed \cup (Counted \cap {k})
    <3> HIDE DEF r
    <3> QED BY <1>7, <2>2, <2>3
  <2>5. NonInput \subseteq Neurons BY <1>1, BufferTypes DEF CycleWalk
  <2>6. Kahn(Counted, a, b, NonInput, r, d, left \ {k})
    <3>1. Kahn(Counted, a, b, NonInput, cqueue, inDegree, left) BY <1>1 DEF CycleWalk
    <3>2. inDegree \in [Neurons -> Int] /\ Holds(cqueue, a[k]) /\ k \in left
      BY <1>1, <1>5, <2>1, <2>4 DEF CycleWalk
    <3> DEFINE N == NonInput
               M == Neurons
               E == Counted
    <3> HIDE DEF N, M, E, a, b, left
    <3> QED BY <2>2, <2>5, <3>1, <3>2, KahnRelax DEF N, M, E
  <2>7. Counted' \ Relaxed' = left \ {k} BY <2>4, SameTopology
  <2>8. d \in [Neurons -> Int]
    <3>1. inDegree \in [Neurons -> Int] BY <1>1 DEF CycleWalk
    <3> QED BY <2>2, <2>5, <3>1
  <2> HIDE DEF r, d
  <2>9. cat' \in 0 .. Len(r) BY <1>1, <2>3
  <2> QED BY <1>1, <1>8, <2>2, <2>6, <2>7, <2>8, <2>9, CycleWalkNext, Zenon
<1> QED BY <1>2, <1>9, <1>10

\* A neuron that feeds itself is a cycle of its own.
LEMMA SelfLoopVerdict ==
  ASSUME CycleInv, FindSelfLoop, UNCHANGED topo
  PROVE  VerdictIsTrue'
<1>1. TopoOK /\ ~Malformed /\ verdict' = 1 BY DEF CycleInv, FindSelfLoop, CycleReturns
<1>2. PICK k \in SelfLoops : TRUE BY DEF FindSelfLoop
<1>3. ASSUME NoStaleSource PROVE HasCycle
  <2> DEFINE S == {topo.from[k]}
  <2>1. k \in Edges /\ topo.to[k] = topo.from[k] /\ topo.from[k] >= topo.inputs
    BY <1>2 DEF SelfLoops
  <2>2. topo.from[k] < topo.n /\ topo.from[k] \in Nat /\ topo.n \in Nat /\ topo.inputs \in Nat
    BY <1>1, <1>3, <2>1, BufferTypes DEF NoStaleSource
  <2>3. S \in SUBSET NonInput BY <2>1, <2>2 DEF NonInput
  <2>4. IsLoop(S) BY <2>1 DEF IsLoop
  <2> QED BY <2>3, <2>4 DEF HasCycle
<1> QED BY <1>1, <1>3, SameTopology DEF VerdictIsTrue

\* Once every neuron has been dequeued there is no loop: the member of a loop that
\* was queued first is fed by one queued before it.
LEMMA AllQueuedNoLoop ==
  ASSUME TopoOK, CycleWalk, \A v \in NonInput : Holds(cqueue, v)
  PROVE  ~HasCycle
<1> SUFFICES ASSUME NEW S \in SUBSET NonInput, IsLoop(S) PROVE FALSE BY DEF HasCycle
<1> DEFINE T == {j \in 1 .. Len(cqueue) : cqueue[j] \in S}
<1>1. ~Malformed /\ SelfLoops = {} /\ Len(cqueue) \in Nat
  BY LenProperties DEF CycleWalk, Kahn
<1>2. T \subseteq Nat /\ T # {}
  <2>1. PICK v \in S : TRUE BY DEF IsLoop
  <2>2. v \in NonInput OBVIOUS
  <2>3. PICK j \in 1 .. Len(cqueue) : cqueue[j] = v BY <2>2 DEF Holds
  <2> QED BY <1>1, <2>1, <2>3
<1>3. PICK j \in T : \A i \in T : j <= i
  <2> HIDE DEF T
  <2> QED BY <1>2, LeastMember
<1>4. PICK k \in Edges : topo.to[k] = cqueue[j] /\ topo.from[k] \in S BY <1>3 DEF IsLoop
<1>5. k \in Counted
  <2>1. /\ topo.from[k] >= topo.inputs /\ topo.to[k] \in NonInput
        /\ topo.from[k] \in NonInput
    <3>1. topo.to[k] \in NonInput /\ topo.from[k] \in NonInput BY <1>3, <1>4
    <3>2. topo.inputs \in Nat /\ topo.n \in Nat BY <1>1, BufferTypes
    <3> QED BY <3>1, <3>2 DEF NonInput
  <2>2. topo.from[k] # topo.to[k] BY <1>1, <1>4, <2>1 DEF SelfLoops
  <2> QED BY <1>4, <2>1, <2>2 DEF Counted
<1>6. PICK i \in 1 .. j - 1 : cqueue[i] = topo.from[k]
  <2>1. j \in 1 .. Len(cqueue) BY <1>3
  <2>2. Kahn(Counted, topo.from, topo.to, NonInput, cqueue, inDegree, Counted \ Relaxed)
    BY DEF CycleWalk
  <2> QED BY <1>4, <1>5, <2>1, <2>2, KahnOrder
<1>7. j \in Nat /\ i \in Nat /\ i < j /\ i \in 1 .. Len(cqueue) BY <1>1, <1>2, <1>3
<1>8. i \in T BY <1>4, <1>6, <1>7
<1> QED BY <1>3, <1>7, <1>8

\* Otherwise those that have not are a loop: each is still fed by one of them.
LEMMA RestIsLoop ==
  ASSUME TopoOK, CycleWalk, LeftInRun = {}, cat = Len(cqueue), NoStaleSource,
         NEW v \in NonInput, ~Holds(cqueue, v)
  PROVE  HasCycle
<1> DEFINE S == {w \in NonInput : ~Holds(cqueue, w)}
<1>1. /\ ~Malformed /\ Len(cqueue) \in Nat /\ edge \in Nat
      /\ \A w \in NonInput : Holds(cqueue, w) <=> Onto(Counted \ Relaxed, topo.to, w) = {}
  BY LenProperties DEF CycleWalk, Kahn
<1>2. ASSUME NEW w \in S PROVE \E k \in Edges : topo.to[k] = w /\ topo.from[k] \in S
  <2>1. PICK k \in Counted \ Relaxed : topo.to[k] = w BY <1>1 DEF Onto
  <2>2. k \in Edges /\ k \in Nat /\ topo.from[k] \in Nat /\ topo.from[k] >= topo.inputs
    BY <1>1, <2>1, CountedEdges
  <2>3. topo.from[k] \in NonInput
    BY <1>1, <2>2, BufferTypes DEF NonInput, NoStaleSource
  <2>4. ~Holds(cqueue, topo.from[k])
    <3> SUFFICES ASSUME NEW i \in 1 .. Len(cqueue), cqueue[i] = topo.from[k] PROVE FALSE
      BY DEF Holds
    <3>1. CASE i < cat BY <2>1, <3>1 DEF Relaxed, Seen
    <3>2. CASE i = cat
      <4>1. cat # 0 /\ k \notin LeftInRun BY <1>1, <3>2
      <4>2. k <= edge BY <1>1, <2>2, <3>2, <4>1 DEF LeftInRun
      <4> QED BY <2>1, <4>2 DEF Relaxed, Seen
    <3> QED BY <1>1, <3>1, <3>2
  <2> QED BY <2>1, <2>2, <2>3, <2>4
<1>3. v \in S OBVIOUS
<1>4. IsLoop(S) BY <1>2, <1>3 DEF IsLoop
<1> QED BY <1>4 DEF HasCycle

LEMMA CycleVerdict ==
  ASSUME CycleInv, FinishCycles, UNCHANGED topo
  PROVE  VerdictIsTrue'
<1>1. /\ TopoOK /\ CycleWalk /\ LeftInRun = {} /\ cat = Len(cqueue)
      /\ verdict' = IF cat < topo.n - topo.inputs THEN 1 ELSE 0
  BY DEF CycleInv, FinishCycles, CycleReturns
<1> DEFINE R == {cqueue[i] : i \in 1 .. Len(cqueue)}
<1>2. /\ cqueue \in Seq(NonInput) /\ Distinct(cqueue) /\ ~Malformed
      /\ topo.n \in Nat /\ topo.inputs \in Nat
  BY <1>1, BufferTypes DEF CycleWalk, Kahn
<1>3. IsFiniteSet(R) /\ Cardinality(R) = Len(cqueue) /\ Len(cqueue) \in Nat
  BY <1>2, DistinctLength, LenProperties
<1>4. /\ R \in SUBSET NonInput /\ IsFiniteSet(NonInput)
      /\ Cardinality(NonInput) = topo.n - topo.inputs
  BY <1>1, <1>2, BufferTypes, ElementOfSeq
<1>5. Len(cqueue) <= topo.n - topo.inputs /\ (Len(cqueue) = topo.n - topo.inputs => NonInput = R)
  <2> HIDE DEF R
  <2> QED BY <1>3, <1>4, FS_Subset
<1>6. CASE cat < topo.n - topo.inputs
  <2>1. PICK v \in NonInput : v \notin R
    <3>1. R # NonInput
      <4> HIDE DEF R
      <4> QED BY <1>1, <1>3, <1>4, <1>6
    <3> QED BY <1>4, <3>1
  <2>2. ~Holds(cqueue, v) BY <2>1 DEF Holds
  <2>3. NoStaleSource => HasCycle BY <1>1, <2>2, RestIsLoop
  <2> QED BY <1>1, <1>6, <2>3, SameTopology DEF VerdictIsTrue
<1>7. CASE ~(cat < topo.n - topo.inputs)
  <2>1. NonInput = R BY <1>1, <1>2, <1>3, <1>5, <1>7
  <2>2. \A v \in NonInput : Holds(cqueue, v) BY <2>1 DEF Holds
  <2>3. ~HasCycle BY <1>1, <2>2, AllQueuedNoLoop
  <2> QED BY <1>1, <1>7, <2>3, SameTopology DEF VerdictIsTrue
<1> QED BY <1>6, <1>7

LEMMA CycleInduction ==
  ASSUME CycleInv, UNCHANGED topo, CycleNext \/ UNCHANGED cvars
  PROVE  CycleInv'
<1>1. TopoOK' BY SameTopology DEF CycleInv
<1>2. CASE RefuseBuffers
  <2>1. Malformed' /\ cpc' = "done" BY <1>2, SameTopology DEF RefuseBuffers, CycleReturns
  <2> QED BY <1>1, <2>1 DEF CycleInv, VerdictIsTrue
<1>3. CASE FindSelfLoop
  <2>1. cpc' = "done" /\ VerdictIsTrue' BY <1>3, SelfLoopVerdict DEF FindSelfLoop, CycleReturns
  <2> QED BY <1>1, <2>1 DEF CycleInv
<1>4. CASE StartCycles
  <2>1. cpc' = "walk" /\ CycleWalk' BY <1>4, CycleBegins DEF StartCycles
  <2> QED BY <1>1, <2>1 DEF CycleInv, VerdictIsTrue
<1>5. CASE Dequeue
  <2>1. cpc' = "walk" /\ CycleWalk' BY <1>5, CycleDequeues DEF Dequeue
  <2> QED BY <1>1, <2>1 DEF CycleInv, VerdictIsTrue
<1>6. CASE LookAtEdge
  <2>1. cpc' = "walk" /\ CycleWalk' BY <1>6, CycleLooks DEF LookAtEdge
  <2> QED BY <1>1, <2>1 DEF CycleInv, VerdictIsTrue
<1>7. CASE FinishCycles
  <2>1. cpc' = "done" /\ VerdictIsTrue' BY <1>7, CycleVerdict DEF FinishCycles, CycleReturns
  <2> QED BY <1>1, <2>1 DEF CycleInv
<1>8. CASE UNCHANGED cvars
  <2>1. Relaxed' = Relaxed BY <1>8, SameTopology DEF Relaxed, cvars
  <2>2. UNCHANGED <<topo, cpc, inDegree, cqueue, cat, edge, verdict>> BY <1>8 DEF cvars
  <2>3. CycleWalk' = CycleWalk BY <2>1, <2>2, SameTopology DEF CycleWalk
  <2>4. VerdictIsTrue' = VerdictIsTrue BY <2>2, SameTopology DEF VerdictIsTrue
  <2> QED BY <1>1, <2>2, <2>3, <2>4 DEF CycleInv
<1> QED BY <1>2, <1>3, <1>4, <1>5, <1>6, <1>7, <1>8 DEF CycleNext

-----------------------------------------------------------------------------
(* compute_reverse_topological_order.                                       *)

\* The kept edges that hold their source back: those of the non-input neurons.
Holding == {k \in Kept : topo.from[k] >= topo.inputs}
Looked == Seen(Holding, topo.to, oqueue, oat, inEdge)

OrderWalk ==
  /\ ~Malformed
  /\ outDegree \in [Neurons -> Int]
  /\ oat \in 0 .. Len(oqueue) /\ inEdge \in Nat
  /\ Kahn(Holding, topo.to, topo.from, NonInput, oqueue, outDegree, Holding \ Looked)
  /\ result \in Seq(NonInput) /\ Len(result) = oat
  /\ \A i \in 1 .. oat : result[i] = oqueue[i]

OrderInv ==
  /\ TopoOK
  /\ opc = "start" => oat = 0 /\ inEdge = 0 /\ result = <<>> /\ walked = 0
  /\ opc = "walk" => OrderWalk
  /\ OrderIsBackward

LEMMA HoldingEdges ==
  ASSUME TopoOK, ~Malformed
  PROVE  /\ IsFiniteSet(Holding) /\ Holding \subseteq Nat /\ 0 \notin Holding
         /\ \A k \in Kept : /\ k \in Edges /\ k \in Nat
                            /\ topo.from[k] \in Nat /\ topo.to[k] \in Nat
                            /\ k \in Holding <=> topo.from[k] \in NonInput
<1>1. Holding \in SUBSET Edges /\ Kept \subseteq Edges BY DEF Holding, Kept
<1>2. IsFiniteSet(Holding) BY <1>1, BufferTypes, FS_Subset
<1>3. Edges \subseteq Nat /\ 0 \notin Edges BY BufferTypes DEF Edges
<1>4. \A k \in Kept : topo.from[k] \in Nat /\ topo.to[k] \in Nat BY <1>1, BufferTypes
<1>5. \A k \in Kept : k \in Holding <=> topo.from[k] \in NonInput
  BY <1>4, BufferTypes DEF Holding, Kept, NonInput
<1> QED BY <1>1, <1>2, <1>3, <1>4, <1>5

LEMMA SameOrder ==
  ASSUME UNCHANGED topo
  PROVE  /\ topo' = topo /\ TopoOK' = TopoOK /\ Malformed' = Malformed /\ Neurons' = Neurons
         /\ NonInput' = NonInput /\ Holding' = Holding /\ Kept' = Kept
  BY SameTopology DEF Holding

\* What comes off the queue in its order is behind all it feeds.
LEMMA WalkIsBackward ==
  ASSUME TopoOK, ~Malformed, NEW q, NEW deg, NEW left, NEW head, NEW res,
         Kahn(Holding, topo.to, topo.from, NonInput, q, deg, left),
         head \in 0 .. Len(q), Len(res) = head, \A i \in 1 .. head : res[i] = q[i]
  PROVE  /\ InRange(res, 1, Len(res)) = {q[i] : i \in 1 .. head}
         /\ \A i \in 1 .. Len(res) : \A k \in Kept :
              topo.from[k] = res[i] => \E j \in 1 .. i - 1 : res[j] = topo.to[k]
<1>1. q \in Seq(NonInput) /\ Len(q) \in Nat /\ head \in Nat /\ head <= Len(q)
  BY LenProperties DEF Kahn
<1>2. InRange(res, 1, Len(res)) = {q[i] : i \in 1 .. head} BY <1>1 DEF InRange
<1>3. ASSUME NEW i \in 1 .. Len(res), NEW k \in Kept, topo.from[k] = res[i]
      PROVE  \E j \in 1 .. i - 1 : res[j] = topo.to[k]
  <2>1. i \in 1 .. Len(q) /\ q[i] = topo.from[k] /\ i \in 1 .. head BY <1>1, <1>3
  <2>2. topo.from[k] \in NonInput BY <1>1, <2>1, ElementOfSeq
  <2>3. k \in Holding BY <2>2, HoldingEdges
  <2>4. PICK j \in 1 .. i - 1 : q[j] = topo.to[k] BY <2>1, <2>3, KahnOrder
  <2>5. j \in 1 .. head BY <1>1, <2>1
  <2> QED BY <2>4, <2>5
<1> QED BY <1>2, <1>3

LEMMA WalkVisits ==
  ASSUME TopoOK, OrderWalk
  PROVE  /\ Visited = {oqueue[i] : i \in 1 .. oat}
         /\ \A i \in 1 .. Len(result) : \A k \in Kept :
              topo.from[k] = result[i] => \E j \in 1 .. i - 1 : result[j] = topo.to[k]
  BY WalkIsBackward DEF OrderWalk, Visited

\* What a step of the walk has to show.
LEMMA OrderWalkNext ==
  ASSUME UNCHANGED topo, OrderWalk, NEW q, NEW deg, NEW left,
         oqueue' = q, outDegree' = deg, Holding' \ Looked' = left,
         deg \in [Neurons -> Int], oat' \in 0 .. Len(q), inEdge' \in Nat,
         Kahn(Holding, topo.to, topo.from, NonInput, q, deg, left),
         result' \in Seq(NonInput), Len(result') = oat',
         \A i \in 1 .. oat' : result'[i] = q[i]
  PROVE  OrderWalk'
<1>1. /\ Malformed' = Malformed /\ Neurons' = Neurons
      /\ NonInput' = NonInput /\ Holding' = Holding /\ topo' = topo
  BY SameOrder
<1>2. Kahn(Holding', topo'.to, topo'.from, NonInput', oqueue', outDegree', Holding' \ Looked')
  BY <1>1, Zenon
<1>3. \A i \in 1 .. oat' : result'[i] = oqueue'[i] OBVIOUS
<1> QED BY <1>1, <1>2, <1>3, Zenon DEF OrderWalk

LEMMA OrderBegins ==
  ASSUME OrderInv, StartOrder, UNCHANGED topo
  PROVE  OrderWalk'
<1>1. /\ TopoOK /\ ~Malformed /\ oat = 0 /\ inEdge = 0 /\ result = <<>>
      /\ UNCHANGED <<oat, inEdge, result>>
      /\ outDegree' = OutDegrees /\ oqueue' = Sinks(OutDegrees)
  BY DEF OrderInv, StartOrder
<1> DEFINE Zero == {v \in NonInput : OutDegrees[v] = 0}
<1>2. NonInput \subseteq Neurons /\ NonInput \subseteq Nat /\ topo.inputs \in Nat
  BY <1>1, BufferTypes
<1>3. ASSUME NEW v \in NonInput
      PROVE  OutDegrees[v] = Cardinality(Onto(Holding, topo.from, v))
  <2>1. v \in Neurons /\ ~(v < topo.inputs) BY <1>1, <1>2, BufferTypes DEF NonInput
  <2>2. OutDegrees[v] = Cardinality({k \in Kept : topo.from[k] = v})
    BY <2>1 DEF OutDegrees
  <2>3. {k \in Kept : topo.from[k] = v} = Onto(Holding, topo.from, v)
    BY <1>1, HoldingEdges DEF Onto, Holding
  <2> QED BY <2>2, <2>3
<1>4. OutDegrees \in [Neurons -> Int]
  <2>1. ASSUME NEW v \in Neurons PROVE Cardinality({k \in Kept : topo.from[k] = v}) \in Int
    <3>1. IsFiniteSet(Kept)
      <4>1. Kept \in SUBSET Edges BY DEF Kept
      <4> QED BY <1>1, <4>1, BufferTypes, FS_Subset
    <3>2. Cardinality(Onto(Kept, topo.from, v)) \in Nat BY <3>1, OntoCardinality
    <3> QED BY <3>2 DEF Onto
  <2> QED BY <2>1 DEF OutDegrees
<1>5. oqueue' \in Seq(Zero) /\ Distinct(oqueue') /\ \A v \in Zero : Holds(oqueue', v)
  BY <1>1, <1>2, OrderedLists DEF Sinks
<1>6. Kahn(Holding, topo.to, topo.from, NonInput, oqueue', OutDegrees, Holding)
  <2> DEFINE a == topo.to
             b == topo.from
             q == oqueue'
             E == Holding
             N == NonInput
             deg == OutDegrees
  <2>1. /\ IsFiniteSet(E) /\ \A v \in N : deg[v] = Cardinality(Onto(E, b, v))
    BY <1>1, <1>3, HoldingEdges
  <2>2. /\ q \in Seq({v \in N : deg[v] = 0}) /\ Distinct(q)
        /\ \A v \in {w \in N : deg[w] = 0} : Holds(q, v)
    BY <1>5
  <2> HIDE DEF a, b, q, E, N, deg
  <2>3. Kahn(E, a, b, N, q, deg, E) BY <2>1, <2>2, KahnStart
  <2> QED BY <2>3 DEF a, b, q, E, N, deg
<1>7. Looked' = {} BY <1>1 DEF Looked, Seen
<1>8. Len(oqueue') \in Nat BY <1>5, LenProperties
<1>9. result' \in Seq(NonInput) /\ Len(result') = oat' /\ oat' \in 0 .. Len(oqueue')
  BY <1>1, <1>8
<1> QED BY <1>1, <1>4, <1>6, <1>7, <1>9, SameOrder DEF OrderWalk

LEMMA OrderExpands ==
  ASSUME OrderInv, Expand, UNCHANGED topo
  PROVE  OrderWalk'
<1>1. TopoOK /\ OrderWalk BY DEF OrderInv, Expand
<1>2. /\ LeftInward = {} /\ oat < Len(oqueue) /\ oat' = oat + 1
      /\ UNCHANGED <<outDegree, oqueue>>
  BY DEF Expand
<1>3. /\ oat \in Nat /\ Len(oqueue) \in Nat /\ oat' \in 0 .. Len(oqueue) /\ inEdge \in Nat
      /\ oqueue \in Seq(NonInput) /\ Distinct(oqueue) /\ ~Malformed
      /\ result \in Seq(NonInput) /\ Len(result) = oat
      /\ \A i \in 1 .. oat : result[i] = oqueue[i]
  BY <1>1, <1>2, LenProperties DEF OrderWalk, Kahn
<1> DEFINE v == oqueue[oat + 1]
<1>4. oat + 1 \in 1 .. Len(oqueue) /\ v \in NonInput BY <1>2, <1>3, ElementOfSeq
<1>5. v \notin Visited
  <2> SUFFICES ASSUME NEW i \in 1 .. oat, oqueue[i] = v PROVE FALSE
    BY <1>1, WalkVisits
  <2>1. i \in 1 .. Len(oqueue) /\ i # oat + 1 BY <1>2, <1>3
  <2> QED BY <1>3, <1>4, <2>1 DEF Distinct
<1>6. inEdge' = 0 /\ result' = Append(result, v) BY <1>5 DEF Expand
<1>7. /\ result' \in Seq(NonInput) /\ Len(result') = oat' /\ result'[oat + 1] = v
      /\ \A i \in 1 .. oat : result'[i] = result[i]
  BY <1>2, <1>3, <1>4, <1>6, AppendProperties
<1>8. \A i \in 1 .. oat' : result'[i] = oqueue[i]
  <2> TAKE i \in 1 .. oat'
  <2>1. i \in 1 .. oat \/ i = oat + 1 BY <1>2, <1>3
  <2> QED BY <1>3, <1>7, <2>1
<1>9. Holding' \ Looked' = Holding \ Looked
  <2>1. RunDone(Holding, topo.to, oqueue, oat, inEdge)
    <3>1. ASSUME oat # 0, NEW k \in Holding, topo.to[k] = oqueue[oat] PROVE k <= inEdge
      <4>1. k \notin LeftInward /\ k \in Kept /\ k \in Nat
        BY <1>1, <1>2, <1>3, HoldingEdges DEF Holding
      <4> QED BY <1>3, <3>1, <4>1 DEF LeftInward
    <3> QED BY <1>1, <1>3, <3>1, HoldingEdges DEF RunDone
  <2>2. Seen(Holding, topo.to, oqueue, oat + 1, 0) = Looked BY <2>1, SeenDequeue DEF Looked
  <2>3. Looked' = Seen(Holding, topo.to, oqueue, oat + 1, 0)
    BY <1>2, <1>6, SameOrder DEF Looked
  <2> QED BY <2>2, <2>3, SameOrder
<1>10. /\ outDegree \in [Neurons -> Int]
       /\ Kahn(Holding, topo.to, topo.from, NonInput, oqueue, outDegree, Holding \ Looked)
  BY <1>1 DEF OrderWalk
<1>11. inEdge' \in Nat BY <1>6
<1> QED BY <1>1, <1>2, <1>3, <1>7, <1>8, <1>9, <1>10, <1>11, OrderWalkNext, Zenon

\* A source passed over is an input: one that was emitted has nothing left to wait for.
LEMMA OrderLooks ==
  ASSUME OrderInv, LookInward, UNCHANGED topo
  PROVE  OrderWalk'
<1>1. TopoOK /\ OrderWalk /\ UNCHANGED <<oat, result>> BY DEF OrderInv, LookInward
<1>2. PICK k \in LeftInward : /\ \A j \in LeftInward : k <= j
                              /\ inEdge' = k
                              /\ PassOver(k) \/ Release(k)
  BY DEF LookInward
<1>3. ~Malformed /\ oqueue \in Seq(NonInput) /\ Distinct(oqueue) /\ Len(oqueue) \in Nat
  BY <1>1, LenProperties DEF OrderWalk, Kahn
<1>4. /\ oat # 0 /\ oat \in Nat /\ oat \in 1 .. Len(oqueue)
      /\ k \in Kept /\ k \in Nat /\ inEdge \in Nat /\ k > inEdge /\ topo.to[k] = oqueue[oat]
      /\ k \in Holding <=> topo.from[k] \in NonInput
  BY <1>1, <1>2, <1>3, HoldingEdges DEF LeftInward, OrderWalk
<1>5. /\ Holding \subseteq Kept /\ Holding \subseteq Nat
      /\ \A e \in Holding : topo.to[e] = oqueue[oat] /\ e > inEdge => k <= e
  <2>1. Holding \subseteq Kept /\ Holding \subseteq Nat BY <1>1, <1>3, HoldingEdges DEF Holding
  <2> QED BY <1>2, <1>4, <2>1 DEF LeftInward
<1>6. ASSUME NEW r, \A i \in 1 .. oat : r[i] = oqueue[i], r = oqueue'
      PROVE  k \notin Looked /\ Looked' = Looked \cup (Holding \cap {k})
  <2>1. RunNext(Holding, topo.to, oqueue, oat, inEdge, k)
    BY <1>3, <1>4, <1>5 DEF RunNext
  <2>2. /\ k \notin Looked
        /\ Seen(Holding, topo.to, r, oat, k) = Looked \cup (Holding \cap {k})
    BY <1>6, <2>1, SeenLook DEF Looked
  <2>3. Looked' = Seen(Holding, topo.to, r, oat, k)
    BY <1>1, <1>2, <1>6, SameOrder DEF Looked
  <2> QED BY <2>2, <2>3
<1>7. inEdge' \in Nat BY <1>2, <1>4
<1>8. /\ outDegree \in [Neurons -> Int]
      /\ Kahn(Holding, topo.to, topo.from, NonInput, oqueue, outDegree, Holding \ Looked)
      /\ result' \in Seq(NonInput) /\ Len(result') = oat'
      /\ \A i \in 1 .. oat' : result'[i] = oqueue[i]
  BY <1>1 DEF OrderWalk
<1>9. CASE PassOver(k)
  <2>1. UNCHANGED <<outDegree, oqueue>> BY <1>9 DEF PassOver
  <2>2. k \notin Looked /\ Looked' = Looked \cup (Holding \cap {k}) BY <1>6, <2>1
  <2>3. k \notin Holding
    <3> SUFFICES ASSUME k \in Holding PROVE FALSE OBVIOUS
    <3>1. topo.from[k] \in Visited
      BY <1>1, <1>3, <1>4, <1>9, BufferTypes DEF PassOver, NonInput
    <3>2. PICK i \in 1 .. oat : oqueue[i] = topo.from[k] BY <1>1, <3>1, WalkVisits
    <3>3. i \in 1 .. Len(oqueue) BY <1>4
    <3>4. Holds(oqueue, topo.from[k]) BY <3>2, <3>3 DEF Holds
    <3>5. Onto(Holding \ Looked, topo.from, topo.from[k]) = {} BY <1>4, <1>8, <3>4 DEF Kahn
    <3> QED BY <2>2, <3>5 DEF Onto
  <2>4. Holding' \ Looked' = Holding \ Looked BY <2>2, <2>3, SameOrder
  <2>5. oat' \in 0 .. Len(oqueue) BY <1>1, <1>4
  <2> QED BY <1>1, <1>7, <1>8, <2>1, <2>4, <2>5, OrderWalkNext, Zenon
<1>10. CASE Release(k)
  <2> DEFINE a == topo.to
             b == topo.from
             left == Holding \ Looked
             r == IF outDegree[b[k]] <= 1 THEN Append(oqueue, b[k]) ELSE oqueue
             x == IF outDegree[b[k]] = 1 THEN Append(oqueue, b[k]) ELSE oqueue
             d == [outDegree EXCEPT ![b[k]] = @ - 1]
  <2>1. outDegree' = d /\ oqueue' = r /\ b[k] \in NonInput /\ k \in Holding
    <3>1. outDegree' = d /\ oqueue' = r BY <1>10 DEF Release
    <3>2. k \in Holding BY <1>4, <1>10 DEF Release, Holding
    <3> QED BY <1>4, <3>1, <3>2
  <2>2. /\ \A i \in 1 .. oat : r[i] = oqueue[i]
        /\ Len(r) \in Nat /\ oat \in 0 .. Len(r)
    <3>1. /\ Len(Append(oqueue, b[k])) = Len(oqueue) + 1
          /\ \A i \in 1 .. Len(oqueue) : Append(oqueue, b[k])[i] = oqueue[i]
      BY <1>3, <2>1, AppendProperties
    <3> QED BY <1>3, <1>4, <3>1
  <2>3. k \notin Looked /\ Looked' = Looked \cup (Holding \cap {k})
    <3> HIDE DEF r
    <3> QED BY <1>6, <2>1, <2>2
  <2>4. NonInput \subseteq Neurons BY <1>1, <1>3, BufferTypes
  <2>5. k \in left /\ Holds(oqueue, a[k]) BY <1>4, <2>1, <2>3 DEF Holds
  <2>6. outDegree[b[k]] >= 1 /\ Kahn(Holding, a, b, NonInput, x, d, left \ {k})
    <3> DEFINE N == NonInput
               M == Neurons
               E == Holding
    <3>1. outDegree \in [M -> Int] /\ Kahn(E, a, b, N, oqueue, outDegree, left)
          /\ N \subseteq M /\ k \in left /\ b[k] \in N /\ Holds(oqueue, a[k])
      BY <1>8, <2>1, <2>4, <2>5
    <3> HIDE DEF N, M, E, a, b, left
    <3> QED BY <3>1, KahnRelax DEF N, M, E
  <2>7. outDegree[b[k]] \in Int BY <1>8, <2>1, <2>4
  <2>8. Kahn(Holding, a, b, NonInput, r, d, left \ {k})
    <3>1. r = x BY <2>6, <2>7
    <3> HIDE DEF r, x, d
    <3> QED BY <2>6, <3>1
  <2>9. Holding' \ Looked' = left \ {k} BY <2>1, <2>3, SameOrder
  <2>10. d \in [Neurons -> Int] BY <1>8, <2>1, <2>4
  <2> HIDE DEF r, d
  <2>11. \A i \in 1 .. oat' : result'[i] = r[i] BY <1>1, <1>8, <2>2
  <2>12. oat' \in 0 .. Len(r) BY <1>1, <2>2
  <2> QED BY <1>1, <1>7, <1>8, <2>1, <2>8, <2>9, <2>10, <2>11, <2>12, OrderWalkNext, Zenon
<1> QED BY <1>2, <1>9, <1>10

\* The leftovers complete the order, and each still waits for what the walk missed.
LEMMA OrderEnds ==
  ASSUME OrderInv, FinishOrder, UNCHANGED topo
  PROVE  OrderIsBackward'
<1> DEFINE Rest == NonInput \ Visited
           o == Ordered(Rest)
<1>1. /\ TopoOK /\ OrderWalk /\ LeftInward = {} /\ oat = Len(oqueue)
      /\ result' = result \o o /\ walked' = Len(result) /\ opc' = "done"
  BY DEF OrderInv, FinishOrder
<1>2. /\ ~Malformed /\ Len(result) = oat /\ result \in Seq(NonInput)
      /\ oqueue \in Seq(NonInput) /\ Distinct(oqueue) /\ Len(oqueue) \in Nat /\ inEdge \in Nat
      /\ \A i \in 1 .. oat : result[i] = oqueue[i]
  BY <1>1, LenProperties DEF OrderWalk, Kahn
<1>3. /\ NonInput \subseteq Neurons /\ IsFiniteSet(NonInput)
      /\ Cardinality(NonInput) = topo.n - topo.inputs
      /\ topo.n \in Nat /\ topo.inputs \in Nat
  BY <1>1, <1>2, BufferTypes
<1>4. /\ o \in Seq(Rest) /\ Distinct(o) /\ \A v \in Rest : Holds(o, v)
  BY <1>1, <1>3, OrderedLists
<1>5. /\ Len(o) \in Nat /\ \A i \in 1 .. Len(o) : o[i] \in Rest
      /\ Rest = {o[i] : i \in 1 .. Len(o)}
  <2>1. Len(o) \in Nat /\ \A i \in 1 .. Len(o) : o[i] \in Rest
    BY <1>4, LenProperties, ElementOfSeq
  <2>2. \A v \in Rest : \E i \in 1 .. Len(o) : o[i] = v BY <1>4 DEF Holds
  <2> HIDE DEF Rest, o
  <2> QED BY <2>1, <2>2
<1> DEFINE V == {oqueue[i] : i \in 1 .. Len(oqueue)}
<1>6. Visited = V /\ V \subseteq NonInput
  BY <1>1, <1>2, WalkVisits, ElementOfSeq
<1>7. /\ IsFiniteSet(V) /\ Cardinality(V) = Len(oqueue)
      /\ IsFiniteSet(Rest) /\ Cardinality(Rest) = Len(o)
  <2>1. IsFiniteSet(V) /\ Cardinality(V) = Len(oqueue) BY <1>2, DistinctLength
  <2>2. IsFiniteSet({o[i] : i \in 1 .. Len(o)}) /\ Cardinality({o[i] : i \in 1 .. Len(o)}) = Len(o)
    <3> HIDE DEF o, Rest
    <3> QED BY <1>4, DistinctLength
  <2> QED BY <1>5, <2>1, <2>2
<1>8. Len(oqueue) + Len(o) = topo.n - topo.inputs
  <2>1. NonInput \ V = Rest /\ NonInput \cap V = V BY <1>6
  <2>2. Cardinality(NonInput \ V) = Cardinality(NonInput) - Cardinality(NonInput \cap V)
    BY <1>3, FS_Difference
  <2>3. Cardinality(NonInput \ V) = Len(o) /\ Cardinality(NonInput \cap V) = Len(oqueue)
    <3> HIDE DEF V, Rest, o
    <3> QED BY <1>7, <2>1
  <2>4. Len(o) \in Nat BY <1>5
  <2> HIDE DEF V, Rest, o
  <2>5. Len(o) = (topo.n - topo.inputs) - Len(oqueue) BY <1>3, <2>2, <2>3
  <2>6. topo.n - topo.inputs \in Int /\ Len(oqueue) \in Nat BY <1>2, <1>3
  <2> QED BY <2>4, <2>5, <2>6
<1> HIDE DEF o, V
<1>9. /\ Len(result') = oat + Len(o) /\ oat \in Nat
      /\ \A i \in 1 .. oat : result'[i] = result[i]
      /\ \A i \in 1 .. Len(o) : result'[oat + i] = o[i]
  <2>1. o \in Seq(NonInput)
    <3>1. o \in [1 .. Len(o) -> NonInput] BY <1>4, LenProperties
    <3> QED BY <1>5, <3>1
  <2>2. oat \in Nat BY <1>1, <1>2
  <2>3. /\ Len(result \o o) = Len(result) + Len(o)
        /\ \A i \in 1 .. Len(result) + Len(o) :
             (result \o o)[i] = IF i <= Len(result) THEN result[i] ELSE o[i - Len(result)]
    BY <1>2, <2>1, ConcatProperties
  <2>4. \A i \in 1 .. Len(o) : oat + i \in 1 .. oat + Len(o) /\ ~(oat + i <= oat) /\ (oat + i) - oat = i
    BY <1>5, <2>2
  <2>5. \A i \in 1 .. oat : i \in 1 .. oat + Len(o) /\ i <= oat BY <1>5, <2>2
  <2> QED BY <1>1, <1>2, <1>5, <2>2, <2>3, <2>4, <2>5
<1>10. ConsumersFirst'
  <2>1. WalkEnd' = oat BY <1>1, <1>2 DEF WalkEnd
  <2>2. SUFFICES ASSUME NEW i \in 1 .. oat, NEW k \in Kept, topo.from[k] = result'[i]
                 PROVE  \E j \in 1 .. i - 1 : result'[j] = topo.to[k]
    BY <2>1, SameOrder, Zenon DEF ConsumersFirst
  <2>3. PICK j \in 1 .. i - 1 : result[j] = topo.to[k]
    BY <1>1, <1>2, <1>9, <2>2, WalkVisits
  <2>4. j \in 1 .. oat BY <1>9
  <2> QED BY <1>9, <2>3, <2>4
<1>11. Len(result') = topo.n - topo.inputs BY <1>1, <1>8, <1>9
<1>12. Visited' = NonInput
  <2>1. Visited' = {result'[i] : i \in 1 .. oat + Len(o)} BY <1>9 DEF Visited, InRange
  <2>2. \A i \in 1 .. oat + Len(o) : i \in 1 .. oat \/ (i - oat \in 1 .. Len(o) /\ oat + (i - oat) = i)
    BY <1>5, <1>9
  <2>3. \A i \in 1 .. oat : result'[i] \in V /\ i \in 1 .. oat + Len(o)
    BY <1>1, <1>2, <1>5, <1>9 DEF V
  <2>4. \A i \in 1 .. Len(o) : result'[oat + i] \in Rest /\ oat + i \in 1 .. oat + Len(o)
    BY <1>5, <1>9
  <2>5. ASSUME NEW i \in 1 .. oat + Len(o) PROVE result'[i] \in V \cup Rest
    <3>1. CASE i \in 1 .. oat BY <2>3, <3>1
    <3>2. CASE i - oat \in 1 .. Len(o) /\ oat + (i - oat) = i
      <4> DEFINE m == i - oat
      <4>1. m \in 1 .. Len(o) /\ oat + m = i BY <3>2
      <4> HIDE DEF m
      <4> QED BY <2>4, <4>1
    <3> QED BY <2>2, <3>1, <3>2
  <2>6. ASSUME NEW v \in V PROVE \E i \in 1 .. oat + Len(o) : result'[i] = v
    <3>1. PICK i \in 1 .. oat : oqueue[i] = v BY <1>1 DEF V
    <3>2. result'[i] = v BY <1>2, <1>9, <3>1
    <3> QED BY <2>3, <3>2
  <2>7. ASSUME NEW v \in Rest PROVE \E i \in 1 .. oat + Len(o) : result'[i] = v
    <3>1. PICK i \in 1 .. Len(o) : o[i] = v BY <1>5
    <3> QED BY <1>9, <2>4, <3>1
  <2>8. NonInput = V \cup Rest BY <1>6
  <2> HIDE DEF Rest
  <2> QED BY <2>1, <2>5, <2>6, <2>7, <2>8
<1>13. ASSUME NEW i \in oat + 1 .. oat + Len(o)
       PROVE  \E k \in Kept : topo.from[k] = result'[i] /\ topo.to[k] \notin V
  <2> DEFINE v == result'[i]
             m == i - oat
  <2>1. m \in 1 .. Len(o) /\ oat + m = i BY <1>5, <1>9
  <2> HIDE DEF m
  <2>2. v \in NonInput /\ v \notin V BY <1>5, <1>6, <1>9, <2>1
  <2> HIDE DEF v
  <2>3. ~Holds(oqueue, v) BY <2>2 DEF Holds, V
  <2>4. Onto(Holding \ Looked, topo.from, v) # {} BY <1>1, <2>2, <2>3 DEF OrderWalk, Kahn
  <2>5. PICK k \in Holding \ Looked : topo.from[k] = v BY <2>4 DEF Onto
  <2>6. k \in Kept /\ k \in Nat BY <1>1, <1>2, <2>5, HoldingEdges DEF Holding
  <2>7. topo.to[k] \notin V
    <3> SUFFICES ASSUME NEW j \in 1 .. Len(oqueue), oqueue[j] = topo.to[k] PROVE FALSE BY DEF V
    <3>1. j \in 1 .. oat /\ oat # 0 /\ oat \in Nat BY <1>1, <1>2
    <3>2. CASE j < oat BY <2>5, <3>1, <3>2 DEF Looked, Seen
    <3>3. CASE j = oat
      <4>1. k \notin LeftInward BY <1>1
      <4>2. k <= inEdge BY <1>2, <2>6, <3>1, <3>3, <4>1 DEF LeftInward
      <4> QED BY <2>5, <3>1, <4>2 DEF Looked, Seen
    <3> QED BY <3>1, <3>2, <3>3
  <2> QED BY <2>5, <2>6, <2>7 DEF v
<1>14. InRange(result', 1, walked') = V
  <2>1. walked' = oat BY <1>1, <1>2
  <2> QED BY <1>1, <1>2, <1>9, <2>1 DEF InRange, V
<1>15. Len(result') = oat + Len(o) /\ walked' = oat BY <1>1, <1>2, <1>9
<1>16. \A i \in walked' + 1 .. Len(result') :
         \E k \in Kept' :
           topo'.from[k] = result'[i] /\ topo'.to[k] \notin InRange(result', 1, walked')
  BY <1>13, <1>14, <1>15, SameOrder, Zenon
<1> QED BY <1>1, <1>10, <1>11, <1>12, <1>16, SameOrder DEF OrderIsBackward

LEMMA OrderInduction ==
  ASSUME OrderInv, UNCHANGED topo, OrderNext \/ UNCHANGED ovars
  PROVE  OrderInv'
<1>1. TopoOK' BY SameOrder DEF OrderInv
<1>2. ASSUME OrderWalk', opc' = "walk" PROVE OrderInv'
  <2>1. /\ WalkEnd' = Len(result')
        /\ \A i \in 1 .. Len(result') : \A k \in Kept' :
             topo'.from[k] = result'[i] => \E j \in 1 .. i - 1 : result'[j] = topo'.to[k]
    <3>1. TopoOK /\ ~Malformed BY <1>2, SameOrder DEF OrderInv, OrderWalk
    <3>2. /\ Kahn(Holding, topo.to, topo.from, NonInput, oqueue', outDegree', Holding' \ Looked')
          /\ oat' \in 0 .. Len(oqueue') /\ Len(result') = oat'
          /\ \A i \in 1 .. oat' : result'[i] = oqueue'[i]
      BY <1>2, SameOrder, Zenon DEF OrderWalk
    <3>3. \A i \in 1 .. Len(result') : \A k \in Kept :
            topo.from[k] = result'[i] => \E j \in 1 .. i - 1 : result'[j] = topo.to[k]
      BY <3>1, <3>2, WalkIsBackward
    <3> QED BY <1>2, <3>3, SameOrder DEF WalkEnd
  <2> QED BY <1>1, <1>2, <2>1 DEF OrderInv, OrderIsBackward, ConsumersFirst
<1>3. CASE RefuseToOrder
  <2>1. Malformed' /\ opc' = "done" /\ WalkEnd' = 0
    BY <1>3, SameOrder DEF RefuseToOrder, WalkEnd, OrderInv
  <2> QED BY <1>1, <2>1 DEF OrderInv, OrderIsBackward, ConsumersFirst
<1>4. CASE StartOrder BY <1>2, <1>4, OrderBegins DEF StartOrder
<1>5. CASE Expand
  <2>1. opc' = "walk" BY <1>5 DEF Expand
  <2> QED BY <1>2, <1>5, <2>1, OrderExpands
<1>6. CASE LookInward
  <2>1. opc' = "walk" BY <1>6 DEF LookInward
  <2> QED BY <1>2, <1>6, <2>1, OrderLooks
<1>7. CASE FinishOrder
  <2>1. opc' = "done" BY <1>7 DEF FinishOrder
  <2> QED BY <1>1, <1>7, <2>1, OrderEnds DEF OrderInv
<1>8. CASE UNCHANGED ovars
  <2>1. UNCHANGED <<topo, opc, outDegree, oqueue, oat, inEdge, result, walked>>
    BY <1>8 DEF ovars
  <2>2. Looked' = Looked BY <2>1, SameOrder DEF Looked
  <2>3. OrderWalk' = OrderWalk BY <2>1, <2>2, SameOrder DEF OrderWalk
  <2>4. OrderIsBackward' = OrderIsBackward
    BY <2>1, SameOrder DEF OrderIsBackward, ConsumersFirst, WalkEnd, Visited
  <2> QED BY <1>1, <2>1, <2>3, <2>4 DEF OrderInv
<1> QED BY <1>3, <1>4, <1>5, <1>6, <1>7, <1>8 DEF OrderNext

-----------------------------------------------------------------------------
(* topology_scan and its three gates.                                       *)

BatchOK ==
  /\ batch \in [from : Seq(Nat), to : Seq(Nat), role : Seq(Nat), typed : BOOLEAN,
                lengths : Seq(Nat)]
  /\ batch.typed => batch.lengths = <<Len(batch.from)>>

\* VerdictsAreLocal, of one topology.
Local(t, v) ==
  LET a == StartOf[t] + 1
      b == StartOf[t] + batch.lengths[t]
  IN IF Alone /\ LengthsDiffer THEN v.code = "MALFORMED_BUFFER"
     ELSE IF b > Len(batch.from) \/ b > Len(batch.to)
       THEN v = [code |-> "SORT_ERROR_FROM", index |-> 0]
     ELSE IF v.code = "VALID" THEN Clean(a, b)
     ELSE Clean(a, a + v.index - 1) /\ ~Clean(a, a + v.index)

\* The topology under the scan: what was looked at is clean, `last` ends it.
Scanning ==
  /\ ~(Alone /\ LengthsDiffer)
  /\ Current <= Len(batch.lengths)
  /\ End <= Len(batch.from) /\ End <= Len(batch.to)
  /\ at \in Nat /\ offset + at <= End
  /\ Clean(offset + 1, offset + at)
  /\ last = IF at = 0 THEN NoSynapse ELSE Synapse(offset + at)

Codes ==
  {"VALID", "MALFORMED_BUFFER", "SELF_CONNECTION", "BACKWARD_CONNECTION", "SORT_ERROR_FROM",
   "SORT_ERROR_TO", "SORT_ERROR_TYPE", "DUPLICATE_CONNECTION"}
Verdict == [code : Codes, index : Nat]

ScanInv ==
  /\ BatchOK
  /\ verdicts \in Seq(Verdict)
  /\ Len(verdicts) <= Len(batch.lengths)
  /\ offset = StartOf[Current]
  /\ IF vpc = "scan" THEN Scanning ELSE at = 0 /\ last = NoSynapse
  /\ \A t \in 1 .. Len(verdicts) : Local(t, verdicts[t])

LEMMA BatchTypes ==
  ASSUME BatchOK
  PROVE  /\ Len(batch.from) \in Nat /\ Len(batch.to) \in Nat /\ Len(batch.lengths) \in Nat
         /\ \A k \in 1 .. Len(batch.from) : batch.from[k] \in Nat
         /\ \A k \in 1 .. Len(batch.to) : batch.to[k] \in Nat
         /\ \A k \in 1 .. Len(batch.role) : batch.role[k] \in Nat
         /\ \A t \in 1 .. Len(batch.lengths) : batch.lengths[t] \in Nat
  BY LenProperties, ElementOfSeq DEF BatchOK

\* Where each topology of the batch starts.
LEMMA Starts ==
  ASSUME BatchOK
  PROVE  /\ StartOf[1] = 0
         /\ \A t \in 1 .. Len(batch.lengths) + 1 : StartOf[t] \in Nat
         /\ \A t \in 1 .. Len(batch.lengths) : StartOf[t + 1] = StartOf[t] + batch.lengths[t]
<1> DEFINE L == Len(batch.lengths)
           D == 1 .. L + 1
           cut(t) == IF t \in 1 .. L THEN batch.lengths[t] ELSE 0
           zero == 0
           step == [p \in Nat \X Nat |-> p[2] + cut(p[1] + 1)]
<1>1. L \in Nat /\ \A t \in 1 .. L : batch.lengths[t] \in Nat BY BatchTypes
<1>2. step \in Steps(Nat) /\ zero \in Nat
  <2>1. \A t \in Nat : cut(t) \in Nat BY <1>1
  <2> HIDE DEF cut
  <2> QED BY <2>1 DEF Steps
<1>3. PICK f : Iterated(f, Nat, zero, step)
  <2> HIDE DEF step, zero
  <2> QED BY <1>2, IterationExists
<1>4. /\ f \in [Nat -> Nat] /\ f[0] = 0
      /\ \A n \in Nat : n + 1 \in 1 .. L => f[n + 1] = f[n] + batch.lengths[n + 1]
  BY <1>1, <1>3 DEF Iterated
<1> DEFINE g == [t \in D |-> f[t - 1]]
<1>5. \A t \in D : t - 1 \in Nat /\ g[t] \in Nat BY <1>1, <1>4
<1>6. g = [t \in D |-> IF t = 1 THEN 0 ELSE g[t - 1] + batch.lengths[t - 1]]
  <2>1. ASSUME NEW t \in D, t # 1 PROVE g[t] = g[t - 1] + batch.lengths[t - 1]
    <3> DEFINE n == (t - 1) - 1
    <3>1. n \in Nat /\ n + 1 = t - 1 /\ t - 1 \in 1 .. L /\ t - 1 \in D BY <1>1, <2>1
    <3>2. g[t] = f[t - 1] /\ g[t - 1] = f[n] BY <3>1
    <3>3. f[t - 1] = f[n] + batch.lengths[t - 1] BY <1>4, <3>1
    <3> QED BY <3>2, <3>3
  <2>2. g[1] = 0 BY <1>1, <1>4
  <2> HIDE DEF D
  <2>3. \A t \in D : g[t] = IF t = 1 THEN 0 ELSE g[t - 1] + batch.lengths[t - 1] BY <2>1, <2>2
  <2> QED BY <2>3
<1>7. StartOf = [t \in D |-> IF t = 1 THEN 0 ELSE StartOf[t - 1] + batch.lengths[t - 1]]
  <2> HIDE DEF g
  <2> QED BY <1>6 DEF StartOf
<1>8. StartOf[1] = 0 BY <1>1, <1>7
<1>9. ASSUME NEW t \in 1 .. L PROVE StartOf[t + 1] = StartOf[t] + batch.lengths[t]
  <2>1. t + 1 \in D /\ t + 1 # 1 /\ (t + 1) - 1 = t BY <1>1
  <2> QED BY <1>7, <2>1
<1>10. \A t \in D : StartOf[t] \in Nat
  <2> DEFINE T == {n \in Nat : n + 1 \in D => StartOf[n + 1] \in Nat}
  <2>1. 0 \in T BY <1>8
  <2>2. ASSUME NEW n \in Nat, n \in T PROVE n + 1 \in T
    <3> SUFFICES ASSUME (n + 1) + 1 \in D PROVE StartOf[(n + 1) + 1] \in Nat OBVIOUS
    <3>1. n + 1 \in 1 .. L /\ n + 1 \in D BY <1>1
    <3>2. StartOf[n + 1] \in Nat BY <2>2, <3>1
    <3> DEFINE t == n + 1
    <3>3. StartOf[t + 1] = StartOf[t] + batch.lengths[t] BY <1>9, <3>1
    <3> QED BY <1>1, <3>1, <3>2, <3>3
  <2>3. Nat \subseteq T
    <3> HIDE DEF T
    <3> QED BY <2>1, <2>2, Induction
  <2> TAKE t \in D
  <2>4. t - 1 \in Nat /\ (t - 1) + 1 = t BY <1>1
  <2> QED BY <2>3, <2>4
<1> QED BY <1>8, <1>9, <1>10

IsSynapse(s) == s.from \in Nat /\ s.to \in Nat /\ s.role \in Nat

LEMMA FaultFree ==
  ASSUME NEW r, IsSynapse(r), NEW s, IsSynapse(s)
  PROVE  OrderFault(r, s) = "VALID" <=> s.from < s.to /\ Before(r, s)
<1>1. /\ r.from \in Nat /\ r.to \in Nat /\ r.role \in Nat
      /\ s.from \in Nat /\ s.to \in Nat /\ s.role \in Nat
  BY DEF IsSynapse
<1>2. CASE s.from = s.to \/ s.from > s.to \/ s.from < r.from
  <2>1. OrderFault(r, s) # "VALID" BY <1>2 DEF OrderFault
  <2>2. ~(s.from < s.to /\ Before(r, s)) BY <1>1, <1>2 DEF Before
  <2> QED BY <2>1, <2>2
<1>3. CASE s.from < s.to /\ s.from > r.from
  <2>1. ~(s.from = s.to) /\ ~(s.from > s.to) /\ ~(s.from < r.from) BY <1>1, <1>3
  <2>2. OrderFault(r, s) = "VALID" BY <1>3, <2>1 DEF OrderFault
  <2>3. Before(r, s) BY <1>1, <1>3 DEF Before
  <2> QED BY <1>3, <2>2, <2>3
<1>4. CASE s.from < s.to /\ s.from = r.from
  <2>1. ~(s.from = s.to) /\ ~(s.from > s.to) /\ ~(s.from < r.from) /\ ~(s.from > r.from)
    BY <1>1, <1>4
  <2>2. OrderFault(r, s) = "VALID" <=>
          ~(s.to < r.to) /\ (s.to > r.to \/ (~(s.role < r.role) /\ s.role # r.role))
    BY <2>1 DEF OrderFault
  <2>3. Before(r, s) <=> r.to < s.to \/ (r.to = s.to /\ r.role < s.role)
    BY <1>1, <1>4 DEF Before
  <2> DEFINE b == r.to
             c == r.role
             y == s.to
             z == s.role
  <2>4. b \in Nat /\ c \in Nat /\ y \in Nat /\ z \in Nat BY <1>1
  <2> HIDE DEF b, c, y, z
  <2>5. (~(y < b) /\ (y > b \/ (~(z < c) /\ z # c))) <=> (b < y \/ (b = y /\ c < z))
    BY <2>4
  <2>6. OrderFault(r, s) = "VALID" <=> Before(r, s)
    BY <2>2, <2>3, <2>5, Zenon DEF b, c, y, z
  <2> QED BY <1>4, <2>6
<1> QED BY <1>1, <1>2, <1>3, <1>4

LEMMA BeforeTransitive ==
  ASSUME NEW q, IsSynapse(q), NEW r, IsSynapse(r), NEW s, IsSynapse(s), Before(q, r), Before(r, s)
  PROVE  Before(q, s)
<1>1. \A a, b, c \in Nat : a < b /\ b < c => a < c OBVIOUS
<1> QED BY <1>1 DEF Before, IsSynapse

\* One more synapse keeps a clean list clean just where topology_scan finds no
\* fault with it behind the last one.
LEMMA CleanNext ==
  ASSUME BatchOK, ~(Alone /\ LengthsDiffer), NEW a \in Nat, NEW b \in Nat, a >= 1, b >= a - 1,
         b + 1 <= Len(batch.from), b + 1 <= Len(batch.to),
         Clean(a, b), NEW r, r = IF b = a - 1 THEN NoSynapse ELSE Synapse(b)
  PROVE  Clean(a, b + 1) <=> OrderFault(r, Synapse(b + 1)) = "VALID"
<1> DEFINE s == Synapse(b + 1)
<1>1. ASSUME NEW k \in a .. b + 1
      PROVE  /\ Synapse(k).from = batch.from[k] /\ Synapse(k).to = batch.to[k]
             /\ Synapse(k).from \in Nat /\ Synapse(k).to \in Nat /\ Synapse(k).role \in Nat
  <2>1. k \in 1 .. Len(batch.from) /\ k \in 1 .. Len(batch.to) BY BatchTypes
  <2>2. ASSUME batch.typed PROVE Len(batch.role) = Len(batch.from)
    <3>1. batch.lengths = <<Len(batch.from)>> BY <2>2 DEF BatchOK
    <3>2. Len(<<Len(batch.from)>>) = 1 /\ <<Len(batch.from)>>[1] = Len(batch.from) OBVIOUS
    <3>3. Alone BY <3>1, <3>2 DEF Alone
    <3> QED BY <2>2, <3>3 DEF LengthsDiffer
  <2> QED BY <2>1, <2>2, BatchTypes DEF Synapse
<1>2. a .. b + 1 = (a .. b) \cup {b + 1} /\ b + 1 \notin a .. b OBVIOUS
<1>3. s.from \in Nat /\ s.to \in Nat /\ s.role \in Nat /\ s.from = batch.from[b + 1] /\ s.to = batch.to[b + 1]
  BY <1>1, <1>2
<1>4. CASE b = a - 1
  <2>1. a .. b = {} /\ r = NoSynapse BY <1>4
  <2>2. Clean(a, b + 1) <=> s.from < s.to
    <3>1. \A j, k \in a .. b + 1 : ~(j < k) BY <1>2, <2>1
    <3> QED BY <1>2, <1>3, <2>1, <3>1 DEF Clean
  <2>3. s.from > -1 /\ ~(s.from < -1) BY <1>3
  <2>4. OrderFault(NoSynapse, s) = "VALID" <=> s.from < s.to
    <3> HIDE DEF s
    <3> QED BY <1>3, <2>3 DEF OrderFault, NoSynapse
  <2> QED BY <2>1, <2>2, <2>4
<1>5. CASE b # a - 1
  <2>1. b \in a .. b /\ r = Synapse(b) /\ r.from \in Nat /\ r.to \in Nat /\ r.role \in Nat
    BY <1>1, <1>2, <1>5
  <2>2. OrderFault(r, s) = "VALID" <=> s.from < s.to /\ Before(r, s)
    <3> HIDE DEF s
    <3>1. IsSynapse(r) /\ IsSynapse(s) BY <1>3, <2>1 DEF IsSynapse
    <3> QED BY <3>1, FaultFree
  <2>3. ASSUME Clean(a, b + 1) PROVE s.from < s.to /\ Before(r, s)
    <3>1. b \in a .. b + 1 /\ b + 1 \in a .. b + 1 /\ b < b + 1 BY <1>2, <2>1
    <3> QED BY <1>3, <2>1, <2>3, <3>1 DEF Clean
  <2>4. ASSUME s.from < s.to, Before(r, s) PROVE Clean(a, b + 1)
    <3>1. \A k \in a .. b + 1 : batch.from[k] < batch.to[k] BY <1>2, <1>3, <2>4 DEF Clean
    <3>2. ASSUME NEW j \in a .. b PROVE Before(Synapse(j), s)
      <4>1. CASE j = b BY <2>1, <2>4, <4>1
      <4>2. CASE j # b
        <5> DEFINE x == Synapse(j)
        <5>1. Before(x, r) BY <2>1, <4>2 DEF Clean
        <5>2. x.from \in Nat /\ x.to \in Nat /\ x.role \in Nat BY <1>1, <1>2
        <5> HIDE DEF x, s
        <5>3. IsSynapse(x) /\ IsSynapse(r) /\ IsSynapse(s) BY <1>3, <2>1, <5>2 DEF IsSynapse
        <5>4. Before(x, s) BY <2>4, <5>1, <5>3, BeforeTransitive
        <5> QED BY <5>4 DEF x
      <4> QED BY <4>1, <4>2
    <3>3. ASSUME NEW j \in a .. b + 1, NEW k \in a .. b + 1, j < k
          PROVE  Before(Synapse(j), Synapse(k))
      <4>1. CASE k \in a .. b
        <5>1. j \in a .. b BY <3>3, <4>1
        <5> QED BY <3>3, <4>1, <5>1 DEF Clean
      <4>2. CASE k = b + 1
        <5>1. j \in a .. b BY <3>3, <4>2
        <5> QED BY <3>2, <4>2, <5>1
      <4> QED BY <1>2, <4>1, <4>2
    <3> QED BY <3>1, <3>3 DEF Clean
  <2> QED BY <2>2, <2>3, <2>4
<1> QED BY <1>4, <1>5

\* The batch stays, and all that is read off it.
LEMMA SameBatch ==
  ASSUME UNCHANGED batch
  PROVE  /\ BatchOK' = BatchOK /\ Alone' = Alone /\ LengthsDiffer' = LengthsDiffer
         /\ StartOf' = StartOf
         /\ \A a, b : Clean(a, b)' = Clean(a, b)
         /\ \A t, v : Local(t, v)' = Local(t, v)
  BY DEF BatchOK, Alone, LengthsDiffer, StartOf, Clean, Synapse, Local

LEMMA FaultIsCode ==
  ASSUME NEW r, NEW s
  PROVE  OrderFault(r, s) \in Codes
  BY DEF OrderFault, Codes

\* The verdict reported, right for its topology, moves the scan to the next.
LEMMA Reported ==
  ASSUME ScanInv, NEW v \in Verdict, Report(v.code, v.index),
         Current <= Len(batch.lengths), Local(Current, v)
  PROVE  ScanInv'
<1> DEFINE L == Len(batch.lengths)
           n == Len(verdicts)
<1>1. /\ verdicts' = Append(verdicts, v) /\ offset' = End /\ vpc' = "next"
      /\ at' = 0 /\ last' = NoSynapse /\ UNCHANGED batch
  <2>1. v = [code |-> v.code, index |-> v.index] BY DEF Verdict, Codes
  <2> QED BY <2>1 DEF Report
<1>2. verdicts \in Seq(Verdict) /\ n \in Nat BY LenProperties DEF ScanInv
<1>3. /\ verdicts' \in Seq(Verdict) /\ Len(verdicts') = n + 1 /\ verdicts'[n + 1] = v
      /\ \A t \in 1 .. n : verdicts'[t] = verdicts[t]
  BY <1>1, <1>2, AppendProperties
<1>6. Current = n + 1 /\ Current' = Current + 1 /\ L \in Nat /\ n + 1 <= L /\ n + 1 \in 1 .. L
  BY <1>2, <1>3, BatchTypes DEF Current, ScanInv
<1>7. offset' = StartOf'[Current']
  <2>1. StartOf[(n + 1) + 1] = StartOf[n + 1] + batch.lengths[n + 1]
    BY <1>6, Starts DEF ScanInv
  <2>2. offset' = StartOf[n + 1] + batch.lengths[n + 1] BY <1>1, <1>6 DEF End, ScanInv
  <2> QED BY <1>1, <1>6, <2>1, <2>2, SameBatch
<1>8. \A t \in 1 .. Len(verdicts') : Local(t, verdicts'[t])
  <2> TAKE t \in 1 .. Len(verdicts')
  <2>1. t \in 1 .. n \/ t = n + 1 BY <1>2, <1>3
  <2>2. CASE t \in 1 .. n BY <1>3, <2>2 DEF ScanInv
  <2>3. CASE t = n + 1 BY <1>3, <1>6, <2>3
  <2> QED BY <2>1, <2>2, <2>3
<1>9. \A t \in 1 .. Len(verdicts') : Local(t, verdicts[t])'
  <2> TAKE t \in 1 .. Len(verdicts')
  <2>1. Local(t, verdicts'[t]) BY <1>8
  <2>2. batch' = batch /\ Alone' = Alone /\ LengthsDiffer' = LengthsDiffer /\ StartOf' = StartOf
    BY <1>1, SameBatch
  <2>3. \A a, b : Clean(a, b)' = Clean(a, b)
    <3>1. \A k : Synapse(k)' = Synapse(k) BY <2>2 DEF Synapse
    <3> QED BY <2>2, <3>1 DEF Clean
  <2> QED BY <2>1, <2>2, <2>3 DEF Local
<1>10. Len(verdicts') <= Len(batch'.lengths) BY <1>1, <1>3, <1>6
<1>11. BatchOK' BY <1>1, SameBatch DEF ScanInv
<1> QED BY <1>1, <1>3, <1>7, <1>9, <1>10, <1>11 DEF ScanInv

LEMMA ScanInduction ==
  ASSUME ScanInv, ScanNext \/ UNCHANGED scanvars
  PROVE  ScanInv'
<1>1. BatchOK /\ offset = StartOf[Current] BY DEF ScanInv
<1> DEFINE Here(v) == Local(Current, v)
<1>2. ASSUME NEW v
      PROVE  Here(v) <=>
               IF Alone /\ LengthsDiffer THEN v.code = "MALFORMED_BUFFER"
               ELSE IF End > Len(batch.from) \/ End > Len(batch.to)
                 THEN v = [code |-> "SORT_ERROR_FROM", index |-> 0]
               ELSE IF v.code = "VALID" THEN Clean(offset + 1, End)
               ELSE /\ Clean(offset + 1, (offset + 1) + v.index - 1)
                    /\ ~Clean(offset + 1, (offset + 1) + v.index)
  BY <1>1 DEF Local, End
<1> HIDE DEF Here
<1>3. CASE Mismatch
  <2> DEFINE v == [code |-> "MALFORMED_BUFFER", index |-> 0]
  <2>1. v \in Verdict /\ v.code = "MALFORMED_BUFFER" /\ v.index = 0 BY DEF Verdict, Codes
  <2> HIDE DEF v
  <2>2. Here(v) BY <1>2, <1>3, <2>1 DEF Mismatch
  <2> QED BY <1>3, <2>1, <2>2, Reported DEF Mismatch, Here
<1>4. CASE ShortBuffer
  <2> DEFINE v == [code |-> "SORT_ERROR_FROM", index |-> 0]
  <2>1. v \in Verdict /\ v.code = "SORT_ERROR_FROM" /\ v.index = 0 BY DEF Verdict, Codes
  <2>2. Here(v) BY <1>2, <1>4 DEF ShortBuffer
  <2> HIDE DEF v
  <2> QED BY <1>4, <2>1, <2>2, Reported DEF ShortBuffer, Here
<1>5. /\ offset \in Nat /\ Len(batch.from) \in Nat /\ Len(batch.to) \in Nat
      /\ Current <= Len(batch.lengths) => End \in Nat /\ offset <= End
  <2>2. Current \in 1 .. Len(batch.lengths) + 1
    <3>1. Len(verdicts) \in Nat BY LenProperties DEF ScanInv
    <3> QED BY <1>1, <3>1, BatchTypes DEF ScanInv, Current
  <2>3. offset \in Nat BY <1>1, <2>2, Starts
  <2>4. Current <= Len(batch.lengths) => batch.lengths[Current] \in Nat
    BY <1>1, <2>2, BatchTypes
  <2> QED BY <1>1, <2>3, <2>4, BatchTypes DEF End
<1>6. CASE OpenTopology
  <2>1. /\ UNCHANGED <<batch, at, offset, last, verdicts>> /\ vpc' = "scan"
        /\ at = 0 /\ last = NoSynapse
    BY <1>6 DEF OpenTopology, ScanInv
  <2>2. Clean(offset + 1, offset + at)
    <3>1. (offset + 1) .. (offset + at) = {} BY <1>5, <2>1
    <3> QED BY <3>1 DEF Clean
  <2>3. Scanning
    BY <1>5, <1>6, <2>1, <2>2 DEF OpenTopology, Scanning
  <2>4. Scanning'
    BY <2>1, <2>3 DEF Scanning, Current, End, Alone, LengthsDiffer, Clean, Synapse
  <2> QED BY <2>1, <2>4, SameBatch DEF ScanInv, Current
<1>7. CASE ScanSynapse
  <2> DEFINE s == Synapse(offset + at + 1)
             a == offset + 1
             b == offset + at
  <2>1. Scanning /\ vpc = "scan" /\ offset + at < End BY <1>7 DEF ScanSynapse, ScanInv
  <2>2. /\ at \in Nat /\ b \in Nat /\ a \in Nat /\ a >= 1 /\ b >= a - 1
        /\ b + 1 <= End /\ End \in Nat /\ (b = a - 1 <=> at = 0)
    BY <1>5, <2>1 DEF Scanning
  <2>3. Clean(a, b + 1) <=> OrderFault(last, s) = "VALID"
    <3>1. Clean(a, b) /\ last = IF b = a - 1 THEN NoSynapse ELSE Synapse(b)
      BY <2>1, <2>2 DEF Scanning
    <3>2. b + 1 <= Len(batch.from) /\ b + 1 <= Len(batch.to) /\ ~(Alone /\ LengthsDiffer)
      BY <1>5, <2>1, <2>2 DEF Scanning
    <3>3. Clean(a, b + 1) <=> OrderFault(last, Synapse(b + 1)) = "VALID"
      <4> HIDE DEF a, b, s
      <4> QED BY <1>1, <2>2, <3>1, <3>2, CleanNext
    <3> QED BY <3>3
  <2>4. CASE OrderFault(last, s) = "VALID"
    <3>1. at' = at + 1 /\ last' = s /\ UNCHANGED <<batch, vpc, offset, verdicts>>
      BY <1>7, <2>4 DEF ScanSynapse
    <3>2. Clean(offset + 1, offset + (at + 1)) /\ offset + (at + 1) <= End
      <4>1. offset + (at + 1) = b + 1 BY <1>5, <2>2
      <4> QED BY <2>2, <2>3, <2>4, <4>1
    <3>3. last' = Synapse(offset + (at + 1)) /\ at + 1 # 0 /\ at + 1 \in Nat
      <4>1. offset + (at + 1) = offset + at + 1 BY <1>5, <2>2
      <4> QED BY <2>2, <3>1, <4>1
    <3>4. Scanning'
      <4>1. /\ End' = End /\ Current' = Current
            /\ \A k : Synapse(k)' = Synapse(k)
        BY <3>1 DEF End, Current, Synapse
      <4>2. Clean(offset + 1, offset + at)'
        BY <3>1, <3>2 DEF Clean, Synapse
      <4> QED BY <2>1, <3>1, <3>2, <3>3, <4>1, <4>2, SameBatch DEF Scanning
    <3> QED BY <2>1, <3>1, <3>4, SameBatch DEF ScanInv, Current
  <2>5. CASE OrderFault(last, s) # "VALID"
    <3> DEFINE code == OrderFault(last, s)
               v == [code |-> code, index |-> at]
    <3>1. Report(code, at) BY <1>7, <2>5 DEF ScanSynapse
    <3>2. v \in Verdict
      <4>1. code \in Codes BY FaultIsCode
      <4> HIDE DEF code
      <4> QED BY <2>2, <4>1 DEF Verdict
    <3>3. (offset + 1) + at - 1 = b /\ (offset + 1) + at = b + 1 BY <1>5, <2>2
    <3>4. Clean(a, b) /\ ~Clean(a, b + 1) BY <2>1, <2>3, <2>5 DEF Scanning
    <3>5. /\ ~(Alone /\ LengthsDiffer) /\ Current <= Len(batch.lengths)
          /\ ~(End > Len(batch.from)) /\ ~(End > Len(batch.to))
      BY <1>5, <2>1, <2>2 DEF Scanning
    <3>6. v.code # "VALID" /\ v.code = code /\ v.index = at BY <2>5
    <3> HIDE DEF v, code
    <3>7. Here(v) BY <1>2, <3>3, <3>4, <3>5, <3>6
    <3> QED BY <3>1, <3>2, <3>5, <3>6, <3>7, Reported DEF Here
  <2> QED BY <2>4, <2>5
<1>8. CASE CloseTopology
  <2>1. Scanning /\ offset + at = End BY <1>8 DEF CloseTopology, ScanInv
  <2> DEFINE v == [code |-> "VALID", index |-> 0]
  <2>2. Clean(offset + 1, End) BY <2>1 DEF Scanning
  <2>3. /\ ~(Alone /\ LengthsDiffer) /\ Current <= Len(batch.lengths)
        /\ ~(End > Len(batch.from)) /\ ~(End > Len(batch.to))
    BY <1>5, <2>1 DEF Scanning
  <2>4. v \in Verdict /\ v.code = "VALID" /\ v.index = 0 BY DEF Verdict, Codes
  <2>5. Here(v) BY <1>2, <2>2, <2>3
  <2> HIDE DEF v
  <2> QED BY <1>8, <2>3, <2>4, <2>5, Reported DEF CloseTopology, Here
<1>9. CASE FinishBatch
  <2>1. UNCHANGED <<batch, at, offset, last, verdicts>> /\ vpc = "next" /\ vpc' = "done"
    BY <1>9 DEF FinishBatch
  <2> QED BY <2>1, SameBatch DEF ScanInv, Current
<1>10. CASE UNCHANGED scanvars
  <2>1. UNCHANGED <<batch, vpc, at, offset, last, verdicts>> BY <1>10 DEF scanvars
  <2>2. Scanning' = Scanning
    BY <2>1 DEF Scanning, Current, End, Alone, LengthsDiffer, Clean, Synapse
  <2> QED BY <2>1, <2>2, SameBatch DEF ScanInv, Current
<1> QED BY <1>3, <1>4, <1>6, <1>7, <1>8, <1>9, <1>10 DEF ScanNext

-----------------------------------------------------------------------------
(* The free slots                                                           *)

Scannable == TopoOK /\ Len(topo.from) = Len(topo.to)

LEMMA SlotTypes ==
  ASSUME Scannable
  PROVE  /\ topo.n \in Nat /\ topo.inputs \in Nat
         /\ IsFiniteSet(Edges) /\ Edges \subseteq Nat
         /\ \A k \in Edges : topo.from[k] \in Nat /\ topo.to[k] \in Nat
<1>1. /\ topo.n \in Nat /\ topo.inputs \in Nat
      /\ topo.from \in Seq(Nat) /\ topo.to \in Seq(Nat) /\ Len(topo.to) = Len(topo.from)
  BY DEF TopoOK, Scannable
<1>2. Len(topo.from) \in Nat BY <1>1, LenProperties
<1>3. \A k \in Edges : topo.from[k] \in Nat /\ topo.to[k] \in Nat
  BY <1>1, <1>2, ElementOfSeq DEF Edges
<1>4. IsFiniteSet(Edges) /\ Edges \subseteq Nat BY <1>2, FS_Interval DEF Edges
<1> QED BY <1>1, <1>3, <1>4

LEMMA BlockingTypes ==
  ASSUME Scannable, NEW f \in Nat
  PROVE  /\ IsFiniteSet(Blocking(f)) /\ Blocking(f) \subseteq Nat
         /\ \A k \in Blocking(f) : topo.to[k] \in Nat
<1>1. Blocking(f) \in SUBSET Edges BY DEF Blocking
<1> QED BY <1>1, SlotTypes, FS_Subset

\* The run of a source lists the targets of its blocking synapses, ascending.
LEMMA RunAscends ==
  ASSUME Scannable, NEW f \in Nat
  PROVE  /\ Run(f) \in Seq(Nat) /\ Len(Run(f)) \in Nat
         /\ \A i, j \in 1 .. Len(Run(f)) : i < j => Run(f)[i] <= Run(f)[j]
         /\ \A v : (\E i \in 1 .. Len(Run(f)) : Run(f)[i] = v)
                     <=> (\E k \in Blocking(f) : topo.to[k] = v)
<1> DEFINE B == Blocking(f)
           L == {p \in B \X B : \/ topo.to[p[1]] < topo.to[p[2]]
                                \/ topo.to[p[1]] = topo.to[p[2]] /\ p[1] < p[2]}
           n == Cardinality(B)
           pick(i) == Placed(f, i)
           r == Run(f)
<1>1. IsFiniteSet(B) /\ B \subseteq Nat /\ \A k \in B : topo.to[k] \in Nat BY BlockingTypes
<1>2. \A j, k \in B : <<j, k>> \in L <=> \/ topo.to[j] < topo.to[k]
                                         \/ topo.to[j] = topo.to[k] /\ j < k
  OBVIOUS
<1>3. \A k \in B : Rank(f, k) = Cardinality(Under(B, L, k)) + 1
  <2> TAKE k \in B
  <2>1. Under(B, L, k) = {j \in B : \/ topo.to[j] < topo.to[k]
                                    \/ topo.to[j] = topo.to[k] /\ j < k}
    <3> HIDE DEF L, B
    <3> QED BY <1>2 DEF Under
  <2> QED BY <2>1 DEF Rank
<1>4. r = [i \in 1 .. n |-> topo.to[pick(i)]] BY DEF Run
<1> HIDE DEF B, L
<1>5. /\ \A j, k \in B : j # k => <<j, k>> \in L \/ <<k, j>> \in L
      /\ \A k \in B : <<k, k>> \notin L
  BY <1>1, <1>2
<1>6. \A i, j, k \in B : <<i, j>> \in L /\ <<j, k>> \in L => <<i, k>> \in L
  <2> TAKE i, j, k \in B
  <2>1. /\ i \in Nat /\ j \in Nat /\ k \in Nat
        /\ topo.to[i] \in Nat /\ topo.to[j] \in Nat /\ topo.to[k] \in Nat
    BY <1>1
  <2> QED BY <1>2, <2>1
<1>7. /\ n \in Nat
      /\ \A k \in B : Rank(f, k) \in 1 .. n
      /\ \A j, k \in B : <<j, k>> \in L => Rank(f, j) < Rank(f, k)
      /\ \A i \in 1 .. n : \E k \in B : Rank(f, k) = i
  <2>1. /\ n \in Nat
        /\ \A k \in B : Cardinality(Under(B, L, k)) + 1 \in 1 .. n
        /\ \A j, k \in B : <<j, k>> \in L => Cardinality(Under(B, L, j)) < Cardinality(Under(B, L, k))
        /\ \A i \in 1 .. n : \E k \in B : Cardinality(Under(B, L, k)) + 1 = i
    BY <1>1, <1>5, <1>6, Ranks
  <2>2. \A k \in B : Cardinality(Under(B, L, k)) \in Nat
    <3>1. \A k \in B : Under(B, L, k) \in SUBSET B BY DEF Under
    <3> QED BY <1>1, <3>1, FS_Subset, FS_CardinalityType
  <2>3. \A j, k \in B : <<j, k>> \in L => Rank(f, j) < Rank(f, k)
    <3> TAKE j, k \in B
    <3> QED BY <1>3, <2>1, <2>2
  <2> QED BY <1>3, <2>1, <2>3
<1>8. \A i \in 1 .. n : pick(i) \in B /\ Rank(f, pick(i)) = i BY <1>7 DEF B, Placed
<1> HIDE DEF pick, n, r
<1>9. r \in Seq(Nat) /\ Len(r) = n /\ \A i \in 1 .. n : r[i] = topo.to[pick(i)]
  <2>1. \A i \in 1 .. n : topo.to[pick(i)] \in Nat BY <1>1, <1>8
  <2> QED BY <1>4, <1>7, <2>1
<1>10. \A i, j \in 1 .. n : i < j => r[i] <= r[j]
  <2> SUFFICES ASSUME NEW i \in 1 .. n, NEW j \in 1 .. n, i < j, ~(r[i] <= r[j]) PROVE FALSE
    OBVIOUS
  <2> DEFINE a == pick(i)
             b == pick(j)
  <2>1. a \in B /\ b \in B /\ Rank(f, a) = i /\ Rank(f, b) = j BY <1>8
  <2>2. r[i] = topo.to[a] /\ r[j] = topo.to[b] BY <1>9
  <2> HIDE DEF a, b
  <2>3. topo.to[b] < topo.to[a] BY <1>1, <2>1, <2>2
  <2>4. <<b, a>> \in L BY <1>2, <2>1, <2>3
  <2>5. j < i BY <1>7, <2>1, <2>4
  <2> QED BY <1>7, <2>5
<1>11. ASSUME NEW k \in B PROVE \E i \in 1 .. n : r[i] = topo.to[k]
  <2> DEFINE i == Rank(f, k)
  <2>1. i \in 1 .. n BY <1>7
  <2>2. pick(i) = k
    <3>1. pick(i) \in B /\ Rank(f, pick(i)) = i BY <1>8, <2>1
    <3>2. \A j \in B : j # k => Rank(f, j) < Rank(f, k) \/ Rank(f, k) < Rank(f, j) BY <1>5, <1>7
    <3>3. \A j \in B : Rank(f, j) \in Nat BY <1>7
    <3> QED BY <3>1, <3>2, <3>3
  <2> HIDE DEF i
  <2> QED BY <1>9, <2>1, <2>2
<1>12. \A i \in 1 .. n : \E k \in B : topo.to[k] = r[i] BY <1>8, <1>9
<1> QED BY <1>7, <1>9, <1>10, <1>11, <1>12 DEF B, r

Targets(f) == {topo.to[k] : k \in Blocking(f)}
Free(f) ==
  {v \in ScanStart(f) .. topo.n - 1 :
     ~IsConstant(v) /\ \A k \in Edges : <<topo.from[k], topo.to[k]>> # <<f, v>>}

\* A target that blocks is counted once.
LEMMA BlockedOnce ==
  ASSUME Scannable, NEW f \in Nat
  PROVE  /\ IsFiniteSet({v \in Targets(f) : ~IsConstant(v)})
         /\ Blocked(f) = Cardinality({v \in Targets(f) : ~IsConstant(v)})
<1> DEFINE r == Run(f)
           I == {i \in 1 .. Len(r) : (i = 1 \/ r[i - 1] # r[i]) /\ ~IsConstant(r[i])}
           T == {v \in Targets(f) : ~IsConstant(v)}
           nth == [i \in I |-> r[i]]
<1>1. /\ r \in Seq(Nat) /\ Len(r) \in Nat
      /\ \A i, j \in 1 .. Len(r) : i < j => r[i] <= r[j]
      /\ \A v : (\E i \in 1 .. Len(r) : r[i] = v) <=> v \in Targets(f)
  <2>1. /\ r \in Seq(Nat) /\ Len(r) \in Nat
        /\ \A i, j \in 1 .. Len(r) : i < j => r[i] <= r[j]
        /\ \A v : (\E i \in 1 .. Len(r) : r[i] = v) <=> (\E k \in Blocking(f) : topo.to[k] = v)
    BY RunAscends
  <2>2. \A v : (\E k \in Blocking(f) : topo.to[k] = v) <=> v \in Targets(f) BY DEF Targets
  <2> QED BY <2>1, <2>2
<1>2. Blocked(f) = Cardinality(I) BY DEF Blocked
<1> HIDE DEF r
<1>3. \A i \in 1 .. Len(r) : r[i] \in Nat BY <1>1, ElementOfSeq
<1>4. IsFiniteSet(I)
  <2>1. IsFiniteSet(1 .. Len(r)) BY <1>1, FS_Interval
  <2>2. I \in SUBSET (1 .. Len(r)) OBVIOUS
  <2> QED BY <2>1, <2>2, FS_Subset
<1>5. ASSUME NEW i \in I, NEW j \in I, r[i] = r[j] PROVE ~(i < j)
  <2> SUFFICES ASSUME i < j PROVE FALSE OBVIOUS
  <2>1. i \in 1 .. Len(r) /\ j \in 1 .. Len(r) /\ j - 1 \in 1 .. Len(r) /\ r[j - 1] # r[j]
    BY <1>1
  <2>2. r[j - 1] <= r[j] BY <1>1, <2>1
  <2>3. r[i] <= r[j - 1] BY <1>1, <1>3, <2>1
  <2>4. r[i] \in Nat /\ r[j] \in Nat /\ r[j - 1] \in Nat BY <1>3, <2>1
  <2> QED BY <1>5, <2>1, <2>2, <2>3, <2>4
<1>6. ASSUME NEW v \in T PROVE \E i \in I : r[i] = v
  <2> DEFINE P == {i \in 1 .. Len(r) : r[i] = v}
  <2>1. P \subseteq Nat /\ P # {} BY <1>1
  <2>2. PICK i \in P : \A j \in P : i <= j
    <3> HIDE DEF P
    <3> QED BY <2>1, LeastMember
  <2>3. i = 1 \/ r[i - 1] # r[i]
    <3> SUFFICES ASSUME i # 1, r[i - 1] = r[i] PROVE FALSE OBVIOUS
    <3>1. i - 1 \in P BY <1>1
    <3> QED BY <2>2, <3>1
  <2> QED BY <2>2, <2>3
<1>7. nth \in Bijection(I, T)
  <2>1. \A i \in I : r[i] \in T BY <1>1
  <2>2. \A i, j \in I : r[i] = r[j] => i = j
    <3> TAKE i, j \in I
    <3>1. i \in Nat /\ j \in Nat BY <1>1
    <3> QED BY <1>5, <3>1
  <2> HIDE DEF I, T
  <2> QED BY <1>6, <2>1, <2>2 DEF Bijection, Injection, Surjection, IsInjective
<1> HIDE DEF I, T, nth
<1>8. ExistsBijection(I, T) BY <1>7 DEF ExistsBijection
<1>9. IsFiniteSet(T) /\ Cardinality(T) = Cardinality(I) BY <1>4, <1>8, FS_Bijection
<1> QED BY <1>2, <1>9 DEF T

\* The candidates of a source are its free slots, the constants and the targets
\* that block.
LEMMA SlotsCounted ==
  ASSUME Scannable, NEW f \in Nat
  PROVE  /\ IsFiniteSet(Free(f))
         /\ SlotsOf(f) \in Int
         /\ f \in Neurons => SlotsOf(f) = Cardinality(Free(f))
<1> DEFINE W == ScanStart(f) .. topo.n - 1
           Z == {v \in W : IsConstant(v)}
           T == {v \in Targets(f) : ~IsConstant(v)}
<1>1. topo.n \in Nat /\ topo.inputs \in Nat /\ ScanStart(f) \in Nat
  BY SlotTypes DEF ScanStart
<1>2. /\ IsFiniteSet(W)
      /\ Cardinality(W) = IF ScanStart(f) > topo.n - 1 THEN 0 ELSE (topo.n - 1) - ScanStart(f) + 1
  <2> DEFINE a == ScanStart(f)
             b == topo.n - 1
  <2>1. a \in Int /\ b \in Int BY <1>1
  <2> HIDE DEF a, b
  <2>2. IsFiniteSet(a .. b) /\ Cardinality(a .. b) = IF a > b THEN 0 ELSE b - a + 1
    BY <2>1, FS_Interval
  <2> QED BY <2>2 DEF a, b
<1>3. IsFiniteSet(T) /\ Blocked(f) = Cardinality(T) BY BlockedOnce
<1>4. Z \in SUBSET W /\ Free(f) \in SUBSET W BY DEF Free
<1>5. IsFiniteSet(Z) /\ IsFiniteSet(Free(f)) BY <1>2, <1>4, FS_Subset
<1>6. /\ Cardinality(Z) \in Nat /\ Cardinality(T) \in Nat /\ Cardinality(Free(f)) \in Nat
  BY <1>3, <1>5, FS_CardinalityType
<1>7. SlotsOf(f) = IF ScanStart(f) >= topo.n THEN 0
                   ELSE (topo.n - ScanStart(f)) - Cardinality(Z) - Cardinality(T)
  BY <1>3 DEF SlotsOf
<1>8. ASSUME f \in Neurons PROVE SlotsOf(f) = Cardinality(Free(f))
  <2>1. f < topo.n BY <1>1, <1>8 DEF Neurons
  <2>2. \A v \in W : v \in Targets(f) <=> \E k \in Edges : <<topo.from[k], topo.to[k]>> = <<f, v>>
    <3> TAKE v \in W
    <3>1. v \in Nat /\ v \in f + 1 .. topo.n - 1 /\ v >= topo.inputs BY <1>1 DEF ScanStart
    <3>2. ASSUME NEW k \in Blocking(f), topo.to[k] = v
          PROVE  \E e \in Edges : <<topo.from[e], topo.to[e]>> = <<f, v>>
      BY <3>2 DEF Blocking
    <3>3. ASSUME NEW k \in Edges, <<topo.from[k], topo.to[k]>> = <<f, v>>
          PROVE  k \in Blocking(f) /\ topo.to[k] = v
      BY <2>1, <3>1, <3>3 DEF Blocking
    <3> QED BY <3>2, <3>3 DEF Targets
  <2>3. T \subseteq W
    <3>1. ASSUME NEW k \in Blocking(f) PROVE topo.to[k] \in W
      <4>1. topo.to[k] \in f + 1 .. topo.n - 1 /\ topo.to[k] >= topo.inputs BY DEF Blocking
      <4> QED BY <1>1, <4>1 DEF ScanStart
    <3> QED BY <3>1 DEF Targets
  <2>4. Free(f) = {v \in W : ~IsConstant(v) /\ v \notin Targets(f)} BY <2>2 DEF Free
  <2>5. Z \cap T = {} OBVIOUS
  <2>6. W = Free(f) \cup (Z \cup T) /\ Free(f) \cap (Z \cup T) = {} BY <2>3, <2>4
  <2> HIDE DEF W, Z, T
  <2>7. IsFiniteSet(Z \cup T) /\ Cardinality(Z \cup T) = Cardinality(Z) + Cardinality(T)
    <3>1. /\ IsFiniteSet(Z \cup T)
          /\ Cardinality(Z \cup T) = Cardinality(Z) + Cardinality(T) - Cardinality(Z \cap T)
      BY <1>3, <1>5, FS_Union
    <3> QED BY <1>6, <2>5, <3>1, FS_EmptySet
  <2>8. Cardinality(W) = Cardinality(Free(f)) + Cardinality(Z) + Cardinality(T)
    <3> DEFINE U == Z \cup T
    <3>1. IsFiniteSet(U) /\ Cardinality(U) = Cardinality(Z) + Cardinality(T)
          /\ W = Free(f) \cup U /\ Free(f) \cap U = {}
      BY <2>6, <2>7
    <3> HIDE DEF U
    <3>2. Cardinality(Free(f) \cup U) = Cardinality(Free(f)) + Cardinality(U) - Cardinality(Free(f) \cap U)
      BY <1>5, <3>1, FS_Union
    <3> QED BY <1>6, <3>1, <3>2, FS_EmptySet
  <2>9. Cardinality(W) = IF ScanStart(f) > topo.n - 1 THEN 0 ELSE (topo.n - 1) - ScanStart(f) + 1
    BY <1>2
  <2>10. CASE ScanStart(f) >= topo.n
    <3>1. Cardinality(W) = 0 /\ SlotsOf(f) = 0 BY <1>1, <1>7, <2>9, <2>10
    <3> QED BY <1>6, <2>8, <3>1
  <2>11. CASE ~(ScanStart(f) >= topo.n)
    <3>1. /\ Cardinality(W) = topo.n - ScanStart(f)
          /\ SlotsOf(f) = (topo.n - ScanStart(f)) - Cardinality(Z) - Cardinality(T)
      BY <1>1, <1>7, <2>9, <2>11
    <3> QED BY <1>1, <1>6, <2>8, <3>1
  <2> QED BY <2>10, <2>11
<1> HIDE DEF W, Z, T
<1> QED BY <1>1, <1>5, <1>6, <1>7, <1>8

LEMMA SlotsSummed ==
  ASSUME Scannable
  PROVE  /\ SlotsBefore[0] = 0
         /\ \A f \in Nat : /\ SlotsBefore[f] \in Int
                           /\ SlotsBefore[f + 1] = SlotsBefore[f] + SlotsOf(f)
<1> DEFINE step == [p \in Nat \X Int |-> p[2] + SlotsOf(p[1])]
<1>1. step \in Steps(Int) BY SlotsCounted DEF Steps
<1>2. PICK g : Iterated(g, Int, 0, step)
  <2> HIDE DEF step
  <2> QED BY <1>1, IterationExists
<1>3. /\ g \in [Nat -> Int] /\ g[0] = 0
      /\ \A n \in Nat : g[n + 1] = g[n] + SlotsOf(n)
  BY <1>2 DEF Iterated
<1>4. g = [f \in Nat |-> IF f = 0 THEN 0 ELSE g[f - 1] + SlotsOf(f - 1)]
  <2>1. ASSUME NEW f \in Nat, f # 0 PROVE g[f] = g[f - 1] + SlotsOf(f - 1)
    <3>1. f - 1 \in Nat /\ (f - 1) + 1 = f BY <2>1
    <3> QED BY <1>3, <3>1
  <2> QED BY <1>3, <2>1
<1>5. SlotsBefore = [f \in Nat |-> IF f = 0 THEN 0 ELSE SlotsBefore[f - 1] + SlotsOf(f - 1)]
  BY <1>4 DEF SlotsBefore
<1>6. SlotsBefore[0] = 0 BY <1>5
<1>7. \A f \in Nat : SlotsBefore[f + 1] = SlotsBefore[f] + SlotsOf(f)
  <2> TAKE f \in Nat
  <2>1. f + 1 \in Nat /\ f + 1 # 0 /\ (f + 1) - 1 = f OBVIOUS
  <2> QED BY <1>5, <2>1
<1> DEFINE T == {f \in Nat : SlotsBefore[f] \in Int}
<1>8. Nat \subseteq T
  <2>1. 0 \in T BY <1>6
  <2>2. \A f \in Nat : f \in T => f + 1 \in T BY <1>7, SlotsCounted
  <2> HIDE DEF T
  <2> QED BY <2>1, <2>2, Induction
<1> QED BY <1>6, <1>7, <1>8

\* A pair the scan may emit, and the pairs it has come past.
Open(p) ==
  /\ p[1] < p[2] /\ ~IsConstant(p[2])
  /\ \A k \in Edges : <<topo.from[k], topo.to[k]>> # p

Passed(p, s, t) == p[1] < s \/ (p[1] = s /\ p[2] < t)
Later(p, q) == Passed(p, q[1], q[2])

\* The open pairs passed at slot t of source s, ascending, and as many as were
\* counted.
Emitted(q, s, t) ==
  /\ q \in Seq(Nat \X Nat)
  /\ Len(q) = SlotsBefore[s] + Cardinality({v \in Free(s) : v < t})
  /\ ToSet(q) = {p \in Neurons \X NonInput : Open(p) /\ Passed(p, s, t)}
  /\ \A i, j \in 1 .. Len(q) : i < j => Later(q[i], q[j])

SlotsWalk ==
  /\ Scannable /\ topo.n > 0
  /\ source \in Neurons
  /\ slot \in Nat /\ slot >= ScanStart(source)
  /\ place \in 1 .. Len(Run(source)) + 1
  /\ \A i \in 1 .. place - 1 : Run(source)[i] < slot
  /\ capacity = CountSlots
  /\ Emitted(available, source, slot)

SlotsInv ==
  /\ TopoOK
  /\ spc = "start" => source = 0 /\ place = 1 /\ capacity = 0 /\ available = <<>>
  /\ spc = "walk" => SlotsWalk
  /\ SlotsAreFree

LEMMA SameSlots ==
  ASSUME UNCHANGED topo
  PROVE  /\ topo' = topo /\ TopoOK' = TopoOK /\ Scannable' = Scannable
         /\ Neurons' = Neurons /\ NonInput' = NonInput /\ Edges' = Edges
         /\ \A f : /\ ScanStart(f)' = ScanStart(f) /\ Run(f)' = Run(f) /\ Free(f)' = Free(f)
                   /\ SlotsOf(f)' = SlotsOf(f)
         /\ SlotsBefore' = SlotsBefore /\ CountSlots' = CountSlots
         /\ \A p : Open(p)' = Open(p)
         /\ \A q, s, t : Emitted(q, s, t)' = Emitted(q, s, t)
<1>1. \A v : IsConstant(v)' = IsConstant(v) BY DEF IsConstant
<1>2. Edges' = Edges /\ Neurons' = Neurons /\ NonInput' = NonInput BY DEF Edges, Neurons, NonInput
<1>3. \A f : Blocking(f)' = Blocking(f) BY <1>2 DEF Blocking
<1>4. \A f, k : Rank(f, k)' = Rank(f, k) BY <1>3 DEF Rank
<1>5. \A f : Run(f)' = Run(f)
  <2> TAKE f
  <2>1. \A i : Placed(f, i)' = Placed(f, i) BY <1>3, <1>4 DEF Placed
  <2> QED BY <1>3, <2>1 DEF Run
<1>6. \A f : Blocked(f)' = Blocked(f) BY <1>1, <1>5 DEF Blocked
<1>7. \A f : ScanStart(f)' = ScanStart(f) BY DEF ScanStart
<1>8. \A f : SlotsOf(f)' = SlotsOf(f) BY <1>1, <1>6, <1>7 DEF SlotsOf
<1>9. SlotsBefore' = SlotsBefore BY <1>8 DEF SlotsBefore
<1>10. \A f : Free(f)' = Free(f) BY <1>1, <1>2, <1>7 DEF Free
<1>11. \A p : Open(p)' = Open(p) BY <1>1, <1>2 DEF Open
<1>12. \A q, s, t : Emitted(q, s, t)' = Emitted(q, s, t)
  BY <1>2, <1>9, <1>10, <1>11 DEF Emitted
<1>13. CountSlots' = CountSlots BY <1>9 DEF CountSlots
<1> QED BY <1>2, <1>5, <1>7, <1>8, <1>9, <1>10, <1>11, <1>12, <1>13 DEF TopoOK, Scannable

\* Nothing lies before the first slot of a source, everything behind the last.
LEMMA SourceEnds ==
  ASSUME Scannable, NEW q, NEW s \in Neurons, NEW t \in Nat, t >= topo.n, Emitted(q, s, t)
  PROVE  /\ Len(q) = SlotsBefore[s + 1]
         /\ ToSet(q) = {p \in Neurons \X NonInput : Open(p) /\ p[1] < s + 1}
         /\ s + 1 \in Neurons => Emitted(q, s + 1, ScanStart(s + 1))
<1>1. topo.n \in Nat /\ topo.inputs \in Nat /\ s \in Nat /\ s + 1 \in Nat BY SlotTypes DEF Neurons
<1>2. /\ IsFiniteSet(Free(s)) /\ SlotsOf(s) = Cardinality(Free(s)) BY <1>1, SlotsCounted
<1>3. {v \in Free(s) : v < t} = Free(s)
  <2>1. \A v \in Free(s) : v < t
    <3> TAKE v \in Free(s)
    <3>1. v \in ScanStart(s) .. topo.n - 1 /\ ScanStart(s) \in Nat BY <1>1 DEF Free, ScanStart
    <3> QED BY <1>1, <3>1
  <2> QED BY <2>1
<1>4. Len(q) = SlotsBefore[s + 1] BY <1>1, <1>2, <1>3, SlotsSummed DEF Emitted
<1>5. \A p \in Neurons \X NonInput : p[1] \in Nat /\ p[2] \in Nat /\ p[2] < topo.n /\ p[2] >= topo.inputs
  BY <1>1 DEF Neurons, NonInput
<1>6. \A p \in Neurons \X NonInput : Passed(p, s, t) <=> p[1] < s + 1
  <2> TAKE p \in Neurons \X NonInput
  <2>1. p[1] \in Nat /\ p[2] < t BY <1>1, <1>5
  <2> QED BY <1>1, <2>1 DEF Passed
<1>7. ToSet(q) = {p \in Neurons \X NonInput : Open(p) /\ p[1] < s + 1} BY <1>6 DEF Emitted
<1>8. ASSUME s + 1 \in Neurons PROVE Emitted(q, s + 1, ScanStart(s + 1))
  <2> DEFINE u == s + 1
             w == ScanStart(s + 1)
  <2>1. u \in Nat /\ w \in Nat /\ (w = IF u + 1 > topo.inputs THEN u + 1 ELSE topo.inputs)
    BY <1>1 DEF ScanStart
  <2> HIDE DEF w
  <2>2. {v \in Free(u) : v < w} = {} BY <1>1, <2>1 DEF Free, w
  <2>3. Len(q) = SlotsBefore[u] + Cardinality({v \in Free(u) : v < w})
    <3>1. Cardinality({v \in Free(u) : v < w}) = 0
      <4> HIDE DEF u
      <4> QED BY <2>2, FS_EmptySet
    <3>2. SlotsBefore[u] \in Int BY <1>1, SlotsSummed
    <3> QED BY <1>4, <3>1, <3>2
  <2>4. \A p \in Neurons \X NonInput : Open(p) => (Passed(p, u, w) <=> p[1] < s + 1)
    <3> TAKE p \in Neurons \X NonInput
    <3>1. p[1] \in Nat /\ p[2] \in Nat /\ p[2] >= topo.inputs /\ (Open(p) => p[1] < p[2])
      BY <1>5 DEF Open
    <3> QED BY <1>1, <2>1, <3>1 DEF Passed
  <2>5. ToSet(q) = {p \in Neurons \X NonInput : Open(p) /\ Passed(p, u, w)} BY <1>7, <2>4
  <2> QED BY <2>3, <2>5 DEF Emitted, w
<1> QED BY <1>4, <1>7, <1>8

LEMMA SlotsBegin ==
  ASSUME Scannable, topo.n > 0
  PROVE  Emitted(<<>>, 0, ScanStart(0))
<1>1. topo.n \in Nat /\ topo.inputs \in Nat BY SlotTypes
<1> DEFINE w == ScanStart(0)
<1>2. w \in Nat /\ (w = IF 1 > topo.inputs THEN 1 ELSE topo.inputs) BY <1>1 DEF ScanStart
<1>3. {v \in Free(0) : v < w} = {} BY <1>1 DEF Free, ScanStart
<1> HIDE DEF w
<1>4. \A p \in Neurons \X NonInput : ~(Open(p) /\ Passed(p, 0, w))
  <2> TAKE p \in Neurons \X NonInput
  <2>1. p[1] \in Nat /\ p[2] \in Nat /\ p[2] >= topo.inputs BY <1>1 DEF Neurons, NonInput
  <2> QED BY <1>1, <1>2, <2>1 DEF Open, Passed
<1>5. Len(<<>>) = 0 /\ <<>> \in Seq(Nat \X Nat) /\ ToSet(<<>>) = {} BY DEF ToSet
<1>6. SlotsBefore[0] + Cardinality({v \in Free(0) : v < w}) = 0
  BY <1>3, FS_EmptySet, SlotsSummed
<1>7. {p \in Neurons \X NonInput : Open(p) /\ Passed(p, 0, w)} = {} BY <1>4
<1> QED BY <1>5, <1>6, <1>7 DEF Emitted, w

LEMMA SlotsSkip ==
  ASSUME Scannable, NEW q, NEW s \in Neurons, NEW t \in Nat, Emitted(q, s, t), t \notin Free(s),
         t >= ScanStart(s)
  PROVE  Emitted(q, s, t + 1)
<1>1. topo.n \in Nat /\ topo.inputs \in Nat /\ s \in Nat BY SlotTypes DEF Neurons
<1>2. {v \in Free(s) : v < t + 1} = {v \in Free(s) : v < t}
  <2>1. \A v \in Free(s) : v \in Int BY DEF Free
  <2>2. \A v \in Int : v < t + 1 <=> v < t \/ v = t OBVIOUS
  <2> QED BY <2>1, <2>2
<1>3. \A p \in Neurons \X NonInput : Open(p) => (Passed(p, s, t + 1) <=> Passed(p, s, t))
  <2> TAKE p \in Neurons \X NonInput
  <2>1. p[1] \in Nat /\ p[2] \in Nat /\ p = <<p[1], p[2]>> /\ p[2] < topo.n /\ p[2] >= topo.inputs
    BY <1>1 DEF Neurons, NonInput
  <2>2. ASSUME Open(p), p[1] = s, p[2] = t PROVE FALSE
    <3>1. t \in ScanStart(s) .. topo.n - 1 BY <1>1, <2>1, <2>2 DEF ScanStart
    <3>2. p = <<s, t>> BY <2>1, <2>2
    <3> QED BY <2>2, <3>1, <3>2 DEF Open, Free
  <2> QED BY <1>1, <2>1, <2>2 DEF Passed
<1> QED BY <1>2, <1>3 DEF Emitted

LEMMA SlotsEmit ==
  ASSUME Scannable, NEW q, NEW s \in Neurons, NEW t \in Nat, Emitted(q, s, t), t \in Free(s)
  PROVE  Emitted(Append(q, <<s, t>>), s, t + 1)
<1> DEFINE r == Append(q, <<s, t>>)
           F == {v \in Free(s) : v < t}
           G == {v \in Free(s) : v < t + 1}
<1>1. /\ topo.n \in Nat /\ topo.inputs \in Nat /\ s \in Nat
      /\ t \in ScanStart(s) .. topo.n - 1 /\ t >= topo.inputs /\ s < t
  <2>1. topo.n \in Nat /\ topo.inputs \in Nat /\ s \in Nat BY SlotTypes DEF Neurons
  <2>2. t \in ScanStart(s) .. topo.n - 1 BY DEF Free
  <2> QED BY <2>1, <2>2 DEF ScanStart
<1>2. /\ q \in Seq(Nat \X Nat) /\ Len(q) \in Nat
      /\ Len(r) = Len(q) + 1 /\ r \in Seq(Nat \X Nat)
      /\ \A i \in 1 .. Len(q) : r[i] = q[i] /\ q[i] \in Nat \X Nat
      /\ r[Len(q) + 1] = <<s, t>>
  <2>1. q \in Seq(Nat \X Nat) /\ <<s, t>> \in Nat \X Nat BY <1>1 DEF Emitted
  <2>2. Len(q) \in Nat /\ \A i \in 1 .. Len(q) : q[i] \in Nat \X Nat BY <2>1, LenProperties, ElementOfSeq
  <2> HIDE DEF r
  <2>3. Len(r) = Len(q) + 1 /\ r \in Seq(Nat \X Nat) BY <2>1, AppendProperties DEF r
  <2>4. \A i \in 1 .. Len(q) : r[i] = q[i] BY <2>1, <2>2, AppendProperties DEF r
  <2>5. r[Len(q) + 1] = <<s, t>> BY <2>1, <2>2, AppendProperties DEF r
  <2> QED BY <2>1, <2>2, <2>3, <2>4, <2>5
<1>3. Len(r) = SlotsBefore[s] + Cardinality(G)
  <2>1. \A v \in Free(s) : v \in Int BY DEF Free
  <2>2. \A v \in Int : v < t + 1 <=> v < t \/ v = t OBVIOUS
  <2>3. G = F \cup {t} /\ t \notin F
    <3>1. \A v : v \in G <=> v \in F \/ v = t BY <2>1, <2>2
    <3>2. t \notin F OBVIOUS
    <3> HIDE DEF F, G
    <3> QED BY <3>1, <3>2
  <2>4. IsFiniteSet(F)
    <3>1. IsFiniteSet(Free(s)) BY <1>1, SlotsCounted
    <3>2. F \in SUBSET Free(s) OBVIOUS
    <3> QED BY <3>1, <3>2, FS_Subset
  <2>5. Len(q) = SlotsBefore[s] + Cardinality(F) BY DEF Emitted
  <2> HIDE DEF F, G, r
  <2>6. Cardinality(G) = Cardinality(F) + 1 BY <2>3, <2>4, FS_AddElement
  <2>7. Cardinality(F) \in Nat /\ SlotsBefore[s] \in Int BY <1>1, <2>4, FS_CardinalityType, SlotsSummed
  <2> QED BY <1>2, <2>5, <2>6, <2>7
<1>4. ToSet(r) = {p \in Neurons \X NonInput : Open(p) /\ Passed(p, s, t + 1)}
  <2>1. ToSet(r) = ToSet(q) \cup {<<s, t>>}
    <3>1. DOMAIN r = 1 .. Len(q) + 1 /\ DOMAIN q = 1 .. Len(q) BY <1>2, LenProperties
    <3>2. \A i : i \in 1 .. Len(q) + 1 <=> i \in 1 .. Len(q) \/ i = Len(q) + 1 BY <1>2
    <3> HIDE DEF r
    <3>3. ToSet(r) = {r[i] : i \in 1 .. Len(q) + 1} /\ ToSet(q) = {q[i] : i \in 1 .. Len(q)}
      BY <3>1 DEF ToSet
    <3>4. \A x : x \in ToSet(r) <=> x \in ToSet(q) \/ x = <<s, t>>
      <4>1. ASSUME NEW i \in 1 .. Len(q) + 1 PROVE r[i] \in ToSet(q) \/ r[i] = <<s, t>>
        BY <1>2, <3>2, <3>3
      <4>2. ASSUME NEW i \in 1 .. Len(q) PROVE q[i] \in ToSet(r)
        <5>1. r[i] = q[i] /\ i \in 1 .. Len(q) + 1 BY <1>2, <3>2
        <5> QED BY <3>3, <5>1
      <4>3. <<s, t>> \in ToSet(r)
        <5>1. Len(q) + 1 \in 1 .. Len(q) + 1 BY <1>2
        <5> QED BY <1>2, <3>3, <5>1
      <4> QED BY <3>3, <4>1, <4>2, <4>3
    <3> QED BY <3>4
  <2>2. <<s, t>> \in Neurons \X NonInput BY <1>1 DEF NonInput
  <2>3. Open(<<s, t>>) BY <1>1 DEF Open, Free
  <2>4. \A p \in Neurons \X NonInput : Passed(p, s, t + 1) <=> Passed(p, s, t) \/ p = <<s, t>>
    <3> TAKE p \in Neurons \X NonInput
    <3>1. p[1] \in Int /\ p[2] \in Int /\ p = <<p[1], p[2]>> BY DEF Neurons, NonInput
    <3>2. p = <<s, t>> <=> p[1] = s /\ p[2] = t BY <3>1
    <3> QED BY <1>1, <3>1, <3>2 DEF Passed
  <2>5. ToSet(q) = {p \in Neurons \X NonInput : Open(p) /\ Passed(p, s, t)} BY DEF Emitted
  <2> HIDE DEF r
  <2> QED BY <2>1, <2>2, <2>3, <2>4, <2>5
<1>5. ASSUME NEW i \in 1 .. Len(r), NEW j \in 1 .. Len(r), i < j PROVE Later(r[i], r[j])
  <2>1. i \in 1 .. Len(q) /\ r[i] = q[i] BY <1>2, <1>5
  <2>2. CASE j \in 1 .. Len(q)
    <3>1. r[j] = q[j] BY <1>2, <2>2
    <3> QED BY <1>5, <2>1, <2>2, <3>1 DEF Emitted
  <2>3. CASE j = Len(q) + 1
    <3>1. q[i] \in ToSet(q)
      <4>1. DOMAIN q = 1 .. Len(q) BY <1>2, LenProperties
      <4> QED BY <2>1, <4>1 DEF ToSet
    <3>2. Passed(q[i], s, t) BY <3>1 DEF Emitted
    <3>3. r[j] = <<s, t>> BY <1>2, <2>3
    <3> QED BY <2>1, <3>2, <3>3 DEF Later
  <2> QED BY <1>2, <2>2, <2>3
<1> HIDE DEF r
<1> QED BY <1>2, <1>3, <1>4, <1>5 DEF Emitted, r

\* The merge finds the slot in the run just where a synapse blocks it.
LEMMA MergeFinds ==
  ASSUME TopoOK, SlotsWalk, slot < topo.n
  PROVE  /\ Advanced \in 1 .. Len(Run(source)) + 1
         /\ \A i \in 1 .. Advanced - 1 : Run(source)[i] < slot
         /\ ~IsConstant(slot) =>
              ((Advanced <= Len(Run(source)) /\ Run(source)[Advanced] = slot) <=> slot \notin Free(source))
<1> DEFINE r == Run(source)
           q == Advanced
<1>1. /\ Scannable /\ source \in Neurons /\ slot \in Nat /\ slot >= ScanStart(source)
      /\ place \in 1 .. Len(r) + 1 /\ \A i \in 1 .. place - 1 : r[i] < slot
  BY DEF SlotsWalk
<1>2. topo.n \in Nat /\ topo.inputs \in Nat /\ source \in Nat /\ source < topo.n BY <1>1, SlotTypes DEF Neurons
<1>3. /\ r \in Seq(Nat) /\ Len(r) \in Nat
      /\ \A i, j \in 1 .. Len(r) : i < j => r[i] <= r[j]
      /\ \A v : (\E i \in 1 .. Len(r) : r[i] = v) <=> (\E k \in Blocking(source) : topo.to[k] = v)
  BY <1>1, <1>2, RunAscends
<1>4. \A i \in 1 .. Len(r) : r[i] \in Nat BY <1>3, ElementOfSeq
<1>5. /\ q \in place .. Len(r) + 1
      /\ \A i \in place .. q - 1 : r[i] < slot
      /\ q <= Len(r) => r[q] >= slot
  <2> DEFINE P == {i \in place .. Len(r) + 1 : i <= Len(r) => r[i] >= slot}
  <2>1. P \subseteq Nat /\ Len(r) + 1 \in P BY <1>1, <1>3
  <2>2. PICK m \in P : \A i \in P : m <= i
    <3> HIDE DEF P
    <3> QED BY <2>1, LeastMember
  <2>3. \A i \in place .. m - 1 : r[i] < slot
    <3> TAKE i \in place .. m - 1
    <3>1. i \in Nat /\ m \in Nat /\ i \in place .. Len(r) + 1 /\ ~(m <= i) /\ i <= Len(r) BY <1>1, <1>3
    <3>2. i \notin P BY <2>2, <3>1
    <3>3. ~(r[i] >= slot) /\ i \in 1 .. Len(r) BY <1>1, <1>3, <3>1, <3>2
    <3> QED BY <1>1, <1>4, <3>3
  <2>4. \E i \in place .. Len(r) + 1 : /\ \A j \in place .. i - 1 : r[j] < slot
                                       /\ i <= Len(r) => r[i] >= slot
    BY <2>2, <2>3
  <2>5. q = CHOOSE i \in place .. Len(r) + 1 : /\ \A j \in place .. i - 1 : r[j] < slot
                                               /\ i <= Len(r) => r[i] >= slot
    BY DEF Advanced
  <2> HIDE DEF q, r
  <2> QED BY <2>4, <2>5
<1> HIDE DEF q, r
<1>6. q \in 1 .. Len(r) + 1 BY <1>1, <1>3, <1>5
<1>7. \A i \in 1 .. q - 1 : r[i] < slot
  <2> TAKE i \in 1 .. q - 1
  <2>1. i \in 1 .. place - 1 \/ i \in place .. q - 1 BY <1>1, <1>6
  <2> QED BY <1>1, <1>5, <2>1
<1>8. ASSUME ~IsConstant(slot)
      PROVE  (q <= Len(r) /\ r[q] = slot) <=> slot \notin Free(source)
  <2>1. slot \in ScanStart(source) .. topo.n - 1 BY <1>1, <1>2 DEF ScanStart
  <2>2. slot \notin Free(source) <=> \E k \in Edges : <<topo.from[k], topo.to[k]>> = <<source, slot>>
    BY <1>8, <2>1 DEF Free
  <2>3. (\E k \in Edges : <<topo.from[k], topo.to[k]>> = <<source, slot>>)
          <=> (\E k \in Blocking(source) : topo.to[k] = slot)
    <3>1. slot \in source + 1 .. topo.n - 1 /\ slot >= topo.inputs BY <1>1, <1>2 DEF ScanStart
    <3>2. \A k \in Edges : <<topo.from[k], topo.to[k]>> = <<source, slot>>
                             <=> k \in Blocking(source) /\ topo.to[k] = slot
      BY <1>2, <3>1 DEF Blocking
    <3>3. Blocking(source) \subseteq Edges BY DEF Blocking
    <3> QED BY <3>2, <3>3
  <2>4. slot \notin Free(source) <=> \E i \in 1 .. Len(r) : r[i] = slot BY <1>3, <2>2, <2>3
  <2>5. ASSUME NEW i \in 1 .. Len(r), r[i] = slot PROVE q <= Len(r) /\ r[q] = slot
    <3>1. ~(i \in 1 .. q - 1) BY <1>1, <1>7, <2>5
    <3>2. q <= i /\ q <= Len(r) /\ q \in 1 .. Len(r) BY <1>3, <1>6, <3>1
    <3>3. r[q] >= slot BY <1>5, <3>2
    <3>4. r[q] <= r[i] BY <1>3, <1>4, <3>2
    <3> QED BY <1>1, <1>4, <2>5, <3>2, <3>3, <3>4
  <2>6. q <= Len(r) => q \in 1 .. Len(r) BY <1>3, <1>6
  <2> QED BY <2>4, <2>5, <2>6
<1> QED BY <1>6, <1>7, <1>8 DEF q, r

\* What a step of the walk has to show.
LEMMA SlotsWalkNext ==
  ASSUME UNCHANGED topo, SlotsWalk, spc' = "walk", capacity' = capacity,
         NEW s \in Neurons, NEW t \in Nat, NEW p, NEW q,
         source' = s, slot' = t, place' = p, available' = q,
         t >= ScanStart(s), p \in 1 .. Len(Run(s)) + 1,
         \A i \in 1 .. p - 1 : Run(s)[i] < t,
         Emitted(q, s, t)
  PROVE  SlotsInv'
<1>1. topo' = topo /\ TopoOK' = TopoOK /\ Scannable' = Scannable /\ Neurons' = Neurons
      /\ CountSlots' = CountSlots
  BY SameSlots
<1>2. ScanStart(source)' = ScanStart(s) /\ Run(source)' = Run(s)
  <2>1. ScanStart(s)' = ScanStart(s) /\ Run(s)' = Run(s) BY SameSlots
  <2>2. ScanStart(source)' = ScanStart(s)' BY DEF ScanStart
  <2>3. Run(source)' = Run(s)'
    <3>1. Blocking(source)' = Blocking(s)' BY DEF Blocking
    <3>2. \A k : Rank(source, k)' = Rank(s, k)' BY <3>1 DEF Rank
    <3>3. \A i : Placed(source, i)' = Placed(s, i)' BY <3>1, <3>2 DEF Placed
    <3> QED BY <3>1, <3>3 DEF Run
  <2> QED BY <2>1, <2>2, <2>3
<1>3. Emitted(available, source, slot)'
  <2>1. Emitted(q, s, t)' BY SameSlots
  <2>2. Free(source)' = Free(s)' BY DEF Free, ScanStart
  <2> QED BY <2>1, <2>2 DEF Emitted, Passed
<1>4. SlotsWalk' BY <1>1, <1>2, <1>3 DEF SlotsWalk
<1> QED BY <1>1, <1>4 DEF SlotsInv, SlotsAreFree, SlotsWalk, Scannable

LEMMA SlotsInduction ==
  ASSUME SlotsInv, UNCHANGED topo, SlotsNext \/ UNCHANGED svars
  PROVE  SlotsInv'
<1>0. TopoOK /\ TopoOK' BY SameSlots DEF SlotsInv
<1>1. CASE RefuseScan
  <2>1. spc' = "done" /\ (Len(topo'.from) = Len(topo'.to) => topo'.n = 0) BY <1>1 DEF RefuseScan
  <2>2. capacity' = 0 /\ available' = <<>> BY <1>1 DEF RefuseScan, SlotsInv
  <2>3. topo'.n = 0 => Neurons' = {} BY DEF Neurons
  <2>4. Len(<<>>) = 0 /\ 1 .. 0 = {} /\ ToSet(<<>>) = {} BY DEF ToSet
  <2>5. SlotsAreFree'
    <3> SUFFICES ASSUME topo'.n = 0 PROVE SlotsAreFree' BY <2>1 DEF SlotsAreFree
    <3>1. {p \in Neurons \X NonInput :
             /\ p[1] < p[2] /\ ~IsConstant(p[2])
             /\ \A k \in Edges : <<topo.from[k], topo.to[k]>> # p}' = {}
      BY <2>3
    <3> QED BY <2>2, <2>4, <3>1 DEF SlotsAreFree
  <2> QED BY <1>0, <2>1, <2>5 DEF SlotsInv
<1>2. CASE StartScan
  <2>1. /\ Scannable /\ topo.n > 0 /\ topo.n \in Nat
        /\ source' = 0 /\ slot' = ScanStart(0) /\ place' = 1 /\ available' = <<>>
        /\ capacity' = CountSlots /\ spc' = "walk"
    BY <1>0, <1>2, SlotTypes DEF StartScan, SlotsInv, Scannable
  <2>2. 0 \in Neurons /\ ScanStart(0) \in Nat /\ ScanStart(0) >= ScanStart(0)
    BY <2>1, SlotTypes DEF Neurons, ScanStart
  <2>3. 1 \in 1 .. Len(Run(0)) + 1 /\ 1 .. 1 - 1 = {} BY <2>1, RunAscends
  <2>4. Emitted(<<>>, 0, ScanStart(0)) BY <2>1, SlotsBegin
  <2>5. SlotsWalk'
    <3>1. /\ Scannable' = Scannable /\ Neurons' = Neurons /\ CountSlots' = CountSlots
          /\ ScanStart(0)' = ScanStart(0) /\ Run(0)' = Run(0) /\ topo' = topo
          /\ Emitted(<<>>, 0, ScanStart(0))'
      BY <2>4, SameSlots
    <3>2. ScanStart(source)' = ScanStart(0) /\ Len(Run(source))' = Len(Run(0))
      <4>1. ScanStart(source)' = ScanStart(0)' BY <2>1 DEF ScanStart
      <4>2. Run(source)' = Run(0)'
        <5>1. Blocking(source)' = Blocking(0)' BY <2>1 DEF Blocking
        <5>2. \A k : Rank(source, k)' = Rank(0, k)' BY <5>1 DEF Rank
        <5>3. \A i : Placed(source, i)' = Placed(0, i)' BY <5>1, <5>2 DEF Placed
        <5> QED BY <5>1, <5>3 DEF Run
      <4> QED BY <3>1, <4>1, <4>2
    <3>3. Emitted(available, source, slot)'
      <4>1. Free(source)' = Free(0)' BY <2>1 DEF Free, ScanStart
      <4>2. slot' = ScanStart(0)' BY <2>1, <3>1
      <4> QED BY <2>1, <3>1, <4>1, <4>2 DEF Emitted, Passed
    <3>4. \A i \in 1 .. place' - 1 : FALSE BY <2>1, <2>3
    <3> QED BY <2>1, <2>2, <2>3, <3>1, <3>2, <3>3, <3>4 DEF SlotsWalk
  <2> QED BY <1>0, <2>1, <2>5 DEF SlotsInv, SlotsAreFree
<1>3. CASE NextSource
  <2>1. /\ SlotsWalk /\ spc' = "walk" /\ slot >= topo.n /\ source + 1 < topo.n
        /\ source' = source + 1 /\ slot' = ScanStart(source + 1) /\ place' = 1
        /\ capacity' = capacity /\ available' = available
    BY <1>3 DEF NextSource, SlotsInv
  <2>2. Scannable /\ source \in Neurons /\ slot \in Nat /\ Emitted(available, source, slot)
    BY <2>1 DEF SlotsWalk
  <2>3. topo.n \in Nat /\ topo.inputs \in Nat /\ source \in Nat BY <2>2, SlotTypes DEF Neurons
  <2>4. source + 1 \in Neurons /\ source + 1 \in Nat /\ ScanStart(source + 1) \in Nat
    BY <2>1, <2>3 DEF Neurons, ScanStart
  <2>5. Emitted(available, source + 1, ScanStart(source + 1)) BY <2>1, <2>2, <2>4, SourceEnds
  <2>6. 1 \in 1 .. Len(Run(source + 1)) + 1 /\ 1 .. 1 - 1 = {} BY <2>2, <2>4, RunAscends
  <2>7. ScanStart(source + 1) >= ScanStart(source + 1) BY <2>4
  <2> QED BY <2>1, <2>4, <2>5, <2>6, <2>7, SlotsWalkNext
<1>4. CASE Candidate
  <2>1. /\ SlotsWalk /\ spc' = "walk" /\ slot < topo.n /\ slot' = slot + 1
        /\ source' = source /\ capacity' = capacity
    BY <1>4 DEF Candidate, SlotsInv
  <2>2. /\ Scannable /\ source \in Neurons /\ slot \in Nat /\ Emitted(available, source, slot)
        /\ slot >= ScanStart(source) /\ place \in 1 .. Len(Run(source)) + 1
        /\ \A i \in 1 .. place - 1 : Run(source)[i] < slot
    BY <2>1 DEF SlotsWalk
  <2>3. topo.n \in Nat /\ topo.inputs \in Nat /\ source \in Nat /\ source < topo.n
    BY <2>2, SlotTypes DEF Neurons
  <2>4. slot + 1 \in Nat /\ ScanStart(source) \in Nat /\ slot + 1 >= ScanStart(source)
    BY <2>2, <2>3 DEF ScanStart
  <2>5. /\ Run(source) \in Seq(Nat) /\ Len(Run(source)) \in Nat BY <2>2, <2>3, RunAscends
  <2>6. \A i \in 1 .. Len(Run(source)) : Run(source)[i] \in Nat BY <2>5, ElementOfSeq
  <2>7. \A m \in 1 .. Len(Run(source)) + 1 :
          (\A i \in 1 .. m - 1 : Run(source)[i] < slot) => \A i \in 1 .. m - 1 : Run(source)[i] < slot + 1
    <3> TAKE m \in 1 .. Len(Run(source)) + 1
    <3>1. \A i \in 1 .. m - 1 : i \in 1 .. Len(Run(source)) BY <2>5
    <3> QED BY <2>2, <2>6, <3>1
  <2>8. CASE IsConstant(slot) /\ UNCHANGED <<place, available>>
    <3>1. slot \notin Free(source) BY <2>8 DEF Free
    <3>2. Emitted(available, source, slot + 1) BY <2>2, <3>1, SlotsSkip
    <3> QED BY <2>1, <2>2, <2>4, <2>7, <2>8, <3>2, SlotsWalkNext
  <2>9. CASE ~IsConstant(slot)
    <3>1. /\ place' = Advanced
          /\ available' = IF Advanced <= Len(Run(source)) /\ Run(source)[Advanced] = slot
                            THEN available ELSE Append(available, <<source, slot>>)
      BY <1>4, <2>9 DEF Candidate
    <3>2. /\ Advanced \in 1 .. Len(Run(source)) + 1
          /\ \A i \in 1 .. Advanced - 1 : Run(source)[i] < slot
          /\ (Advanced <= Len(Run(source)) /\ Run(source)[Advanced] = slot) <=> slot \notin Free(source)
      BY <1>0, <2>1, <2>9, MergeFinds
    <3>3. \A i \in 1 .. Advanced - 1 : Run(source)[i] < slot + 1 BY <2>7, <3>2
    <3>4. Emitted(available', source, slot + 1)
      <4>1. CASE slot \in Free(source)
        <5>1. available' = Append(available, <<source, slot>>) BY <3>1, <3>2, <4>1
        <5> QED BY <2>2, <4>1, <5>1, SlotsEmit
      <4>2. CASE slot \notin Free(source)
        <5>1. available' = available BY <3>1, <3>2, <4>2
        <5> QED BY <2>2, <4>2, <5>1, SlotsSkip
      <4> QED BY <4>1, <4>2
    <3>5. PICK p, q :
            /\ place' = p /\ available' = q /\ p \in 1 .. Len(Run(source)) + 1
            /\ \A i \in 1 .. p - 1 : Run(source)[i] < slot + 1
            /\ Emitted(q, source, slot + 1)
      BY <3>1, <3>2, <3>3, <3>4
    <3> QED BY <2>1, <2>2, <2>4, <3>5, SlotsWalkNext
  <2> QED BY <1>4, <2>8, <2>9 DEF Candidate
<1>5. CASE FinishScan
  <2>1. /\ SlotsWalk /\ spc' = "done" /\ slot >= topo.n /\ source + 1 >= topo.n
        /\ capacity' = capacity /\ available' = available
    BY <1>5 DEF FinishScan, SlotsInv
  <2>2. /\ Scannable /\ source \in Neurons /\ slot \in Nat /\ Emitted(available, source, slot)
        /\ capacity = SlotsBefore[topo.n]
    BY <2>1 DEF SlotsWalk, CountSlots
  <2>3. topo.n \in Nat /\ source \in Nat /\ source + 1 = topo.n
    BY <2>1, <2>2, SlotTypes DEF Neurons
  <2>4. /\ Len(available) = capacity
        /\ ToSet(available) = {p \in Neurons \X NonInput : Open(p) /\ p[1] < topo.n}
    <3>1. /\ Len(available) = SlotsBefore[source + 1]
          /\ ToSet(available) = {p \in Neurons \X NonInput : Open(p) /\ p[1] < source + 1}
      BY <2>1, <2>2, SourceEnds
    <3> QED BY <2>2, <2>3, <3>1
  <2>5. \A p \in Neurons \X NonInput : p[1] < topo.n BY <2>3 DEF Neurons
  <2>6. ToSet(available) = {p \in Neurons \X NonInput : Open(p)} BY <2>4, <2>5
  <2>7. \A i, j \in 1 .. Len(available) : i < j => Later(available[i], available[j])
    BY <2>2 DEF Emitted
  <2>8. /\ topo' = topo /\ Neurons' = Neurons /\ NonInput' = NonInput
        /\ \A p : Open(p)' = Open(p)
    BY SameSlots
  <2>9. ToSet(available') = {p \in Neurons \X NonInput : Open(p)}'
    BY <2>1, <2>6, <2>8
  <2>10. SlotsAreFree'
    BY <2>1, <2>4, <2>7, <2>9 DEF SlotsAreFree, Open, Later, Passed
  <2> QED BY <1>0, <2>1, <2>10 DEF SlotsInv
<1>6. CASE UNCHANGED svars
  <2>1. UNCHANGED <<topo, spc, source, slot, place, capacity, available>> BY <1>6 DEF svars
  <2>2. SlotsAreFree' = SlotsAreFree BY <2>1 DEF SlotsAreFree, Neurons, NonInput, Edges, IsConstant
  <2>3. SlotsWalk' = SlotsWalk
    <3>1. ScanStart(source)' = ScanStart(source) /\ Run(source)' = Run(source)
      <4>1. Blocking(source)' = Blocking(source) BY <2>1 DEF Blocking, Edges
      <4>2. \A k : Rank(source, k)' = Rank(source, k) BY <2>1, <4>1 DEF Rank
      <4>3. \A i : Placed(source, i)' = Placed(source, i) BY <2>1, <4>1, <4>2 DEF Placed
      <4> QED BY <2>1, <4>1, <4>3 DEF Run, ScanStart
    <3>2. Free(source)' = Free(source) BY <2>1 DEF Free, ScanStart, IsConstant, Edges
    <3>3. Emitted(available, source, slot)' = Emitted(available, source, slot)
      <4>1. SlotsBefore' = SlotsBefore /\ Neurons' = Neurons /\ NonInput' = NonInput
            /\ \A p : Open(p)' = Open(p)
        BY SameSlots
      <4> QED BY <2>1, <3>2, <4>1 DEF Emitted, Passed
    <3> QED BY <2>1, <3>1, <3>3, SameSlots DEF SlotsWalk
  <2> QED BY <1>0, <2>1, <2>2, <2>3 DEF SlotsInv
<1> QED BY <1>1, <1>2, <1>3, <1>4, <1>5, <1>6 DEF SlotsNext

-----------------------------------------------------------------------------
(* The operations, each on the buffers of its task.                         *)

LEMMA CycleStarts ==
  ASSUME Init
  PROVE  CycleInv
<1>1. TopoOK
  <2>1. NoTopology \in [from : Seq(Nat), to : Seq(Nat), n : Nat, inputs : Nat,
                        constants : SUBSET Nat]
    BY DEF NoTopology
  <2> QED BY <2>1, TopologiesAssumption DEF Init, TopoOK
<1> QED BY <1>1 DEF Init, CycleInit, CycleInv, VerdictIsTrue

LEMMA OrderStarts ==
  ASSUME Init
  PROVE  OrderInv
<1>1. /\ opc = "start" /\ oat = 0 /\ inEdge = 0 /\ result = <<>> /\ walked = 0
  BY DEF Init, OrderInit
<1>2. Len(<<>>) = 0 /\ 1 .. 0 = {} OBVIOUS
<1>3. ConsumersFirst BY <1>1, <1>2 DEF ConsumersFirst, WalkEnd
<1> QED BY <1>1, <1>3, CycleStarts DEF OrderInv, OrderIsBackward, CycleInv

LEMMA ScanStarts ==
  ASSUME Init
  PROVE  ScanInv
<1>1. BatchOK
  <2>1. CASE batch \in Batches BY <2>1, BatchesAssumption DEF BatchOK
  <2>2. CASE batch = NoBatch
    <3>1. NoBatch \in [from : Seq(Nat), to : Seq(Nat), role : Seq(Nat), typed : BOOLEAN,
                       lengths : Seq(Nat)] /\ ~NoBatch.typed
      BY DEF NoBatch
    <3> QED BY <2>2, <3>1 DEF BatchOK
  <2> QED BY <2>1, <2>2 DEF Init
<1>2. vpc = "next" /\ at = 0 /\ offset = 0 /\ last = NoSynapse /\ verdicts = <<>>
  BY DEF Init, ScanInit
<1>3. Len(verdicts) = 0 /\ verdicts \in Seq(Verdict) /\ Current = 1 BY <1>2 DEF Current
<1>4. 1 .. Len(verdicts) = {} /\ Len(verdicts) <= Len(batch.lengths)
  BY <1>1, <1>3, BatchTypes
<1> QED BY <1>1, <1>2, <1>3, <1>4, Starts DEF ScanInv

LEMMA SlotsStart ==
  ASSUME Init
  PROVE  SlotsInv
<1>1. TopoOK BY CycleStarts DEF CycleInv
<1> QED BY <1>1 DEF Init, SlotsInit, SlotsInv, SlotsAreFree

\* detect_cycles answers 1 just where the non-input neurons hold a cycle.
THEOREM CyclesAreFound == Spec => []VerdictIsTrue
<1>1. Init => CycleInv BY CycleStarts
<1>2. CycleInv /\ [Next]_vars => CycleInv'
  <2> SUFFICES ASSUME CycleInv, [Next]_vars PROVE CycleInv' OBVIOUS
  <2>1. UNCHANGED topo /\ (CycleNext \/ UNCHANGED cvars) BY DEF Next, vars
  <2> QED BY <2>1, CycleInduction
<1>3. CycleInv => VerdictIsTrue BY DEF CycleInv
<1> QED BY <1>1, <1>2, <1>3, PTL DEF Spec

\* The backward order has every consumer first, and every neuron once.
THEOREM ConsumersComeFirst == Spec => []OrderIsBackward
<1>1. Init => OrderInv BY OrderStarts
<1>2. OrderInv /\ [Next]_vars => OrderInv'
  <2> SUFFICES ASSUME OrderInv, [Next]_vars PROVE OrderInv' OBVIOUS
  <2>1. UNCHANGED topo /\ (OrderNext \/ UNCHANGED ovars) BY DEF Next, vars
  <2> QED BY <2>1, OrderInduction
<1>3. OrderInv => OrderIsBackward BY DEF OrderInv
<1> QED BY <1>1, <1>2, <1>3, PTL DEF Spec

\* Each verdict of the ordering gate is that of the topology's own slice.
THEOREM GateIsLocal == Spec => []VerdictsAreLocal
<1>1. Init => ScanInv BY ScanStarts
<1>2. ScanInv /\ [Next]_vars => ScanInv'
  <2> SUFFICES ASSUME ScanInv, [Next]_vars PROVE ScanInv' OBVIOUS
  <2>1. ScanNext \/ UNCHANGED scanvars BY DEF Next, vars
  <2> QED BY <2>1, ScanInduction
<1>3. ScanInv => VerdictsAreLocal BY DEF ScanInv, Local, VerdictsAreLocal
<1> QED BY <1>1, <1>2, <1>3, PTL DEF Spec

\* The slots counted are the slots emitted, and they are the open pairs.
THEOREM SlotsAreAlwaysFree == Spec => []SlotsAreFree
<1>1. Init => SlotsInv BY SlotsStart
<1>2. SlotsInv /\ [Next]_vars => SlotsInv'
  <2> SUFFICES ASSUME SlotsInv, [Next]_vars PROVE SlotsInv' OBVIOUS
  <2>1. UNCHANGED topo /\ (SlotsNext \/ UNCHANGED svars) BY DEF Next, vars
  <2> QED BY <2>1, SlotsInduction
<1>3. SlotsInv => SlotsAreFree BY DEF SlotsInv
<1> QED BY <1>1, <1>2, <1>3, PTL DEF Spec
=============================================================================
