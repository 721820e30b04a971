--------------------------- MODULE CreatureProofs ---------------------------
(***************************************************************************)
(* Proofs about creature validation (CreatureRules, CreatureValidate) and   *)
(* compilation (IfGraft), in sessions of validating, editing and grafting,  *)
(* for every host the assumptions allow.                                    *)
(***************************************************************************)
EXTENDS IfGraft, Iteration, SequenceTheorems, FiniteSetTheorems, FunctionTheorems

-----------------------------------------------------------------------------
(* Lists of rules *)

LEMMA FirstBrokenIs ==
  ASSUME NEW N, "ok" \notin N, NEW rules \in Seq(N \X BOOLEAN)
  PROVE  /\ FirstBroken(rules) = "ok" <=> \A i \in 1 .. Len(rules) : ~rules[i][2]
         /\ FirstBroken(rules) # "ok" =>
              \E i \in 1 .. Len(rules) : rules[i][2] /\ FirstBroken(rules) = rules[i][1]
         /\ FirstBroken(rules) \in N \cup {"ok"}
<1> DEFINE n == Len(rules)
           Broken == {i \in 1 .. n : rules[i][2]}
           First(i) == rules[i][2] /\ \A j \in 1 .. i - 1 : ~rules[j][2]
           c == CHOOSE i \in 1 .. n : First(i)
<1>1. n \in Nat /\ \A i \in 1 .. n : rules[i] \in N \X BOOLEAN BY LenProperties, ElementOfSeq
<1>2. \A i \in 1 .. n : rules[i][1] \in N /\ rules[i][1] # "ok" BY <1>1
<1>3. CASE Broken = {}
  <2>1. \A i \in 1 .. n : ~rules[i][2] BY <1>3
  <2>2. FirstBroken(rules) = "ok" BY <2>1 DEF FirstBroken
  <2> QED BY <2>1, <2>2
<1>4. CASE Broken # {}
  <2>1. Broken \in SUBSET Nat BY <1>1
  <2>2. PICK m \in Broken : \A k \in Broken : m <= k
    <3> HIDE DEF Broken
    <3> QED BY <1>4, <2>1, LeastMember
  <2>3. m \in 1 .. n /\ First(m)
    <3>1. \A j \in 1 .. m - 1 : j \in 1 .. n /\ ~(m <= j) BY <1>1, <2>2
    <3> QED BY <2>2, <3>1
  <2>4. c \in 1 .. n /\ First(c)
    <3> HIDE DEF First
    <3> QED BY <2>3
  <2>5. FirstBroken(rules) = rules[c][1] BY <2>3 DEF FirstBroken
  <2> HIDE DEF c
  <2> QED BY <1>2, <2>4, <2>5
<1> QED BY <1>3, <1>4

LEMMA RulesJoined ==
  ASSUME NEW N, NEW a \in Seq(N), NEW b \in Seq(N)
  PROVE  /\ a \o b \in Seq(N) /\ Len(a \o b) = Len(a) + Len(b)
         /\ \A i \in 1 .. Len(a) : i \in 1 .. Len(a \o b) /\ (a \o b)[i] = a[i]
         /\ \A i \in 1 .. Len(b) : Len(a) + i \in 1 .. Len(a \o b) /\ (a \o b)[Len(a) + i] = b[i]
<1>1. Len(a) \in Nat /\ Len(b) \in Nat BY LenProperties
<1>2. /\ a \o b \in Seq(N) /\ Len(a \o b) = Len(a) + Len(b)
      /\ \A i \in 1 .. Len(a) + Len(b) : (a \o b)[i] = IF i <= Len(a) THEN a[i] ELSE b[i - Len(a)]
  BY ConcatProperties
<1>3. ASSUME NEW i \in 1 .. Len(a) PROVE i \in 1 .. Len(a \o b) /\ (a \o b)[i] = a[i]
  <2>1. i \in 1 .. Len(a) + Len(b) /\ i <= Len(a) BY <1>1
  <2> QED BY <1>2, <2>1
<1>4. ASSUME NEW i \in 1 .. Len(b) PROVE Len(a) + i \in 1 .. Len(a \o b) /\ (a \o b)[Len(a) + i] = b[i]
  <2>1. Len(a) + i \in 1 .. Len(a) + Len(b) /\ ~(Len(a) + i <= Len(a)) /\ Len(a) + i - Len(a) = i BY <1>1
  <2> QED BY <1>2, <2>1
<1> QED BY <1>2, <1>3, <1>4

LEMMA JoinedAt ==
  ASSUME NEW U, NEW a \in Seq(U), NEW b \in Seq(U), NEW m, NEW n, Len(a) = m, Len(b) = n
  PROVE  /\ a \o b \in Seq(U) /\ Len(a \o b) = m + n
         /\ \A i \in 1 .. m : (a \o b)[i] = a[i]
         /\ \A i \in 1 .. n : (a \o b)[m + i] = b[i]
<1>1. a \o b \in Seq(U) /\ Len(a \o b) = Len(a) + Len(b) BY RulesJoined
<1>2. \A i \in 1 .. Len(a) : (a \o b)[i] = a[i] BY RulesJoined
<1>3. \A i \in 1 .. Len(b) : (a \o b)[Len(a) + i] = b[i] BY RulesJoined
<1> DEFINE ab == a \o b
<1> HIDE DEF ab
<1>4. /\ ab \in Seq(U) /\ Len(ab) = Len(a) + Len(b)
      /\ \A i \in 1 .. Len(a) : ab[i] = a[i]
      /\ \A i \in 1 .. Len(b) : ab[Len(a) + i] = b[i]
  BY <1>1, <1>2, <1>3 DEF ab
<1>5. /\ ab \in Seq(U) /\ Len(ab) = m + n
      /\ \A i \in 1 .. m : ab[i] = a[i]
      /\ \A i \in 1 .. n : ab[m + i] = b[i]
  BY <1>4
<1> QED BY <1>5 DEF ab

\* A list that is unbroken is unbroken in each of its parts.
LEMMA PartsUnbroken ==
  ASSUME NEW N, "ok" \notin N, NEW a \in Seq(N \X BOOLEAN), NEW b \in Seq(N \X BOOLEAN)
  PROVE  /\ a \o b \in Seq(N \X BOOLEAN)
         /\ FirstBroken(a \o b) = "ok" => FirstBroken(a) = "ok" /\ FirstBroken(b) = "ok"
<1> DEFINE R == N \X BOOLEAN
           ab == a \o b
<1>1. /\ ab \in Seq(R)
      /\ \A i \in 1 .. Len(a) : i \in 1 .. Len(ab) /\ ab[i] = a[i]
      /\ \A i \in 1 .. Len(b) : Len(a) + i \in 1 .. Len(ab) /\ ab[Len(a) + i] = b[i]
  <2> HIDE DEF R
  <2>1. a \in Seq(R) /\ b \in Seq(R) BY DEF R
  <2> QED BY <2>1, RulesJoined
<1> HIDE DEF ab
<1>2. ASSUME FirstBroken(ab) = "ok" PROVE FirstBroken(a) = "ok" /\ FirstBroken(b) = "ok"
  <2>1. \A i \in 1 .. Len(ab) : ~ab[i][2] BY <1>1, <1>2, FirstBrokenIs
  <2>2. \A i \in 1 .. Len(a) : ~a[i][2] BY <1>1, <2>1
  <2>3. \A i \in 1 .. Len(b) : ~b[i][2] BY <1>1, <2>1
  <2> QED BY <2>2, <2>3, FirstBrokenIs
<1> QED BY <1>1, <1>2 DEF ab, R

-----------------------------------------------------------------------------
(* The packed request *)

LEMMA DecodeReadsInside ==
  ASSUME NEW b, b.bytes \in Nat, b.neurons \in Nat, b.synapses \in Nat, ~DecodeFails(b)
  PROVE  ReadsStayInside(b)
<1> DEFINE n == b.neurons
           s == b.synapses
           d == (HeaderBytes + n * 19 + 3) \div 4
           S == Sections(n, s)
<1>1. n \in Nat /\ s \in Nat /\ b.bytes = SynapsesAt(n) + s * 9 BY DEF DecodeFails, LenWide
<1>2. SynapsesAt(n) = d * 4 BY DEF SynapsesAt, RoundUp4
<1> HIDE DEF n, s
<1>3. d \in Nat /\ d * 4 >= HeaderBytes + n * 19 /\ (d * 4) % 4 = 0
  <2> DEFINE x == HeaderBytes + n * 19 + 3
  <2>1. x \in Nat BY <1>1 DEF HeaderBytes
  <2> HIDE DEF x
  <2>2. x \div 4 \in Nat /\ (x \div 4) * 4 >= x - 3 /\ ((x \div 4) * 4) % 4 = 0 BY <2>1
  <2> QED BY <1>1, <2>2 DEF x, HeaderBytes
<1> HIDE DEF d
<1> DEFINE z == d * 4
<1>4. z \in Nat /\ z >= 48 + n * 19 /\ z % 4 = 0 BY <1>3 DEF HeaderBytes
<1>5. SynapsesAt(n) = z /\ b.bytes = z + s * 9 BY <1>1, <1>2
<1> HIDE DEF z
<1>6. /\ Len(S) = 8 + 1
      /\ S[1] = [at |-> 0, size |-> 48] /\ S[2] = [at |-> 48, size |-> n * 8]
      /\ S[3] = [at |-> 48 + n * 8, size |-> n * 8] /\ S[4] = [at |-> 48 + n * 16, size |-> n]
      /\ S[5] = [at |-> 48 + n * 17, size |-> n] /\ S[6] = [at |-> 48 + n * 18, size |-> n]
      /\ S[7] = [at |-> z, size |-> s * 4] /\ S[8] = [at |-> z + s * 4, size |-> s * 4]
      /\ S[9] = [at |-> z + s * 8, size |-> s]
  BY <1>5 DEF Sections, HeaderBytes
<1> HIDE DEF S
<1>7. \A i \in 1 .. Len(S) : S[i].at + S[i].size <= b.bytes
  <2>1. Len(S) = 9 BY <1>6
  <2> SUFFICES ASSUME NEW i \in 1 .. 9 PROVE S[i].at + S[i].size <= b.bytes BY <2>1
  <2>2. i = 1 \/ i = 2 \/ i = 3 \/ i = 4 \/ i = 5 \/ i = 6 \/ i = 7 \/ i = 8 \/ i = 9 OBVIOUS
  <2> QED BY <1>1, <1>4, <1>5, <1>6, <2>2
<1>8. \A i \in 1 .. Len(S) - 1 : S[i].at + S[i].size <= S[i + 1].at
  <2>1. Len(S) - 1 = 8 BY <1>6
  <2> SUFFICES ASSUME NEW i \in 1 .. 8 PROVE S[i].at + S[i].size <= S[i + 1].at BY <2>1
  <2>2. i = 1 \/ i = 2 \/ i = 3 \/ i = 4 \/ i = 5 \/ i = 6 \/ i = 7 \/ i = 8 OBVIOUS
  <2> QED BY <1>1, <1>4, <1>5, <1>6, <2>2
<1>9. S[7].at % 4 = 0 BY <1>4, <1>6
<1> QED BY <1>7, <1>8, <1>9 DEF ReadsStayInside, S, n, s

-----------------------------------------------------------------------------
(* What passing a rule says of a request                                    *)

KindOfPlace(r, i) == r.views[i + 1].kind

NeuronFine(r, i) ==
  LET v == r.views[i + 1] IN
  /\ v.kind \in {"input", "constant", "hidden", "output"}
  /\ v.kind # "input" => v.bias = "finite"
  /\ v.kind = "input" => i <= r.input
  /\ v.kind \in {"input", "constant"} => InwardSynapses(r.syn, i) = {}
  /\ v.kind = "hidden" => InwardSynapses(r.syn, i) # {} /\ OutwardSynapses(r.syn, i) # {}
  /\ v.kind = "constant" => v.squash = "none"
  /\ v.squash = "IF" /\ i > 2 => IfFault(r.syn, i) = "none"

NeuronRuleNames == {"4", "5", "6", "7", "8", "9", "10", "11", "12", "13", "14", "15", "16", "17", "18", "19", "20"}

LEMMA NeuronPasses ==
  ASSUME NEW r, NEW w, NEW i \in Nat, NeuronVerdict(r, w, i) = "ok", r.input \in Nat, w.outputs \in Nat,
         r.views[i + 1].kind \in {"input", "constant", "hidden", "output", "invalid"}
  PROVE  NeuronFine(r, i) /\ (r.views[i + 1].kind # "output" => w.outputs = 0)
<1> DEFINE v == r.views[i + 1]
           N == NeuronRuleNames
           R == N \X BOOLEAN
           a == IdRules(w, v, i)
           b == OrderRules(r, w, v, i)
           c == KindRules(r, v, i)
<1>1. "ok" \notin N BY DEF NeuronRuleNames
<1>2. /\ <<"4", v.idKind = "none">> \in R
      /\ <<"5", v.idKind = "fraction" \/ (v.idKind = "integer" /\ v.id > MaxNeuronId)>> \in R
      /\ <<"6", v.idKind = "integer" /\ v.id \in w.ids>> \in R
      /\ <<"7", v.kind = "input" /\ v.id # i>> \in R
      /\ <<"8", v.kind # "input" /\ v.bias # "finite">> \in R
  BY DEF NeuronRuleNames
<1>3. /\ <<"9", v.kind # "output" /\ w.outputs > 0>> \in R
      /\ <<"10", v.kind = "input" /\ i > r.input>> \in R
      /\ <<"11", InSlice(r, i) /\ v.kind = "constant" /\ w.seenHidden>> \in R
      /\ <<"12", BreaksIf(r, i)>> \in R
  BY DEF NeuronRuleNames, BreaksIf
<1>4. /\ <<"13", v.kind = "input" /\ InwardSynapses(r.syn, i) # {}>> \in R
      /\ <<"14", v.kind = "constant" /\ InwardSynapses(r.syn, i) # {}>> \in R
      /\ <<"15", v.kind = "constant" /\ v.squash # "none">> \in R
      /\ <<"16", v.kind = "constant" /\ OutwardSynapses(r.syn, i) = {}>> \in R
      /\ <<"17", v.kind = "hidden" /\ HiddenWiringFault(r.syn, i) = "NO_INWARD">> \in R
      /\ <<"18", v.kind = "hidden" /\ HiddenWiringFault(r.syn, i) = "NO_OUTWARD">> \in R
      /\ <<"19", v.kind = "hidden" /\ v.bias # "finite">> \in R
      /\ <<"20", v.kind = "invalid">> \in R
  BY DEF NeuronRuleNames
<1>5. /\ a \in Seq(R) /\ Len(a) = 5
      /\ a[5][2] = (v.kind # "input" /\ v.bias # "finite")
  <2> HIDE DEF R, v
  <2> QED BY <1>2 DEF IdRules
<1>6. /\ b \in Seq(R) /\ Len(b) = 4
      /\ b[1][2] = (v.kind # "output" /\ w.outputs > 0)
      /\ b[2][2] = (v.kind = "input" /\ i > r.input)
      /\ b[4][2] = BreaksIf(r, i)
  <2> HIDE DEF R, v
  <2> QED BY <1>3 DEF OrderRules
<1>7. /\ c \in Seq(R) /\ Len(c) = 8
      /\ c[1][2] = (v.kind = "input" /\ InwardSynapses(r.syn, i) # {})
      /\ c[2][2] = (v.kind = "constant" /\ InwardSynapses(r.syn, i) # {})
      /\ c[3][2] = (v.kind = "constant" /\ v.squash # "none")
      /\ c[5][2] = (v.kind = "hidden" /\ HiddenWiringFault(r.syn, i) = "NO_INWARD")
      /\ c[6][2] = (v.kind = "hidden" /\ HiddenWiringFault(r.syn, i) = "NO_OUTWARD")
      /\ c[8][2] = (v.kind = "invalid")
  <2> HIDE DEF R, v
  <2> QED BY <1>4 DEF KindRules
<1> HIDE DEF a, b, c, N
<1>8. FirstBroken((a \o b) \o c) = "ok" BY DEF NeuronVerdict, a, b, c
<1>9. a \o b \in Seq(R) BY <1>1, <1>5, <1>6, PartsUnbroken
<1>10. FirstBroken(a \o b) = "ok" /\ FirstBroken(c) = "ok"
  <2> DEFINE ab == a \o b
  <2>1. ab \in Seq(R) /\ FirstBroken(ab \o c) = "ok" BY <1>8, <1>9
  <2>2. c \in Seq(R) BY <1>7
  <2> HIDE DEF ab
  <2>3. FirstBroken(ab) = "ok" /\ FirstBroken(c) = "ok" BY <1>1, <2>1, <2>2, PartsUnbroken
  <2> QED BY <2>3 DEF ab
<1>11. FirstBroken(a) = "ok" /\ FirstBroken(b) = "ok" BY <1>1, <1>5, <1>6, <1>10, PartsUnbroken
<1>12. /\ \A k \in 1 .. Len(a) : ~a[k][2]
       /\ \A k \in 1 .. Len(b) : ~b[k][2]
       /\ \A k \in 1 .. Len(c) : ~c[k][2]
  BY <1>1, <1>5, <1>6, <1>7, <1>10, <1>11, FirstBrokenIs
<1>13. /\ ~a[5][2] /\ ~b[1][2] /\ ~b[2][2] /\ ~b[4][2]
       /\ ~c[1][2] /\ ~c[2][2] /\ ~c[3][2] /\ ~c[5][2] /\ ~c[6][2] /\ ~c[8][2]
  <2>1. /\ 5 \in 1 .. Len(a) /\ 1 \in 1 .. Len(b) /\ 2 \in 1 .. Len(b) /\ 4 \in 1 .. Len(b)
        /\ 1 \in 1 .. Len(c) /\ 2 \in 1 .. Len(c) /\ 3 \in 1 .. Len(c) /\ 5 \in 1 .. Len(c)
        /\ 6 \in 1 .. Len(c) /\ 8 \in 1 .. Len(c)
    BY <1>5, <1>6, <1>7
  <2> QED BY <1>12, <2>1
<1>14. /\ v.kind \in {"input", "constant", "hidden", "output"}
       /\ v.kind # "input" => v.bias = "finite"
       /\ v.kind = "input" => i <= r.input
       /\ v.kind \in {"input", "constant"} => InwardSynapses(r.syn, i) = {}
       /\ v.kind = "constant" => v.squash = "none"
       /\ v.kind # "output" => w.outputs = 0
  <2>1. v.kind # "invalid" BY <1>7, <1>13
  <2>2. v.kind # "input" => v.bias = "finite" BY <1>5, <1>13
  <2>3. v.kind = "input" => ~(i > r.input) BY <1>6, <1>13
  <2>4. v.kind \in {"input", "constant"} => InwardSynapses(r.syn, i) = {} BY <1>7, <1>13
  <2>5. v.kind = "constant" => v.squash = "none" BY <1>7, <1>13
  <2>6. v.kind # "output" => ~(w.outputs > 0) BY <1>6, <1>13
  <2> QED BY <2>1, <2>2, <2>3, <2>4, <2>5, <2>6
<1>15. v.kind = "hidden" => InwardSynapses(r.syn, i) # {} /\ OutwardSynapses(r.syn, i) # {}
  <2> SUFFICES ASSUME v.kind = "hidden"
               PROVE  InwardSynapses(r.syn, i) # {} /\ OutwardSynapses(r.syn, i) # {}
    OBVIOUS
  <2>1. HiddenWiringFault(r.syn, i) # "NO_INWARD" /\ HiddenWiringFault(r.syn, i) # "NO_OUTWARD"
    BY <1>7, <1>13
  <2> QED BY <2>1 DEF HiddenWiringFault
<1>16. v.squash = "IF" /\ i > 2 => IfFault(r.syn, i) = "none" BY <1>6, <1>13 DEF BreaksIf
<1> QED BY <1>14, <1>15, <1>16 DEF NeuronFine

LEMMA NeuronRefused ==
  ASSUME NEW r, NEW w, NEW i \in Nat, NeuronVerdict(r, w, i) # "ok"
  PROVE  NeuronVerdict(r, w, i) \in NeuronRuleNames
<1> DEFINE v == r.views[i + 1]
           N == NeuronRuleNames
           R == N \X BOOLEAN
           a == IdRules(w, v, i)
           b == OrderRules(r, w, v, i)
           c == KindRules(r, v, i)
<1>1. "ok" \notin N BY DEF NeuronRuleNames
<1>2. /\ <<"4", v.idKind = "none">> \in R
      /\ <<"5", v.idKind = "fraction" \/ (v.idKind = "integer" /\ v.id > MaxNeuronId)>> \in R
      /\ <<"6", v.idKind = "integer" /\ v.id \in w.ids>> \in R
      /\ <<"7", v.kind = "input" /\ v.id # i>> \in R
      /\ <<"8", v.kind # "input" /\ v.bias # "finite">> \in R
  BY DEF NeuronRuleNames
<1>3. /\ <<"9", v.kind # "output" /\ w.outputs > 0>> \in R
      /\ <<"10", v.kind = "input" /\ i > r.input>> \in R
      /\ <<"11", InSlice(r, i) /\ v.kind = "constant" /\ w.seenHidden>> \in R
      /\ <<"12", BreaksIf(r, i)>> \in R
  BY DEF NeuronRuleNames, BreaksIf
<1>4. /\ <<"13", v.kind = "input" /\ InwardSynapses(r.syn, i) # {}>> \in R
      /\ <<"14", v.kind = "constant" /\ InwardSynapses(r.syn, i) # {}>> \in R
      /\ <<"15", v.kind = "constant" /\ v.squash # "none">> \in R
      /\ <<"16", v.kind = "constant" /\ OutwardSynapses(r.syn, i) = {}>> \in R
      /\ <<"17", v.kind = "hidden" /\ HiddenWiringFault(r.syn, i) = "NO_INWARD">> \in R
      /\ <<"18", v.kind = "hidden" /\ HiddenWiringFault(r.syn, i) = "NO_OUTWARD">> \in R
      /\ <<"19", v.kind = "hidden" /\ v.bias # "finite">> \in R
      /\ <<"20", v.kind = "invalid">> \in R
  BY DEF NeuronRuleNames
<1>5. a \in Seq(R) /\ b \in Seq(R) /\ c \in Seq(R)
  <2> HIDE DEF R, v
  <2>1. a \in Seq(R) BY <1>2 DEF IdRules
  <2>2. b \in Seq(R) BY <1>3 DEF OrderRules
  <2>3. c \in Seq(R) BY <1>4 DEF KindRules
  <2> QED BY <2>1, <2>2, <2>3
<1> HIDE DEF a, b, c, N
<1>6. (a \o b) \o c \in Seq(R)
  <2> DEFINE ab == a \o b
  <2>1. ab \in Seq(R) BY <1>1, <1>5, PartsUnbroken
  <2> HIDE DEF ab
  <2>2. ab \o c \in Seq(R) BY <1>1, <1>5, <2>1, PartsUnbroken
  <2> QED BY <2>2 DEF ab
<1>7. NeuronVerdict(r, w, i) \in N \cup {"ok"} BY <1>1, <1>6, FirstBrokenIs DEF NeuronVerdict, a, b, c
<1> QED BY <1>7 DEF N

\* l stands in front of s, in the order of the walk.
Follows(l, s) ==
  \/ l.from < s.from
  \/ l.from = s.from /\ l.to < s.to
  \/ l.from = s.from /\ l.to = s.to /\ l.role < s.role

LastOf(r, k) == IF k = 1 THEN NoSynapse ELSE r.syn[k - 1]

SynapseFine(r, k) ==
  LET s == r.syn[k]
      l == LastOf(r, k)
  IN /\ r.views[s.to + 1].kind # "input"
     /\ r.options.forwardOnly => s.from < s.to
     /\ Follows(l, s)
     /\ l.from = s.from /\ l.to = s.to => r.views[s.to + 1].squash = "IF"

Synapses == [from : Int, to : Int, role : 0 .. 3]
SynapseRuleNames == {"23", "24", "25", "26", "26b", "27"}

LEMMA SynapsePasses ==
  ASSUME NEW r, NEW k \in Nat \ {0}, SynapseVerdict(r, LastOf(r, k), r.syn[k]) = "ok",
         r.syn[k] \in Synapses, LastOf(r, k) \in Synapses, r.options.forwardOnly \in BOOLEAN
  PROVE  SynapseFine(r, k)
<1> DEFINE s == r.syn[k]
           l == LastOf(r, k)
           N == SynapseRuleNames
           R == N \X BOOLEAN
           a == << <<"23", r.views[s.to + 1].kind = "input">>,
                   <<"24", r.options.forwardOnly /\ s.from = s.to>>,
                   <<"25", OutOfOrder(l, s)>>,
                   <<"26", SamePair(l, s) /\ s.role = l.role>>,
                   <<"26b", RepeatsIntoPlain(r, l, s)>>,
                   <<"27", s.from > s.to /\ RejectsRecursive(r.options)>> >>
<1>1. "ok" \notin N BY DEF SynapseRuleNames
<1>2. /\ <<"23", r.views[s.to + 1].kind = "input">> \in R
      /\ <<"24", r.options.forwardOnly /\ s.from = s.to>> \in R
      /\ <<"25", OutOfOrder(l, s)>> \in R
      /\ <<"26", SamePair(l, s) /\ s.role = l.role>> \in R
      /\ <<"26b", RepeatsIntoPlain(r, l, s)>> \in R
      /\ <<"27", s.from > s.to /\ RejectsRecursive(r.options)>> \in R
  BY DEF SynapseRuleNames, OutOfOrder, RepeatsIntoPlain
<1>3. /\ a \in Seq(R) /\ Len(a) = 6
      /\ a[1][2] = (r.views[s.to + 1].kind = "input")
      /\ a[2][2] = (r.options.forwardOnly /\ s.from = s.to)
      /\ a[3][2] = OutOfOrder(l, s)
      /\ a[4][2] = (SamePair(l, s) /\ s.role = l.role)
      /\ a[5][2] = RepeatsIntoPlain(r, l, s)
      /\ a[6][2] = (s.from > s.to /\ RejectsRecursive(r.options))
  <2> HIDE DEF R, s
  <2> QED BY <1>2
<1>4. FirstBroken(a) = "ok" BY DEF SynapseVerdict
<1> HIDE DEF a, N, s
<1>5. \A j \in 1 .. Len(a) : ~a[j][2] BY <1>1, <1>3, <1>4, FirstBrokenIs
<1>6. ~a[1][2] /\ ~a[2][2] /\ ~a[3][2] /\ ~a[4][2] /\ ~a[5][2] /\ ~a[6][2]
  <2>1. 1 \in 1 .. Len(a) /\ 2 \in 1 .. Len(a) /\ 3 \in 1 .. Len(a) /\ 4 \in 1 .. Len(a)
        /\ 5 \in 1 .. Len(a) /\ 6 \in 1 .. Len(a)
    BY <1>3
  <2> QED BY <1>5, <2>1
<1>7. /\ r.views[s.to + 1].kind # "input"
      /\ ~(r.options.forwardOnly /\ s.from = s.to)
      /\ ~OutOfOrder(l, s)
      /\ ~(SamePair(l, s) /\ s.role = l.role)
      /\ ~RepeatsIntoPlain(r, l, s)
      /\ ~(s.from > s.to /\ RejectsRecursive(r.options))
  BY <1>3, <1>6
<1>8. /\ s.from \in Int /\ s.to \in Int /\ s.role \in Int /\ l.from \in Int /\ l.to \in Int /\ l.role \in Int
  BY DEF Synapses, s
<1>9. Follows(l, s)
  <2>1. ~(s.from < l.from) /\ ~(s.from = l.from /\ s.to < l.to) BY <1>7 DEF OutOfOrder
  <2>2. s.from = l.from /\ s.to = l.to => ~(s.role < l.role) /\ s.role # l.role BY <1>7 DEF OutOfOrder, SamePair
  <2> QED BY <1>8, <2>1, <2>2 DEF Follows
<1>10. l.from = s.from /\ l.to = s.to => r.views[s.to + 1].squash = "IF"
  BY <1>7 DEF RepeatsIntoPlain, SamePair
<1>11. r.options.forwardOnly => s.from < s.to
  <2> SUFFICES ASSUME r.options.forwardOnly PROVE s.from < s.to OBVIOUS
  <2>1. RejectsRecursive(r.options) BY DEF RejectsRecursive, ResolvedFeedback
  <2>2. s.from # s.to /\ ~(s.from > s.to) BY <1>7, <2>1
  <2> QED BY <1>8, <2>2
<1> QED BY <1>7, <1>9, <1>10, <1>11 DEF SynapseFine, s

LEMMA SynapseRefused ==
  ASSUME NEW r, NEW l, NEW s, SynapseVerdict(r, l, s) # "ok"
  PROVE  SynapseVerdict(r, l, s) \in SynapseRuleNames
<1> DEFINE N == SynapseRuleNames
           R == N \X BOOLEAN
           a == << <<"23", r.views[s.to + 1].kind = "input">>,
                   <<"24", r.options.forwardOnly /\ s.from = s.to>>,
                   <<"25", OutOfOrder(l, s)>>,
                   <<"26", SamePair(l, s) /\ s.role = l.role>>,
                   <<"26b", RepeatsIntoPlain(r, l, s)>>,
                   <<"27", s.from > s.to /\ RejectsRecursive(r.options)>> >>
<1>1. "ok" \notin N BY DEF SynapseRuleNames
<1>2. /\ <<"23", r.views[s.to + 1].kind = "input">> \in R
      /\ <<"24", r.options.forwardOnly /\ s.from = s.to>> \in R
      /\ <<"25", OutOfOrder(l, s)>> \in R
      /\ <<"26", SamePair(l, s) /\ s.role = l.role>> \in R
      /\ <<"26b", RepeatsIntoPlain(r, l, s)>> \in R
      /\ <<"27", s.from > s.to /\ RejectsRecursive(r.options)>> \in R
  BY DEF SynapseRuleNames, OutOfOrder, RepeatsIntoPlain
<1>5. a \in Seq(R)
  <2> HIDE DEF R
  <2> QED BY <1>2
<1>3. SynapseVerdict(r, l, s) = FirstBroken(a) BY DEF SynapseVerdict
<1> HIDE DEF a, N
<1>4. SynapseVerdict(r, l, s) \in N \cup {"ok"} BY <1>1, <1>5, <1>3, FirstBrokenIs
<1> QED BY <1>4 DEF N

-----------------------------------------------------------------------------
(* The walk                                                                  *)

Kinds == {"input", "constant", "hidden", "output", "invalid"}

IsRequest(r) ==
  /\ Len(r.views) \in Nat /\ \A v \in 1 .. Len(r.views) : r.views[v].kind \in Kinds
  /\ Len(r.syn) \in Nat /\ \A k \in 1 .. Len(r.syn) : r.syn[k] \in Synapses
  /\ \A k \in 1 .. Len(r.syn) : /\ r.syn[k].from \in 0 .. Len(r.views) - 1
                                /\ r.syn[k].to \in 0 .. Len(r.views) - 1
  /\ r.input \in Nat \ {0} /\ r.output \in Nat
  /\ r.options.forwardOnly \in BOOLEAN

OfKind(r, n, kind) == {i \in 0 .. n - 1 : r.views[i + 1].kind = kind}
InputsBefore(r, n) == OfKind(r, n, "input")

IsWalk(w) ==
  /\ DOMAIN w = {"ids", "outputs", "seenHidden", "last", "stats"}
  /\ DOMAIN w.stats = {"input", "constant", "hidden", "output", "connections"}

\* Each neuron behind the walk is fine, and the outputs stand last.
NeuronsWalked ==
  /\ IsWalk(walk)
  /\ place \in 0 .. Len(req.views) /\ walk.outputs \in 0 .. place /\ walk.last = NoSynapse
  /\ walk.stats["output"] = walk.outputs
  /\ walk.stats["input"] = Cardinality(InputsBefore(req, place))
  /\ \A i \in 0 .. place - 1 :
       NeuronFine(req, i) /\ (req.views[i + 1].kind = "output" <=> i >= place - walk.outputs)

Placed(r) ==
  /\ \A i \in 0 .. Len(r.views) - 1 :
       NeuronFine(r, i) /\ (r.views[i + 1].kind = "output" <=> i >= Len(r.views) - r.output)
  /\ r.output <= Len(r.views)
  /\ Cardinality(InputsBefore(r, Len(r.views))) = r.input

SynapsesWalked ==
  /\ IsWalk(walk) /\ Placed(req)
  /\ place \in 0 .. Len(req.syn) /\ walk.last = LastOf(req, place + 1)
  /\ \A k \in 1 .. place : SynapseFine(req, k)

LEMMA KindCounted ==
  ASSUME NEW r, NEW n \in Nat, NEW kind
  PROVE  /\ IsFiniteSet(OfKind(r, n, kind)) /\ Cardinality(OfKind(r, n, kind)) \in Nat
         /\ Cardinality(OfKind(r, n + 1, kind)) =
              IF r.views[n + 1].kind = kind THEN Cardinality(OfKind(r, n, kind)) + 1
              ELSE Cardinality(OfKind(r, n, kind))
<1> DEFINE A == OfKind(r, n, kind)
           B == OfKind(r, n + 1, kind)
<1>1. IsFiniteSet(A) /\ Cardinality(A) \in Nat
  <2>1. A \in SUBSET (0 .. n - 1) BY DEF OfKind
  <2>2. IsFiniteSet(0 .. n - 1) BY FS_Interval
  <2> QED BY <2>1, <2>2, FS_Subset, FS_CardinalityType
<1>2. n \notin A BY DEF OfKind
<1>3. B = IF r.views[n + 1].kind = kind THEN A \cup {n} ELSE A
  <2>1. \A i : i \in 0 .. (n + 1) - 1 <=> i \in 0 .. n - 1 \/ i = n OBVIOUS
  <2> QED BY <2>1 DEF OfKind
<1> HIDE DEF A, B
<1>4. Cardinality(A \cup {n}) = Cardinality(A) + 1 BY <1>1, <1>2, FS_AddElement
<1>5. Cardinality(B) = IF r.views[n + 1].kind = kind THEN Cardinality(A) + 1 ELSE Cardinality(A)
  BY <1>3, <1>4
<1> QED BY <1>1, <1>5 DEF A, B

LEMMA WalkNeuronKeeps ==
  ASSUME IsRequest(req), NeuronsWalked, WalkNeuron
  PROVE  \/ /\ stage' = "neurons" /\ NeuronsWalked' /\ verdict' = verdict
         \/ /\ stage' = "idle" /\ verdict'.rule \in NeuronRuleNames
<1> DEFINE v == req.views[place + 1]
           out == walk.outputs
<1>1. /\ stage = "neurons" /\ place \in 0 .. Len(req.views) - 1 /\ place \in Nat /\ out \in 0 .. place
      /\ req' = req /\ Len(req.views) \in Nat /\ v.kind \in Kinds
  <2>1. Len(req.views) \in Nat /\ place \in 0 .. Len(req.views) /\ place < Len(req.views)
    BY DEF IsRequest, NeuronsWalked, WalkNeuron
  <2>2. place + 1 \in 1 .. Len(req.views) BY <2>1
  <2>3. v.kind \in Kinds BY <2>2 DEF IsRequest
  <2> QED BY <2>1, <2>3 DEF NeuronsWalked, WalkNeuron
<1>2. CASE NeuronVerdict(req, walk, place) # "ok"
  <2>1. stage' = "idle" /\ verdict' = Refused(NeuronVerdict(req, walk, place), place) BY <1>2 DEF WalkNeuron
  <2>2. NeuronVerdict(req, walk, place) \in NeuronRuleNames BY <1>1, <1>2, NeuronRefused
  <2>3. verdict'.rule = NeuronVerdict(req, walk, place) BY <2>1 DEF Refused
  <2> QED BY <2>1, <2>2, <2>3
<1>3. CASE NeuronVerdict(req, walk, place) = "ok"
  <2>1. /\ place' = place + 1 /\ stage' = stage /\ verdict' = verdict
        /\ walk' = [walk EXCEPT !.ids = @ \cup {v.id},
                      !.outputs = IF v.kind = "output" THEN @ + 1 ELSE @,
                      !.seenHidden = @ \/ (InSlice(req, place) /\ v.kind = "hidden"),
                      !.stats = Counted(@, v.kind)]
    BY <1>3 DEF WalkNeuron, Passed
  <2>2. NeuronFine(req, place) /\ (v.kind # "output" => out = 0)
    <3>1. req.input \in Nat /\ walk.outputs \in Nat BY <1>1 DEF IsRequest
    <3> QED BY <1>1, <1>3, <3>1, NeuronPasses DEF Kinds
  <2>3. v.kind \in {"input", "constant", "hidden", "output"} BY <2>2 DEF NeuronFine
  <2>4. DOMAIN walk = {"ids", "outputs", "seenHidden", "last", "stats"}
        /\ DOMAIN walk.stats = {"input", "constant", "hidden", "output", "connections"}
    BY DEF NeuronsWalked, IsWalk
  <2>5. /\ walk'.outputs = (IF v.kind = "output" THEN out + 1 ELSE out)
        /\ walk'.last = walk.last /\ walk'.stats = Counted(walk.stats, v.kind)
        /\ DOMAIN walk' = DOMAIN walk
    BY <2>1, <2>4
  <2>6. /\ DOMAIN walk'.stats = DOMAIN walk.stats
        /\ \A k \in DOMAIN walk.stats :
             walk'.stats[k] = IF k = v.kind THEN walk.stats[k] + 1 ELSE walk.stats[k]
    BY <2>5 DEF Counted
  <2>7. IsWalk(walk') BY <2>4, <2>5, <2>6 DEF IsWalk
  <2>8. /\ walk.stats["output"] = out /\ walk.stats["input"] = Cardinality(InputsBefore(req, place))
        /\ walk.last = NoSynapse
        /\ \A i \in 0 .. place - 1 :
             NeuronFine(req, i) /\ (req.views[i + 1].kind = "output" <=> i >= place - out)
    BY DEF NeuronsWalked
  <2>9. walk'.stats["output"] = walk'.outputs BY <2>4, <2>5, <2>6, <2>8
  <2>10. walk'.stats["input"] = Cardinality(InputsBefore(req, place + 1))
    <3>1. walk'.stats["input"] = IF v.kind = "input" THEN walk.stats["input"] + 1 ELSE walk.stats["input"]
      BY <2>4, <2>6
    <3>2. Cardinality(InputsBefore(req, place + 1)) =
            IF v.kind = "input" THEN Cardinality(InputsBefore(req, place)) + 1
            ELSE Cardinality(InputsBefore(req, place))
      BY <1>1, KindCounted DEF InputsBefore
    <3> QED BY <2>8, <3>1, <3>2
  <2>11. walk'.outputs \in 0 .. place + 1 BY <1>1, <2>5
  <2>12. ASSUME NEW i \in 0 .. (place + 1) - 1
         PROVE  NeuronFine(req, i)
                /\ (req.views[i + 1].kind = "output" <=> i >= (place + 1) - walk'.outputs)
    <3>1. CASE i = place
      <4>1. v.kind = "output" <=> place >= (place + 1) - walk'.outputs BY <1>1, <2>2, <2>5
      <4> QED BY <2>2, <3>1, <4>1
    <3>2. CASE i \in 0 .. place - 1
      <4>1. NeuronFine(req, i) /\ (req.views[i + 1].kind = "output" <=> i >= place - out) BY <2>8, <3>2
      <4>2. v.kind = "output" => (place + 1) - walk'.outputs = place - out BY <1>1, <2>5
      <4>3. v.kind # "output" => ~(i >= place - out) /\ ~(i >= (place + 1) - walk'.outputs)
        BY <1>1, <2>2, <2>5, <3>2
      <4> QED BY <4>1, <4>2, <4>3
    <3> QED BY <1>1, <3>1, <3>2
  <2>13. place' \in 0 .. Len(req.views) BY <1>1, <2>1
  <2> QED BY <1>1, <2>1, <2>5, <2>7, <2>8, <2>9, <2>10, <2>11, <2>12, <2>13 DEF NeuronsWalked
<1> QED BY <1>2, <1>3

WidthRuleNames == {"21", "22"}

LEMMA CountNeuronsKeeps ==
  ASSUME IsRequest(req), NeuronsWalked, CountNeurons
  PROVE  \/ /\ stage' = "synapses" /\ SynapsesWalked' /\ verdict' = verdict
         \/ /\ stage' = "idle" /\ verdict'.rule \in WidthRuleNames
<1> DEFINE N == WidthRuleNames
           R == N \X BOOLEAN
           a == << <<"21", walk.stats.input # req.input>>, <<"22", walk.stats.output # req.output>> >>
<1>1. "ok" \notin N BY DEF WidthRuleNames
<1>2. <<"21", walk.stats.input # req.input>> \in R /\ <<"22", walk.stats.output # req.output>> \in R
  BY DEF WidthRuleNames
<1>3. a \in Seq(R) /\ Len(a) = 2 /\ a[1][2] = (walk.stats.input # req.input)
      /\ a[2][2] = (walk.stats.output # req.output)
  <2> HIDE DEF R
  <2> QED BY <1>2
<1>4. WidthFault(req, walk) = FirstBroken(a) BY DEF WidthFault
<1> HIDE DEF a, N
<1>5. stage = "neurons" /\ place = Len(req.views) /\ req' = req /\ walk' = walk BY DEF CountNeurons
<1>6. CASE WidthFault(req, walk) = "ok"
  <2>1. \A i \in 1 .. Len(a) : ~a[i][2] BY <1>1, <1>3, <1>4, <1>6, FirstBrokenIs
  <2>2. ~a[1][2] /\ ~a[2][2] BY <1>3, <2>1
  <2>3. walk.stats.input = req.input /\ walk.stats.output = req.output BY <1>3, <2>2
  <2>4. Placed(req)
    <3>1. req.output = walk.outputs /\ walk.outputs \in 0 .. Len(req.views) BY <1>5, <2>3 DEF NeuronsWalked
    <3>2. Cardinality(InputsBefore(req, Len(req.views))) = req.input BY <1>5, <2>3 DEF NeuronsWalked
    <3>3. \A i \in 0 .. Len(req.views) - 1 :
            NeuronFine(req, i) /\ (req.views[i + 1].kind = "output" <=> i >= Len(req.views) - req.output)
      BY <1>5, <3>1 DEF NeuronsWalked
    <3>4. req.output <= Len(req.views) BY <3>1 DEF IsRequest
    <3> QED BY <3>2, <3>3, <3>4 DEF Placed
  <2>5. stage' = "synapses" /\ place' = 0 /\ verdict' = verdict BY <1>6 DEF CountNeurons, StartSynapses
  <2>6. walk.last = LastOf(req, 0 + 1) /\ IsWalk(walk) BY DEF NeuronsWalked, LastOf
  <2>7. 0 \in 0 .. Len(req.syn) /\ 1 .. 0 = {} BY DEF IsRequest
  <2> QED BY <1>5, <2>4, <2>5, <2>6, <2>7 DEF SynapsesWalked
<1>7. CASE WidthFault(req, walk) # "ok"
  <2>1. stage' = "idle" /\ verdict' = Refused(WidthFault(req, walk), -1) BY <1>7 DEF CountNeurons
  <2>2. WidthFault(req, walk) \in N \cup {"ok"} BY <1>1, <1>3, <1>4, FirstBrokenIs
  <2> QED BY <1>7, <2>1, <2>2 DEF Refused, N
<1> QED BY <1>6, <1>7

LEMMA WalkSynapseKeeps ==
  ASSUME IsRequest(req), SynapsesWalked, WalkSynapse
  PROVE  \/ /\ stage' = "synapses" /\ SynapsesWalked' /\ verdict' = verdict
         \/ /\ stage' = "idle" /\ verdict'.rule \in SynapseRuleNames
<1> DEFINE s == req.syn[place + 1]
           tallied == [walk EXCEPT !.stats = Counted(@, "connections")]
<1>1. /\ stage = "synapses" /\ place \in Nat /\ place + 1 \in 1 .. Len(req.syn) /\ req' = req
      /\ Len(req.syn) \in Nat
  BY DEF WalkSynapse, SynapsesWalked, IsRequest
<1>2. IsWalk(walk) /\ walk.last = LastOf(req, place + 1) BY DEF SynapsesWalked
<1>3. CASE SynapseVerdict(req, walk.last, s) = "ok"
  <2>1. /\ place' = place + 1 /\ walk' = [tallied EXCEPT !.last = s] /\ stage' = stage
        /\ verdict' = verdict
    BY <1>3 DEF WalkSynapse
  <2>2. walk'.last = s /\ IsWalk(walk')
    <3>1. DOMAIN tallied = DOMAIN walk /\ tallied.stats = Counted(walk.stats, "connections")
      BY <1>2 DEF IsWalk
    <3>2. DOMAIN tallied.stats = DOMAIN walk.stats BY <3>1 DEF Counted
    <3>3. DOMAIN walk' = DOMAIN walk /\ walk'.last = s /\ walk'.stats = tallied.stats
      <4> HIDE DEF tallied
      <4> QED BY <1>2, <2>1, <3>1 DEF IsWalk
    <3> QED BY <1>2, <3>2, <3>3 DEF IsWalk
  <2>3. LastOf(req, (place + 1) + 1) = s BY <1>1 DEF LastOf
  <2>4. walk.last \in Synapses
    <3>1. CASE place = 0
      <4>1. walk.last = NoSynapse BY <1>2, <3>1 DEF LastOf
      <4> QED BY <4>1 DEF NoSynapse, Synapses
    <3>2. CASE place # 0
      <4>1. walk.last = req.syn[place] /\ place \in 1 .. Len(req.syn) BY <1>1, <1>2, <3>2 DEF LastOf
      <4> QED BY <4>1 DEF IsRequest
    <3> QED BY <3>1, <3>2
  <2>5. SynapseFine(req, place + 1)
    <3>1. s \in Synapses /\ req.options.forwardOnly \in BOOLEAN BY <1>1 DEF IsRequest
    <3>2. place + 1 \in Nat \ {0} BY <1>1
    <3> QED BY <1>2, <1>3, <2>4, <3>1, <3>2, SynapsePasses
  <2>6. \A k \in 1 .. place + 1 : SynapseFine(req, k)
    <3>1. \A k \in 1 .. place + 1 : k \in 1 .. place \/ k = place + 1 BY <1>1
    <3> QED BY <2>5, <3>1 DEF SynapsesWalked
  <2>7. Placed(req) /\ place + 1 \in 0 .. Len(req.syn) BY <1>1 DEF SynapsesWalked
  <2> QED BY <1>1, <2>1, <2>2, <2>3, <2>6, <2>7 DEF SynapsesWalked
<1>4. CASE SynapseVerdict(req, walk.last, s) # "ok"
  <2>1. stage' = "idle" /\ verdict' = Refused(SynapseVerdict(req, walk.last, s), place) BY <1>4 DEF WalkSynapse
  <2>2. SynapseVerdict(req, walk.last, s) \in SynapseRuleNames BY <1>4, SynapseRefused
  <2>3. verdict'.rule = SynapseVerdict(req, walk.last, s) BY <2>1 DEF Refused
  <2> QED BY <2>1, <2>2, <2>3
<1> QED BY <1>3, <1>4

-----------------------------------------------------------------------------
(* Behind the walks                                                          *)

Walked(r) == Placed(r) /\ \A k \in 1 .. Len(r.syn) : SynapseFine(r, k)

\* What rule 30 is left to find.
LetOff(r) ==
  \/ \E v \in 1 .. 2 : v < Len(r.views) /\ r.views[v + 1].squash = "IF"
  \/ \E v \in 0 .. Len(r.views) - 1 : r.views[v + 1].kind = "input" /\ v >= r.input

ViewsOf(r) ==
  [k \in 1 .. Len(r.views) |->
     [constant |-> r.views[k].kind = "constant", if |-> r.views[k].squash = "IF",
      finite |-> r.views[k].bias \in {"finite", "none"}]]

RunsForward(r) ==
  r.options.forwardOnly => StructurallySound(r.syn, ViewsOf(r), r.input, r.output)

LEMMA LastTyped ==
  ASSUME NEW r, IsRequest(r), NEW k \in 1 .. Len(r.syn)
  PROVE  r.syn[k] \in Synapses /\ LastOf(r, k) \in Synapses
<1>1. r.syn[k] \in Synapses BY DEF IsRequest
<1>2. CASE k = 1 BY <1>1, <1>2 DEF LastOf, NoSynapse, Synapses
<1>3. CASE k # 1
  <2>1. k - 1 \in 1 .. Len(r.syn) BY <1>3 DEF IsRequest
  <2> QED BY <1>1, <1>3, <2>1 DEF LastOf, IsRequest
<1> QED BY <1>1, <1>2, <1>3

LEMMA WalkedInOrder ==
  ASSUME NEW r, IsRequest(r), Walked(r), r.options.forwardOnly
  PROVE  OrderedTyped(r.syn)
<1> SUFFICES ASSUME NEW k \in 1 .. Len(r.syn)
             PROVE  OrderFault(IF k = 1 THEN NoSynapse ELSE r.syn[k - 1], r.syn[k]) = "VALID"
  BY DEF OrderedTyped
<1> DEFINE s == r.syn[k]
           l == LastOf(r, k)
<1>1. SynapseFine(r, k) BY DEF Walked
<1>2. s \in Synapses /\ l \in Synapses BY LastTyped
<1>3. s.from < s.to /\ Follows(l, s) BY <1>1 DEF SynapseFine
<1>4. /\ s.from \in Int /\ s.to \in Int /\ s.role \in Int /\ l.from \in Int /\ l.to \in Int /\ l.role \in Int
  <2> HIDE DEF s, l
  <2> QED BY <1>2 DEF Synapses
<1>5. l = IF k = 1 THEN NoSynapse ELSE r.syn[k - 1] BY DEF LastOf
<1>6. OrderFault(l, s) = "VALID"
  <2> HIDE DEF s, l
  <2> QED BY <1>3, <1>4 DEF OrderFault, Follows
<1> QED BY <1>5, <1>6

LEMMA WalkedAcyclic ==
  ASSUME NEW r, IsRequest(r), Walked(r), r.options.forwardOnly
  PROVE  ~Cyclic(r.syn, r.input .. Len(r.views) - 1)
<1> SUFFICES ASSUME NEW S \in SUBSET (r.input .. Len(r.views) - 1), S # {},
                    \A v \in S : \E k \in 1 .. Len(r.syn) : r.syn[k].to = v /\ r.syn[k].from \in S
             PROVE  FALSE
  BY DEF Cyclic
<1>1. S \subseteq Nat BY DEF IsRequest
<1>2. PICK m \in S : \A v \in S : m <= v BY <1>1, LeastMember
<1>3. PICK k \in 1 .. Len(r.syn) : r.syn[k].to = m /\ r.syn[k].from \in S BY <1>2
<1>4. r.syn[k].from < r.syn[k].to BY DEF Walked, SynapseFine
<1>5. m <= r.syn[k].from BY <1>2, <1>3
<1> QED BY <1>1, <1>3, <1>4, <1>5

LEMMA InputsFit ==
  ASSUME NEW r, IsRequest(r), Placed(r)
  PROVE  /\ r.input + r.output <= Len(r.views)
         /\ (\A v \in 0 .. Len(r.views) - 1 : r.views[v + 1].kind = "input" => v < r.input) =>
              \A v \in 0 .. Len(r.views) - 1 : r.views[v + 1].kind = "input" <=> v < r.input
<1> DEFINE n == Len(r.views)
           A == InputsBefore(r, n)
<1>1. n \in Nat /\ r.input \in Nat /\ r.output \in Nat /\ r.output <= n BY DEF IsRequest, Placed
<1>2. Cardinality(A) = r.input BY DEF Placed
<1>3. A \in SUBSET (0 .. (n - r.output) - 1)
  <2>1. ASSUME NEW i \in A PROVE i \in 0 .. (n - r.output) - 1
    <3>1. i \in 0 .. n - 1 /\ r.views[i + 1].kind # "output" BY <2>1 DEF InputsBefore, OfKind
    <3>2. ~(i >= n - r.output) BY <3>1 DEF Placed
    <3> QED BY <1>1, <3>1, <3>2
  <2> QED BY <2>1
<1>4. IsFiniteSet(0 .. (n - r.output) - 1) /\ Cardinality(0 .. (n - r.output) - 1) = n - r.output
  <2>1. 0 \in Int /\ (n - r.output) - 1 \in Int BY <1>1
  <2>2. IsFiniteSet(0 .. (n - r.output) - 1)
        /\ Cardinality(0 .. (n - r.output) - 1) =
             IF 0 > (n - r.output) - 1 THEN 0 ELSE ((n - r.output) - 1) - 0 + 1
    BY <2>1, FS_Interval
  <2> QED BY <1>1, <2>2
<1>5. r.input <= n - r.output
  <2> HIDE DEF A
  <2> QED BY <1>2, <1>3, <1>4, FS_Subset
<1>6. ASSUME \A v \in 0 .. n - 1 : r.views[v + 1].kind = "input" => v < r.input
      PROVE  \A v \in 0 .. n - 1 : r.views[v + 1].kind = "input" <=> v < r.input
  <2>1. A \in SUBSET (0 .. r.input - 1) BY <1>1, <1>6 DEF InputsBefore, OfKind
  <2>2. IsFiniteSet(0 .. r.input - 1) /\ Cardinality(0 .. r.input - 1) = r.input
    <3>1. 0 \in Int /\ r.input - 1 \in Int BY <1>1
    <3>2. IsFiniteSet(0 .. r.input - 1)
          /\ Cardinality(0 .. r.input - 1) = IF 0 > r.input - 1 THEN 0 ELSE (r.input - 1) - 0 + 1
      BY <3>1, FS_Interval
    <3> QED BY <1>1, <3>2
  <2>3. 0 .. r.input - 1 = A
    <3> HIDE DEF A
    <3> QED BY <1>2, <2>1, <2>2, FS_Subset
  <2>4. ASSUME NEW v \in 0 .. n - 1, v < r.input PROVE r.views[v + 1].kind = "input"
    <3>1. v \in A BY <1>1, <2>3, <2>4
    <3> QED BY <3>1 DEF InputsBefore, OfKind
  <2> QED BY <1>6, <2>4
<1> QED BY <1>1, <1>5, <1>6

\* Rule 30 finds nothing but what the walk lets off.
LEMMA SoundAlready ==
  ASSUME NEW r, IsRequest(r), Walked(r), ~LetOff(r)
  PROVE  StructurallySound(r.syn, ViewsOf(r), r.input, r.output)
<1> DEFINE n == Len(r.views)
           nv == ViewsOf(r)
<1>1. n \in Nat /\ r.input \in Nat \ {0} /\ r.output \in Nat /\ Len(nv) = n
      /\ \A k \in 1 .. n : nv[k] = [constant |-> r.views[k].kind = "constant", if |-> r.views[k].squash = "IF",
                                    finite |-> r.views[k].bias \in {"finite", "none"}]
  BY DEF IsRequest, ViewsOf
<1>2. Placed(r) BY DEF Walked
<1>3. \A v \in 0 .. n - 1 : r.views[v + 1].kind = "input" => v < r.input BY <1>1 DEF LetOff
<1>4. r.input + r.output <= n /\ \A v \in 0 .. n - 1 : r.views[v + 1].kind = "input" <=> v < r.input
  BY <1>2, <1>3, InputsFit
<1>5. ASSUME NEW k \in 1 .. Len(r.syn) PROVE r.syn[k].to >= r.input
  <2>1. r.views[r.syn[k].to + 1].kind # "input" BY DEF Walked, SynapseFine
  <2>2. r.syn[k].to \in 0 .. n - 1 BY DEF IsRequest
  <2>3. ~(r.syn[k].to < r.input) BY <1>4, <2>1, <2>2
  <2>4. r.syn[k].to \in Int /\ r.input \in Int BY <1>1, <2>2
  <2> HIDE DEF n, nv
  <2> QED BY <2>3, <2>4
<1>6. ASSUME NEW v \in r.input .. n - 1 PROVE NeuronStructureFault(r.syn, nv, r.output, v) = "none"
  <2>1. v \in 0 .. n - 1 /\ v + 1 \in 1 .. n /\ v >= 1 BY <1>1
  <2>2. NeuronFine(r, v) /\ (r.views[v + 1].kind = "output" <=> v >= n - r.output) BY <1>2, <2>1 DEF Placed
  <2>3. r.views[v + 1].kind # "input" BY <1>1, <1>4, <2>1
  <2>4. /\ nv[v + 1].constant <=> (r.views[v + 1].kind = "constant")
        /\ nv[v + 1].if <=> (r.views[v + 1].squash = "IF")
        /\ nv[v + 1].finite <=> (r.views[v + 1].bias \in {"finite", "none"})
    <3>1. nv[v + 1] = [constant |-> r.views[v + 1].kind = "constant", if |-> r.views[v + 1].squash = "IF",
                       finite |-> r.views[v + 1].bias \in {"finite", "none"}]
      BY <1>1, <2>1
    <3> DEFINE A == r.views[v + 1].kind = "constant"
               B == r.views[v + 1].squash = "IF"
               C == r.views[v + 1].bias \in {"finite", "none"}
    <3>2. A \in BOOLEAN /\ B \in BOOLEAN /\ C \in BOOLEAN OBVIOUS
    <3>3. nv[v + 1] = [constant |-> A, if |-> B, finite |-> C] BY <3>1
    <3> HIDE DEF nv, A, B, C
    <3>4. (nv[v + 1].constant <=> A) /\ (nv[v + 1].if <=> B) /\ (nv[v + 1].finite <=> C) BY <3>2, <3>3
    <3> QED BY <3>4 DEF A, B, C
  <2>5. nv[v + 1].finite BY <2>2, <2>3, <2>4 DEF NeuronFine
  <2>6. nv[v + 1].constant => InwardSynapses(r.syn, v) = {} BY <2>2, <2>4 DEF NeuronFine
  <2>7. ~nv[v + 1].constant /\ v < Len(nv) - r.output => HiddenWiringFault(r.syn, v) = "none"
    <3> SUFFICES ASSUME ~nv[v + 1].constant, v < Len(nv) - r.output
                 PROVE  HiddenWiringFault(r.syn, v) = "none"
      OBVIOUS
    <3>1. r.views[v + 1].kind = "hidden" BY <1>1, <2>2, <2>3, <2>4 DEF NeuronFine
    <3> QED BY <2>2, <3>1 DEF NeuronFine, HiddenWiringFault
  <2>8. nv[v + 1].if => IfFault(r.syn, v) = "none"
    <3> SUFFICES ASSUME nv[v + 1].if PROVE IfFault(r.syn, v) = "none" OBVIOUS
    <3>1. v \notin 1 .. 2
      <4>1. v < Len(r.views) /\ r.views[v + 1].squash = "IF" BY <1>1, <2>1, <2>4
      <4> QED BY <4>1 DEF LetOff
    <3>2. v > 2 BY <2>1, <3>1
    <3> QED BY <2>2, <2>4, <3>2 DEF NeuronFine
  <2> HIDE DEF nv
  <2> QED BY <2>5, <2>6, <2>7, <2>8 DEF NeuronStructureFault
<1> HIDE DEF nv
<1>7. ~StructureMalformed(nv, r.input, r.output) BY <1>1, <1>4 DEF StructureMalformed
<1>8. \A v \in r.input .. Len(nv) - 1 : NeuronStructureFault(r.syn, nv, r.output, v) = "none" BY <1>1, <1>6
<1>9. StructurallySound(r.syn, nv, r.input, r.output) BY <1>5, <1>7, <1>8 DEF StructurallySound
<1> QED BY <1>9 DEF nv

LEMMA FinishKeeps ==
  ASSUME IsRequest(req), SynapsesWalked, FinishSynapses
  PROVE  \/ /\ stage' = "memetic" /\ Walked(req) /\ RunsForward(req) /\ verdict' = verdict
         \/ /\ stage' = "idle" /\ verdict'.rule \in {"28", "30"}
            /\ verdict'.rule = "30" => LetOff(req)
<1> DEFINE sound == StructurallySound(req.syn, StructureViews(req), req.input, req.output)
           N == {"29", "30"}
           R == N \X BOOLEAN
           a == ForwardRules(req)
           r == FlatVerdict(req)
<1>1. stage = "synapses" /\ place = Len(req.syn) /\ Walked(req)
  BY DEF FinishSynapses, SynapsesWalked, Walked
<1>2. \/ r = "ok" /\ stage' = "memetic" /\ verdict' = verdict
      \/ r # "ok" /\ stage' = "idle" /\ verdict' = Refused(r, -1)
  BY DEF FinishSynapses
<1>3. /\ <<"29", ~OrderedTyped(req.syn)>> \in R
      /\ <<"30", ~sound>> \in R
      /\ <<"29", Cyclic(req.syn, req.input .. Len(req.views) - 1)>> \in R
  BY DEF Cyclic
<1>4. /\ a \in Seq(R) /\ Len(a) = 3
      /\ a[2][1] = "30"
      /\ a[1][2] <=> ~OrderedTyped(req.syn)
      /\ a[2][2] <=> ~sound
      /\ a[3][2] <=> Cyclic(req.syn, req.input .. Len(req.views) - 1)
  <2> DEFINE A == ~OrderedTyped(req.syn)
             B == ~sound
             C == Cyclic(req.syn, req.input .. Len(req.views) - 1)
  <2>1. A \in BOOLEAN /\ B \in BOOLEAN /\ C \in BOOLEAN BY DEF Cyclic
  <2>2. a = << <<"29", A>>, <<"30", B>>, <<"29", C>> >> BY DEF ForwardRules
  <2>3. <<"29", A>> \in R /\ <<"30", B>> \in R /\ <<"29", C>> \in R BY <1>3
  <2> HIDE DEF A, B, C, R, a
  <2>4. a \in Seq(R) /\ Len(a) = 3 /\ a[2][1] = "30" /\ (a[1][2] <=> A) /\ (a[2][2] <=> B) /\ (a[3][2] <=> C)
    BY <2>1, <2>2, <2>3
  <2> QED BY <2>4 DEF A, B, C
<1>5. "ok" \notin N OBVIOUS
<1>6. ViewsOf(req) = StructureViews(req) BY DEF ViewsOf, StructureViews
<1>7. req.options.forwardOnly \in BOOLEAN BY DEF IsRequest
<1> HIDE DEF a, R, N, sound
<1>8. /\ FirstBroken(a) = "ok" <=> \A i \in 1 .. Len(a) : ~a[i][2]
      /\ FirstBroken(a) # "ok" => \E i \in 1 .. Len(a) : a[i][2] /\ FirstBroken(a) = a[i][1]
  BY <1>4, <1>5, FirstBrokenIs DEF R
<1>9. CASE r = "ok"
  <2>1. req.options.forwardOnly => sound
    <3> SUFFICES ASSUME req.options.forwardOnly PROVE sound OBVIOUS
    <3>1. FirstBroken(a) = "ok" BY <1>9 DEF FlatVerdict, a
    <3>2. ~a[2][2] BY <1>4, <1>8, <3>1
    <3> QED BY <1>4, <3>2
  <2> QED BY <1>1, <1>2, <1>6, <1>9, <2>1 DEF RunsForward, sound
<1>10. CASE r # "ok"
  <2>1. r = "28" \/ (r = FirstBroken(a) /\ req.options.forwardOnly /\ FirstBroken(a) # "ok")
    BY <1>7, <1>10 DEF FlatVerdict, a
  <2>2. ASSUME req.options.forwardOnly, FirstBroken(a) # "ok"
        PROVE  FirstBroken(a) = "30" /\ LetOff(req)
    <3>1. ~a[1][2] /\ ~a[3][2]
      <4>1. OrderedTyped(req.syn) BY <1>1, <2>2, WalkedInOrder
      <4>2. ~Cyclic(req.syn, req.input .. Len(req.views) - 1) BY <1>1, <2>2, WalkedAcyclic
      <4> QED BY <1>4, <4>1, <4>2
    <3>2. PICK i \in 1 .. Len(a) : a[i][2] /\ FirstBroken(a) = a[i][1] BY <1>8, <2>2
    <3>3. i = 2 BY <1>4, <3>1, <3>2
    <3>4. ~sound /\ FirstBroken(a) = "30" BY <1>4, <3>2, <3>3
    <3> QED BY <1>1, <1>6, <3>4, SoundAlready DEF sound
  <2>3. verdict'.rule = r /\ stage' = "idle" BY <1>2, <1>10 DEF Refused
  <2> HIDE DEF r
  <2> QED BY <2>1, <2>2, <2>3
<1> QED BY <1>9, <1>10

-----------------------------------------------------------------------------
(* What passes runs forward                                                  *)

LEMMA FollowsOn ==
  ASSUME NEW r, IsRequest(r), Walked(r), NEW i \in 1 .. Len(r.syn), NEW j \in 1 .. Len(r.syn), i < j
  PROVE  /\ Follows(r.syn[i], r.syn[j])
         /\ r.syn[i].from = r.syn[j].from /\ r.syn[i].to = r.syn[j].to =>
              r.views[r.syn[j].to + 1].squash = "IF"
<1> DEFINE n == Len(r.syn)
           s(k) == r.syn[k]
           T == {d \in Nat : i + 1 + d <= n => Follows(s(i), s(i + 1 + d))}
<1>1. n \in Nat /\ \A k \in 1 .. n : s(k) \in Synapses BY DEF IsRequest
<1>2. ASSUME NEW k \in 2 .. n PROVE SynapseFine(r, k) /\ LastOf(r, k) = s(k - 1) BY <1>1 DEF Walked, LastOf
<1>3. ASSUME NEW a \in Synapses, NEW b \in Synapses, NEW c \in Synapses, Follows(a, b), Follows(b, c)
      PROVE  Follows(a, c) /\ (a.from = c.from /\ a.to = c.to => b.from = c.from /\ b.to = c.to)
  BY <1>3 DEF Follows, Synapses
<1>4. \A k \in 2 .. n : Follows(s(k - 1), s(k)) BY <1>2 DEF SynapseFine
<1>5. 0 \in T
  <2>1. i + 1 <= n => i + 1 \in 2 .. n /\ (i + 1) - 1 = i BY <1>1
  <2> QED BY <1>4, <2>1
<1>6. ASSUME NEW d \in Nat, d \in T PROVE d + 1 \in T
  <2> SUFFICES ASSUME i + 1 + (d + 1) <= n PROVE Follows(s(i), s(i + 1 + (d + 1))) OBVIOUS
  <2> DEFINE k == i + 1 + (d + 1)
  <2>1. k \in 2 .. n /\ k - 1 = i + 1 + d /\ k - 1 \in 1 .. n /\ i + 1 + d <= n BY <1>1
  <2>2. Follows(s(i), s(k - 1)) BY <1>6, <2>1
  <2>3. Follows(s(k - 1), s(k)) BY <1>4, <2>1
  <2>4. s(i) \in Synapses /\ s(k - 1) \in Synapses /\ s(k) \in Synapses BY <1>1, <2>1
  <2> HIDE DEF k
  <2>5. Follows(s(i), s(k)) BY <1>3, <2>2, <2>3, <2>4
  <2> QED BY <2>5 DEF k
<1> HIDE DEF T
<1>7. Nat \subseteq T BY <1>5, <1>6, Induction
<1>8. ASSUME NEW k \in i + 1 .. n PROVE Follows(s(i), s(k))
  <2>1. k - i - 1 \in Nat /\ i + 1 + (k - i - 1) = k /\ k <= n BY <1>1
  <2>2. k - i - 1 \in T BY <1>7, <2>1
  <2> QED BY <2>1, <2>2 DEF T
<1>9. j \in i + 1 .. n /\ j \in 2 .. n /\ j - 1 \in 1 .. n BY <1>1
<1>10. ASSUME s(i).from = s(j).from, s(i).to = s(j).to PROVE r.views[s(j).to + 1].squash = "IF"
  <2>1. s(j - 1).from = s(j).from /\ s(j - 1).to = s(j).to
    <3>1. CASE j - 1 = i BY <1>10, <3>1
    <3>2. CASE j - 1 # i
      <4>1. j - 1 \in i + 1 .. n BY <1>9, <3>2
      <4>2. Follows(s(i), s(j - 1)) /\ Follows(s(j - 1), s(j)) BY <1>4, <1>8, <1>9, <4>1
      <4>3. s(i) \in Synapses /\ s(j - 1) \in Synapses /\ s(j) \in Synapses BY <1>1, <1>9
      <4> HIDE DEF s
      <4> QED BY <1>3, <1>10, <4>2, <4>3
    <3> QED BY <3>1, <3>2
  <2>2. SynapseFine(r, j) /\ LastOf(r, j) = s(j - 1) BY <1>2, <1>9
  <2> QED BY <2>1, <2>2 DEF SynapseFine
<1> QED BY <1>8, <1>9, <1>10

LEMMA RunsSound ==
  ASSUME NEW r, IsRequest(r), Walked(r), r.options.forwardOnly, RunsForward(r)
  PROVE  ForwardSound(r)
<1> DEFINE n == Len(r.views)
           nv == ViewsOf(r)
<1>1. /\ n \in Nat /\ r.input \in Nat \ {0} /\ r.output \in Nat /\ Len(nv) = n
      /\ \A k \in 1 .. n : /\ nv[k].constant <=> (r.views[k].kind = "constant")
                           /\ nv[k].if <=> (r.views[k].squash = "IF")
  <2>1. Len(nv) = n /\ n \in Nat /\ r.input \in Nat \ {0} /\ r.output \in Nat BY DEF ViewsOf, IsRequest
  <2>2. ASSUME NEW k \in 1 .. n
        PROVE  /\ nv[k].constant <=> (r.views[k].kind = "constant")
               /\ nv[k].if <=> (r.views[k].squash = "IF")
    <3> DEFINE A == r.views[k].kind = "constant"
               B == r.views[k].squash = "IF"
               C == r.views[k].bias \in {"finite", "none"}
    <3>1. nv[k] = [constant |-> A, if |-> B, finite |-> C] BY DEF ViewsOf
    <3>2. A \in BOOLEAN /\ B \in BOOLEAN /\ C \in BOOLEAN OBVIOUS
    <3> HIDE DEF nv, A, B, C
    <3>3. (nv[k].constant <=> A) /\ (nv[k].if <=> B) BY <3>1, <3>2
    <3> QED BY <3>3 DEF A, B
  <2> QED BY <2>1, <2>2
<1> HIDE DEF nv
<1>2. StructurallySound(r.syn, nv, r.input, r.output) BY DEF RunsForward, nv
<1>3. Placed(r) BY DEF Walked
<1>4. /\ \A k \in 1 .. Len(r.syn) : r.syn[k].to >= r.input
      /\ \A v \in r.input .. n - 1 : NeuronStructureFault(r.syn, nv, r.output, v) = "none"
  BY <1>1, <1>2 DEF StructurallySound
<1>5. ASSUME NEW v \in 0 .. n - 1
      PROVE  NeuronFine(r, v) /\ (r.views[v + 1].kind = "output" <=> v >= n - r.output)
  BY <1>3 DEF Placed
<1>6. ASSUME NEW v \in r.input .. n - 1
      PROVE  /\ v \in 0 .. n - 1 /\ v + 1 \in 1 .. n
             /\ r.views[v + 1].kind # "input"
             /\ r.views[v + 1].squash = "IF" => IfFault(r.syn, v) = "none"
  <2>1. v \in 0 .. n - 1 /\ v + 1 \in 1 .. n BY <1>1
  <2>2. NeuronFine(r, v) /\ (r.views[v + 1].kind = "output" <=> v >= n - r.output) BY <1>5, <2>1
  <2>3. /\ nv[v + 1].constant <=> (r.views[v + 1].kind = "constant")
        /\ nv[v + 1].if <=> (r.views[v + 1].squash = "IF")
    BY <1>1, <2>1
  <2>4. NeuronStructureFault(r.syn, nv, r.output, v) = "none" BY <1>4
  <2>5. r.views[v + 1].kind # "input"
    <3> SUFFICES ASSUME r.views[v + 1].kind = "input" PROVE FALSE OBVIOUS
    <3>1. ~nv[v + 1].constant /\ InwardSynapses(r.syn, v) = {} /\ ~(v >= n - r.output)
      BY <2>2, <2>3 DEF NeuronFine
    <3>2. HiddenWiringFault(r.syn, v) = "NO_INWARD" BY <3>1 DEF HiddenWiringFault
    <3>3. v < Len(nv) - r.output BY <1>1, <2>1, <3>1
    <3> QED BY <2>4, <3>1, <3>2, <3>3 DEF NeuronStructureFault
  <2>6. ASSUME r.views[v + 1].squash = "IF" PROVE IfFault(r.syn, v) = "none"
    <3>1. r.views[v + 1].kind # "constant" BY <2>2, <2>6 DEF NeuronFine
    <3>2. nv[v + 1].if /\ ~nv[v + 1].constant BY <2>3, <2>6, <3>1
    <3> QED BY <2>4, <3>2 DEF NeuronStructureFault
  <2> QED BY <2>1, <2>5, <2>6
<1>7. \A v \in 0 .. n - 1 : r.views[v + 1].kind = "input" <=> v < r.input
  <2>1. \A v \in 0 .. n - 1 : r.views[v + 1].kind = "input" => v < r.input
    <3>1. \A v \in 0 .. n - 1 : v < r.input \/ v \in r.input .. n - 1 BY <1>1
    <3> QED BY <1>6, <3>1
  <2> QED BY <1>3, <2>1, InputsFit
<1>8. ASSUME NEW i \in 1 .. Len(r.syn), NEW j \in 1 .. Len(r.syn), i < j
      PROVE  \/ r.syn[i].from < r.syn[j].from
             \/ r.syn[i].from = r.syn[j].from /\ r.syn[i].to < r.syn[j].to
             \/ /\ r.syn[i].from = r.syn[j].from /\ r.syn[i].to = r.syn[j].to
                /\ r.syn[i].role < r.syn[j].role
                /\ r.views[r.syn[i].to + 1].squash = "IF"
  <2>1. /\ Follows(r.syn[i], r.syn[j])
        /\ r.syn[i].from = r.syn[j].from /\ r.syn[i].to = r.syn[j].to =>
             r.views[r.syn[j].to + 1].squash = "IF"
    BY <1>8, FollowsOn
  <2> QED BY <2>1 DEF Follows
<1>9. \A k \in 1 .. Len(r.syn) : r.syn[k].from < r.syn[k].to BY DEF Walked, SynapseFine
<1>10. ASSUME NEW v \in 1 .. n
       PROVE  LET in == {k \in 1 .. Len(r.syn) : r.syn[k].to = v - 1}
                  out == {k \in 1 .. Len(r.syn) : r.syn[k].from = v - 1}
              IN /\ r.views[v].kind = "input" <=> v <= r.input
                 /\ r.views[v].kind = "output" <=> v > n - r.output
                 /\ r.views[v].kind \in {"input", "constant"} => in = {}
                 /\ r.views[v].kind = "hidden" => in # {} /\ out # {}
                 /\ r.views[v].squash = "IF" /\ r.views[v].kind # "input" =>
                      \A roles \in {{Condition}, {Negative}, {Positive, Standard}} :
                        \E k \in in : r.syn[k].role \in roles
  <2> DEFINE u == v - 1
             in == {k \in 1 .. Len(r.syn) : r.syn[k].to = u}
             out == {k \in 1 .. Len(r.syn) : r.syn[k].from = u}
  <2>1. u \in 0 .. n - 1 /\ u + 1 = v BY <1>1
  <2>2. in = InwardSynapses(r.syn, u) /\ out = OutwardSynapses(r.syn, u)
    BY DEF InwardSynapses, OutwardSynapses
  <2>3. NeuronFine(r, u) /\ (r.views[v].kind = "output" <=> u >= n - r.output) BY <1>5, <2>1
  <2>4. r.views[v].kind = "input" <=> v <= r.input
    <3>1. r.views[u + 1].kind = "input" <=> u < r.input BY <1>7, <2>1
    <3>2. u < r.input <=> v <= r.input BY <1>1
    <3> HIDE DEF u
    <3> QED BY <2>1, <3>1, <3>2
  <2>5. r.views[v].kind = "output" <=> v > n - r.output BY <1>1, <2>1, <2>3
  <2>6. r.views[v].kind \in {"input", "constant"} => in = {} BY <2>1, <2>2, <2>3 DEF NeuronFine
  <2>7. r.views[v].kind = "hidden" => in # {} /\ out # {} BY <2>1, <2>2, <2>3 DEF NeuronFine
  <2>8. ASSUME r.views[v].squash = "IF", r.views[v].kind # "input",
               NEW roles \in {{Condition}, {Negative}, {Positive, Standard}}
        PROVE  \E k \in in : r.syn[k].role \in roles
    <3>1. u \in r.input .. n - 1 BY <1>1, <1>7, <2>1, <2>8
    <3>2. IfFault(r.syn, u) = "none" BY <1>6, <2>1, <2>8, <3>1
    <3>3. /\ Condition \in RolesInto(r.syn, u) /\ Negative \in RolesInto(r.syn, u)
          /\ RolesInto(r.syn, u) \cap {Positive, Standard} # {}
      BY <3>2 DEF IfFault
    <3>4. \E x \in RolesInto(r.syn, u) : x \in roles
      <4>1. CASE roles = {Condition} BY <3>3, <4>1
      <4>2. CASE roles = {Negative} BY <3>3, <4>2
      <4>3. CASE roles = {Positive, Standard} BY <3>3, <4>3
      <4> QED BY <2>8, <4>1, <4>2, <4>3
    <3> HIDE DEF in
    <3> QED BY <2>2, <3>4 DEF RolesInto
  <2> HIDE DEF in, out
  <2>9. /\ r.views[v].kind = "input" <=> v <= r.input
        /\ r.views[v].kind = "output" <=> v > n - r.output
        /\ r.views[v].kind \in {"input", "constant"} => in = {}
        /\ r.views[v].kind = "hidden" => in # {} /\ out # {}
        /\ r.views[v].squash = "IF" /\ r.views[v].kind # "input" =>
             \A roles \in {{Condition}, {Negative}, {Positive, Standard}} :
               \E k \in in : r.syn[k].role \in roles
    BY <2>4, <2>5, <2>6, <2>7, <2>8
  <2> QED BY <2>9 DEF in, out
<1> HIDE DEF n
<1> QED BY <1>8, <1>9, <1>10 DEF ForwardSound, n

LEMMA SameSoundness ==
  ASSUME NEW r, NEW q, r.views = q.views, r.syn = q.syn, r.input = q.input, r.output = q.output,
         ForwardSound(r)
  PROVE  ForwardSound(q)
  BY DEF ForwardSound

-----------------------------------------------------------------------------
(* What a host holds                                                         *)

LEMMA MaxIs ==
  ASSUME NEW S \in SUBSET Int, S # {}, NEW b \in Int, \A x \in S : x <= b
  PROVE  Max(S) \in S /\ \A y \in S : y <= Max(S)
<1> DEFINE T == {n \in Nat : b - n \in S}
<1>1. T \subseteq Nat /\ T # {}
  <2>1. PICK x \in S : TRUE OBVIOUS
  <2>2. b - x \in Nat /\ b - (b - x) = x BY <2>1
  <2>3. b - x \in T BY <2>1, <2>2
  <2> QED BY <2>3
<1>2. PICK m \in T : \A k \in T : m <= k
  <2> HIDE DEF T
  <2> QED BY <1>1, LeastMember
<1>3. b - m \in S /\ m \in Nat BY <1>2
<1>4. ASSUME NEW y \in S PROVE y <= b - m
  <2>1. b - y \in Nat /\ b - (b - y) = y BY <1>4
  <2>2. b - y \in T BY <1>4, <2>1
  <2>3. m <= b - y BY <1>2, <2>2
  <2> QED BY <1>3, <1>4, <2>3
<1>5. \E x \in S : \A y \in S : x >= y
  <2>1. \A y \in S : b - m >= y BY <1>3, <1>4
  <2> QED BY <1>3, <2>1
<1>6. Max(S) \in S /\ \A y \in S : Max(S) >= y BY <1>5 DEF Max
<1>7. ASSUME NEW y \in S PROVE y <= Max(S)
  <2>1. Max(S) \in Int /\ y \in Int /\ Max(S) >= y BY <1>6
  <2> QED BY <2>1
<1> QED BY <1>6, <1>7

LEMMA MinIs ==
  ASSUME NEW S \in SUBSET Int, S # {}, NEW b \in Int, \A x \in S : b <= x
  PROVE  Min(S) \in S /\ \A y \in S : Min(S) <= y
<1> DEFINE T == {n \in Nat : b + n \in S}
<1>1. T \subseteq Nat /\ T # {}
  <2>1. PICK x \in S : TRUE OBVIOUS
  <2>2. x - b \in Nat /\ b + (x - b) = x BY <2>1
  <2>3. x - b \in T BY <2>1, <2>2
  <2> QED BY <2>3
<1>2. PICK m \in T : \A k \in T : m <= k
  <2> HIDE DEF T
  <2> QED BY <1>1, LeastMember
<1>3. b + m \in S /\ m \in Nat BY <1>2
<1>4. ASSUME NEW y \in S PROVE b + m <= y
  <2>1. y - b \in Nat /\ b + (y - b) = y BY <1>4
  <2>2. y - b \in T BY <1>4, <2>1
  <2>3. m <= y - b BY <1>2, <2>2
  <2> QED BY <1>3, <1>4, <2>3
<1>5. \E x \in S : \A y \in S : x <= y BY <1>3, <1>4
<1> QED BY <1>5 DEF Min

LEMMA WireTyped ==
  ASSUME NEW E, IsExport(E), NEW u
  PROVE  AtWire(E, u) \in -1 .. E.input + Len(E.neurons) - 1
<1> DEFINE n == Len(E.neurons)
           named == {i \in 1 .. n : E.neurons[i].uuid = u}
           uuids == {E.neurons[i].uuid : i \in 1 .. n}
           inputs == {InputNames[i] : i \in 0 .. E.input - 1}
           input == CHOOSE i \in 0 .. E.input - 1 : InputNames[i] = u
<1>1. n \in Nat /\ E.input \in Nat BY LenProperties DEF IsExport
<1>2. CASE u \in uuids
  <2>1. named # {} /\ named \in SUBSET Int /\ \A x \in named : x <= n BY <1>1, <1>2
  <2>2. Max(named) \in named
    <3>1. n \in Int /\ \A x \in named : x <= n BY <1>1, <2>1
    <3>2. named # {} /\ named \in SUBSET Int BY <2>1
    <3> HIDE DEF named, n
    <3> QED BY <3>1, <3>2, MaxIs
  <2>3. AtWire(E, u) = E.input + Max(named) - 1
    <3>1. u \in DOMAIN Wire(E) BY <1>2 DEF Wire
    <3>2. Wire(E)[u] = E.input + Max(named) - 1 BY <1>2 DEF Wire
    <3> QED BY <3>1, <3>2 DEF AtWire
  <2>4. Max(named) \in 1 .. n BY <2>2
  <2> HIDE DEF named
  <2> QED BY <1>1, <2>3, <2>4
<1>3. CASE u \notin uuids /\ u \in inputs
  <2>1. AtWire(E, u) = input
    <3>1. u \in DOMAIN Wire(E) BY <1>3 DEF Wire
    <3>2. Wire(E)[u] = input BY <1>3 DEF Wire
    <3> QED BY <3>1, <3>2 DEF AtWire
  <2>2. \E i \in 0 .. E.input - 1 : InputNames[i] = u BY <1>3
  <2>3. input \in 0 .. E.input - 1 BY <2>2
  <2> HIDE DEF input
  <2> QED BY <1>1, <2>1, <2>3
<1>4. CASE u \notin uuids /\ u \notin inputs
  <2>1. u \notin DOMAIN Wire(E) BY <1>4 DEF Wire
  <2>2. AtWire(E, u) = -1 BY <2>1 DEF AtWire, Nowhere
  <2> QED BY <1>1, <2>2
<1> QED BY <1>2, <1>3, <1>4

IsHeld(R) ==
  /\ Len(R.views) \in Nat /\ \A v \in 1 .. Len(R.views) : R.views[v].kind \in Kinds
  /\ Len(R.syn) \in Nat /\ \A k \in 1 .. Len(R.syn) : R.syn[k] \in Synapses
  /\ R.input \in Nat /\ R.output \in Nat

LEMMA ViewsAre ==
  ASSUME NEW E, IsExport(E)
  PROVE  /\ Len(NeuronViews(E)) = Declared(E) /\ Declared(E) \in Nat
         /\ NeuronViews(E) = [v \in 1 .. Declared(E) |-> NeuronViews(E)[v]]
         /\ \A k \in 1 .. E.input : NeuronViews(E)[k] = InputView(k - 1)
         /\ \A i \in 1 .. Len(E.neurons) : NeuronViews(E)[E.input + i] = ListedView(E, i)
<1> DEFINE X == {InputView(i) : i \in Nat} \cup {ListedView(E, i) : i \in Nat}
           a == [i \in 1 .. E.input |-> InputView(i - 1)]
           b == [i \in 1 .. Len(E.neurons) |-> ListedView(E, i)]
<1>1. Len(E.neurons) \in Nat /\ E.input \in Nat BY LenProperties DEF IsExport
<1>2. a \in Seq(X) /\ b \in Seq(X) /\ Len(a) = E.input /\ Len(b) = Len(E.neurons)
  <2>1. \A i \in 1 .. E.input : i - 1 \in Nat BY <1>1
  <2>2. \A i \in 1 .. E.input : InputView(i - 1) \in X BY <2>1
  <2>3. \A i \in 1 .. Len(E.neurons) : ListedView(E, i) \in X BY <1>1
  <2> HIDE DEF X
  <2> QED BY <1>1, <2>2, <2>3
<1>3. /\ \A k \in 1 .. E.input : a[k] = InputView(k - 1)
      /\ \A i \in 1 .. Len(E.neurons) : b[i] = ListedView(E, i)
  OBVIOUS
<1>4. NeuronViews(E) = a \o b BY DEF NeuronViews
<1> HIDE DEF a, b, X
<1>5. /\ Len(a \o b) = Len(a) + Len(b)
      /\ \A k \in 1 .. Len(a) : (a \o b)[k] = a[k]
      /\ \A i \in 1 .. Len(b) : (a \o b)[Len(a) + i] = b[i]
  <2>1. a \in Seq(X) /\ b \in Seq(X) BY <1>2
  <2> QED BY ONLY <2>1, RulesJoined
<1>6. \A k \in 1 .. E.input : (a \o b)[k] = InputView(k - 1) BY <1>2, <1>3, <1>5
<1>7. \A i \in 1 .. Len(E.neurons) : (a \o b)[E.input + i] = ListedView(E, i) BY <1>2, <1>3, <1>5
<1>8. Len(a \o b) = Declared(E) /\ Declared(E) \in Nat BY <1>1, <1>2, <1>5 DEF Declared
<1>9. a \o b = [v \in 1 .. Declared(E) |-> (a \o b)[v]]
  <2>1. a \o b \in Seq(X) BY <1>2, RulesJoined
  <2>2. a \o b \in [1 .. Len(a \o b) -> X] BY <2>1, LenProperties
  <2> QED BY <1>8, <2>2
<1> QED BY <1>4, <1>6, <1>7, <1>8, <1>9

\* In memory a listed neuron differs in its kind, and only where it is listed as
\* an input.
LEMMA MemoryViewsAre ==
  ASSUME NEW E, IsExport(E)
  PROVE  /\ DOMAIN MemoryViews(E) = 1 .. Declared(E) /\ Len(MemoryViews(E)) = Declared(E)
         /\ \A v \in 1 .. Declared(E) : v - 1 \notin ListedInputs(E) => MemoryViews(E)[v] = NeuronViews(E)[v]
         /\ \A v \in 1 .. Declared(E) :
              /\ MemoryViews(E)[v].idKind = NeuronViews(E)[v].idKind
              /\ MemoryViews(E)[v].id = NeuronViews(E)[v].id
              /\ MemoryViews(E)[v].kind \in Kinds /\ NeuronViews(E)[v].kind \in Kinds
              /\ v <= E.input => MemoryViews(E)[v].kind = "input"
         /\ \A v \in ListedInputs(E) :
              /\ v \in E.input .. Declared(E) - 1
              /\ MemoryViews(E)[v + 1].kind = "input" /\ NeuronViews(E)[v + 1].kind = "invalid"
<1> DEFINE V == NeuronViews(E)
           W == MemoryViews(E)
           n == E.input
<1>1. n \in Nat /\ Len(E.neurons) \in Nat /\ Declared(E) = n + Len(E.neurons) /\ Declared(E) \in Nat
  BY LenProperties DEF IsExport, Declared
<1>2. DOMAIN W = 1 .. Declared(E) /\ Len(W) = Declared(E)
  <2>1. W = [v \in 1 .. Declared(E) |->
               IF v <= E.input THEN NeuronViews(E)[v]
               ELSE [NeuronViews(E)[v] EXCEPT !.kind = KindInMemory(E.neurons[v - E.input].type)]]
    BY DEF MemoryViews
  <2> HIDE DEF W
  <2> QED BY <1>1, <2>1
<1>3. ASSUME NEW v \in 1 .. Declared(E), v <= n
      PROVE  W[v] = V[v] /\ V[v].kind = "input" /\ v - 1 \notin ListedInputs(E)
  <2>1. W[v] = V[v] BY <1>3 DEF MemoryViews
  <2>2. v \in 1 .. n BY <1>1, <1>3
  <2>3. V[v] = InputView(v - 1) BY <2>2, ViewsAre
  <2>4. V[v].kind = "input" BY <2>3 DEF InputView
  <2>5. v - 1 \notin ListedInputs(E)
    <3>1. \A i \in 1 .. Len(E.neurons) : n + i - 1 # v - 1 BY <1>1, <1>3
    <3> QED BY <3>1 DEF ListedInputs
  <2> QED BY <2>1, <2>4, <2>5
<1>4. ASSUME NEW i \in 1 .. Len(E.neurons)
      PROVE  LET t == E.neurons[i].type IN
             /\ n + i \in 1 .. Declared(E)
             /\ V[n + i].kind = KindOf(t) /\ W[n + i].kind = KindInMemory(t)
             /\ W[n + i].idKind = V[n + i].idKind /\ W[n + i].id = V[n + i].id
             /\ t # "input" => W[n + i] = V[n + i]
             /\ (n + i) - 1 \in ListedInputs(E) <=> t = "input"
  <2> DEFINE t == E.neurons[i].type
             x == ListedView(E, i)
  <2>1. n + i \in 1 .. Declared(E) /\ ~(n + i <= n) /\ (n + i) - n = i BY <1>1
  <2>2. V[n + i] = x BY ViewsAre
  <2>3. W[n + i] = [x EXCEPT !.kind = KindInMemory(t)]
    <3>1. W[n + i] = [NeuronViews(E)[n + i] EXCEPT !.kind = KindInMemory(E.neurons[(n + i) - n].type)]
      BY <2>1 DEF MemoryViews
    <3> HIDE DEF W, x
    <3> QED BY <2>1, <2>2, <3>1
  <2>4. x = [idKind |-> x.idKind, id |-> x.id, kind |-> KindOf(t), bias |-> x.bias, squash |-> x.squash,
             uuid |-> x.uuid]
    BY DEF ListedView
  <2>5. t # "input" => KindInMemory(t) = KindOf(t) BY DEF KindInMemory
  <2>6. (n + i) - 1 \in ListedInputs(E) <=> t = "input"
    <3>1. \A j \in 1 .. Len(E.neurons) : n + j - 1 = (n + i) - 1 => j = i BY <1>1
    <3>2. n + i - 1 = (n + i) - 1 BY <1>1
    <3> QED BY <3>1, <3>2 DEF ListedInputs
  <2> DEFINE a == x.idKind
             b == x.id
             c == x.bias
             d == x.squash
             u == x.uuid
             k == KindOf(t)
             m == KindInMemory(t)
  <2>7. x = [idKind |-> a, id |-> b, kind |-> k, bias |-> c, squash |-> d, uuid |-> u] BY <2>4
  <2> HIDE DEF a, b, c, d, u, k, m, x, V, W
  <2>8. [x EXCEPT !.kind = m] = [idKind |-> a, id |-> b, kind |-> m, bias |-> c, squash |-> d, uuid |-> u]
    BY <2>7
  <2> QED BY <2>1, <2>2, <2>3, <2>5, <2>6, <2>7, <2>8 DEF k, m
<1>5. ASSUME NEW v \in 1 .. Declared(E), ~(v <= n)
      PROVE  \E i \in 1 .. Len(E.neurons) : v = n + i
  <2>1. v - n \in 1 .. Len(E.neurons) /\ v = n + (v - n) BY <1>1, <1>5
  <2> QED BY <2>1
<1>6. \A t : KindOf(t) \in Kinds /\ KindInMemory(t) \in Kinds BY DEF KindOf, KindInMemory, Kinds
<1>7. KindOf("input") = "invalid" /\ KindInMemory("input") = "input" BY DEF KindOf, KindInMemory
<1> HIDE DEF V, W, n
<1>8. ASSUME NEW v \in 1 .. Declared(E)
      PROVE  /\ v - 1 \notin ListedInputs(E) => W[v] = V[v]
             /\ W[v].idKind = V[v].idKind /\ W[v].id = V[v].id /\ W[v].kind \in Kinds /\ V[v].kind \in Kinds
             /\ v <= n => W[v].kind = "input"
  <2>1. CASE v <= n BY <1>3, <2>1 DEF Kinds
  <2>2. CASE ~(v <= n)
    <3>1. PICK i \in 1 .. Len(E.neurons) : v = n + i BY <1>5, <2>2
    <3> QED BY <1>4, <1>6, <2>2, <3>1
  <2> QED BY <2>1, <2>2
<1>9. ASSUME NEW v \in ListedInputs(E)
      PROVE  v \in n .. Declared(E) - 1 /\ W[v + 1].kind = "input" /\ V[v + 1].kind = "invalid"
  <2>1. PICK i \in 1 .. Len(E.neurons) : v = n + i - 1 /\ E.neurons[i].type = "input"
    BY DEF ListedInputs, n
  <2>2. v + 1 = n + i /\ v \in n .. Declared(E) - 1 BY <1>1, <2>1
  <2> QED BY <1>4, <1>7, <2>1, <2>2
<1> QED BY <1>2, <1>8, <1>9 DEF V, W, n

\* Without one listed as an input, the neurons in memory are those of the export.
LEMMA NoneListed ==
  ASSUME NEW E, IsExport(E), ListedInputs(E) = {}
  PROVE  MemoryViews(E) = NeuronViews(E)
<1> DEFINE V == NeuronViews(E)
           W == MemoryViews(E)
           D == 1 .. Declared(E)
<1>1. V = [v \in D |-> V[v]] BY ViewsAre
<1>2. W = [v \in D |-> W[v]] BY DEF MemoryViews
<1>3. \A v \in D : W[v] = V[v] BY MemoryViewsAre
<1> HIDE DEF V, W, D
<1>4. [v \in D |-> W[v]] = [v \in D |-> V[v]] BY <1>3
<1>5. W = V BY <1>1, <1>2, <1>4
<1> QED BY <1>5 DEF V, W

\* A listed input is one input too many.
LEMMA TooManyInputs ==
  ASSUME NEW E, IsExport(E), NEW v \in ListedInputs(E), NEW r, r.views = MemoryViews(E)
  PROVE  Cardinality(OfKind(r, Len(r.views), "input")) # E.input
<1> DEFINE n == E.input
           d == Declared(E)
           I == OfKind(r, Len(r.views), "input")
           J == 0 .. n - 1
<1>1. n \in Nat /\ d \in Nat /\ Len(r.views) = d BY ViewsAre, MemoryViewsAre DEF IsExport
<1>2. v \in n .. d - 1 /\ r.views[v + 1].kind = "input" BY MemoryViewsAre
<1>3. \A k \in 1 .. d : k <= n => r.views[k].kind = "input" BY MemoryViewsAre
<1> HIDE DEF n, d
<1>4. I \subseteq 0 .. d - 1 /\ IsFiniteSet(0 .. d - 1)
  <2>1. 0 \in Int /\ d - 1 \in Int BY <1>1
  <2>2. IsFiniteSet(0 .. d - 1) BY <2>1, FS_Interval
  <2> QED BY <1>1, <2>2 DEF OfKind
<1>5. IsFiniteSet(I) BY <1>4, FS_Subset
<1>6. J \cup {v} \subseteq I
  <2>1. ASSUME NEW x \in J PROVE x \in I
    <3>1. x \in 0 .. d - 1 /\ x + 1 \in 1 .. d /\ x + 1 <= n BY <1>1, <1>2, <2>1
    <3> QED BY <1>1, <1>3, <3>1 DEF OfKind
  <2>2. v \in I
    <3>1. v \in 0 .. d - 1 BY <1>1, <1>2
    <3> QED BY <1>1, <1>2, <3>1 DEF OfKind
  <2> QED BY <2>1, <2>2
<1>7. IsFiniteSet(J) /\ Cardinality(J) = n /\ v \notin J
  <2>1. 0 \in Int /\ n - 1 \in Int BY <1>1
  <2>2. IsFiniteSet(J) /\ Cardinality(J) = IF 0 > n - 1 THEN 0 ELSE (n - 1) - 0 + 1 BY <2>1, FS_Interval
  <2>3. v \notin J BY <1>1, <1>2
  <2> QED BY <1>1, <2>2, <2>3
<1> HIDE DEF I, J
<1>8. Cardinality(J \cup {v}) = n + 1 BY <1>7, FS_AddElement
<1>9. Cardinality(J \cup {v}) <= Cardinality(I) BY <1>5, <1>6, FS_Subset
<1>10. Cardinality(I) \in Nat BY <1>5, FS_CardinalityType
<1> QED BY <1>1, <1>8, <1>9, <1>10 DEF I, n

LEMMA ResolvedTyped ==
  ASSUME NEW E, IsExport(E)
  PROVE  /\ Len(Resolved(E)) \in Nat /\ \A k \in 1 .. Len(Resolved(E)) : Resolved(E)[k] \in Synapses
         /\ E.input \in Nat /\ E.output \in Nat
<1> DEFINE S == Resolved(E)
<1>1. Len(E.neurons) \in Nat /\ E.input \in Nat /\ E.output \in Nat /\ Len(E.synapses) \in Nat
  BY LenProperties DEF IsExport
<1>2. Len(S) = Len(E.synapses) BY <1>1 DEF Resolved
<1>3. ASSUME NEW k \in 1 .. Len(S) PROVE S[k] \in Synapses
  <2>1. k \in 1 .. Len(E.synapses) BY <1>2
  <2>2. S[k] = [from |-> AtWire(E, E.synapses[k].from), to |-> AtWire(E, E.synapses[k].to),
                role |-> E.synapses[k].role]
    BY <2>1 DEF Resolved
  <2>3. E.synapses[k] \in [from : STRING, to : STRING, role : 0 .. 3] BY <2>1, ElementOfSeq DEF IsExport
  <2>4. E.synapses[k].role \in 0 .. 3 BY <2>3
  <2>5. \A u : AtWire(E, u) \in Int
    <3>1. \A u : AtWire(E, u) \in -1 .. E.input + Len(E.neurons) - 1 BY WireTyped
    <3> QED BY <1>1, <3>1
  <2> HIDE DEF S
  <2> QED BY <2>2, <2>4, <2>5 DEF Synapses
<1> HIDE DEF S
<1>4. Len(S) \in Nat /\ \A k \in 1 .. Len(S) : S[k] \in Synapses BY <1>1, <1>2, <1>3
<1> QED BY <1>1, <1>4 DEF S

LEMMA LoadedTyped ==
  ASSUME NEW E, IsExport(E)
  PROVE  IsHeld(Loaded(E)) /\ IsHeld(Exported(E))
<1>1. /\ Exported(E).views = NeuronViews(E) /\ Exported(E).syn = Resolved(E)
      /\ Exported(E).input = E.input /\ Exported(E).output = E.output
      /\ Loaded(E).views = MemoryViews(E) /\ Loaded(E).syn = Resolved(E)
      /\ Loaded(E).input = E.input /\ Loaded(E).output = E.output
  BY DEF Loaded, Exported
<1>2. Len(NeuronViews(E)) = Declared(E) /\ Len(MemoryViews(E)) = Declared(E) /\ Declared(E) \in Nat
  BY ViewsAre, MemoryViewsAre
<1>3. \A v \in 1 .. Declared(E) : MemoryViews(E)[v].kind \in Kinds /\ NeuronViews(E)[v].kind \in Kinds
  BY MemoryViewsAre
<1> QED BY <1>1, <1>2, <1>3, ResolvedTyped DEF IsHeld

LEMMA HeldTyped ==
  ASSUME IsHost(host)
  PROVE  IsHeld(InMemory) /\ InMemory.input = host.creature.input /\ InMemory.output = host.creature.output
<1>1. CASE host.export
  <2>1. IsExport(host.creature) /\ InMemory = Loaded(host.creature) BY <1>1 DEF IsHost, InMemory
  <2>2. IsHeld(InMemory) BY <2>1, LoadedTyped
  <2> QED BY <2>1, <2>2 DEF Loaded, Exported
<1>2. CASE ~host.export
  <2>1. InMemory = host.creature /\ IsMemory(InMemory) BY <1>2 DEF IsHost, InMemory
  <2> DEFINE R == InMemory
  <2>2. R.input \in Nat /\ R.output \in Nat BY <2>1 DEF IsMemory
  <2>3. Len(R.syn) \in Nat /\ \A k \in 1 .. Len(R.syn) : R.syn[k] \in Synapses
    <3>1. R.syn \in Seq(Synapses) BY <2>1 DEF IsMemory, Synapses
    <3> HIDE DEF R
    <3> QED BY <3>1, LenProperties, ElementOfSeq
  <2>4. Len(R.views) \in Nat /\ \A v \in 1 .. Len(R.views) : R.views[v].kind \in Kinds
    <3> DEFINE X == [idKind : {"none", "fraction", "integer"}, id : Int,
                     kind : {"input", "constant", "hidden", "output", "invalid"},
                     bias : {"none", "finite", "bad"}, squash : STRING, uuid : STRING]
    <3>1. R.views \in Seq(X) BY <2>1 DEF IsMemory
    <3>2. \A x \in X : x.kind \in Kinds BY DEF Kinds
    <3> HIDE DEF R, X
    <3> QED BY <3>1, <3>2, LenProperties, ElementOfSeq
  <2> QED BY <2>1, <2>2, <2>3, <2>4 DEF IsHeld
<1>3. host.export \in BOOLEAN BY DEF IsHost
<1> QED BY <1>1, <1>2, <1>3

\* The entry points read the same creature, but for the kinds of its neurons.
LEMMA ReadTyped ==
  ASSUME IsHost(host), NEW e
  PROVE  LET R == ReadBy(e) IN
         /\ IsHeld(R) /\ R.input = host.creature.input /\ R.output = host.creature.output
         /\ R.syn = InMemory.syn /\ Len(R.views) = Len(InMemory.views)
         /\ R.input = InMemory.input /\ R.output = InMemory.output
         /\ host.export => Len(R.views) = Declared(host.creature)
<1> DEFINE E == host.creature
<1>1. ASSUME host.export
      PROVE  /\ IsExport(E) /\ InMemory = Loaded(E) /\ IsHeld(Exported(E)) /\ IsHeld(Loaded(E))
             /\ Exported(E).input = E.input /\ Exported(E).output = E.output /\ Exported(E).syn = Loaded(E).syn
             /\ Loaded(E).input = E.input /\ Loaded(E).output = E.output
             /\ Len(Exported(E).views) = Declared(E) /\ Len(Loaded(E).views) = Declared(E)
  <2>1. IsExport(E) /\ InMemory = Loaded(E) BY <1>1 DEF IsHost, InMemory
  <2>2. IsHeld(Exported(E)) /\ IsHeld(Loaded(E)) BY <2>1, LoadedTyped
  <2>3. /\ Exported(E).views = NeuronViews(E) /\ Loaded(E).views = MemoryViews(E)
        /\ Exported(E).input = E.input /\ Exported(E).output = E.output /\ Exported(E).syn = Loaded(E).syn
        /\ Loaded(E).input = E.input /\ Loaded(E).output = E.output
    BY DEF Exported, Loaded
  <2>4. Len(NeuronViews(E)) = Declared(E) /\ Len(MemoryViews(E)) = Declared(E)
    BY <2>1, ViewsAre, MemoryViewsAre
  <2> QED BY <2>1, <2>2, <2>3, <2>4
<1> HIDE DEF E
<1>2. CASE host.export /\ e \in {"native", "json"}
  <2>1. ReadBy(e) = Exported(E) BY <1>2 DEF ReadBy, E
  <2> QED BY <1>1, <1>2, <2>1 DEF E
<1>3. CASE ~(host.export /\ e \in {"native", "json"})
  <2>1. ReadBy(e) = InMemory BY <1>3 DEF ReadBy
  <2>2. IsHeld(InMemory) /\ InMemory.input = host.creature.input /\ InMemory.output = host.creature.output
    BY HeldTyped
  <2> QED BY <1>1, <2>1, <2>2 DEF E
<1> QED BY <1>2, <1>3

\* With no neuron listed as an input they read the very same.
LEMMA ReadAlike ==
  ASSUME IsHost(host), host.export => ListedInputs(host.creature) = {}, NEW e
  PROVE  ReadBy(e).views = InMemory.views
<1>1. CASE host.export /\ e \in {"native", "json"}
  <2>1. ReadBy(e).views = NeuronViews(host.creature) BY <1>1 DEF ReadBy, Exported
  <2>2. InMemory.views = MemoryViews(host.creature) BY <1>1 DEF InMemory, Loaded, Exported
  <2>3. IsExport(host.creature) BY <1>1 DEF IsHost
  <2>4. MemoryViews(host.creature) = NeuronViews(host.creature) BY <1>1, <2>3, NoneListed
  <2> QED BY <2>1, <2>2, <2>4
<1>2. CASE ~(host.export /\ e \in {"native", "json"}) BY <1>2 DEF ReadBy
<1> QED BY <1>1, <1>2

\* What the rules are handed of a creature that came as an export.
LEMMA RequestIs ==
  ASSUME host.export
  PROVE  LET E == host.creature
             q == Request("native")
             r == Request("runtime")
         IN /\ q.views = NeuronViews(E) /\ q.syn = Resolved(E) /\ q.input = E.input /\ q.output = E.output
            /\ q.options = host.options /\ q.memetic = E.memetic /\ q.wired = TRUE
            /\ r.views = MemoryViews(E) /\ r.syn = Resolved(E) /\ r.input = E.input /\ r.output = E.output
            /\ r.options = host.options /\ r.memetic = E.memetic /\ r.wired = FALSE
<1> DEFINE E == host.creature
           q == Request("native")
           r == Request("runtime")
<1>1. ReadBy("native") = Exported(E) /\ ReadBy("runtime") = Loaded(E) BY DEF ReadBy, InMemory
<1>2. ("native" \in {"native", "json"}) = TRUE /\ ("runtime" \in {"native", "json"}) = FALSE OBVIOUS
<1>3. q.wired = ("native" \in {"native", "json"}) /\ r.wired = ("runtime" \in {"native", "json"})
  BY DEF Request
<1>4. /\ q.views = NeuronViews(E) /\ q.syn = Resolved(E) /\ q.input = E.input /\ q.output = E.output
      /\ q.options = host.options /\ q.memetic = E.memetic
  BY <1>1 DEF Request, Exported
<1>5. /\ r.views = MemoryViews(E) /\ r.syn = Resolved(E) /\ r.input = E.input /\ r.output = E.output
      /\ r.options = host.options /\ r.memetic = E.memetic
  BY <1>1 DEF Request, Exported, Loaded
<1> HIDE DEF q, r
<1>6. q.wired = TRUE /\ r.wired = FALSE BY <1>2, <1>3
<1> QED BY <1>4, <1>5, <1>6 DEF q, r, E

RuleNames == {"ok", "none", "malformed", "oversize", "ref", "detail", "1", "2", "3", "28", "30", "31"}
               \cup NeuronRuleNames \cup WidthRuleNames \cup SynapseRuleNames
Verdicts == [rule : RuleNames, at : Int]

\* The rules on the declared widths.
LEMMA WidthsSay ==
  ASSUME NEW total, NEW input \in Nat, NEW output \in Nat
  PROVE  /\ WidthVerdict(total, input, output) \in {"1", "2", "3", "ok"}
         /\ WidthVerdict(total, input, output) = "ok" => input >= 1 /\ output >= 1
         /\ ~NeuronsExpected(host.options) /\ input >= 1 /\ output >= 1 =>
              WidthVerdict(total, input, output) = "ok"
<1> DEFINE N == {"1", "2", "3"}
           W == N \X BOOLEAN
           A == NeuronsExpected(host.options) /\ total # host.options.neurons
           B == input < 1
           C == output < 1
           a == << <<"1", A>>, <<"2", B>>, <<"3", C>> >>
<1>1. A \in BOOLEAN /\ B \in BOOLEAN /\ C \in BOOLEAN BY DEF NeuronsExpected
<1>2. WidthVerdict(total, input, output) = FirstBroken(a) BY DEF WidthVerdict
<1> HIDE DEF A, B, C
<1>3. a \in Seq(W) /\ Len(a) = 3 /\ (a[1][2] <=> A) /\ (a[2][2] <=> B) /\ (a[3][2] <=> C) BY <1>1
<1> HIDE DEF a, W, N
<1>4. "ok" \notin N BY DEF N
<1>5. /\ FirstBroken(a) \in N \cup {"ok"}
      /\ FirstBroken(a) = "ok" <=> \A i \in 1 .. Len(a) : ~a[i][2]
  BY <1>3, <1>4, FirstBrokenIs DEF W
<1>6. FirstBroken(a) = "ok" <=> ~A /\ ~B /\ ~C
  <2>1. 1 .. 3 = {1, 2, 3} OBVIOUS
  <2> QED BY <1>3, <1>5, <2>1
<1>7. /\ ~B /\ ~C <=> input >= 1 /\ output >= 1
      /\ ~NeuronsExpected(host.options) => ~A
  BY DEF A, B, C
<1> QED BY <1>2, <1>5, <1>6, <1>7 DEF N

\* What the declared widths and the ceilings say, and when the walk may start.
LEMMA BeforeWalkSays ==
  ASSUME IsHost(host), NEW e
  PROVE  /\ BeforeWalk(e) \in Verdicts /\ BeforeWalk(e).rule \notin {"29", "30", "31"}
         /\ BeforeWalk(e) = Accepted =>
              /\ ReadBy(e).input >= 1
              /\ \A k \in 1 .. Len(ReadBy(e).syn) :
                   /\ ReadBy(e).syn[k].from \in 0 .. Len(ReadBy(e).views) - 1
                   /\ ReadBy(e).syn[k].to \in 0 .. Len(ReadBy(e).views) - 1
<1> DEFINE E == host.creature
           R == ReadBy(e)
           widths == IF e \in {"native", "json"} THEN WidthVerdict(Declared(E), E.input, E.output)
                     ELSE WidthVerdict(Len(R.views), R.input, R.output)
           lost == Dangling(R.syn, Len(R.views))
           N == {"1", "2", "3"}
           W == N \X BOOLEAN
<1>1. IsHeld(R) /\ R.input = E.input /\ R.output = E.output BY ReadTyped
<1>2. ASSUME NEW total
      PROVE  /\ WidthVerdict(total, R.input, R.output) \in N \cup {"ok"}
             /\ WidthVerdict(total, R.input, R.output) = "ok" => R.input >= 1
  <2>1. R.input \in Nat /\ R.output \in Nat BY <1>1 DEF IsHeld
  <2> HIDE DEF R
  <2> QED BY <2>1, WidthsSay
<1>3. widths \in N \cup {"ok"} /\ (widths = "ok" => R.input >= 1)
  <2> HIDE DEF R, E, N
  <2> QED BY <1>1, <1>2
<1>4. lost # {} => Min(lost) \in Int
  <2> SUFFICES ASSUME lost # {} PROVE Min(lost) \in Int OBVIOUS
  <2>1. lost \in SUBSET Int /\ \A x \in lost : 1 <= x BY <1>1 DEF Dangling, IsHeld
  <2> HIDE DEF lost
  <2>2. Min(lost) \in lost BY <2>1, MinIs
  <2> QED BY <2>1, <2>2
<1>5. lost = {} => \A k \in 1 .. Len(R.syn) :
                     /\ R.syn[k].from \in 0 .. Len(R.views) - 1 /\ R.syn[k].to \in 0 .. Len(R.views) - 1
  <2> HIDE DEF R
  <2> QED BY DEF Dangling
<1>6. \/ BeforeWalk(e) = Refused("malformed", -1)
      \/ BeforeWalk(e) = Refused(widths, -1) /\ widths # "ok"
      \/ BeforeWalk(e) = Refused("oversize", -1)
      \/ BeforeWalk(e) = Refused("ref", Min(lost) - 1) /\ lost # {}
      \/ BeforeWalk(e) = Accepted /\ widths = "ok" /\ lost = {}
  <2> DEFINE P == e = "json" /\ Declared(E) > MaxNodes
             Q == e = "runtime" /\ Len(R.views) > MaxNodes
             M == e \in {"both", "neither"}
             D == e = "packed" /\ (DecodeFails(host.buffer) \/ ~host.buffer.memetic)
             other == IF widths # "ok" THEN Refused(widths, -1)
                      ELSE IF e = "native" /\ Declared(E) > MaxNodes THEN Refused("oversize", -1)
                      ELSE IF lost # {} THEN Refused("ref", Min(lost) - 1)
                      ELSE Accepted
  <2>1. BeforeWalk(e) = CASE P -> Refused("malformed", -1) [] Q -> Refused("malformed", -1)
                          [] M -> Refused("malformed", -1) [] D -> Refused("malformed", -1)
                          [] OTHER -> other
    BY DEF BeforeWalk
  <2>2. BeforeWalk(e) = Refused("malformed", -1) \/ BeforeWalk(e) = other
    <3> HIDE DEF P, Q, M, D, other
    <3> QED BY <2>1
  <2>3. \/ other = Refused(widths, -1) /\ widths # "ok"
        \/ other = Refused("oversize", -1)
        \/ other = Refused("ref", Min(lost) - 1) /\ lost # {}
        \/ other = Accepted /\ widths = "ok" /\ lost = {}
    <3> HIDE DEF widths, lost
    <3> QED OBVIOUS
  <2> HIDE DEF widths, lost, other
  <2> QED BY <2>2, <2>3
<1> HIDE DEF widths, lost, R, E
<1>7. \A r, at : Refused(r, at) = Accepted => r = "ok"
  <2> TAKE r, at
  <2>1. Refused(r, at).rule = r /\ Accepted.rule = "ok" BY DEF Refused, Accepted
  <2> QED BY <2>1
<1>8. \A r \in RuleNames, at \in Int : Refused(r, at) \in Verdicts /\ Refused(r, at).rule = r
  BY DEF Refused, Verdicts
<1>9. Accepted \in Verdicts /\ Accepted.rule = "ok"
  <2>1. Accepted.rule = "ok" BY DEF Accepted
  <2>2. -1 \in Int /\ "ok" \in RuleNames BY DEF RuleNames
  <2>3. Accepted \in Verdicts BY <2>2 DEF Accepted, Verdicts
  <2> QED BY <2>1, <2>3
<1>10. BeforeWalk(e) \in Verdicts /\ BeforeWalk(e).rule \notin {"29", "30", "31"}
  <2>1. widths \in RuleNames /\ widths \notin {"29", "30", "31"}
    <3>1. widths \in {"1", "2", "3"} \cup {"ok"} BY <1>3 DEF N
    <3>2. widths = "1" \/ widths = "2" \/ widths = "3" \/ widths = "ok" BY <3>1
    <3> QED BY <3>2 DEF RuleNames
  <2>2. lost # {} => Min(lost) - 1 \in Int BY <1>4
  <2>3. "malformed" \in RuleNames /\ "oversize" \in RuleNames /\ "ref" \in RuleNames /\ -1 \in Int
    BY DEF RuleNames
  <2>4. Refused("malformed", -1) \in Verdicts /\ Refused("malformed", -1).rule = "malformed" BY <1>8, <2>3
  <2>5. Refused("oversize", -1) \in Verdicts /\ Refused("oversize", -1).rule = "oversize" BY <1>8, <2>3
  <2>6. Refused(widths, -1) \in Verdicts /\ Refused(widths, -1).rule = widths BY <1>8, <2>1, <2>3
  <2>7. lost # {} => Refused("ref", Min(lost) - 1) \in Verdicts /\ Refused("ref", Min(lost) - 1).rule = "ref"
    BY <1>8, <2>2, <2>3
  <2> QED BY <1>6, <1>9, <2>1, <2>4, <2>5, <2>6, <2>7
<1>11. BeforeWalk(e) = Accepted => widths = "ok" /\ lost = {} BY <1>6, <1>7
<1> QED BY <1>3, <1>5, <1>10, <1>11 DEF R

-----------------------------------------------------------------------------
(* Edits and grafts leave an export                                          *)

NamedSynapses == [from : STRING, to : STRING, role : 0 .. 3]
ExportFields == {"input", "output", "neurons", "synapses", "memetic"}

LEMMA OwnSeq ==
  ASSUME NEW U, NEW s \in Seq(U)
  PROVE  s \in Seq(ToSet(s)) /\ Len(s) \in Nat /\ \A i \in 1 .. Len(s) : s[i] \in ToSet(s)
<1>1. Len(s) \in Nat /\ s \in [1 .. Len(s) -> U] /\ DOMAIN s = 1 .. Len(s) BY LenProperties
<1>2. \A i \in 1 .. Len(s) : s[i] \in ToSet(s) BY <1>1 DEF ToSet
<1>3. s \in [1 .. Len(s) -> ToSet(s)] BY <1>1, <1>2
<1>4. s \in Seq(ToSet(s)) BY <1>1, <1>3, SeqDef
<1> QED BY <1>1, <1>2, <1>4

LEMMA RemoveTyped ==
  ASSUME NEW U, NEW s \in Seq(U), NEW k \in 1 .. Len(s)
  PROVE  RemoveAt(s, k) \in Seq(U)
<1> DEFINE a == SubSeq(s, 1, k - 1)
           b == SubSeq(s, k + 1, Len(s))
<1>1. Len(s) \in Nat /\ \A i \in 1 .. Len(s) : s[i] \in U BY LenProperties, ElementOfSeq
<1>2. 1 \in Int /\ k - 1 \in Int /\ k + 1 \in Int /\ Len(s) \in Int BY <1>1
<1>3. \A i \in 1 .. k - 1 : s[i] \in U BY <1>1
<1>4. \A i \in k + 1 .. Len(s) : s[i] \in U BY <1>1
<1>5. a \in Seq(U) BY <1>2, <1>3, SubSeqProperties
<1>6. b \in Seq(U) BY <1>2, <1>4, SubSeqProperties
<1> HIDE DEF a, b
<1>7. a \o b \in Seq(U) BY <1>5, <1>6, ConcatProperties
<1> QED BY <1>7 DEF RemoveAt, a, b

\* g keeps of s the members at the places `keep`, place by place.
Keeps(g, s, keep) ==
  /\ g[0] = <<>> /\ g[Len(s)] = KeptOf(s, keep)
  /\ \A k \in 1 .. Len(s) : g[k] = IF k \in keep THEN Append(g[k - 1], s[k]) ELSE g[k - 1]

LEMMA KeptStepwise ==
  ASSUME NEW U, NEW s \in Seq(U), NEW keep
  PROVE  \E g \in [0 .. Len(s) -> Seq(U)] : Keeps(g, s, keep)
<1> DEFINE n == Len(s)
           X == Seq(U)
           upTo[k \in 0 .. Len(s)] ==
             IF k = 0 THEN <<>> ELSE IF k \in keep THEN Append(upTo[k - 1], s[k]) ELSE upTo[k - 1]
           step == [p \in (1 .. n) \X X |-> IF p[1] \in keep THEN Append(p[2], s[p[1]]) ELSE p[2]]
           none == <<>>
<1>1. n \in Nat /\ \A k \in 1 .. n : s[k] \in U BY LenProperties, ElementOfSeq
<1>2. none \in X BY EmptySeq
<1>3. ASSUME NEW k \in 1 .. n, NEW x \in X
      PROVE  /\ step[<<k, x>>] = (IF k \in keep THEN Append(x, s[k]) ELSE x)
             /\ step[<<k, x>>] \in X
  <2>1. step[<<k, x>>] = IF k \in keep THEN Append(x, s[k]) ELSE x
    <3> HIDE DEF n, X
    <3> QED OBVIOUS
  <2>2. Append(x, s[k]) \in X BY <1>1, AppendProperties
  <2> HIDE DEF step, X
  <2> QED BY <2>1, <2>2
<1>4. PICK g \in [0 .. n -> X] : g[0] = none /\ \A k \in 1 .. n : g[k] = step[<<k, g[k - 1]>>]
  <2> HIDE DEF step, upTo, n, X, none
  <2>1. \A k \in 1 .. n : \A x \in X : step[<<k, x>>] \in X BY <1>3
  <2>2. \E g \in [0 .. n -> X] : StepsBy(g, n, none, step) BY <1>1, <1>2, <2>1, Recursion
  <2> QED BY <2>2 DEF StepsBy
<1>5. g = [k \in 0 .. n |-> IF k = 0 THEN <<>> ELSE IF k \in keep THEN Append(g[k - 1], s[k]) ELSE g[k - 1]]
  <2>1. ASSUME NEW k \in 1 .. n PROVE g[k] = IF k \in keep THEN Append(g[k - 1], s[k]) ELSE g[k - 1]
    <3>1. g[k - 1] \in X BY <1>1
    <3>2. g[k] = step[<<k, g[k - 1]>>] BY <1>4
    <3> HIDE DEF step, X, n
    <3> QED BY <1>3, <3>1, <3>2
  <2>2. g[0] = <<>> BY <1>4
  <2>3. \A k \in 0 .. n : k = 0 \/ k \in 1 .. n BY <1>1, SMTT(30)
  <2> HIDE DEF n, X, step
  <2> QED BY <2>1, <2>2, <2>3
<1>6. upTo = [k \in 0 .. n |->
                IF k = 0 THEN <<>> ELSE IF k \in keep THEN Append(upTo[k - 1], s[k]) ELSE upTo[k - 1]]
  BY <1>5, ZenonT(40)
<1> HIDE DEF upTo
<1>7. KeptOf(s, keep) = upTo[n] BY DEF KeptOf, upTo
<1>8. /\ upTo[0] = <<>>
      /\ \A k \in 1 .. n : upTo[k] = IF k \in keep THEN Append(upTo[k - 1], s[k]) ELSE upTo[k - 1]
  <2>1. 0 \in 0 .. n /\ \A k \in 1 .. n : k \in 0 .. n /\ k # 0 BY <1>1
  <2> HIDE DEF n, X, step, none
  <2> QED BY <1>6, <2>1
<1> DEFINE T == {k \in 0 .. n : upTo[k] \in X}
<1>9. 0 \in T
  <2>1. 0 \in 0 .. n BY <1>1
  <2>2. upTo[0] \in X BY <1>2, <1>8
  <2> HIDE DEF n, X, step
  <2> QED BY <2>1, <2>2
<1>10. ASSUME NEW k \in 1 .. n, k - 1 \in T PROVE k \in T
  <2>1. upTo[k - 1] \in Seq(U) /\ s[k] \in U BY <1>1, <1>10
  <2>2. Append(upTo[k - 1], s[k]) \in Seq(U) BY <2>1, AppendProperties
  <2>3. upTo[k] \in X BY <1>8, <2>1, <2>2
  <2> QED BY <1>1, <2>3
<1>11. 0 .. n \subseteq T
  <2> HIDE DEF T, n
  <2> QED BY <1>1, <1>9, <1>10, InductionUpTo
<1>12. upTo \in [0 .. n -> X]
  <2>1. \A k \in 0 .. n : upTo[k] \in X BY <1>11
  <2> HIDE DEF n, X, T, step, none
  <2> QED BY <1>6, <2>1
<1> HIDE DEF X, n
<1>13. Keeps(upTo, s, keep) BY <1>7, <1>8 DEF Keeps, n
<1> QED BY <1>12, <1>13 DEF X, n

LEMMA KeptTyped ==
  ASSUME NEW U, NEW s \in Seq(U), NEW keep
  PROVE  KeptOf(s, keep) \in Seq(U)
<1>1. Len(s) \in 0 .. Len(s) BY LenProperties
<1>2. PICK g \in [0 .. Len(s) -> Seq(U)] : Keeps(g, s, keep) BY KeptStepwise
<1> QED BY <1>1, <1>2 DEF Keeps

\* What is kept are the members at the places, as many as there are places.
IsKept(kept, s, places) ==
  /\ \A i \in 1 .. Len(kept) : \E k \in places : kept[i] = s[k]
  /\ \A k \in places : \E i \in 1 .. Len(kept) : kept[i] = s[k]
  /\ Len(kept) = Cardinality(places)

LEMMA KeptMembers ==
  ASSUME NEW U, NEW s \in Seq(U), NEW keep \in SUBSET (1 .. Len(s))
  PROVE  IsKept(KeptOf(s, keep), s, keep)
<1> DEFINE n == Len(s)
           upTo(k) == {j \in 1 .. k : j \in keep}
           Read(g, k) == \A i \in 1 .. Len(g[k]) : \E j \in upTo(k) : g[k][i] = s[j]
           Taken(g, k) == \A j \in upTo(k) : \E i \in 1 .. Len(g[k]) : g[k][i] = s[j]
           Sized(g, k) == Len(g[k]) = Cardinality(upTo(k)) /\ IsFiniteSet(upTo(k))
<1>1. n \in Nat /\ \A k \in 1 .. n : s[k] \in U BY LenProperties, ElementOfSeq
<1>2. PICK g \in [0 .. n -> Seq(U)] :
           /\ g[0] = <<>> /\ g[n] = KeptOf(s, keep)
           /\ \A k \in 1 .. n : g[k] = IF k \in keep THEN Append(g[k - 1], s[k]) ELSE g[k - 1]
  <2>1. \E g \in [0 .. Len(s) -> Seq(U)] : Keeps(g, s, keep) BY KeptStepwise
  <2> QED BY <2>1 DEF Keeps
<1> DEFINE T == {k \in 0 .. n : Read(g, k) /\ Taken(g, k) /\ Sized(g, k)}
<1>3. 0 \in T
  <2>1. upTo(0) = {} /\ Len(g[0]) = 0 /\ 0 \in 0 .. n BY <1>1, <1>2
  <2>2. Cardinality({}) = 0 /\ IsFiniteSet({}) BY FS_EmptySet
  <2> HIDE DEF upTo
  <2> QED BY <2>1, <2>2
<1>4. ASSUME NEW k \in 1 .. n, k - 1 \in T PROVE k \in T
  <2> DEFINE a == g[k - 1]
             b == g[k]
  <2>1. /\ a \in Seq(U) /\ Len(a) \in Nat /\ s[k] \in U /\ k \in 0 .. n /\ k - 1 \in 0 .. n
        /\ Read(g, k - 1) /\ Taken(g, k - 1) /\ Sized(g, k - 1)
    <3>1. k - 1 \in 0 .. n /\ k \in 0 .. n BY <1>1
    <3>2. a \in Seq(U) BY <1>2, <3>1
    <3> QED BY <1>1, <1>4, <3>1, <3>2, LenProperties
  <2>2. CASE k \notin keep
    <3>1. upTo(k) = upTo(k - 1) BY <1>1, <2>2
    <3>2. b = a BY <1>2, <2>2
    <3> HIDE DEF upTo, a, b
    <3>3. Read(g, k) /\ Taken(g, k) /\ Sized(g, k) BY <2>1, <3>1, <3>2 DEF a, b
    <3> QED BY <2>1, <3>3
  <2>3. CASE k \in keep
    <3>1. upTo(k) = upTo(k - 1) \cup {k} /\ k \notin upTo(k - 1) BY <1>1, <2>3
    <3>2. b = Append(a, s[k]) BY <1>2, <2>3
    <3>3. Len(b) = Len(a) + 1 /\ \A i \in 1 .. Len(a) : b[i] = a[i]
      <4> HIDE DEF a
      <4> QED BY <2>1, <3>2, AppendProperties
    <3>4. b[Len(a) + 1] = s[k]
      <4> HIDE DEF a
      <4> QED BY <2>1, <3>2, AppendProperties
    <3>5. Read(g, k)
      <4> SUFFICES ASSUME NEW i \in 1 .. Len(b) PROVE \E j \in upTo(k) : b[i] = s[j] OBVIOUS
      <4>1. i \in 1 .. Len(a) \/ i = Len(a) + 1
        <5> HIDE DEF a, b
        <5> QED BY <2>1, <3>3
      <4>2. CASE i \in 1 .. Len(a)
        <5>1. \E j \in upTo(k - 1) : a[i] = s[j] BY <2>1, <4>2
        <5> HIDE DEF a, b, upTo
        <5> QED BY <3>1, <3>3, <4>2, <5>1
      <4>3. CASE i = Len(a) + 1
        <5>1. b[i] = s[k] BY <3>4, <4>3
        <5>2. k \in upTo(k) BY <3>1
        <5> HIDE DEF a, b, upTo
        <5> QED BY <5>1, <5>2
      <4> QED BY <4>1, <4>2, <4>3
    <3>6. Taken(g, k)
      <4> SUFFICES ASSUME NEW j \in upTo(k) PROVE \E i \in 1 .. Len(b) : b[i] = s[j] OBVIOUS
      <4>1. CASE j \in upTo(k - 1)
        <5>1. PICK i \in 1 .. Len(a) : a[i] = s[j] BY <2>1, <4>1
        <5>2. i \in 1 .. Len(b) /\ b[i] = a[i]
          <6> HIDE DEF a, b
          <6> QED BY <2>1, <3>3
        <5> QED BY <5>1, <5>2
      <4>2. CASE j = k
        <5>1. Len(a) + 1 \in 1 .. Len(b)
          <6> HIDE DEF a, b
          <6> QED BY <2>1, <3>3
        <5> QED BY <3>4, <4>2, <5>1
      <4> QED BY <3>1, <4>1, <4>2
    <3>7. Sized(g, k)
      <4>1. Cardinality(upTo(k - 1)) = Len(a) /\ IsFiniteSet(upTo(k - 1)) BY <2>1
      <4> HIDE DEF a, b, upTo
      <4>2. \A S, x : IsFiniteSet(S) /\ x \notin S =>
              IsFiniteSet(S \cup {x}) /\ Cardinality(S \cup {x}) = Cardinality(S) + 1
        BY FS_AddElement
      <4>3. IsFiniteSet(upTo(k)) /\ Cardinality(upTo(k)) = Cardinality(upTo(k - 1)) + 1
        BY <3>1, <4>1, <4>2
      <4> QED BY <3>3, <4>1, <4>3 DEF b
    <3> HIDE DEF a, b, upTo
    <3> QED BY <2>1, <3>5, <3>6, <3>7
  <2> QED BY <2>2, <2>3
<1>5. 0 .. n \subseteq T
  <2> HIDE DEF T, n
  <2> QED BY <1>1, <1>3, <1>4, InductionUpTo
<1>6. Read(g, n) /\ Taken(g, n) /\ Sized(g, n)
  <2>1. n \in 0 .. n BY <1>1
  <2> HIDE DEF n, Read, Taken, Sized
  <2> QED BY <1>5, <2>1
<1>7. upTo(n) = keep OBVIOUS
<1> HIDE DEF upTo
<1> QED BY <1>2, <1>6, <1>7, ZenonT(40) DEF IsKept

LEMMA KeptNone == ASSUME NEW keep PROVE KeptOf(<<>>, keep) = <<>>
<1> DEFINE kept == KeptOf(<<>>, keep)
<1>1. kept \in Seq({}) BY KeptTyped, EmptySeq
<1> HIDE DEF kept
<1>2. Len(kept) \in Nat /\ \A i \in 1 .. Len(kept) : kept[i] \in {} BY <1>1, LenProperties, ElementOfSeq
<1>3. Len(kept) = 0
  <2>1. ASSUME Len(kept) # 0 PROVE FALSE
    <3>1. 1 \in 1 .. Len(kept) BY <1>2, <2>1
    <3> QED BY <1>2, <3>1
  <2> QED BY <2>1
<1>4. kept = <<>> BY <1>1, <1>3, EmptySeq
<1> QED BY <1>4 DEF kept

LEMMA KeptIs ==
  ASSUME NEW U, NEW s \in Seq(U), NEW keep
  PROVE  LET kept == KeptOf(s, keep) IN
         /\ kept \in Seq(U) /\ Len(kept) \in Nat
         /\ \A i \in 1 .. Len(kept) : kept[i] \in U
BY KeptTyped, LenProperties, ElementOfSeq

MapWeights == [key : Keys, list : BOOLEAN, entries : Seq([toId : Int, weight : BOOLEAN])]
RowWeights == [from : Keys, to : Keys, weight : BOOLEAN]

LEMMA MemeticTyped ==
  ASSUME NEW m
  PROVE  IsMemetic(m) <=>
           /\ m.biases \in Seq(Keys)
           /\ \/ m.form = "none" /\ m.biases = <<>> /\ m.weights = <<>>
              \/ m.form = "map" /\ m.weights \in Seq(MapWeights)
              \/ m.form = "rows" /\ m.weights \in Seq(RowWeights)
BY DEF IsMemetic, MapWeights, RowWeights

LEMMA NoMemeticTyped == IsMemetic(NoMemetic)
<1>1. NoMemetic.form = "none" /\ NoMemetic.biases = <<>> /\ NoMemetic.weights = <<>> BY DEF NoMemetic
<1>2. NoMemetic.biases \in Seq(Keys) BY <1>1, EmptySeq
<1> QED BY <1>1, <1>2, MemeticTyped

\* A pruned record is a record, in the form it had.
LEMMA PruneTyped ==
  ASSUME NEW vocab, NEW syn, NEW m, IsMemetic(m)
  PROVE  IsMemetic(PruneTo(vocab, syn, m)) /\ PruneTo(vocab, syn, m).form = m.form
<1> DEFINE P == PruneTo(vocab, syn, m)
           b == KeptOf(m.biases, {i \in 1 .. Len(m.biases) : Resolve(vocab, m.biases[i]) # Nowhere})
           rows == KeptOf(m.weights, {i \in 1 .. Len(m.weights) : KeepRow(vocab, Pairs(syn), m.weights[i])})
           named == KeptOf(m.weights, {i \in 1 .. Len(m.weights) :
                                         Resolve(vocab, m.weights[i].key) # Nowhere})
           maps == [i \in 1 .. Len(named) |-> PruneEntries(vocab, Pairs(syn), named[i])]
<1>1. /\ m.biases \in Seq(Keys)
      /\ \/ m.form = "none" /\ m.biases = <<>> /\ m.weights = <<>>
         \/ m.form = "map" /\ m.weights \in Seq(MapWeights)
         \/ m.form = "rows" /\ m.weights \in Seq(RowWeights)
  BY MemeticTyped
<1>2. b \in Seq(Keys) BY <1>1, KeptTyped
<1>3. P.form = m.form /\ P.biases = b /\ P.weights = IF m.form = "rows" THEN rows ELSE maps
  BY DEF PruneTo
<1>4. CASE m.form = "rows"
  <2>1. rows \in Seq(RowWeights) BY <1>1, <1>4, KeptTyped
  <2> HIDE DEF P, b, rows, maps
  <2> QED BY <1>2, <1>3, <1>4, <2>1, MemeticTyped DEF P
<1>5. CASE m.form = "map"
  <2>1. Len(named) \in Nat /\ \A i \in 1 .. Len(named) : named[i] \in MapWeights BY <1>1, <1>5, KeptIs
  <2>2. ASSUME NEW w \in MapWeights PROVE PruneEntries(vocab, Pairs(syn), w) \in MapWeights
    <3> DEFINE kept == KeptOf(w.entries, {j \in 1 .. Len(w.entries) :
                                KeepEntry(vocab, Pairs(syn), Resolve(vocab, w.key), w.entries[j])})
    <3>1. w.entries \in Seq([toId : Int, weight : BOOLEAN]) BY DEF MapWeights
    <3>2. kept \in Seq([toId : Int, weight : BOOLEAN]) BY <3>1, KeptTyped
    <3>3. PruneEntries(vocab, Pairs(syn), w) = [w EXCEPT !.entries = kept] BY DEF PruneEntries
    <3> HIDE DEF kept
    <3> QED BY <3>2, <3>3 DEF MapWeights
  <2>3. maps \in Seq(MapWeights)
    <3> HIDE DEF named
    <3> QED BY <2>1, <2>2
  <2> HIDE DEF P, b, rows, maps
  <2> QED BY <1>2, <1>3, <1>5, <2>3, MemeticTyped DEF P
<1>6. CASE m.form = "none"
  <2>1. Len(m.biases) = 0 /\ Len(m.weights) = 0 BY <1>1, <1>6
  <2>2. b = <<>> /\ named = <<>> BY <1>1, <1>6, <2>1, KeptNone
  <2>3. maps = <<>>
    <3>1. Len(named) = 0 BY <2>2
    <3> HIDE DEF named
    <3>2. maps \in Seq(MapWeights) /\ Len(maps) = 0 BY <3>1
    <3> HIDE DEF maps
    <3> QED BY <3>2, EmptySeq
  <2> HIDE DEF P, b, rows, maps
  <2> QED BY <1>2, <1>3, <1>6, <2>2, <2>3, MemeticTyped DEF P
<1> QED BY <1>1, <1>3, <1>4, <1>5, <1>6

LEMMA EditTyped ==
  ASSUME NEW E, IsExport(E), NEW D \in Edits(E)
  PROVE  IsExport(Pruned(D))
<1> DEFINE P == Pruned(D)
<1>1. /\ ExportFields \subseteq DOMAIN E /\ E.input \in Nat /\ E.output \in Nat
      /\ E.neurons \in Seq(ToSet(E.neurons)) /\ E.synapses \in Seq(NamedSynapses) /\ IsMemetic(E.memetic)
  BY SMTT(30) DEF IsExport, ExportFields, NamedSynapses
<1>2. /\ DOMAIN D = DOMAIN E /\ D.input = E.input /\ D.output = E.output /\ D.memetic = E.memetic
      /\ \E U : D.neurons \in Seq(U)
      /\ D.synapses \in Seq(NamedSynapses)
  <2>1. ASSUME NEW k \in 1 .. Len(E.synapses), D = [E EXCEPT !.synapses = RemoveAt(E.synapses, k)]
        PROVE  /\ DOMAIN D = DOMAIN E /\ D.input = E.input /\ D.output = E.output /\ D.memetic = E.memetic
               /\ \E U : D.neurons \in Seq(U)
               /\ D.synapses \in Seq(NamedSynapses)
    <3>1. RemoveAt(E.synapses, k) \in Seq(NamedSynapses) BY <1>1, RemoveTyped
    <3>2. /\ DOMAIN D = DOMAIN E /\ D.input = E.input /\ D.output = E.output /\ D.memetic = E.memetic
          /\ D.neurons = E.neurons /\ D.synapses = RemoveAt(E.synapses, k)
      BY <1>1, <2>1 DEF ExportFields
    <3> QED BY <1>1, <3>1, <3>2
  <2>2. ASSUME NEW i \in 1 .. Len(E.neurons), NEW keep,
               D = [E EXCEPT !.neurons = RemoveAt(E.neurons, i), !.synapses = KeptOf(E.synapses, keep)]
        PROVE  /\ DOMAIN D = DOMAIN E /\ D.input = E.input /\ D.output = E.output /\ D.memetic = E.memetic
               /\ \E U : D.neurons \in Seq(U)
               /\ D.synapses \in Seq(NamedSynapses)
    <3>1. KeptOf(E.synapses, keep) \in Seq(NamedSynapses) BY <1>1, KeptTyped
    <3>2. RemoveAt(E.neurons, i) \in Seq(ToSet(E.neurons)) BY <1>1, RemoveTyped
    <3>3. /\ DOMAIN D = DOMAIN E /\ D.input = E.input /\ D.output = E.output /\ D.memetic = E.memetic
          /\ D.neurons = RemoveAt(E.neurons, i) /\ D.synapses = KeptOf(E.synapses, keep)
      BY <1>1, <2>2, SMTT(30) DEF ExportFields
    <3> QED BY <3>1, <3>2, <3>3
  <2>3. \/ \E k \in 1 .. Len(E.synapses) : D = [E EXCEPT !.synapses = RemoveAt(E.synapses, k)]
        \/ \E i \in {j \in 1 .. Len(E.neurons) : E.neurons[j].type = "hidden"} :
             D = [E EXCEPT !.neurons = RemoveAt(E.neurons, i),
                           !.synapses = KeptOf(E.synapses, {k \in 1 .. Len(E.synapses) :
                              E.neurons[i].uuid \notin {E.synapses[k].from, E.synapses[k].to}})]
    BY ZenonT(40) DEF Edits
  <2> QED BY <2>1, <2>2, <2>3, ZenonT(40)
<1>3. D.neurons \in Seq(ToSet(D.neurons)) BY <1>2, OwnSeq
<1>4. /\ DOMAIN P = DOMAIN D /\ P.input = D.input /\ P.output = D.output
      /\ P.neurons = D.neurons /\ P.synapses = D.synapses
      /\ P.memetic = PruneTo(ExportVocabulary(D), Resolved(D), D.memetic)
  BY <1>1, <1>2 DEF Pruned, ExportFields
<1> HIDE DEF P
<1>5. IsMemetic(P.memetic) BY <1>1, <1>2, <1>4, PruneTyped
<1>6. IsExport(P) BY <1>1, <1>2, <1>3, <1>4, <1>5 DEF IsExport, ExportFields, NamedSynapses
<1> QED BY <1>6 DEF P

-----------------------------------------------------------------------------
(* The canonical order                                                       *)

Before(key, n, k) == {j \in 1 .. n : Precedes(key[j], key[k]) \/ (key[j] = key[k] /\ j < k)}

RankOf(key, n) == [k \in 1 .. n |-> Cardinality(Before(key, n, k)) + 1]

\* Every rank is somebody's, nobody else's, and grows with the key.
LEMMA RanksTaken ==
  ASSUME NEW n \in Nat, NEW key, \A k \in 1 .. n : key[k] \in Synapses
  PROVE  /\ RankOf(key, n) \in Injection(1 .. n, 1 .. n) /\ RankOf(key, n) \in Surjection(1 .. n, 1 .. n)
         /\ \A j, k \in 1 .. n : Precedes(key[j], key[k]) => RankOf(key, n)[j] < RankOf(key, n)[k]
<1> DEFINE I == 1 .. n
           B(k) == Before(key, n, k)
           rank == [k \in I |-> Cardinality(B(k)) + 1]
<1>1. IsFiniteSet(I) /\ Cardinality(I) = n
  <2>1. 1 \in Int /\ n \in Int OBVIOUS
  <2>2. IsFiniteSet(1 .. n) /\ Cardinality(1 .. n) = IF 1 > n THEN 0 ELSE n - 1 + 1 BY <2>1, FS_Interval
  <2> QED BY <2>2
<1>2. \A j, k \in I : j \in B(k) <=> Precedes(key[j], key[k]) \/ (key[j] = key[k] /\ j < k) BY DEF Before
<1>3. \A a \in Synapses : /\ a.from \in Int /\ a.to \in Int /\ a.role \in Int
                          /\ a = [from |-> a.from, to |-> a.to, role |-> a.role]
  BY DEF Synapses
<1>4. \A a, b \in Synapses : a = b \/ Precedes(a, b) \/ Precedes(b, a)
  <2> TAKE a, b \in Synapses
  <2>1. a.from = b.from /\ a.to = b.to /\ a.role = b.role => a = b BY <1>3
  <2> QED BY <1>3, <2>1 DEF Precedes
<1>5. \A a, b, c \in Synapses : /\ ~Precedes(a, a)
                                /\ Precedes(a, b) /\ Precedes(b, c) => Precedes(a, c)
  BY <1>3 DEF Precedes
<1>6. \A j, k \in I : j # k => j \in B(k) \/ k \in B(j)
  <2> TAKE j, k \in I
  <2>1. key[j] \in Synapses /\ key[k] \in Synapses OBVIOUS
  <2>2. key[j] = key[k] \/ Precedes(key[j], key[k]) \/ Precedes(key[k], key[j]) BY <1>4, <2>1
  <2>3. j # k => j < k \/ k < j OBVIOUS
  <2> HIDE DEF B
  <2> QED BY <1>2, <2>2, <2>3
<1>7. \A k \in I : k \notin B(k)
  <2> TAKE k \in I
  <2>1. ~Precedes(key[k], key[k]) BY <1>5
  <2> QED BY <1>2, <2>1
<1>8. \A i, j, k \in I : i \in B(j) /\ j \in B(k) => i \in B(k)
  <2> TAKE i, j, k \in I
  <2>1. key[i] \in Synapses /\ key[j] \in Synapses /\ key[k] \in Synapses OBVIOUS
  <2>2. Precedes(key[i], key[j]) /\ Precedes(key[j], key[k]) => Precedes(key[i], key[k]) BY <1>5, <2>1
  <2>3. i < j /\ j < k => i < k OBVIOUS
  <2> HIDE DEF B
  <2> QED BY <1>2, <2>2, <2>3
<1>9. \A k \in I : B(k) \in SUBSET I BY DEF Before
<1> HIDE DEF I, B
<1>10. \A k \in I : IsFiniteSet(B(k)) /\ Cardinality(B(k)) \in Nat BY <1>1, <1>9, FS_Subset, FS_CardinalityType
<1>11. ASSUME NEW k \in I PROVE Cardinality(B(k)) + 1 \in I
  <2>1. B(k) \in SUBSET (I \ {k}) BY <1>7, <1>9
  <2>2. IsFiniteSet(I \ {k}) /\ Cardinality(I \ {k}) = n - 1 BY <1>1, FS_RemoveElement
  <2>3. Cardinality(B(k)) <= n - 1 BY <2>1, <2>2, FS_Subset
  <2> QED BY <1>10, <2>3 DEF I
<1>12. ASSUME NEW j \in I, NEW k \in I, j \in B(k) PROVE Cardinality(B(j)) < Cardinality(B(k))
  <2>1. B(j) \in SUBSET (B(k) \ {j})
    <3>1. \A i \in B(j) : i \in B(k) /\ i # j BY <1>7, <1>8, <1>9, <1>12
    <3> QED BY <3>1
  <2>2. IsFiniteSet(B(k) \ {j}) /\ Cardinality(B(k) \ {j}) = Cardinality(B(k)) - 1
    BY <1>10, <1>12, FS_RemoveElement
  <2>3. Cardinality(B(j)) <= Cardinality(B(k)) - 1 BY <2>1, <2>2, FS_Subset
  <2> QED BY <1>10, <2>3
<1>13. rank \in Injection(I, I)
  <2>1. rank \in [I -> I] BY <1>11
  <2>2. ASSUME NEW j \in I, NEW k \in I, rank[j] = rank[k] PROVE j = k
    <3>1. Cardinality(B(j)) = Cardinality(B(k)) BY <1>10, <2>2
    <3>2. ~(Cardinality(B(j)) < Cardinality(B(k))) /\ ~(Cardinality(B(k)) < Cardinality(B(j)))
      BY <1>10, <3>1
    <3> QED BY <1>6, <1>12, <3>2
  <2> HIDE DEF rank
  <2> QED BY <2>1, <2>2 DEF Injection, IsInjective
<1>14. rank \in Surjection(I, I)
  <2> HIDE DEF rank
  <2> QED BY <1>1, <1>13, FS_Injection
<1>15. ASSUME NEW j \in I, NEW k \in I, Precedes(key[j], key[k]) PROVE rank[j] < rank[k]
  <2>1. j \in B(k) BY <1>2, <1>15
  <2>2. Cardinality(B(j)) < Cardinality(B(k)) BY <1>12, <2>1
  <2> QED BY <1>10, <2>2
<1>16. RankOf(key, n) = rank BY DEF RankOf, I, B
<1> HIDE DEF rank
<1> QED BY <1>13, <1>14, <1>15, <1>16 DEF I

\* p says where the members of t, which is s in the order of key, stood in s.
Sorts(p, s, key, t) ==
  /\ p \in Bijection(1 .. Len(s), 1 .. Len(s))
  /\ Len(t) = Len(s) /\ \A i \in 1 .. Len(s) : t[i] = s[p[i]]
  /\ \A i, j \in 1 .. Len(s) : i < j => ~Precedes(key[p[j]], key[p[i]])

LEMMA ByKeySorts ==
  ASSUME NEW U, NEW s \in Seq(U), NEW key, \A k \in 1 .. Len(s) : key[k] \in Synapses
  PROVE  ByKey(s, key) \in Seq(U) /\ \E p : Sorts(p, s, key, ByKey(s, key))
<1> DEFINE n == Len(s)
           I == 1 .. n
           rank == RankOf(key, n)
           p == [i \in I |-> CHOOSE k \in I : rank[k] = i]
           t == [i \in I |-> s[CHOOSE k \in I : rank[k] = i]]
<1>1. n \in Nat /\ \A k \in I : s[k] \in U BY LenProperties, ElementOfSeq
<1>2. ByKey(s, key) = t BY DEF ByKey, RankOf, Before
<1>3. /\ rank \in Injection(I, I) /\ rank \in Surjection(I, I)
      /\ \A j, k \in I : Precedes(key[j], key[k]) => rank[j] < rank[k]
  <2> HIDE DEF n
  <2> QED BY <1>1, RanksTaken DEF n
<1> HIDE DEF n, rank
<1>4. ASSUME NEW i \in I PROVE p[i] \in I /\ rank[p[i]] = i /\ t[i] = s[p[i]]
  <2>1. \E k \in I : rank[k] = i BY <1>3 DEF Surjection
  <2> QED BY <2>1
<1> HIDE DEF I
<1>5. p \in [I -> I] BY <1>4
<1>6. \A i, j \in I : p[i] = p[j] => i = j BY <1>4
<1>7. ASSUME NEW k \in I PROVE \E i \in I : p[i] = k
  <2>1. rank[k] \in I BY <1>3 DEF Injection
  <2>2. rank[p[rank[k]]] = rank[k] /\ p[rank[k]] \in I BY <1>4, <2>1
  <2>3. p[rank[k]] = k BY <1>3, <2>2 DEF Injection, IsInjective
  <2> QED BY <2>1, <2>3
<1>8. p \in Bijection(I, I)
  <2> HIDE DEF p
  <2> QED BY <1>5, <1>6, <1>7, Fun_IsBij
<1>9. ASSUME NEW i \in I, NEW j \in I, i < j PROVE ~Precedes(key[p[j]], key[p[i]])
  <2>1. i \in Int /\ j \in Int BY <1>1 DEF I
  <2>2. p[i] \in I /\ p[j] \in I /\ rank[p[i]] = i /\ rank[p[j]] = j BY <1>4
  <2> HIDE DEF p
  <2>3. Precedes(key[p[j]], key[p[i]]) => j < i BY <1>3, <2>2
  <2> QED BY <1>9, <2>1, <2>3
<1>10. t \in Seq(U) /\ Len(t) = n /\ \A i \in I : t[i] = s[p[i]]
  <2>1. \A i \in I : t[i] = s[p[i]] /\ t[i] \in U BY <1>1, <1>4 DEF I
  <2>2. DOMAIN t = I /\ t = [i \in I |-> t[i]] BY DEF t
  <2> HIDE DEF t, p
  <2>3. t \in [I -> U] BY <2>1, <2>2
  <2> QED BY <1>1, <2>1, <2>2, <2>3 DEF I
<1>11. Sorts(p, s, key, t)
  <2> HIDE DEF p, t
  <2> QED BY <1>8, <1>9, <1>10 DEF Sorts, I, n
<1> QED BY <1>2, <1>10, <1>11, ZenonT(40)

EndAt(E, u) == IF AtWire(E, u) = Nowhere THEN DeclaredNodeCount(E) ELSE AtWire(E, u)
KeysOf(E) ==
  [k \in 1 .. Len(E.synapses) |->
     [from |-> EndAt(E, E.synapses[k].from), to |-> EndAt(E, E.synapses[k].to), role |-> E.synapses[k].role]]

\* The canonical order moves the synapses, and nothing else.
LEMMA CanonicalTyped ==
  ASSUME NEW E, ExportFields \subseteq DOMAIN E, IsExport(E)
  PROVE  LET P == Canonical(E) IN
         /\ IsExport(P) /\ DOMAIN P = DOMAIN E
         /\ P.input = E.input /\ P.output = E.output /\ P.neurons = E.neurons /\ P.memetic = E.memetic
         /\ \E p : Sorts(p, E.synapses, KeysOf(E), P.synapses)
<1> DEFINE n == Len(E.synapses)
           key == KeysOf(E)
           sorted == ByKey(E.synapses, key)
           P == Canonical(E)
<1>1. /\ E.input \in Nat /\ E.output \in Nat /\ E.neurons \in Seq(ToSet(E.neurons))
      /\ E.synapses \in Seq(NamedSynapses) /\ IsMemetic(E.memetic)
  BY DEF IsExport, NamedSynapses
<1>2. /\ Len(E.neurons) \in Nat /\ n \in Nat /\ \A k \in 1 .. n : E.synapses[k] \in NamedSynapses
  BY <1>1, LenProperties, ElementOfSeq
<1>3. \A k \in 1 .. n : key[k] \in Synapses
  <2> TAKE k \in 1 .. n
  <2>1. \A u : EndAt(E, u) \in Int
    <3>1. \A u : AtWire(E, u) \in -1 .. E.input + Len(E.neurons) - 1 BY WireTyped
    <3>2. E.input + Len(E.neurons) - 1 \in Int /\ DeclaredNodeCount(E) \in Int BY <1>1, <1>2 DEF DeclaredNodeCount
    <3> QED BY <3>1, <3>2 DEF EndAt
  <2>2. E.synapses[k].role \in 0 .. 3 BY <1>2 DEF NamedSynapses
  <2>3. key[k] = [from |-> EndAt(E, E.synapses[k].from), to |-> EndAt(E, E.synapses[k].to),
                  role |-> E.synapses[k].role]
    BY DEF KeysOf
  <2> HIDE DEF key
  <2> QED BY <2>1, <2>2, <2>3 DEF Synapses
<1>4. P = [E EXCEPT !.synapses = sorted] BY DEF Canonical, KeysOf, EndAt
<1>5. sorted \in Seq(NamedSynapses) /\ \E p : Sorts(p, E.synapses, key, sorted)
  <2> HIDE DEF key
  <2> QED BY <1>1, <1>3, ByKeySorts
<1> HIDE DEF P, sorted, key
<1>6. /\ DOMAIN P = DOMAIN E /\ P.input = E.input /\ P.output = E.output /\ P.neurons = E.neurons
      /\ P.synapses = sorted /\ P.memetic = E.memetic
  BY <1>4 DEF ExportFields
<1>7. IsExport(P) BY <1>1, <1>5, <1>6 DEF IsExport, ExportFields, NamedSynapses
<1> QED BY <1>5, <1>6, <1>7 DEF P, key

\* What a plan that passes its rules is made of.
IsPlan(plan) ==
  /\ plan.uuid \in STRING
  /\ Len(plan.constants) \in Nat /\ Len(plan.inbound) \in Nat /\ Len(plan.targets) \in Nat
  /\ \A k \in 1 .. Len(plan.inbound) : plan.inbound[k].uuid \in STRING /\ plan.inbound[k].branch \in 0 .. 3
  /\ \A k \in 1 .. Len(plan.targets) : plan.targets[k].uuid \in STRING /\ plan.targets[k].role \in 0 .. 3

LEMMA PlaceFits ==
  ASSUME NEW E, IsExport(E), NEW plan, IsPlan(plan)
  PROVE  Place(E, plan) \in 0 .. Len(E.neurons)
<1> DEFINE n == Len(E.neurons)
           A == {AtWire(E, plan.inbound[k].uuid) - E.input + 1 : k \in 1 .. Len(plan.inbound)}
           S == {0} \cup Constants(E) \cup A
<1>1. E.input \in Nat /\ n \in Nat BY LenProperties DEF IsExport
<1>2. \A x \in A : x \in Int /\ x <= n
  <2>1. \A u : AtWire(E, u) \in -1 .. E.input + n - 1 BY WireTyped
  <2>2. \A u : AtWire(E, u) - E.input + 1 \in Int /\ AtWire(E, u) - E.input + 1 <= n BY <1>1, <2>1
  <2> HIDE DEF n
  <2> QED BY <2>2
<1>3. Constants(E) \subseteq 1 .. n BY DEF Constants
<1> HIDE DEF A
<1>4. S \in SUBSET Int /\ S # {} /\ n \in Int /\ \A x \in S : x <= n BY <1>1, <1>2, <1>3
<1>5. 0 \in S OBVIOUS
<1>6. Max(S) \in S /\ \A y \in S : y <= Max(S)
  <2> HIDE DEF S, n
  <2> QED BY <1>4, MaxIs
<1>7. Place(E, plan) = Max(S) BY DEF Place, Earliest, S, A
<1> HIDE DEF S, n
<1>8. Max(S) \in Int /\ 0 <= Max(S) /\ Max(S) <= n BY <1>4, <1>5, <1>6
<1>9. Place(E, plan) \in 0 .. n BY <1>1, <1>7, <1>8
<1> QED BY <1>9 DEF n

LEMMA ConstantsFit ==
  ASSUME NEW E, IsExport(E), NEW p \in 0 .. Len(E.neurons)
  PROVE  ConstantsAt(E, p) \in 0 .. p
<1> DEFINE n == Len(E.neurons)
           A == {i - 1 : i \in (1 .. n) \ Constants(E)}
           S == {p, n} \cup A
<1>1. n \in Nat BY LenProperties DEF IsExport
<1>2. A \subseteq 0 .. n - 1 BY <1>1
<1> HIDE DEF A, n
<1>3. S \in SUBSET Int /\ S # {} /\ 0 \in Int /\ \A x \in S : 0 <= x
  <2>1. p \in Int /\ 0 <= p /\ n \in Int /\ 0 <= n BY <1>1 DEF n
  <2>2. \A x \in A : x \in Int /\ 0 <= x BY <1>1, <1>2
  <2> QED BY <2>1, <2>2
<1>4. p \in S OBVIOUS
<1>5. Min(S) \in S /\ \A y \in S : Min(S) <= y
  <2> HIDE DEF S
  <2> QED BY <1>3, MinIs
<1>6. ConstantsAt(E, p) = Min(S) BY DEF ConstantsAt, S, A, n
<1> HIDE DEF S
<1>7. Min(S) \in Int /\ 0 <= Min(S) /\ Min(S) <= p /\ p \in Int BY <1>3, <1>4, <1>5
<1> QED BY <1>6, <1>7

Reads(plan) ==
  [k \in 1 .. Len(plan.inbound) |->
     [from |-> plan.inbound[k].uuid, to |-> plan.uuid, role |-> plan.inbound[k].branch]]
Feeds(plan) ==
  [k \in 1 .. Len(plan.targets) |->
     [from |-> plan.uuid, to |-> plan.targets[k].uuid, role |-> plan.targets[k].role]]

TheConstant(plan, k) == NewNeuron(plan.constants[k].uuid, "constant", plan.constants[k].bias, "none")
TheNode(plan) == NewNeuron(plan.uuid, "hidden", plan.bias, plan.squash)

\* Where neuron i of E stands once plan is grafted.
Shifted(E, plan, i) ==
  IF i <= ConstantsAt(E, Place(E, plan)) THEN i
  ELSE IF i <= Place(E, plan) THEN i + Len(plan.constants)
  ELSE i + Len(plan.constants) + 1

\* The neurons of D are those of E with the new ones among them.
Inserts(E, plan, D) ==
  LET p == Place(E, plan)
      at == ConstantsAt(E, p)
      c == Len(plan.constants)
  IN /\ Len(D.neurons) = Len(E.neurons) + c + 1
     /\ \A i \in 1 .. Len(E.neurons) : D.neurons[Shifted(E, plan, i)] = E.neurons[i]
     /\ \A k \in 1 .. c : D.neurons[at + k] = TheConstant(plan, k)
     /\ D.neurons[p + c + 1] = TheNode(plan)

\* What is built before it is brought into the canonical order.
Assembly(E, plan) ==
  LET p == Place(E, plan)
      at == ConstantsAt(E, p)
      constants == [k \in 1 .. Len(plan.constants) |-> TheConstant(plan, k)]
  IN [E EXCEPT !.memetic = NoMemetic,
               !.neurons = SubSeq(@, 1, at) \o constants \o SubSeq(@, at + 1, p)
                             \o <<TheNode(plan)>> \o SubSeq(@, p + 1, Len(@)),
               !.synapses = @ \o Reads(plan) \o Feeds(plan)]

LEMMA AssemblyIs ==
  ASSUME NEW E, IsExport(E), NEW plan, IsPlan(plan)
  PROVE  LET D == Assembly(E, plan) IN
         /\ IsExport(D) /\ ExportFields \subseteq DOMAIN D
         /\ D.input = E.input /\ D.output = E.output /\ D.memetic = NoMemetic
         /\ Inserts(E, plan, D)
         /\ Reads(plan) \in Seq(NamedSynapses) /\ Feeds(plan) \in Seq(NamedSynapses)
         /\ D.synapses = E.synapses \o Reads(plan) \o Feeds(plan)
         /\ Build(E, plan, Place(E, plan)) = Canonical(D)
<1> DEFINE position == Place(E, plan)
           at == ConstantsAt(E, position)
           N == Len(E.neurons)
           m == Len(plan.constants)
           constants == [k \in 1 .. m |-> TheConstant(plan, k)]
           reads == Reads(plan)
           feeds == Feeds(plan)
           new == TheNode(plan)
           a == SubSeq(E.neurons, 1, at)
           b == SubSeq(E.neurons, at + 1, position)
           c == SubSeq(E.neurons, position + 1, N)
           U == ToSet(E.neurons) \cup {constants[k] : k \in 1 .. m} \cup {new}
           neurons == a \o constants \o b \o <<new>> \o c
           synapses == E.synapses \o reads \o feeds
           D == Assembly(E, plan)
<1>1. /\ ExportFields \subseteq DOMAIN E /\ E.input \in Nat /\ E.output \in Nat
      /\ E.neurons \in Seq(ToSet(E.neurons)) /\ E.synapses \in Seq(NamedSynapses)
  BY DEF IsExport, ExportFields, NamedSynapses
<1>2. N \in Nat /\ m \in Nat /\ \A i \in 1 .. N : E.neurons[i] \in U
  <2>1. N \in Nat /\ \A i \in 1 .. N : E.neurons[i] \in ToSet(E.neurons) BY <1>1, OwnSeq
  <2>2. m \in Nat BY DEF IsPlan
  <2> HIDE DEF N, constants, new
  <2> QED BY <2>1, <2>2
<1>3. position \in 0 .. N /\ at \in 0 .. position
  <2>1. position \in 0 .. N BY PlaceFits
  <2> HIDE DEF position
  <2> QED BY <2>1, ConstantsFit
<1>4. position \in Int /\ at \in Int /\ N \in Int BY <1>2, <1>3
<1>13. D = [E EXCEPT !.memetic = NoMemetic, !.neurons = neurons, !.synapses = synapses]
  BY DEF Assembly
<1>14. Build(E, plan, position) = Canonical(D)
  BY <1>13 DEF Build, Reads, Feeds, TheConstant, TheNode
<1> HIDE DEF position, at, N, m, reads, feeds, new, D
<1>5. /\ constants \in Seq(U) /\ Len(constants) = m /\ <<new>> \in Seq(U)
      /\ \A k \in 1 .. m : constants[k] = TheConstant(plan, k)
  <2>1. \A k \in 1 .. m : constants[k] \in U OBVIOUS
  <2>2. \A k \in 1 .. m : constants[k] = TheConstant(plan, k) OBVIOUS
  <2>3. new \in U OBVIOUS
  <2>4. constants = [k \in 1 .. m |-> constants[k]] OBVIOUS
  <2> HIDE DEF constants, U
  <2> QED BY <1>2, <2>1, <2>2, <2>3, <2>4
<1> HIDE DEF U, constants
<1>6. a \in Seq(U) /\ Len(a) = at /\ \A i \in 1 .. at : a[i] = E.neurons[i]
  <2>1. \A i \in 1 .. at : E.neurons[i] \in U BY <1>2, <1>3, <1>4
  <2>2. 1 \in Int OBVIOUS
  <2>3. /\ a \in Seq(U) /\ Len(a) = IF 1 <= at THEN at - 1 + 1 ELSE 0
        /\ \A i \in 1 .. (at - 1 + 1) : a[i] = E.neurons[1 + i - 1]
    BY <1>4, <2>1, <2>2, SubSeqProperties
  <2> HIDE DEF a
  <2> QED BY <1>3, <1>4, <2>3
<1>7. b \in Seq(U) /\ Len(b) = position - at /\ \A i \in 1 .. position - at : b[i] = E.neurons[at + i]
  <2>1. \A i \in at + 1 .. position : E.neurons[i] \in U BY <1>2, <1>3, <1>4
  <2>2. at + 1 \in Int BY <1>4
  <2>3. /\ b \in Seq(U) /\ Len(b) = IF at + 1 <= position THEN position - (at + 1) + 1 ELSE 0
        /\ \A i \in 1 .. (position - (at + 1) + 1) : b[i] = E.neurons[(at + 1) + i - 1]
    BY <1>4, <2>1, <2>2, SubSeqProperties
  <2>4. \A i \in 1 .. position - at : (at + 1) + i - 1 = at + i BY <1>4
  <2> HIDE DEF b
  <2> QED BY <1>3, <1>4, <2>3, <2>4
<1>8. c \in Seq(U) /\ Len(c) = N - position /\ \A i \in 1 .. N - position : c[i] = E.neurons[position + i]
  <2>1. \A i \in position + 1 .. N : E.neurons[i] \in U BY <1>2, <1>3, <1>4
  <2>2. position + 1 \in Int BY <1>4
  <2>3. /\ c \in Seq(U) /\ Len(c) = IF position + 1 <= N THEN N - (position + 1) + 1 ELSE 0
        /\ \A i \in 1 .. (N - (position + 1) + 1) : c[i] = E.neurons[(position + 1) + i - 1]
    BY <1>4, <2>1, <2>2, SubSeqProperties
  <2>4. \A i \in 1 .. N - position : (position + 1) + i - 1 = position + i BY <1>4
  <2> HIDE DEF c
  <2> QED BY <1>3, <1>4, <2>3, <2>4
<1> HIDE DEF a, b, c
<1> DEFINE x1 == a \o constants
           x2 == x1 \o b
           x3 == x2 \o <<new>>
<1>9. /\ x1 \in Seq(U) /\ Len(x1) = at + m /\ \A i \in 1 .. at : x1[i] = E.neurons[i]
      /\ \A k \in 1 .. m : x1[at + k] = TheConstant(plan, k)
  BY <1>5, <1>6, JoinedAt
<1> HIDE DEF x1
<1>10. /\ x2 \in Seq(U) /\ Len(x2) = position + m
       /\ \A i \in 1 .. at + m : x2[i] = x1[i]
       /\ \A j \in 1 .. position - at : x2[at + m + j] = E.neurons[at + j]
  <2>1. /\ x2 \in Seq(U) /\ Len(x2) = at + m + (position - at)
        /\ \A i \in 1 .. at + m : x2[i] = x1[i]
        /\ \A j \in 1 .. position - at : x2[at + m + j] = b[j]
    BY <1>7, <1>9, JoinedAt
  <2> HIDE DEF x2
  <2>2. at + m + (position - at) = position + m
    <3>1. m \in Int BY <1>2
    <3> QED BY <1>4, <3>1
  <2>3. \A j \in 1 .. position - at : x2[at + m + j] = E.neurons[at + j] BY <1>7, <2>1
  <2> QED BY <2>1, <2>2, <2>3
<1> HIDE DEF x2
<1>11. /\ x3 \in Seq(U) /\ Len(x3) = position + m + 1
       /\ \A i \in 1 .. position + m : x3[i] = x2[i]
       /\ x3[position + m + 1] = new
  <2>1. Len(<<new>>) = 1 /\ <<new>>[1] = new /\ 1 \in 1 .. 1 OBVIOUS
  <2>2. /\ x3 \in Seq(U) /\ Len(x3) = position + m + 1
        /\ \A i \in 1 .. position + m : x3[i] = x2[i]
        /\ \A j \in 1 .. 1 : x3[position + m + j] = <<new>>[j]
    BY <1>5, <1>10, <2>1, JoinedAt
  <2> HIDE DEF x3
  <2> QED BY <2>1, <2>2
<1> HIDE DEF x3
<1>12. /\ neurons \in Seq(U) /\ Len(neurons) = N + m + 1
       /\ \A i \in 1 .. position + m + 1 : neurons[i] = x3[i]
       /\ \A j \in 1 .. N - position : neurons[position + m + 1 + j] = E.neurons[position + j]
  <2>1. neurons = x3 \o c BY DEF x1, x2, x3
  <2>2. /\ x3 \o c \in Seq(U) /\ Len(x3 \o c) = position + m + 1 + (N - position)
        /\ \A i \in 1 .. position + m + 1 : (x3 \o c)[i] = x3[i]
        /\ \A j \in 1 .. N - position : (x3 \o c)[position + m + 1 + j] = c[j]
    BY <1>8, <1>11, JoinedAt
  <2>3. position + m + 1 + (N - position) = N + m + 1
    <3>1. m \in Int BY <1>2
    <3> QED BY <1>4, <3>1
  <2> DEFINE x4 == x3 \o c
  <2> HIDE DEF x4
  <2>4. \A j \in 1 .. N - position : x4[position + m + 1 + j] = E.neurons[position + j]
    BY <1>8, <2>2 DEF x4
  <2>5. x4 \in Seq(U) /\ Len(x4) = N + m + 1 /\ \A i \in 1 .. position + m + 1 : x4[i] = x3[i]
    BY <2>2, <2>3 DEF x4
  <2> HIDE DEF neurons
  <2> QED BY <2>1, <2>4, <2>5 DEF x4
<1> HIDE DEF neurons
<1>15. reads \in Seq(NamedSynapses) /\ feeds \in Seq(NamedSynapses)
  BY DEF IsPlan, NamedSynapses, reads, feeds, Reads, Feeds
<1>16. synapses \in Seq(NamedSynapses) BY <1>1, <1>15, ConcatProperties
<1> HIDE DEF synapses
<1>17. /\ DOMAIN D = DOMAIN E /\ D.input = E.input /\ D.output = E.output /\ D.neurons = neurons
       /\ D.synapses = synapses /\ D.memetic = NoMemetic
  BY <1>1, <1>13 DEF ExportFields
<1>18. IsExport(D) /\ ExportFields \subseteq DOMAIN D
  <2>1. D.neurons \in Seq(ToSet(D.neurons)) BY <1>12, <1>17, OwnSeq
  <2>2. IsMemetic(D.memetic) BY <1>17, NoMemeticTyped
  <2> QED BY <1>1, <1>16, <1>17, <2>1, <2>2 DEF IsExport, ExportFields, NamedSynapses
<1>19. Inserts(E, plan, D)
  <2>1. ASSUME NEW i \in 1 .. N PROVE neurons[Shifted(E, plan, i)] = E.neurons[i]
    <3>0. Shifted(E, plan, i) = IF i <= at THEN i ELSE IF i <= position THEN i + m ELSE i + m + 1
      BY DEF Shifted, at, position, m
    <3>1. CASE i <= at
      <4>1. i \in 1 .. at /\ i \in 1 .. at + m /\ i \in 1 .. position + m /\ i \in 1 .. position + m + 1
        BY <1>2, <1>3, <1>4, <3>1
      <4> QED BY <1>9, <1>10, <1>11, <1>12, <3>0, <3>1, <4>1
    <3>2. CASE ~(i <= at) /\ i <= position
      <4> DEFINE j == i - at
      <4>1. /\ j \in 1 .. position - at /\ at + j = i /\ at + m + j = i + m
            /\ i + m \in 1 .. position + m /\ i + m \in 1 .. position + m + 1
        BY <1>2, <1>3, <1>4, <3>2
      <4> HIDE DEF j
      <4>2. x2[i + m] = E.neurons[i] BY <1>10, <4>1
      <4> QED BY <1>11, <1>12, <3>0, <3>2, <4>1, <4>2
    <3>3. CASE ~(i <= at) /\ ~(i <= position)
      <4> DEFINE j == i - position
      <4>1. j \in 1 .. N - position /\ position + j = i /\ position + m + 1 + j = i + m + 1
        BY <1>2, <1>3, <1>4, <3>3
      <4> HIDE DEF j
      <4> QED BY <1>12, <3>0, <3>3, <4>1
    <3>4. i <= at => i <= position BY <1>2, <1>3, <1>4
    <3> QED BY <3>1, <3>2, <3>3
  <2>2. ASSUME NEW k \in 1 .. m PROVE neurons[at + k] = TheConstant(plan, k)
    <3>1. at + k \in 1 .. at + m /\ at + k \in 1 .. position + m /\ at + k \in 1 .. position + m + 1
      BY <1>2, <1>3, <1>4
    <3> QED BY <1>9, <1>10, <1>11, <1>12, <3>1
  <2>3. neurons[position + m + 1] = new
    <3>1. position + m + 1 \in 1 .. position + m + 1 BY <1>2, <1>3, <1>4
    <3> QED BY <1>11, <1>12, <3>1
  <2> QED BY <1>12, <1>17, <2>1, <2>2, <2>3 DEF Inserts, at, position, m, new, N
<1> QED BY <1>14, <1>15, <1>17, <1>18, <1>19 DEF D, reads, feeds, synapses, position

LEMMA BuildTyped ==
  ASSUME NEW E, IsExport(E), NEW plan, IsPlan(plan)
  PROVE  IsExport(Build(E, plan, Place(E, plan)))
BY AssemblyIs, CanonicalTyped

-----------------------------------------------------------------------------
(* Plans                                                                     *)

EdgeRecords == [uuid : STRING, weight : {"finite", "bad"}, role : 0 .. 3]
InboundEdges == [uuid : STRING, weight : {"finite", "bad"}, role : 0 .. 3, branch : 0 .. 3]

LEMMA BranchTyped ==
  ASSUME NEW edges \in Seq(EdgeRecords), NEW role \in 0 .. 3
  PROVE  Branch(edges, role) \in Seq(InboundEdges)
<1>1. Len(edges) \in Nat /\ \A k \in 1 .. Len(edges) : edges[k] \in EdgeRecords BY LenProperties, ElementOfSeq
<1>2. \A k \in 1 .. Len(edges) :
        [uuid |-> edges[k].uuid, weight |-> edges[k].weight, role |-> edges[k].role, branch |-> role]
          \in InboundEdges
  BY <1>1 DEF EdgeRecords, InboundEdges
<1> QED BY <1>1, <1>2 DEF Branch

LEMMA PlanTyped ==
  ASSUME NEW spec, IsNode(spec)
  PROVE  IsPlan(Plan(spec))
<1> DEFINE plan == Plan(spec)
<1>1. spec.uuid \in STRING /\ spec.targets \in Seq(EdgeRecords) BY DEF IsNode, Edges, EdgeRecords
<1>2. Standard \in 0 .. 3 /\ Condition \in 0 .. 3 /\ Negative \in 0 .. 3 /\ Positive \in 0 .. 3
  BY DEF Standard, Condition, Negative, Positive
<1>3. plan.uuid = spec.uuid /\ plan.targets = spec.targets BY DEF Plan, IfPlan, RelayPlan
<1>4. Len(plan.constants) \in Nat /\ plan.inbound \in Seq(InboundEdges)
  <2>1. CASE spec.kind = "if"
    <3>1. /\ spec.constants \in Seq([uuid : STRING, bias : {"finite", "bad"}])
          /\ spec.condition \in Seq(EdgeRecords) /\ spec.positive \in Seq(EdgeRecords)
          /\ spec.negative \in Seq(EdgeRecords)
      BY <2>1 DEF IsNode, Edges, EdgeRecords
    <3> DEFINE a == Branch(spec.condition, Condition)
               b == Branch(spec.positive, Positive)
               c == Branch(spec.negative, Negative)
    <3>2. a \in Seq(InboundEdges) /\ b \in Seq(InboundEdges) /\ c \in Seq(InboundEdges)
      BY <1>2, <3>1, BranchTyped
    <3>3. plan.inbound = a \o b \o c /\ plan.constants = spec.constants BY <2>1 DEF Plan, IfPlan
    <3> HIDE DEF a, b, c, plan
    <3>4. a \o b \o c \in Seq(InboundEdges) BY <3>2, ConcatProperties
    <3>5. Len(spec.constants) \in Nat BY <3>1, LenProperties
    <3> QED BY <3>3, <3>4, <3>5
  <2>2. CASE spec.kind # "if"
    <3>1. spec.sources \in Seq(EdgeRecords) BY <2>2 DEF IsNode, Edges, EdgeRecords
    <3>2. plan.inbound = Branch(spec.sources, Standard) /\ plan.constants = <<>> BY <2>2 DEF Plan, RelayPlan
    <3>3. Branch(spec.sources, Standard) \in Seq(InboundEdges) BY <1>2, <3>1, BranchTyped
    <3> HIDE DEF plan
    <3>4. Len(<<>>) \in Nat OBVIOUS
    <3> QED BY <3>2, <3>3, <3>4
  <2> QED BY <2>1, <2>2
<1> HIDE DEF plan
<1>5. Len(plan.inbound) \in Nat /\ \A k \in 1 .. Len(plan.inbound) : plan.inbound[k] \in InboundEdges
  BY <1>4, LenProperties, ElementOfSeq
<1>6. Len(plan.targets) \in Nat /\ \A k \in 1 .. Len(plan.targets) : plan.targets[k] \in EdgeRecords
  BY <1>1, <1>3, LenProperties, ElementOfSeq
<1>7. \A e \in InboundEdges : e.uuid \in STRING /\ e.branch \in 0 .. 3 BY DEF InboundEdges
<1>8. \A e \in EdgeRecords : e.uuid \in STRING /\ e.role \in 0 .. 3 BY DEF EdgeRecords
<1>9. IsPlan(plan) BY <1>1, <1>3, <1>4, <1>5, <1>6, <1>7, <1>8 DEF IsPlan
<1> QED BY <1>9 DEF plan

LEMMA CorrectionTyped ==
  ASSUME NEW c, IsCorrection(c)
  PROVE  IsNode(ToNodeSpec(c))
<1> DEFINE one == ConstantNames[c.uuid]
           F == {"finite", "bad"}
           spec == ToNodeSpec(c)
           constants == [k \in 1 .. 3 |-> [uuid |-> one[k], bias |-> "finite"]]
<1>1. /\ c.uuid \in STRING /\ c.feature \in STRING /\ c.target \in STRING
      /\ c.threshold \in F /\ c.positive \in F /\ c.negative \in F /\ c.weight \in F
      /\ one[1] \in STRING /\ one[2] \in STRING /\ one[3] \in STRING
      /\ \A k \in 1 .. 3 : one[k] \in STRING
  BY DEF IsCorrection
<1>2. \A u \in STRING : \A w \in F : Edge(u, w) \in EdgeRecords
  BY DEF Edge, EdgeRecords, Standard
<1>3. /\ spec.kind = "if" /\ spec.uuid = c.uuid /\ spec.bias = "finite" /\ spec.constants = constants
      /\ spec.condition = <<Edge(c.feature, "finite"), Edge(one[1], c.threshold)>>
      /\ spec.positive = <<Edge(one[2], c.positive)>> /\ spec.negative = <<Edge(one[3], c.negative)>>
      /\ spec.targets = <<Edge(c.target, c.weight)>>
  BY DEF ToNodeSpec
<1>4. constants \in Seq([uuid : STRING, bias : F])
  <2>1. 3 \in Nat /\ \A k \in 1 .. 3 : [uuid |-> one[k], bias |-> "finite"] \in [uuid : STRING, bias : F] BY <1>1
  <2> HIDE DEF one, F
  <2> QED BY <2>1
<1> HIDE DEF spec, constants, one
<1>5. /\ Edge(c.feature, "finite") \in EdgeRecords /\ Edge(one[1], c.threshold) \in EdgeRecords
      /\ Edge(one[2], c.positive) \in EdgeRecords /\ Edge(one[3], c.negative) \in EdgeRecords
      /\ Edge(c.target, c.weight) \in EdgeRecords
  BY <1>1, <1>2
<1> HIDE DEF F
<1>6. /\ spec.condition \in Seq(EdgeRecords) /\ spec.positive \in Seq(EdgeRecords)
      /\ spec.negative \in Seq(EdgeRecords) /\ spec.targets \in Seq(EdgeRecords)
  BY <1>3, <1>5
<1>7. IsNode(spec) BY <1>1, <1>3, <1>4, <1>6 DEF IsNode, Edges, EdgeRecords, F
<1> QED BY <1>7 DEF spec

\* A host and its jobs.
JobsFine(h) ==
  /\ "jobs" \in DOMAIN h /\ Len(h.jobs) \in Nat
  /\ h.jobs # <<>> => h.export /\ Len(h.jobs) > 0
  /\ \A j \in 1 .. Len(h.jobs) :
       /\ Len(h.jobs[j].specs) \in Nat
       /\ \A k \in 1 .. Len(h.jobs[j].specs) :
            IF h.jobs[j].op = "correction" THEN IsCorrection(h.jobs[j].specs[k])
            ELSE IsNode(h.jobs[j].specs[k])

LEMMA SpecTyped ==
  ASSUME JobsFine(host), job \in 1 .. Len(Jobs), NEW k \in 1 .. Len(Doing.specs)
  PROVE  IsPlan(Plan(SpecAt(k)))
<1>1. IF Doing.op = "correction" THEN IsCorrection(Doing.specs[k]) ELSE IsNode(Doing.specs[k])
  BY DEF JobsFine, Jobs, Doing
<1>2. IsNode(SpecAt(k))
  <2>1. CASE Doing.op = "correction" BY <1>1, <2>1, CorrectionTyped DEF SpecAt
  <2>2. CASE Doing.op # "correction" BY <1>1, <2>2 DEF SpecAt
  <2> QED BY <2>1, <2>2
<1> QED BY <1>2, PlanTyped

-----------------------------------------------------------------------------
(* The invariant of a session                                                *)

FitToRun == host.options.forwardOnly => ForwardSound(InMemory)

HostInv == IsHost(host) /\ JobsFine(host)

AnswersInv ==
  answers \in Seq(Verdicts) /\ \A i \in 1 .. Len(answers) : answers[i] = Accepted => FitToRun

\* The request is the creature as the entry point reads it, for as long as it is
\* walked.
Mirrors ==
  LET R == ReadBy(entry) IN
  /\ req.views = R.views /\ req.syn = R.syn /\ req.input = R.input /\ req.output = R.output
  /\ req.options = host.options

WalkInv ==
  /\ stage \in {"idle", "neurons", "synapses", "memetic"}
  /\ entry = "none" => stage = "idle" /\ verdict = NoVerdict
  /\ stage # "idle" => verdict = NoVerdict /\ IsRequest(req) /\ Mirrors
  /\ stage = "neurons" => NeuronsWalked
  /\ stage = "synapses" => SynapsesWalked
  /\ stage = "memetic" => Walked(req) /\ RunsForward(req)

VerdictInv ==
  /\ verdict \in Verdicts /\ verdict.rule # "29"
  /\ verdict = Accepted => FitToRun
  /\ verdict.rule = "30" => LetOff(req)

\* A job is under way only behind an answer, and never beside a question.
JobInv ==
  /\ job \in 0 .. Len(Jobs) /\ next \in Nat
  /\ Jobs # <<>> => Len(answers) <= 1 /\ (entry # "none" => answers = <<>>)
  /\ outcome # "none" => /\ Jobs # <<>> /\ job # 0 /\ answers # <<>> /\ entry = "none"
                         /\ IsExport(current)

CreatureInv == HostInv /\ AnswersInv /\ WalkInv /\ VerdictInv /\ JobInv

LEMMA PlainVerdicts ==
  /\ NoVerdict \in Verdicts /\ NoVerdict.rule = "none" /\ NoVerdict # Accepted
  /\ Accepted \in Verdicts /\ Accepted.rule = "ok"
  /\ \A r \in RuleNames, at \in Int : Refused(r, at) \in Verdicts /\ Refused(r, at).rule = r
<1>1. NoVerdict.rule = "none" /\ Accepted.rule = "ok" BY DEF NoVerdict, Accepted
<1>2. "none" \in RuleNames /\ "ok" \in RuleNames /\ -1 \in Int BY DEF RuleNames
<1>3. NoVerdict \in Verdicts /\ Accepted \in Verdicts BY <1>2 DEF NoVerdict, Accepted, Verdicts
<1>4. \A r \in RuleNames, at \in Int : Refused(r, at) \in Verdicts /\ Refused(r, at).rule = r
  BY DEF Refused, Verdicts
<1> QED BY <1>1, <1>3, <1>4

LEMMA CreatureInit ==
  ASSUME GraftInit
  PROVE  CreatureInv
<1>1. /\ host \in Hosts /\ entry = "none" /\ answers = <<>> /\ stage = "idle" /\ verdict = NoVerdict
      /\ job = 0 /\ next = 0 /\ outcome = "none"
  BY DEF GraftInit, Init
<1>2. IsHost(host) BY <1>1, HostsAssumption
<1>3. JobsFine(host) BY <1>1, JobsAssumption DEF JobsFine
<1>4. AnswersInv
  <2>1. answers \in Seq(Verdicts) /\ Len(answers) = 0 BY <1>1, EmptySeq
  <2> QED BY <2>1 DEF AnswersInv
<1>5. WalkInv BY <1>1 DEF WalkInv
<1>6. VerdictInv BY <1>1, PlainVerdicts DEF VerdictInv
<1>7. JobInv
  <2>1. Len(Jobs) \in Nat BY <1>3 DEF JobsFine, Jobs
  <2>2. Len(answers) = 0 BY <1>1
  <2> QED BY <1>1, <2>1, <2>2 DEF JobInv
<1> QED BY <1>2, <1>3, <1>4, <1>5, <1>6, <1>7 DEF CreatureInv, HostInv

LEMMA AskKeeps ==
  ASSUME CreatureInv, AskAgain
  PROVE  CreatureInv'
<1> DEFINE e == Entries[Len(answers) + 1]
           R == ReadBy(e)
<1>1. /\ entry = "none" /\ entry' = e /\ host' = host /\ answers' = answers
      /\ job' = job /\ next' = next /\ outcome' = outcome /\ current' = current
      /\ Jobs # <<>> => answers = <<>>
      /\ place' = 0 /\ walk' = FreshWalk
  BY DEF AskAgain, Ask, gvars
<1>2. stage = "idle" /\ verdict = NoVerdict BY <1>1 DEF CreatureInv, WalkInv
<1>3. IsHost(host) /\ JobsFine(host) BY DEF CreatureInv, HostInv
<1>4. IsHeld(R) BY <1>3, ReadTyped
<1>5. /\ BeforeWalk(e) \in Verdicts /\ BeforeWalk(e).rule \notin {"29", "30"}
      /\ BeforeWalk(e) = Accepted =>
              /\ ReadBy(e).input >= 1
              /\ \A k \in 1 .. Len(ReadBy(e).syn) :
                   /\ ReadBy(e).syn[k].from \in 0 .. Len(ReadBy(e).views) - 1
                   /\ ReadBy(e).syn[k].to \in 0 .. Len(ReadBy(e).views) - 1
  BY <1>3, BeforeWalkSays
<1>6. HostInv' /\ AnswersInv' BY <1>1 DEF CreatureInv, HostInv, AnswersInv, FitToRun, InMemory, IsHost, JobsFine
<1>7. outcome = "none"
  <2>1. outcome # "none" => Jobs # <<>> /\ answers # <<>> BY DEF CreatureInv, JobInv
  <2> QED BY <1>1, <2>1
<1>8. JobInv' BY <1>1, <1>7 DEF CreatureInv, JobInv, Jobs
<1>9. \A E : E = Entries[Len(answers) + 1] => E = e OBVIOUS
<1>10. \/ /\ BeforeWalk(e) = Accepted
          /\ req' = [views |-> R.views, syn |-> R.syn, input |-> R.input, output |-> R.output,
                     options |-> host.options, memetic |-> R.memetic, wired |-> e \in {"native", "json"}]
          /\ stage' = "neurons" /\ verdict' = verdict
       \/ /\ BeforeWalk(e) # Accepted /\ verdict' = BeforeWalk(e) /\ stage' = stage /\ req' = req
  BY DEF AskAgain, Ask, Request
<1>11. e # "none"
  <2>1. Len(answers) \in Nat /\ Len(answers) < Len(Entries)
    <3>1. answers \in Seq(Verdicts) BY DEF CreatureInv, AnswersInv
    <3>2. Len(answers) < Len(Entries) BY DEF AskAgain, Ask
    <3> QED BY <3>1, <3>2, LenProperties
  <2>2. CASE host.export
    <3>1. Entries = <<"native", "json", "runtime", "packed", "both", "neither">> BY <2>2 DEF Entries
    <3>2. Len(Entries) = 6 BY <3>1
    <3>3. Len(answers) + 1 \in 1 .. 6 BY <2>1, <3>2
    <3> QED BY <3>1, <3>3
  <2>3. CASE ~host.export
    <3>1. Entries = <<"runtime", "packed">> BY <2>3 DEF Entries
    <3>2. Len(Entries) = 2 BY <3>1
    <3>3. Len(answers) + 1 \in 1 .. 2 BY <2>1, <3>2
    <3> QED BY <3>1, <3>3
  <2> QED BY <2>2, <2>3
<1> HIDE DEF e, R
<1>12. CASE BeforeWalk(e) # Accepted
  <2>1. verdict' = BeforeWalk(e) /\ stage' = "idle" /\ req' = req BY <1>2, <1>10, <1>12
  <2>2. WalkInv' BY <1>1, <1>11, <2>1 DEF WalkInv
  <2>3. VerdictInv' BY <1>5, <1>12, <2>1 DEF VerdictInv
  <2> QED BY <1>6, <1>8, <2>2, <2>3 DEF CreatureInv
<1>13. CASE BeforeWalk(e) = Accepted
  <2>1. /\ req'.views = R.views /\ req'.syn = R.syn /\ req'.input = R.input /\ req'.output = R.output
        /\ req'.options = host.options /\ stage' = "neurons" /\ verdict' = NoVerdict
    BY <1>2, <1>10, <1>13
  <2>2. IsRequest(req)'
    <3>1. R.input \in Nat \ {0} BY <1>4, <1>5, <1>13 DEF IsHeld, R
    <3>2. \A k \in 1 .. Len(R.syn) : R.syn[k].from \in 0 .. Len(R.views) - 1
                                     /\ R.syn[k].to \in 0 .. Len(R.views) - 1
      BY <1>5, <1>13 DEF R
    <3>3. host.options.forwardOnly \in BOOLEAN BY <1>3 DEF IsHost
    <3> QED BY <1>4, <2>1, <3>1, <3>2, <3>3 DEF IsHeld, IsRequest
  <2>3. Mirrors'
    <3>1. ReadBy(entry)' = R BY <1>1 DEF ReadBy, InMemory, R
    <3> QED BY <1>1, <2>1, <3>1 DEF Mirrors
  <2>4. NeuronsWalked'
    <3>1. /\ IsWalk(FreshWalk) /\ FreshWalk.outputs = 0 /\ FreshWalk.last = NoSynapse
          /\ FreshWalk.stats["output"] = 0 /\ FreshWalk.stats["input"] = 0
      BY DEF IsWalk, FreshWalk
    <3>2. Cardinality(InputsBefore(req', 0)) = 0
      <4>1. InputsBefore(req', 0) = {} BY DEF InputsBefore, OfKind
      <4> QED BY <4>1, FS_EmptySet
    <3>3. 0 \in 0 .. Len(req'.views) /\ 0 \in 0 .. 0 /\ 0 .. 0 - 1 = {} BY <2>2 DEF IsRequest
    <3> QED BY <1>1, <3>1, <3>2, <3>3 DEF NeuronsWalked
  <2>5. WalkInv' BY <1>1, <1>11, <2>1, <2>2, <2>3, <2>4 DEF WalkInv
  <2>6. VerdictInv' BY <2>1, PlainVerdicts DEF VerdictInv
  <2> QED BY <1>6, <1>8, <2>5, <2>6 DEF CreatureInv
<1> QED BY <1>12, <1>13

\* Nothing but the walk moves.
StillHeld == host' = host /\ entry' = entry /\ answers' = answers
             /\ job' = job /\ next' = next /\ outcome' = outcome /\ current' = current

LEMMA StillKeeps ==
  ASSUME CreatureInv, StillHeld
  PROVE  HostInv' /\ AnswersInv' /\ JobInv' /\ (FitToRun' <=> FitToRun)
<1>1. HostInv' BY DEF CreatureInv, HostInv, StillHeld
<1>2. FitToRun' <=> FitToRun BY DEF FitToRun, InMemory, StillHeld
<1>3. AnswersInv' BY <1>2 DEF CreatureInv, AnswersInv, StillHeld
<1>4. JobInv' BY DEF CreatureInv, JobInv, Jobs, StillHeld
<1> QED BY <1>1, <1>2, <1>3, <1>4

LEMMA RulesKeep ==
  ASSUME CreatureInv, Rules, UNCHANGED gvars
  PROVE  CreatureInv'
<1>1. StillHeld /\ req' = req /\ host' = host BY DEF Rules, gvars, StillHeld, WalkNeuron, CountNeurons, WalkSynapse, FinishSynapses
<1>2. HostInv' /\ AnswersInv' /\ JobInv' BY <1>1, StillKeeps
<1>3. stage # "idle"
  BY DEF Rules, WalkNeuron, CountNeurons, WalkSynapse, FinishSynapses
<1>4. /\ entry # "none" /\ verdict = NoVerdict /\ IsRequest(req) /\ Mirrors
      /\ stage = "neurons" => NeuronsWalked
      /\ stage = "synapses" => SynapsesWalked
  BY <1>3 DEF CreatureInv, WalkInv
<1>5. IsRequest(req)' /\ Mirrors' /\ entry' # "none" BY <1>1, <1>4 DEF IsRequest, Mirrors, ReadBy, InMemory, StillHeld
<1>6. \/ /\ verdict' = verdict
         /\ \/ stage' = "neurons" /\ NeuronsWalked'
            \/ stage' = "synapses" /\ SynapsesWalked'
            \/ stage' = "memetic" /\ Walked(req)' /\ RunsForward(req)'
      \/ /\ stage' = "idle" /\ verdict' \in Verdicts /\ verdict'.rule \notin {"ok", "29"}
         /\ verdict'.rule = "30" => LetOff(req)
  <2>0. place \in Int
    <3>1. stage = "neurons" \/ stage = "synapses" BY DEF Rules, WalkNeuron, CountNeurons, WalkSynapse, FinishSynapses
    <3> QED BY <1>4, <3>1 DEF NeuronsWalked, SynapsesWalked
  <2>1. CASE WalkNeuron
    <3>1. NeuronsWalked BY <1>4, <2>1 DEF WalkNeuron
    <3>2. \/ /\ stage' = "neurons" /\ NeuronsWalked' /\ verdict' = verdict
          \/ /\ stage' = "idle" /\ verdict'.rule \in NeuronRuleNames
      BY <1>4, <2>1, <3>1, WalkNeuronKeeps
    <3>3. stage' = "idle" => verdict' \in Verdicts
      <4> SUFFICES ASSUME stage' = "idle" PROVE verdict' \in Verdicts OBVIOUS
      <4>1. NeuronVerdict(req, walk, place) # "ok" /\ verdict' = Refused(NeuronVerdict(req, walk, place), place)
        BY <2>1 DEF WalkNeuron
      <4>2. NeuronVerdict(req, walk, place) \in NeuronRuleNames
        <5>1. place \in Nat BY <3>1 DEF NeuronsWalked
        <5> QED BY <4>1, <5>1, NeuronRefused
      <4> QED BY <2>0, <4>1, <4>2, PlainVerdicts DEF RuleNames
    <3>4. verdict'.rule \in NeuronRuleNames => verdict'.rule \notin {"ok", "29", "30"} BY DEF NeuronRuleNames
    <3> QED BY <3>2, <3>3, <3>4
  <2>2. CASE CountNeurons
    <3>1. NeuronsWalked BY <1>4, <2>2 DEF CountNeurons
    <3>2. \/ /\ stage' = "synapses" /\ SynapsesWalked' /\ verdict' = verdict
          \/ /\ stage' = "idle" /\ verdict'.rule \in WidthRuleNames
      BY <1>4, <2>2, <3>1, CountNeuronsKeeps
    <3>3. stage' = "idle" => verdict' \in Verdicts
      <4> SUFFICES ASSUME stage' = "idle" PROVE verdict' \in Verdicts OBVIOUS
      <4>1. verdict' = Refused(WidthFault(req, walk), -1) BY <2>2 DEF CountNeurons, StartSynapses
      <4>2. verdict'.rule \in WidthRuleNames /\ verdict'.rule = WidthFault(req, walk) BY <3>2, <4>1 DEF Refused
      <4>3. WidthFault(req, walk) \in RuleNames /\ -1 \in Int BY <4>2 DEF RuleNames
      <4> QED BY <4>1, <4>3, PlainVerdicts
    <3>4. verdict'.rule \in WidthRuleNames => verdict'.rule \notin {"ok", "29", "30"} BY DEF WidthRuleNames
    <3> QED BY <3>2, <3>3, <3>4
  <2>3. CASE WalkSynapse
    <3>1. SynapsesWalked BY <1>4, <2>3 DEF WalkSynapse
    <3>2. \/ /\ stage' = "synapses" /\ SynapsesWalked' /\ verdict' = verdict
          \/ /\ stage' = "idle" /\ verdict'.rule \in SynapseRuleNames
      BY <1>4, <2>3, <3>1, WalkSynapseKeeps
    <3>3. stage' = "idle" => verdict' \in Verdicts
      <4> SUFFICES ASSUME stage' = "idle" PROVE verdict' \in Verdicts OBVIOUS
      <4>1. verdict' = Refused(SynapseVerdict(req, walk.last, req.syn[place + 1]), place) BY <2>3 DEF WalkSynapse
      <4>2. verdict'.rule \in SynapseRuleNames /\ verdict'.rule = SynapseVerdict(req, walk.last, req.syn[place + 1])
        BY <3>2, <4>1 DEF Refused
      <4>3. SynapseVerdict(req, walk.last, req.syn[place + 1]) \in RuleNames BY <4>2 DEF RuleNames
      <4> QED BY <2>0, <4>1, <4>3, PlainVerdicts
    <3>4. verdict'.rule \in SynapseRuleNames => verdict'.rule \notin {"ok", "29", "30"} BY DEF SynapseRuleNames
    <3> QED BY <3>2, <3>3, <3>4
  <2>4. CASE FinishSynapses
    <3>1. SynapsesWalked BY <1>4, <2>4 DEF FinishSynapses
    <3>2. \/ /\ stage' = "memetic" /\ Walked(req) /\ RunsForward(req) /\ verdict' = verdict
          \/ /\ stage' = "idle" /\ verdict'.rule \in {"28", "30"}
             /\ verdict'.rule = "30" => LetOff(req)
      BY <1>4, <2>4, <3>1, FinishKeeps
    <3>3. stage' = "idle" => verdict' \in Verdicts
      <4> SUFFICES ASSUME stage' = "idle" PROVE verdict' \in Verdicts OBVIOUS
      <4>1. PICK r : verdict' = Refused(r, -1) BY <2>4 DEF FinishSynapses
      <4>2. verdict'.rule = r BY <4>1 DEF Refused
      <4>3. r \in RuleNames /\ -1 \in Int BY <3>2, <4>2 DEF RuleNames
      <4> QED BY <4>1, <4>3, PlainVerdicts
    <3>4. Walked(req) /\ RunsForward(req) => Walked(req)' /\ RunsForward(req)' BY <1>1
    <3> QED BY <3>2, <3>3, <3>4
  <2> QED BY <2>1, <2>2, <2>3, <2>4 DEF Rules
<1>7. WalkInv'
  <2>1. CASE stage' = "idle" BY <1>5, <2>1 DEF WalkInv
  <2>2. CASE stage' # "idle"
    <3>1. verdict' = NoVerdict BY <1>4, <1>6, <2>2
    <3> QED BY <1>5, <1>6, <2>2, <3>1 DEF WalkInv
  <2> QED BY <2>1, <2>2
<1>8. VerdictInv'
  <2>1. CASE verdict' = verdict BY <1>4, <2>1, PlainVerdicts DEF VerdictInv
  <2>2. CASE verdict' # verdict
    <3>1. verdict' \in Verdicts /\ verdict'.rule \notin {"ok", "29"} /\ (verdict'.rule = "30" => LetOff(req))
      BY <1>6, <2>2
    <3>2. LetOff(req) => LetOff(req)' BY <1>1
    <3>3. verdict' # Accepted BY <3>1, PlainVerdicts
    <3> QED BY <3>1, <3>2, <3>3 DEF VerdictInv
  <2> QED BY <2>1, <2>2
<1> QED BY <1>2, <1>7, <1>8 DEF CreatureInv

\* A creature that lists a neuron as an input is not walked to the end: the export
\* form knows no such kind, and in memory it is an input too many.
LEMMA NoneListedWalked ==
  ASSUME IsHost(host), host.export, Mirrors, Walked(req)
  PROVE  ListedInputs(host.creature) = {}
<1> DEFINE E == host.creature
           d == Declared(E)
<1> SUFFICES ASSUME NEW v \in ListedInputs(E) PROVE FALSE OBVIOUS
<1>1. IsExport(E) /\ E.input \in Nat BY DEF IsHost, IsExport
<1>2. d \in Nat BY <1>1, ViewsAre
<1>3. /\ v \in E.input .. d - 1
      /\ MemoryViews(E)[v + 1].kind = "input" /\ NeuronViews(E)[v + 1].kind = "invalid"
  BY <1>1, MemoryViewsAre
<1>4. Len(req.views) = d /\ req.input = E.input BY ReadTyped DEF Mirrors
<1>5. v \in 0 .. d - 1 BY <1>1, <1>2, <1>3
<1>6. Placed(req) BY DEF Walked
<1>7. CASE entry \in {"native", "json"}
  <2>1. req.views = NeuronViews(E) BY <1>7 DEF Mirrors, ReadBy, Exported
  <2>2. NeuronFine(req, v) BY <1>4, <1>5, <1>6 DEF Placed
  <2>3. req.views[v + 1].kind \in {"input", "constant", "hidden", "output"} BY <2>2 DEF NeuronFine
  <2> QED BY <1>3, <2>1, <2>3
<1>8. CASE ~(entry \in {"native", "json"})
  <2>1. req.views = MemoryViews(E) BY <1>8 DEF Mirrors, ReadBy, InMemory, Loaded, Exported
  <2>2. Cardinality(OfKind(req, Len(req.views), "input")) = req.input BY <1>6 DEF Placed, InputsBefore
  <2> QED BY <1>1, <1>4, <2>1, <2>2, TooManyInputs
<1> QED BY <1>7, <1>8

LEMMA MemoryKeeps ==
  ASSUME CreatureInv, Memory, UNCHANGED gvars
  PROVE  CreatureInv'
<1>1. /\ StillHeld /\ stage = "memetic" /\ stage' = "idle" /\ req' = req
      /\ verdict' = Accepted \/ verdict' = Refused("31", -1)
  BY DEF Memory, MemoryVerdict, gvars, StillHeld
<1>2. HostInv' /\ AnswersInv' /\ JobInv' /\ (FitToRun' <=> FitToRun) BY <1>1, StillKeeps
<1>3. entry # "none" /\ IsRequest(req) /\ Mirrors /\ Walked(req) /\ RunsForward(req)
  BY <1>1 DEF CreatureInv, WalkInv
<1>4. FitToRun
  <2> SUFFICES ASSUME host.options.forwardOnly PROVE ForwardSound(InMemory) BY DEF FitToRun
  <2>1. req.options.forwardOnly BY <1>3 DEF Mirrors
  <2>2. ForwardSound(req) BY <1>3, <2>1, RunsSound
  <2>3. IsHost(host) BY DEF CreatureInv, HostInv
  <2>4. host.export => ListedInputs(host.creature) = {} BY <1>3, <2>3, NoneListedWalked
  <2>5. req.views = InMemory.views BY <1>3, <2>3, <2>4, ReadAlike DEF Mirrors
  <2>6. req.syn = InMemory.syn /\ req.input = InMemory.input /\ req.output = InMemory.output
    BY <1>3, <2>3, ReadTyped DEF Mirrors
  <2> QED BY <2>2, <2>5, <2>6, SameSoundness
<1>5. WalkInv' BY <1>1, <1>3 DEF WalkInv, StillHeld
<1>6. VerdictInv'
  <2>1. "31" \in RuleNames /\ -1 \in Int BY DEF RuleNames
  <2>2. verdict' \in Verdicts /\ verdict'.rule \notin {"29", "30"} BY <1>1, <2>1, PlainVerdicts
  <2> QED BY <1>2, <1>4, <2>2 DEF VerdictInv
<1> QED BY <1>2, <1>5, <1>6 DEF CreatureInv

LEMMA AnswerKeeps ==
  ASSUME CreatureInv, Answer, UNCHANGED gvars
  PROVE  CreatureInv'
<1> DEFINE w == Wording(entry, verdict)
<1>1. /\ entry # "none" /\ stage = "idle" /\ answers' = Append(answers, w) /\ entry' = "none"
      /\ verdict' = NoVerdict /\ stage' = stage /\ host' = host /\ req' = req
      /\ job' = job /\ next' = next /\ outcome' = outcome /\ current' = current
  BY DEF Answer, gvars
<1>2. HostInv' /\ (FitToRun' <=> FitToRun)
  <2>1. HostInv' BY <1>1 DEF CreatureInv, HostInv
  <2> QED BY <1>1, <2>1 DEF FitToRun, InMemory
<1>3. verdict \in Verdicts /\ (verdict = Accepted => FitToRun) BY DEF CreatureInv, VerdictInv
<1>4. w \in Verdicts /\ (w = Accepted => FitToRun)
  <2>1. w = verdict \/ w = Refused("detail", -1) BY DEF Wording
  <2>2. "detail" \in RuleNames /\ -1 \in Int BY DEF RuleNames
  <2>3. Refused("detail", -1) \in Verdicts /\ Refused("detail", -1).rule = "detail" BY <2>2, PlainVerdicts
  <2>4. Refused("detail", -1) # Accepted BY <2>3, PlainVerdicts
  <2> QED BY <1>3, <2>1, <2>3, <2>4
<1> HIDE DEF w
<1>5. answers \in Seq(Verdicts) /\ \A i \in 1 .. Len(answers) : answers[i] = Accepted => FitToRun
  BY DEF CreatureInv, AnswersInv
<1>6. /\ Append(answers, w) \in Seq(Verdicts) /\ Len(Append(answers, w)) = Len(answers) + 1
      /\ Len(answers) \in Nat
      /\ \A i \in 1 .. Len(answers) + 1 : Append(answers, w)[i] = IF i <= Len(answers) THEN answers[i] ELSE w
  BY <1>4, <1>5, AppendProperties, LenProperties
<1>7. AnswersInv'
  <2>1. ASSUME NEW i \in 1 .. Len(answers) + 1, Append(answers, w)[i] = Accepted PROVE FitToRun
    <3>1. CASE i <= Len(answers)
      <4>1. i \in 1 .. Len(answers) /\ answers[i] = Accepted BY <1>6, <2>1, <3>1
      <4> QED BY <1>5, <4>1
    <3>2. CASE ~(i <= Len(answers)) BY <1>4, <1>6, <2>1, <3>2
    <3> QED BY <3>1, <3>2
  <2> QED BY <1>1, <1>2, <1>6, <2>1 DEF AnswersInv
<1>8. WalkInv' BY <1>1 DEF WalkInv
<1>9. VerdictInv' BY <1>1, PlainVerdicts DEF VerdictInv
<1>10. JobInv'
  <2>1. /\ job \in 0 .. Len(Jobs) /\ next \in Nat
        /\ Jobs # <<>> => answers = <<>>
        /\ outcome = "none"
    BY <1>1 DEF CreatureInv, JobInv
  <2>2. answers = <<>> => Len(answers') <= 1
    <3>1. answers = <<>> => Len(answers) = 0 OBVIOUS
    <3> QED BY <1>1, <1>6, <3>1
  <2>3. Jobs' = Jobs BY <1>1 DEF Jobs
  <2> QED BY <1>1, <2>1, <2>2, <2>3 DEF JobInv
<1> QED BY <1>2, <1>7, <1>8, <1>9, <1>10 DEF CreatureInv

\* What a host is once its creature is another.
LEMMA HostTakes ==
  ASSUME HostInv, host.export, NEW E, IsExport(E), host' = [host EXCEPT !.creature = E]
  PROVE  HostInv' /\ host'.creature = E /\ host'.options = host.options /\ Jobs' = Jobs
<1>1. {"export", "creature", "options", "buffer", "jobs"} \subseteq DOMAIN host
  BY DEF HostInv, IsHost, JobsFine
<1>2. /\ DOMAIN host' = DOMAIN host /\ host'.creature = E /\ host'.export = host.export
      /\ host'.options = host.options /\ host'.buffer = host.buffer /\ host'.jobs = host.jobs
  BY <1>1
<1>3. IsHost(host)' BY <1>1, <1>2 DEF HostInv, IsHost
<1>4. JobsFine(host)' BY <1>1, <1>2 DEF HostInv, JobsFine
<1> QED BY <1>2, <1>3, <1>4 DEF HostInv, Jobs

LEMMA EditKeeps ==
  ASSUME CreatureInv, EditAndPrune, UNCHANGED gvars
  PROVE  CreatureInv'
<1>1. /\ entry = "none" /\ Len(answers) = Len(Entries) /\ host.export /\ answers' = <<>>
      /\ entry' = entry /\ stage' = stage /\ verdict' = verdict /\ req' = req
      /\ job' = job /\ next' = next /\ outcome' = outcome /\ current' = current
  BY DEF EditAndPrune, gvars, rvars
<1>2. PICK D \in Edits(host.creature) : host' = [host EXCEPT !.creature = Pruned(D)] BY DEF EditAndPrune
<1>3. HostInv /\ IsExport(host.creature) BY <1>1 DEF CreatureInv, HostInv, IsHost
<1>4. IsExport(Pruned(D)) BY <1>3, EditTyped
<1>5. HostInv' /\ Jobs' = Jobs BY <1>1, <1>2, <1>3, <1>4, HostTakes
<1>6. stage = "idle" /\ verdict = NoVerdict BY <1>1 DEF CreatureInv, WalkInv
<1>7. Jobs = <<>> /\ outcome = "none"
  <2>1. Len(Entries) = 6 BY <1>1 DEF Entries
  <2>2. Jobs # <<>> => Len(answers) <= 1 BY DEF CreatureInv, JobInv
  <2>3. Jobs = <<>> BY <1>1, <2>1, <2>2
  <2> QED BY <2>3 DEF CreatureInv, JobInv
<1>8. AnswersInv'
  <2>1. answers' \in Seq(Verdicts) /\ Len(answers') = 0 BY <1>1, EmptySeq
  <2> QED BY <2>1 DEF AnswersInv
<1>9. WalkInv' BY <1>1, <1>6 DEF WalkInv
<1>10. VerdictInv' BY <1>1, <1>6, PlainVerdicts DEF VerdictInv
<1>11. JobInv'
  <2>1. job \in 0 .. Len(Jobs) /\ next \in Nat BY DEF CreatureInv, JobInv
  <2> QED BY <1>1, <1>5, <1>7, <2>1 DEF JobInv
<1> QED BY <1>5, <1>8, <1>9, <1>10, <1>11 DEF CreatureInv

\* The creature under assembly stays an export.
LEMMA AssemblyKeeps ==
  ASSUME CreatureInv, UNCHANGED vars, job' \in 0 .. Len(Jobs), next' \in Nat,
         outcome' # "none" => /\ Jobs # <<>> /\ job' # 0 /\ answers # <<>> /\ entry = "none"
                              /\ IsExport(current')
  PROVE  CreatureInv'
<1>1. /\ host' = host /\ entry' = entry /\ answers' = answers /\ req' = req /\ stage' = stage
      /\ place' = place /\ walk' = walk /\ verdict' = verdict
  BY DEF vars, rvars
<1>2. HostInv' /\ AnswersInv' BY <1>1 DEF CreatureInv, HostInv, AnswersInv, FitToRun, InMemory
<1>3. WalkInv'
  <2>1. NeuronsWalked' <=> NeuronsWalked BY <1>1 DEF NeuronsWalked
  <2>2. SynapsesWalked' <=> SynapsesWalked BY <1>1 DEF SynapsesWalked
  <2>3. Mirrors' <=> Mirrors BY <1>1 DEF Mirrors, ReadBy, InMemory
  <2> QED BY <1>1, <2>1, <2>2, <2>3 DEF CreatureInv, WalkInv
<1>4. VerdictInv' BY <1>1 DEF CreatureInv, VerdictInv, FitToRun, InMemory
<1>5. Jobs' = Jobs BY <1>1 DEF Jobs
<1>6. JobInv' BY <1>1, <1>5 DEF CreatureInv, JobInv
<1> QED BY <1>2, <1>3, <1>4, <1>6 DEF CreatureInv

LEMMA GraftingKeeps ==
  ASSUME CreatureInv, StartGraft \/ GraftOne \/ FinishGraft
  PROVE  CreatureInv'
<1>1. /\ job \in 0 .. Len(Jobs) /\ next \in Nat /\ Len(Jobs) \in Nat
      /\ outcome # "none" => /\ Jobs # <<>> /\ job # 0 /\ answers # <<>> /\ entry = "none"
                             /\ IsExport(current)
  BY DEF CreatureInv, JobInv, HostInv, JobsFine, Jobs
<1>2. CASE StartGraft
  <2>1. /\ entry = "none" /\ answers # <<>> /\ job < Len(Jobs) /\ job' = job + 1 /\ next' = 0
        /\ current' = host.creature /\ UNCHANGED vars
    BY <1>2 DEF StartGraft
  <2>2. Jobs # <<>>
    <3>1. Jobs = <<>> => Len(Jobs) = 0 OBVIOUS
    <3> QED BY <1>1, <2>1, <3>1
  <2>3. IsExport(host.creature) BY <2>2 DEF CreatureInv, HostInv, JobsFine, IsHost, Jobs
  <2>4. job' \in 0 .. Len(Jobs) /\ job' # 0 /\ next' \in Nat BY <1>1, <2>1
  <2> QED BY <2>1, <2>2, <2>3, <2>4, AssemblyKeeps
<1>3. CASE GraftOne
  <2> DEFINE plan == Plan(SpecAt(next + 1))
  <2>1. /\ outcome = "assembling" /\ next < Len(Doing.specs) /\ UNCHANGED vars /\ job' = job
        /\ \/ current' = current /\ next' = next
           \/ current' = Build(current, plan, Place(current, plan)) /\ next' = next + 1
    BY <1>3 DEF GraftOne
  <2>2. IsPlan(plan)
    <3>1. JobsFine(host) /\ job \in 1 .. Len(Jobs) BY <1>1, <2>1 DEF CreatureInv, HostInv
    <3>2. Len(Doing.specs) \in Nat BY <3>1 DEF JobsFine, Doing, Jobs
    <3>3. next + 1 \in 1 .. Len(Doing.specs) BY <1>1, <2>1, <3>2
    <3> QED BY <3>1, <3>3, SpecTyped
  <2> HIDE DEF plan
  <2>3. IsExport(current') /\ next' \in Nat
    <3>1. IsExport(current) BY <1>1, <2>1
    <3>2. IsExport(Build(current, plan, Place(current, plan))) BY <2>2, <3>1, BuildTyped
    <3>3. next' \in Nat BY <1>1, <2>1
    <3> QED BY <2>1, <3>1, <3>2, <3>3
  <2> QED BY <1>1, <2>1, <2>3, AssemblyKeeps
<1>4. CASE FinishGraft
  <2>1. outcome = "assembling" /\ UNCHANGED vars /\ job' = job /\ next' = next /\ current' = current
    BY <1>4 DEF FinishGraft
  <2> QED BY <1>1, <2>1, AssemblyKeeps
<1> QED BY <1>2, <1>3, <1>4

LEMMA TakeKeeps ==
  ASSUME CreatureInv, TakeResult
  PROVE  CreatureInv'
<1>1. /\ outcome # "none" /\ outcome' = "none" /\ entry' = entry /\ stage' = stage /\ verdict' = verdict
      /\ req' = req /\ place' = place /\ walk' = walk /\ job' = job /\ next' = next /\ current' = current
      /\ \/ host' = [host EXCEPT !.creature = current] /\ answers' = <<>>
         \/ host' = host /\ answers' = answers
  BY DEF TakeResult, rvars
<1>2. /\ Jobs # <<>> /\ entry = "none" /\ IsExport(current) /\ job \in 0 .. Len(Jobs) /\ next \in Nat
      /\ Len(answers) <= 1
  BY <1>1 DEF CreatureInv, JobInv
<1>3. stage = "idle" /\ verdict = NoVerdict BY <1>2 DEF CreatureInv, WalkInv
<1>4. HostInv /\ host.export BY <1>2 DEF CreatureInv, HostInv, JobsFine, Jobs
<1>5. HostInv' /\ Jobs' = Jobs
  <2>1. CASE host' = host BY <1>4, <2>1 DEF HostInv, Jobs
  <2>2. CASE host' = [host EXCEPT !.creature = current] BY <1>2, <1>4, <2>2, HostTakes
  <2> QED BY <1>1, <2>1, <2>2
<1>6. AnswersInv' /\ Len(answers') <= 1
  <2>1. CASE answers' = <<>>
    <3>1. answers' \in Seq(Verdicts) /\ Len(answers') = 0 BY <2>1, EmptySeq
    <3> QED BY <3>1 DEF AnswersInv
  <2>2. CASE host' = host /\ answers' = answers
    BY <1>2, <2>2 DEF CreatureInv, AnswersInv, FitToRun, InMemory
  <2> QED BY <1>1, <2>1, <2>2
<1>7. WalkInv' BY <1>1, <1>3 DEF WalkInv
<1>8. VerdictInv' BY <1>1, <1>3, PlainVerdicts DEF VerdictInv
<1>9. JobInv' BY <1>1, <1>2, <1>5, <1>6 DEF JobInv
<1> QED BY <1>5, <1>6, <1>7, <1>8, <1>9 DEF CreatureInv

\* Validating, editing and grafting in any order keep a session in order: the
\* request is what the host holds, all behind the walk is fit, and no job is
\* under way beside a question.
THEOREM CreatureOrder == GraftSpec => []CreatureInv
<1>1. GraftInit => CreatureInv BY CreatureInit
<1>2. CreatureInv /\ [GraftNext]_<<vars, gvars>> => CreatureInv'
  <2> SUFFICES ASSUME CreatureInv, [GraftNext]_<<vars, gvars>> PROVE CreatureInv' OBVIOUS
  <2>1. CASE AskAgain BY <2>1, AskKeeps
  <2>2. CASE Validating
    <3>1. UNCHANGED gvars BY <2>2 DEF Validating
    <3>2. CASE Rules BY <3>1, <3>2, RulesKeep
    <3>3. CASE Memory BY <3>1, <3>3, MemoryKeeps
    <3>4. CASE Answer BY <3>1, <3>4, AnswerKeeps
    <3>5. CASE EditAndPrune BY <3>1, <3>5, EditKeeps
    <3> QED BY <2>2, <3>2, <3>3, <3>4, <3>5 DEF Validating
  <2>3. CASE StartGraft \/ GraftOne \/ FinishGraft BY <2>3, GraftingKeeps
  <2>4. CASE TakeResult BY <2>4, TakeKeeps
  <2>5. CASE UNCHANGED <<vars, gvars>>
    <3>1. UNCHANGED vars /\ job' = job /\ next' = next /\ outcome' = outcome /\ current' = current
      BY <2>5 DEF gvars
    <3>2. /\ job \in 0 .. Len(Jobs) /\ next \in Nat
          /\ outcome # "none" => /\ Jobs # <<>> /\ job # 0 /\ answers # <<>> /\ entry = "none"
                                 /\ IsExport(current)
      BY DEF CreatureInv, JobInv
    <3> QED BY <3>1, <3>2, AssemblyKeeps
  <2> QED BY <2>1, <2>2, <2>3, <2>4, <2>5 DEF GraftNext
<1> QED BY <1>1, <1>2, PTL DEF GraftSpec

\* A creature accepted as forward-only is fit to run forward, by whichever
\* entry point it came, as loaded, edited or grafted.
THEOREM AcceptedAlwaysRuns == GraftSpec => []AcceptedRuns
<1>1. CreatureInv => AcceptedRuns BY DEF CreatureInv, AnswersInv, FitToRun, AcceptedRuns
<1> QED BY <1>1, CreatureOrder, PTL

\* The flat gates never overrule the walks: rule 29 is never reported, and rule
\* 30 only for what the walk lets off.
THEOREM GatesAlwaysAgree == GraftSpec => []GatesAgree
<1>1. CreatureInv => GatesAgree BY DEF CreatureInv, VerdictInv, LetOff, GatesAgree
<1> QED BY <1>1, CreatureOrder, PTL

\* Whatever counts a packed header declares, decode reads inside the buffer.
THEOREM PackedAlwaysReadsInside == GraftSpec => []PackedReadsInside
<1>1. CreatureInv => PackedReadsInside
  <2> SUFFICES ASSUME CreatureInv, ~DecodeFails(host.buffer) PROVE ReadsStayInside(host.buffer)
    BY DEF PackedReadsInside
  <2>1. host.buffer.bytes \in Nat /\ host.buffer.neurons \in Nat /\ host.buffer.synapses \in Nat
    BY DEF CreatureInv, HostInv, IsHost
  <2> QED BY <2>1, DecodeReadsInside
<1> QED BY <1>1, CreatureOrder, PTL

-----------------------------------------------------------------------------
(* What an entry point says, without its walk                               *)

HiddenSeen(r, n) == \E i \in OfKind(r, n, "hidden") : InSlice(r, i)

\* What the walk over the neurons has seen behind the first n.
Seen(r, n) ==
  [ids |-> {r.views[i + 1].id : i \in 0 .. n - 1},
   outputs |-> Cardinality(OfKind(r, n, "output")),
   seenHidden |-> HiddenSeen(r, n),
   last |-> NoSynapse,
   stats |-> [input |-> Cardinality(OfKind(r, n, "input")),
              constant |-> Cardinality(OfKind(r, n, "constant")),
              hidden |-> Cardinality(OfKind(r, n, "hidden")),
              output |-> Cardinality(OfKind(r, n, "output")), connections |-> 0]]

NeuronFault(r, i) == NeuronVerdict(r, Seen(r, i), i)
NeuronFaults(r) == {i \in 0 .. Len(r.views) - 1 : NeuronFault(r, i) # "ok"}
CountFault(r) == WidthFault(r, Seen(r, Len(r.views)))
SynapseFault(r, k) == SynapseVerdict(r, LastOf(r, k), r.syn[k])
SynapseFaults(r) == {k \in 1 .. Len(r.syn) : SynapseFault(r, k) # "ok"}

\* The verdict of the rules on r: the first neuron at fault, the counts, the
\* first synapse at fault, the flat gates, the memetic record.
RulesSay(r) ==
  IF NeuronFaults(r) # {} THEN Refused(NeuronFault(r, Min(NeuronFaults(r))), Min(NeuronFaults(r)))
  ELSE IF CountFault(r) # "ok" THEN Refused(CountFault(r), -1)
  ELSE IF SynapseFaults(r) # {}
    THEN Refused(SynapseFault(r, Min(SynapseFaults(r))), Min(SynapseFaults(r)) - 1)
  ELSE IF FlatVerdict(r) # "ok" THEN Refused(FlatVerdict(r), -1)
  ELSE MemoryVerdict(r)

Told(e) == IF BeforeWalk(e) = Accepted THEN RulesSay(Request(e)) ELSE BeforeWalk(e)

LEMMA SeenNone == ASSUME NEW r PROVE Seen(r, 0) = FreshWalk
<1>1. \A kind : OfKind(r, 0, kind) = {} BY DEF OfKind
<1>2. Cardinality({}) = 0 BY FS_EmptySet
<1>3. {r.views[i + 1].id : i \in 0 .. 0 - 1} = {} OBVIOUS
<1>4. HiddenSeen(r, 0) = FALSE BY <1>1 DEF HiddenSeen
<1> QED BY <1>1, <1>2, <1>3, <1>4 DEF Seen, FreshWalk

LEMMA SeenStep ==
  ASSUME NEW r, NEW n \in Nat, r.views[n + 1].kind \in {"input", "constant", "hidden", "output"}
  PROVE  Passed(r, Seen(r, n), n) = Seen(r, n + 1)
<1> DEFINE kind == r.views[n + 1].kind
           w == Seen(r, n)
           c(k) == Cardinality(OfKind(r, n, k))
           d(k) == Cardinality(OfKind(r, n + 1, k))
<1>1. \A k : d(k) = IF kind = k THEN c(k) + 1 ELSE c(k) BY KindCounted
<1>2. {r.views[i + 1].id : i \in 0 .. (n + 1) - 1} = {r.views[i + 1].id : i \in 0 .. n - 1} \cup {r.views[n + 1].id}
  <2>1. \A i : i \in 0 .. (n + 1) - 1 <=> i \in 0 .. n - 1 \/ i = n OBVIOUS
  <2> QED BY <2>1
<1>3. HiddenSeen(r, n + 1) = (HiddenSeen(r, n) \/ (InSlice(r, n) /\ kind = "hidden"))
  <2>1. \A i : i \in OfKind(r, n + 1, "hidden") <=> i \in OfKind(r, n, "hidden") \/ (i = n /\ kind = "hidden")
    <3>1. \A i : i \in 0 .. (n + 1) - 1 <=> i \in 0 .. n - 1 \/ i = n OBVIOUS
    <3> QED BY <3>1 DEF OfKind
  <2>2. HiddenSeen(r, n + 1) <=> HiddenSeen(r, n) \/ (InSlice(r, n) /\ kind = "hidden")
    BY <2>1 DEF HiddenSeen
  <2>3. HiddenSeen(r, n + 1) \in BOOLEAN /\ HiddenSeen(r, n) \in BOOLEAN /\ InSlice(r, n) \in BOOLEAN
    BY DEF HiddenSeen, InSlice
  <2> QED BY <2>2, <2>3
<1>4. Counted(w.stats, kind) = Seen(r, n + 1).stats
  <2>1. w.stats = [input |-> c("input"), constant |-> c("constant"), hidden |-> c("hidden"),
                   output |-> c("output"), connections |-> 0]
    BY DEF Seen
  <2>2. Seen(r, n + 1).stats = [input |-> d("input"), constant |-> d("constant"), hidden |-> d("hidden"),
                                output |-> d("output"), connections |-> 0]
    BY DEF Seen
  <2> HIDE DEF c, d, w
  <2>3. kind = "input" \/ kind = "constant" \/ kind = "hidden" \/ kind = "output" OBVIOUS
  <2> HIDE DEF kind
  <2> QED BY <1>1, <2>1, <2>2, <2>3 DEF Counted
<1>5. /\ w.ids = {r.views[i + 1].id : i \in 0 .. n - 1} /\ w.outputs = c("output")
      /\ w.seenHidden = HiddenSeen(r, n) /\ w.last = NoSynapse
  BY DEF Seen
<1>6. DOMAIN w = {"ids", "outputs", "seenHidden", "last", "stats"} BY DEF Seen
<1>7. Passed(r, w, n) =
        [w EXCEPT !.ids = @ \cup {r.views[n + 1].id},
                  !.outputs = IF kind = "output" THEN @ + 1 ELSE @,
                  !.seenHidden = @ \/ (InSlice(r, n) /\ kind = "hidden"),
                  !.stats = Counted(@, kind)]
  BY DEF Passed
<1>8. Passed(r, w, n) =
        [ids |-> w.ids \cup {r.views[n + 1].id},
         outputs |-> IF kind = "output" THEN w.outputs + 1 ELSE w.outputs,
         seenHidden |-> w.seenHidden \/ (InSlice(r, n) /\ kind = "hidden"),
         last |-> w.last, stats |-> Counted(w.stats, kind)]
  <2>1. w = [ids |-> w.ids, outputs |-> w.outputs, seenHidden |-> w.seenHidden, last |-> w.last,
             stats |-> w.stats]
    BY DEF Seen
  <2> DEFINE a == w.ids
             b == w.outputs
             h == w.seenHidden
             l == w.last
             s == w.stats
  <2>2. w = [ids |-> a, outputs |-> b, seenHidden |-> h, last |-> l, stats |-> s] BY <2>1
  <2> HIDE DEF w, kind, a, b, h, l, s
  <2>3. /\ w.ids = a /\ w.outputs = b /\ w.seenHidden = h /\ w.last = l /\ w.stats = s
    BY <2>2
  <2> QED BY <1>7, <2>2, <2>3
<1>9. Seen(r, n + 1) =
        [ids |-> {r.views[i + 1].id : i \in 0 .. (n + 1) - 1}, outputs |-> d("output"),
         seenHidden |-> HiddenSeen(r, n + 1), last |-> NoSynapse, stats |-> Seen(r, n + 1).stats]
  BY DEF Seen
<1>10. d("output") = IF kind = "output" THEN w.outputs + 1 ELSE w.outputs BY <1>1, <1>5
<1> DEFINE q == Seen(r, n + 1)
<1>11. /\ w.ids \cup {r.views[n + 1].id} = q.ids
       /\ (IF kind = "output" THEN w.outputs + 1 ELSE w.outputs) = q.outputs
       /\ Counted(w.stats, kind) = q.stats /\ w.last = q.last
  <2>1. q.ids = {r.views[i + 1].id : i \in 0 .. (n + 1) - 1} /\ q.outputs = d("output") /\ q.last = NoSynapse
    BY DEF Seen
  <2> HIDE DEF w, d, q
  <2> QED BY <1>2, <1>4, <1>5, <1>10, <2>1 DEF q
<1>12. (w.seenHidden \/ (InSlice(r, n) /\ kind = "hidden")) = q.seenHidden
  <2>1. q.seenHidden = HiddenSeen(r, n + 1) BY DEF Seen
  <2> HIDE DEF w, q, kind
  <2> QED BY <1>3, <1>5, <2>1
<1>13. q = [ids |-> q.ids, outputs |-> q.outputs, seenHidden |-> q.seenHidden, last |-> q.last, stats |-> q.stats]
  BY DEF Seen
<1> DEFINE a == w.ids \cup {r.views[n + 1].id}
           b == IF kind = "output" THEN w.outputs + 1 ELSE w.outputs
           h == w.seenHidden \/ (InSlice(r, n) /\ kind = "hidden")
           s == Counted(w.stats, kind)
<1>14. Passed(r, w, n) = [ids |-> a, outputs |-> b, seenHidden |-> h, last |-> w.last, stats |-> s] BY <1>8
<1>15. a = q.ids /\ b = q.outputs /\ h = q.seenHidden /\ s = q.stats /\ w.last = q.last BY <1>11, <1>12
<1> HIDE DEF a, b, h, s, w, q
<1>16. Passed(r, w, n) = q BY <1>13, <1>14, <1>15
<1> QED BY <1>16 DEF w, q

LEMMA FirstFault ==
  ASSUME NEW S \in SUBSET Int, NEW m \in S, \A x \in S : m <= x
  PROVE  Min(S) = m
<1>1. Min(S) \in S /\ \A y \in S : Min(S) <= y BY MinIs
<1>2. Min(S) <= m /\ m <= Min(S) /\ Min(S) \in Int /\ m \in Int BY <1>1
<1> QED BY <1>2

NeuronsClear(r, n) == \A i \in 0 .. n - 1 : i \notin NeuronFaults(r)
SynapsesClear(r, n) ==
  NeuronFaults(r) = {} /\ CountFault(r) = "ok" /\ \A k \in 1 .. n : k \notin SynapseFaults(r)
AllClear(r) ==
  NeuronFaults(r) = {} /\ CountFault(r) = "ok" /\ SynapseFaults(r) = {} /\ FlatVerdict(r) = "ok"

LEMMA WalkNeuronTells ==
  ASSUME IsRequest(req), NeuronsWalked, walk = Seen(req, place), NeuronsClear(req, place), WalkNeuron
  PROVE  \/ stage' = "neurons" /\ walk' = Seen(req, place') /\ NeuronsClear(req, place')
         \/ stage' = "idle" /\ verdict' = RulesSay(req)
<1> DEFINE v == req.views[place + 1]
<1>1. /\ stage = "neurons" /\ place \in 0 .. Len(req.views) - 1 /\ place \in Nat /\ Len(req.views) \in Nat
      /\ v.kind \in Kinds
  <2>1. Len(req.views) \in Nat /\ place \in 0 .. Len(req.views) /\ place < Len(req.views)
    BY DEF IsRequest, NeuronsWalked, WalkNeuron
  <2>2. place + 1 \in 1 .. Len(req.views) BY <2>1
  <2>3. v.kind \in Kinds BY <2>2 DEF IsRequest
  <2> QED BY <2>1, <2>3 DEF WalkNeuron
<1>2. NeuronVerdict(req, walk, place) = NeuronFault(req, place) BY DEF NeuronFault
<1>3. CASE NeuronFault(req, place) = "ok"
  <2>1. place' = place + 1 /\ walk' = Passed(req, walk, place) /\ stage' = stage
    BY <1>2, <1>3 DEF WalkNeuron
  <2>2. v.kind \in {"input", "constant", "hidden", "output"}
    <3>1. req.input \in Nat /\ walk.outputs \in Nat BY <1>1 DEF IsRequest, NeuronsWalked
    <3>2. NeuronFine(req, place) BY <1>1, <1>2, <1>3, <3>1, NeuronPasses DEF Kinds
    <3> QED BY <3>2 DEF NeuronFine
  <2>3. walk' = Seen(req, place + 1) BY <1>1, <2>1, <2>2, SeenStep
  <2>4. NeuronsClear(req, place + 1)
    <3>1. ASSUME NEW i \in 0 .. (place + 1) - 1 PROVE i \notin NeuronFaults(req)
      <4>1. CASE i = place BY <1>3, <4>1 DEF NeuronFaults
      <4>2. CASE i \in 0 .. place - 1 BY <4>2 DEF NeuronsClear
      <4> QED BY <1>1, <4>1, <4>2
    <3> QED BY <3>1 DEF NeuronsClear
  <2> QED BY <1>1, <2>1, <2>3, <2>4
<1>4. CASE NeuronFault(req, place) # "ok"
  <2>1. stage' = "idle" /\ verdict' = Refused(NeuronFault(req, place), place) BY <1>2, <1>4 DEF WalkNeuron
  <2>2. place \in NeuronFaults(req) BY <1>1, <1>4 DEF NeuronFaults
  <2>3. Min(NeuronFaults(req)) = place
    <3>1. NeuronFaults(req) \in SUBSET Int BY DEF NeuronFaults
    <3>2. ASSUME NEW i \in NeuronFaults(req) PROVE place <= i
      <4>1. i \in 0 .. Len(req.views) - 1 BY <3>2 DEF NeuronFaults
      <4>2. i \notin 0 .. place - 1 BY <3>2 DEF NeuronsClear
      <4> QED BY <1>1, <4>1, <4>2
    <3> QED BY <2>2, <3>1, <3>2, FirstFault
  <2>4. RulesSay(req) = Refused(NeuronFault(req, place), place) BY <2>2, <2>3 DEF RulesSay
  <2> QED BY <2>1, <2>4
<1> QED BY <1>3, <1>4

LEMMA CountNeuronsTells ==
  ASSUME IsRequest(req), NeuronsWalked, walk = Seen(req, place), NeuronsClear(req, place), CountNeurons
  PROVE  \/ stage' = "synapses" /\ SynapsesClear(req, place')
         \/ stage' = "idle" /\ verdict' = RulesSay(req)
<1>1. place = Len(req.views) /\ WidthFault(req, walk) = CountFault(req) BY DEF CountNeurons, CountFault
<1>2. NeuronFaults(req) = {} BY <1>1 DEF NeuronsClear, NeuronFaults
<1>3. CASE CountFault(req) = "ok"
  <2>1. stage' = "synapses" /\ place' = 0 BY <1>1, <1>3 DEF CountNeurons, StartSynapses
  <2> QED BY <1>2, <1>3, <2>1 DEF SynapsesClear
<1>4. CASE CountFault(req) # "ok"
  <2>1. stage' = "idle" /\ verdict' = Refused(CountFault(req), -1) BY <1>1, <1>4 DEF CountNeurons
  <2> QED BY <1>2, <1>4, <2>1 DEF RulesSay
<1> QED BY <1>3, <1>4

LEMMA WalkSynapseTells ==
  ASSUME IsRequest(req), SynapsesWalked, SynapsesClear(req, place), WalkSynapse
  PROVE  \/ stage' = "synapses" /\ SynapsesClear(req, place')
         \/ stage' = "idle" /\ verdict' = RulesSay(req)
<1> DEFINE k == place + 1
<1>1. /\ stage = "synapses" /\ place \in Nat /\ k \in 1 .. Len(req.syn) /\ Len(req.syn) \in Nat
      /\ SynapseVerdict(req, walk.last, req.syn[k]) = SynapseFault(req, k)
  BY DEF WalkSynapse, SynapsesWalked, IsRequest, SynapseFault
<1>2. NeuronFaults(req) = {} /\ CountFault(req) = "ok" BY DEF SynapsesClear
<1>3. CASE SynapseFault(req, k) = "ok"
  <2>1. place' = k /\ stage' = stage BY <1>1, <1>3 DEF WalkSynapse
  <2>2. ASSUME NEW j \in 1 .. k PROVE j \notin SynapseFaults(req)
    <3>1. CASE j = k BY <1>3, <3>1 DEF SynapseFaults
    <3>2. CASE j \in 1 .. place BY <3>2 DEF SynapsesClear
    <3> QED BY <1>1, <3>1, <3>2
  <2>3. SynapsesClear(req, k) BY <1>2, <2>2 DEF SynapsesClear
  <2> QED BY <1>1, <2>1, <2>3
<1>4. CASE SynapseFault(req, k) # "ok"
  <2>1. stage' = "idle" /\ verdict' = Refused(SynapseFault(req, k), place) BY <1>1, <1>4 DEF WalkSynapse
  <2>2. k \in SynapseFaults(req) BY <1>1, <1>4 DEF SynapseFaults
  <2>3. Min(SynapseFaults(req)) = k
    <3>1. SynapseFaults(req) \in SUBSET Int BY DEF SynapseFaults
    <3>2. ASSUME NEW j \in SynapseFaults(req) PROVE k <= j
      <4>1. j \in 1 .. Len(req.syn) BY <3>2 DEF SynapseFaults
      <4>2. j \notin 1 .. place BY <3>2 DEF SynapsesClear
      <4> QED BY <1>1, <4>1, <4>2
    <3> QED BY <2>2, <3>1, <3>2, FirstFault
  <2>4. k - 1 = place BY <1>1
  <2>5. RulesSay(req) = Refused(SynapseFault(req, k), k - 1)
    <3> HIDE DEF k
    <3> QED BY <1>2, <2>2, <2>3 DEF RulesSay
  <2> QED BY <2>1, <2>4, <2>5
<1> QED BY <1>3, <1>4

LEMMA FinishTells ==
  ASSUME IsRequest(req), SynapsesWalked, SynapsesClear(req, place), FinishSynapses
  PROVE  \/ stage' = "memetic" /\ AllClear(req)
         \/ stage' = "idle" /\ verdict' = RulesSay(req)
<1>1. /\ place = Len(req.syn) /\ NeuronFaults(req) = {} /\ CountFault(req) = "ok"
  BY DEF FinishSynapses, SynapsesClear
<1>2. SynapseFaults(req) = {} BY <1>1 DEF SynapsesClear, SynapseFaults
<1>3. CASE FlatVerdict(req) = "ok"
  <2>1. stage' = "memetic" BY <1>3 DEF FinishSynapses
  <2> QED BY <1>1, <1>2, <1>3, <2>1 DEF AllClear
<1>4. CASE FlatVerdict(req) # "ok"
  <2>1. stage' = "idle" /\ verdict' = Refused(FlatVerdict(req), -1) BY <1>4 DEF FinishSynapses
  <2>2. RulesSay(req) = Refused(FlatVerdict(req), -1) BY <1>1, <1>2, <1>4 DEF RulesSay
  <2> QED BY <2>1, <2>2
<1> QED BY <1>3, <1>4

\* What the entry points say is settled by what the host holds.
LEMMA SaysTheSame ==
  ASSUME host' = host, NEW e
  PROVE  BeforeWalk(e)' = BeforeWalk(e) /\ Request(e)' = Request(e) /\ Told(e)' = Told(e)
         /\ Entries' = Entries
<1>1. ReadBy(e)' = ReadBy(e) BY DEF ReadBy, InMemory
<1>2. Request(e)' = Request(e) BY <1>1 DEF Request
<1>3. ASSUME NEW t, NEW i, NEW o PROVE WidthVerdict(t, i, o)' = WidthVerdict(t, i, o) BY DEF WidthVerdict
<1>4. BeforeWalk(e)' = BeforeWalk(e) BY <1>1 DEF BeforeWalk, WidthVerdict
<1>5. RulesSay(Request(e))' = RulesSay(Request(e)) BY <1>2 DEF RulesSay, MemoryVerdict, Vocabulary
<1>6. Told(e)' = Told(e) BY <1>2, <1>4, <1>5 DEF Told
<1>7. Entries' = Entries BY DEF Entries
<1> QED BY <1>2, <1>4, <1>6, <1>7

EntryPoints == {"native", "json", "runtime", "packed", "both", "neither"}

\* Where a session stands: the question is the next one, its walk has met
\* nothing the rules refuse, and each answer is what the entry point tells.
AskedInv ==
  /\ entry # "none" => Len(answers) < Len(Entries) /\ entry = Entries[Len(answers) + 1]
  /\ \A e \in EntryPoints :
       entry = e => IF stage = "idle" THEN verdict = Told(e)
                    ELSE BeforeWalk(e) = Accepted /\ req = Request(e)

ClearInv ==
  /\ stage = "neurons" => walk = Seen(req, place) /\ NeuronsClear(req, place)
  /\ stage = "synapses" => SynapsesClear(req, place)
  /\ stage = "memetic" => AllClear(req)

AnswersAsTold ==
  /\ Len(answers) <= Len(Entries)
  /\ \A i \in 1 .. Len(answers), e \in EntryPoints :
       Entries[i] = e => answers[i] = Wording(e, Told(e))

ToldInv == AskedInv /\ ClearInv /\ AnswersAsTold

LEMMA EntriesAre ==
  /\ Len(Entries) \in Nat /\ Len(Entries) > 0
  /\ \A i \in 1 .. Len(Entries) : Entries[i] \in EntryPoints
<1>1. CASE host.export
  <2>1. Entries = <<"native", "json", "runtime", "packed", "both", "neither">> BY <1>1 DEF Entries
  <2>2. Len(Entries) = 6 BY <2>1
  <2>3. ASSUME NEW i \in 1 .. 6 PROVE Entries[i] \in EntryPoints
    <3>1. i = 1 \/ i = 2 \/ i = 3 \/ i = 4 \/ i = 5 \/ i = 6 OBVIOUS
    <3> QED BY <2>1, <3>1 DEF EntryPoints
  <2> QED BY <2>2, <2>3
<1>2. CASE ~host.export
  <2>1. Entries = <<"runtime", "packed">> BY <1>2 DEF Entries
  <2>2. Len(Entries) = 2 BY <2>1
  <2>3. ASSUME NEW i \in 1 .. 2 PROVE Entries[i] \in EntryPoints
    <3>1. i = 1 \/ i = 2 OBVIOUS
    <3> QED BY <2>1, <3>1 DEF EntryPoints
  <2> QED BY <2>2, <2>3
<1> QED BY <1>1, <1>2

LEMMA AskTells ==
  ASSUME CreatureInv, ToldInv, AskAgain
  PROVE  ToldInv'
<1> DEFINE n == Entries[Len(answers) + 1]
<1>1. /\ entry = "none" /\ Len(answers) < Len(Entries) /\ entry' = n /\ place' = 0 /\ walk' = FreshWalk
      /\ host' = host /\ answers' = answers
      /\ \/ BeforeWalk(n) = Accepted /\ req' = Request(n) /\ stage' = "neurons"
         \/ BeforeWalk(n) # Accepted /\ verdict' = BeforeWalk(n) /\ stage' = stage
  BY DEF AskAgain, Ask
<1> HIDE DEF n
<1>2. stage = "idle" BY <1>1 DEF CreatureInv, WalkInv
<1>3. /\ Entries' = Entries
      /\ \A e : BeforeWalk(e)' = BeforeWalk(e) /\ Request(e)' = Request(e) /\ Told(e)' = Told(e)
  BY <1>1, SaysTheSame
<1>4. AnswersAsTold' BY <1>1, <1>3 DEF ToldInv, AnswersAsTold
<1>5. ClearInv'
  <2>1. stage' = "neurons" => walk' = Seen(req, place)' /\ NeuronsClear(req, place)'
    <3>1. Seen(req', 0) = FreshWalk BY SeenNone
    <3>2. NeuronsClear(req', 0) BY DEF NeuronsClear
    <3> QED BY <1>1, <3>1, <3>2
  <2>2. stage' \in {"idle", "neurons"} BY <1>1, <1>2
  <2> QED BY <2>1, <2>2 DEF ClearInv
<1>6. AskedInv'
  <2>1. ASSUME NEW e \in EntryPoints, entry' = e
        PROVE  IF stage' = "idle" THEN verdict' = Told(e)'
               ELSE BeforeWalk(e)' = Accepted /\ req' = Request(e)'
    <3>1. n = e BY <1>1, <2>1
    <3>2. BeforeWalk(e) # Accepted => Told(e) = BeforeWalk(e) BY DEF Told
    <3> QED BY <1>1, <1>2, <1>3, <3>1, <3>2
  <2>2. entry' = Entries'[Len(answers') + 1] /\ Len(answers') < Len(Entries') BY <1>1, <1>3 DEF n
  <2> QED BY <2>1, <2>2 DEF AskedInv
<1> QED BY <1>4, <1>5, <1>6 DEF ToldInv

LEMMA RulesTell ==
  ASSUME CreatureInv, ToldInv, Rules, UNCHANGED gvars
  PROVE  ToldInv'
<1>1. /\ host' = host /\ entry' = entry /\ answers' = answers /\ stage \in {"neurons", "synapses"}
      /\ req' = req /\ IsRequest(req)
  <2>1. stage \in {"neurons", "synapses"} /\ req' = req
    BY DEF Rules, WalkNeuron, CountNeurons, WalkSynapse, FinishSynapses
  <2> QED BY <2>1 DEF Rules, CreatureInv, WalkInv
<1>2. /\ stage = "neurons" => NeuronsWalked /\ walk = Seen(req, place) /\ NeuronsClear(req, place)
      /\ stage = "synapses" => SynapsesWalked /\ SynapsesClear(req, place)
  BY DEF CreatureInv, WalkInv, ToldInv, ClearInv
<1>3. \/ stage' = "neurons" /\ walk' = Seen(req, place') /\ NeuronsClear(req, place')
      \/ stage' = "synapses" /\ SynapsesClear(req, place')
      \/ stage' = "memetic" /\ AllClear(req)
      \/ stage' = "idle" /\ verdict' = RulesSay(req)
  <2>1. CASE WalkNeuron
    <3>1. stage = "neurons" BY <2>1 DEF WalkNeuron
    <3> QED BY <1>1, <1>2, <2>1, <3>1, WalkNeuronTells
  <2>2. CASE CountNeurons
    <3>1. stage = "neurons" BY <2>2 DEF CountNeurons
    <3> QED BY <1>1, <1>2, <2>2, <3>1, CountNeuronsTells
  <2>3. CASE WalkSynapse
    <3>1. stage = "synapses" BY <2>3 DEF WalkSynapse
    <3> QED BY <1>1, <1>2, <2>3, <3>1, WalkSynapseTells
  <2>4. CASE FinishSynapses
    <3>1. stage = "synapses" BY <2>4 DEF FinishSynapses
    <3> QED BY <1>1, <1>2, <2>4, <3>1, FinishTells
  <2> QED BY <2>1, <2>2, <2>3, <2>4 DEF Rules
<1>4. /\ Entries' = Entries
      /\ \A e : BeforeWalk(e)' = BeforeWalk(e) /\ Request(e)' = Request(e) /\ Told(e)' = Told(e)
  BY <1>1, SaysTheSame
<1>5. AnswersAsTold' BY <1>1, <1>4 DEF ToldInv, AnswersAsTold
<1>6. ClearInv' BY <1>1, <1>3 DEF ClearInv
<1>7. AskedInv'
  <2>1. ASSUME NEW e \in EntryPoints, entry' = e
        PROVE  IF stage' = "idle" THEN verdict' = Told(e)'
               ELSE BeforeWalk(e)' = Accepted /\ req' = Request(e)'
    <3>1. BeforeWalk(e) = Accepted /\ req = Request(e) BY <1>1, <2>1 DEF ToldInv, AskedInv
    <3>2. Told(e) = RulesSay(req) BY <3>1 DEF Told
    <3> QED BY <1>1, <1>3, <1>4, <3>1, <3>2
  <2>2. entry' # "none" => Len(answers') < Len(Entries') /\ entry' = Entries'[Len(answers') + 1]
    BY <1>1, <1>4 DEF ToldInv, AskedInv
  <2> QED BY <2>1, <2>2 DEF AskedInv
<1> QED BY <1>5, <1>6, <1>7 DEF ToldInv

LEMMA MemoryTells ==
  ASSUME CreatureInv, ToldInv, Memory, UNCHANGED gvars
  PROVE  ToldInv'
<1>1. /\ host' = host /\ entry' = entry /\ answers' = answers /\ stage = "memetic" /\ stage' = "idle"
      /\ req' = req /\ verdict' = MemoryVerdict(req)
  BY DEF Memory
<1>2. /\ Entries' = Entries
      /\ \A e : BeforeWalk(e)' = BeforeWalk(e) /\ Request(e)' = Request(e) /\ Told(e)' = Told(e)
  BY <1>1, SaysTheSame
<1>3. AnswersAsTold' BY <1>1, <1>2 DEF ToldInv, AnswersAsTold
<1>4. ClearInv' BY <1>1 DEF ClearInv
<1>5. AskedInv'
  <2>1. ASSUME NEW e \in EntryPoints, entry' = e PROVE verdict' = Told(e)'
    <3>1. BeforeWalk(e) = Accepted /\ req = Request(e) BY <1>1, <2>1 DEF ToldInv, AskedInv
    <3>2. AllClear(req) BY <1>1 DEF ToldInv, ClearInv
    <3>3. RulesSay(req) = MemoryVerdict(req) BY <3>2 DEF RulesSay, AllClear
    <3>4. Told(e) = MemoryVerdict(req) BY <3>1, <3>3 DEF Told
    <3> QED BY <1>1, <1>2, <3>4
  <2>2. entry' # "none" => Len(answers') < Len(Entries') /\ entry' = Entries'[Len(answers') + 1]
    BY <1>1, <1>2 DEF ToldInv, AskedInv
  <2> QED BY <1>1, <2>1, <2>2 DEF AskedInv
<1> QED BY <1>3, <1>4, <1>5 DEF ToldInv

LEMMA AnswerTells ==
  ASSUME CreatureInv, ToldInv, Answer, UNCHANGED gvars
  PROVE  ToldInv'
<1> DEFINE w == Wording(entry, verdict)
           n == Len(answers)
<1>1. /\ entry # "none" /\ stage = "idle" /\ answers' = Append(answers, w) /\ entry' = "none"
      /\ stage' = stage /\ host' = host
  BY DEF Answer
<1>2. /\ Entries' = Entries
      /\ \A e : BeforeWalk(e)' = BeforeWalk(e) /\ Request(e)' = Request(e) /\ Told(e)' = Told(e)
  BY <1>1, SaysTheSame
<1>3. n < Len(Entries) /\ entry = Entries[n + 1] BY <1>1 DEF ToldInv, AskedInv
<1>4. n \in Nat /\ answers \in Seq(Verdicts) BY LenProperties DEF CreatureInv, AnswersInv
<1>5. Len(Entries) \in Nat /\ \A i \in 1 .. Len(Entries) : Entries[i] \in EntryPoints BY EntriesAre
<1>6. entry \in EntryPoints /\ n + 1 \in 1 .. Len(Entries) BY <1>3, <1>4, <1>5
<1>7. verdict = Told(entry) BY <1>1, <1>6 DEF ToldInv, AskedInv
<1>8. w = Wording(entry, Told(entry)) BY <1>7
<1>9. w \in Verdicts
  <2>1. w = verdict \/ w = Refused("detail", -1) BY DEF Wording
  <2>2. "detail" \in RuleNames /\ -1 \in Int BY DEF RuleNames
  <2>3. Refused("detail", -1) \in Verdicts BY <2>2, PlainVerdicts
  <2> QED BY <2>1, <2>3 DEF CreatureInv, VerdictInv
<1> HIDE DEF w, n
<1>10. /\ Len(Append(answers, w)) = n + 1
       /\ \A i \in 1 .. n + 1 : Append(answers, w)[i] = IF i <= n THEN answers[i] ELSE w
  BY <1>4, <1>9, AppendProperties DEF n
<1>11. AnswersAsTold'
  <2>1. Len(answers') <= Len(Entries') BY <1>1, <1>2, <1>4, <1>5, <1>6, <1>10
  <2>2. ASSUME NEW i \in 1 .. n + 1, NEW e \in EntryPoints, Entries[i] = e
        PROVE  answers'[i] = Wording(e, Told(e))
    <3>1. CASE i <= n
      <4>1. i \in 1 .. n /\ answers'[i] = answers[i] BY <1>1, <1>4, <1>10, <3>1
      <4> QED BY <2>2, <4>1 DEF ToldInv, AnswersAsTold, n
    <3>2. CASE ~(i <= n)
      <4>1. i = n + 1 /\ answers'[i] = w BY <1>1, <1>4, <1>10, <3>2
      <4> QED BY <1>3, <1>8, <2>2, <4>1 DEF n
    <3> QED BY <3>1, <3>2
  <2>3. \A i \in 1 .. Len(answers'), e \in EntryPoints : Entries'[i] = e => answers'[i] = Wording(e, Told(e)')
    BY <1>1, <1>2, <1>10, <2>2
  <2> QED BY <2>1, <2>3 DEF AnswersAsTold, Wording
<1>12. ClearInv' BY <1>1 DEF ClearInv
<1>13. AskedInv' BY <1>1 DEF AskedInv, EntryPoints
<1> QED BY <1>11, <1>12, <1>13 DEF ToldInv

\* Between two questions a session may turn to another creature.
LEMMA TurnTells ==
  ASSUME entry' = "none", stage' = "idle", answers' = <<>>
  PROVE  ToldInv'
<1>1. Len(answers') = 0 OBVIOUS
<1>2. Len(Entries') \in Nat /\ Len(Entries') > 0
  <2>1. CASE host'.export
    <3>1. Entries' = <<"native", "json", "runtime", "packed", "both", "neither">> BY <2>1 DEF Entries
    <3> QED BY <3>1
  <2>2. CASE ~host'.export
    <3>1. Entries' = <<"runtime", "packed">> BY <2>2 DEF Entries
    <3> QED BY <3>1
  <2> QED BY <2>1, <2>2
<1>3. AnswersAsTold' BY <1>1, <1>2 DEF AnswersAsTold
<1>4. ClearInv' BY DEF ClearInv
<1>5. AskedInv' BY DEF AskedInv, EntryPoints
<1> QED BY <1>3, <1>4, <1>5 DEF ToldInv

LEMMA TurnsTell ==
  ASSUME CreatureInv, ToldInv,
         \/ EditAndPrune
         \/ TakeResult
         \/ StartGraft \/ GraftOne \/ FinishGraft \/ UNCHANGED vars
  PROVE  ToldInv'
<1>1. CASE UNCHANGED <<host, entry, answers, rvars>>
  <2>1. /\ host' = host /\ entry' = entry /\ answers' = answers /\ req' = req /\ stage' = stage
        /\ place' = place /\ walk' = walk /\ verdict' = verdict
    BY <1>1 DEF rvars
  <2>2. /\ Entries' = Entries
        /\ \A e : BeforeWalk(e)' = BeforeWalk(e) /\ Request(e)' = Request(e) /\ Told(e)' = Told(e)
    BY <2>1, SaysTheSame
  <2>3. AnswersAsTold' BY <2>1, <2>2 DEF ToldInv, AnswersAsTold
  <2>4. ClearInv' BY <2>1 DEF ToldInv, ClearInv
  <2>5. AskedInv' BY <2>1, <2>2 DEF ToldInv, AskedInv
  <2> QED BY <2>3, <2>4, <2>5 DEF ToldInv
<1>2. CASE entry = "none" /\ entry' = entry /\ stage' = stage /\ answers' = <<>>
  <2>1. stage = "idle" BY <1>2 DEF CreatureInv, WalkInv
  <2> QED BY <1>2, <2>1, TurnTells
<1>3. CASE EditAndPrune BY <1>2, <1>3 DEF EditAndPrune, rvars
<1>4. CASE TakeResult
  <2>1. outcome # "none" /\ entry' = entry /\ UNCHANGED rvars /\ stage' = stage
        /\ (answers' = <<>> \/ (host' = host /\ answers' = answers))
    BY <1>4 DEF TakeResult, rvars
  <2>2. entry = "none" BY <2>1 DEF CreatureInv, JobInv
  <2> QED BY <1>1, <1>2, <2>1, <2>2
<1>5. CASE StartGraft \/ GraftOne \/ FinishGraft \/ UNCHANGED vars
  <2>1. UNCHANGED vars BY <1>5 DEF StartGraft, GraftOne, FinishGraft
  <2> QED BY <1>1, <2>1 DEF vars
<1> QED BY <1>3, <1>4, <1>5

\* Every answer is what the rules say of the creature as the host holds it, at
\* the first place they refuse, whatever was asked, edited or grafted before.
THEOREM AnswersAreTold == GraftSpec => []ToldInv
<1>1. GraftInit => ToldInv
  <2> SUFFICES ASSUME GraftInit PROVE ToldInv OBVIOUS
  <2>1. entry = "none" /\ stage = "idle" /\ answers = <<>> /\ Len(answers) = 0 BY DEF GraftInit, Init
  <2>2. Len(Entries) \in Nat BY EntriesAre
  <2>3. AnswersAsTold BY <2>1, <2>2 DEF AnswersAsTold
  <2> QED BY <2>1, <2>3 DEF ToldInv, AskedInv, ClearInv, EntryPoints
<1>2. CreatureInv /\ ToldInv /\ [GraftNext]_<<vars, gvars>> => ToldInv'
  <2> SUFFICES ASSUME CreatureInv, ToldInv, [GraftNext]_<<vars, gvars>> PROVE ToldInv' OBVIOUS
  <2>1. CASE AskAgain BY <2>1, AskTells
  <2>2. CASE Validating
    <3>1. UNCHANGED gvars BY <2>2 DEF Validating
    <3>2. CASE Rules BY <3>1, <3>2, RulesTell
    <3>3. CASE Memory BY <3>1, <3>3, MemoryTells
    <3>4. CASE Answer BY <3>1, <3>4, AnswerTells
    <3>5. CASE EditAndPrune BY <3>5, TurnsTell
    <3> QED BY <2>2, <3>2, <3>3, <3>4, <3>5 DEF Validating
  <2>3. CASE StartGraft \/ GraftOne \/ FinishGraft BY <2>3, TurnsTell
  <2>4. CASE TakeResult BY <2>4, TurnsTell
  <2>5. CASE UNCHANGED <<vars, gvars>> BY <2>5, TurnsTell
  <2> QED BY <2>1, <2>2, <2>3, <2>4, <2>5 DEF GraftNext
<1> QED BY <1>1, <1>2, CreatureOrder, PTL DEF GraftSpec

-----------------------------------------------------------------------------
(* The entry points agree                                                   *)

\* What every entry point asks before the walk, but for the ceilings.
AskedFirst ==
  LET R == InMemory
      widths == WidthVerdict(Len(R.views), R.input, R.output)
      lost == Dangling(R.syn, Len(R.views))
  IN IF widths # "ok" THEN Refused(widths, -1)
     ELSE IF lost # {} THEN Refused("ref", Min(lost) - 1)
     ELSE Accepted

Malformed == Refused("malformed", -1)

LEMMA NotAcceptedAs ==
  \A r, at : /\ Refused(r, at).rule = r
             /\ r # "ok" => Refused(r, at) # Accepted
<1> SUFFICES ASSUME NEW r, NEW at PROVE Refused(r, at).rule = r /\ (r # "ok" => Refused(r, at) # Accepted)
  OBVIOUS
<1>1. Refused(r, at).rule = r /\ Accepted.rule = "ok" BY DEF Refused, Accepted
<1> QED BY <1>1

LEMMA BeforeWalkIs ==
  ASSUME IsHost(host)
  PROVE  /\ BeforeWalk("runtime") = IF Len(InMemory.views) > MaxNodes THEN Malformed ELSE AskedFirst
         /\ BeforeWalk("packed") = Malformed \/ BeforeWalk("packed") = AskedFirst
         /\ host.export =>
              /\ Len(InMemory.views) = Declared(host.creature)
              /\ BeforeWalk("json") = IF Declared(host.creature) > MaxNodes THEN Malformed ELSE AskedFirst
              /\ ~(Declared(host.creature) > MaxNodes) => BeforeWalk("native") = AskedFirst
              /\ Declared(host.creature) > MaxNodes => BeforeWalk("native") # Accepted
         /\ AskedFirst.rule # "malformed"
<1> DEFINE E == host.creature
           R == InMemory
           widths == WidthVerdict(Len(R.views), R.input, R.output)
           lost == Dangling(R.syn, Len(R.views))
           lostAt == Refused("ref", Min(lost) - 1)
           over == Declared(E) > MaxNodes
           above == Len(R.views) > MaxNodes
           broken == DecodeFails(host.buffer) \/ ~host.buffer.memetic
<1>1. AskedFirst = IF widths # "ok" THEN Refused(widths, -1) ELSE IF lost # {} THEN lostAt ELSE Accepted
  BY DEF AskedFirst
<1>0. /\ ReadBy("runtime") = R /\ ReadBy("packed") = R
      /\ \A e : ReadBy(e).syn = R.syn /\ Len(ReadBy(e).views) = Len(R.views)
  BY ReadTyped DEF ReadBy
<1>2. BeforeWalk("runtime") =
        IF above THEN Malformed
        ELSE IF widths # "ok" THEN Refused(widths, -1) ELSE IF lost # {} THEN lostAt ELSE Accepted
  BY <1>0 DEF BeforeWalk, Malformed
<1>3. BeforeWalk("packed") =
        IF broken THEN Malformed
        ELSE IF widths # "ok" THEN Refused(widths, -1) ELSE IF lost # {} THEN lostAt ELSE Accepted
  BY <1>0 DEF BeforeWalk, Malformed
<1>4. /\ BeforeWalk("json") =
           IF over THEN Malformed
           ELSE IF WidthVerdict(Declared(E), E.input, E.output) # "ok"
             THEN Refused(WidthVerdict(Declared(E), E.input, E.output), -1)
           ELSE IF lost # {} THEN lostAt ELSE Accepted
      /\ BeforeWalk("native") =
           IF WidthVerdict(Declared(E), E.input, E.output) # "ok"
             THEN Refused(WidthVerdict(Declared(E), E.input, E.output), -1)
           ELSE IF over THEN Refused("oversize", -1)
           ELSE IF lost # {} THEN lostAt ELSE Accepted
  BY <1>0 DEF BeforeWalk, Malformed
<1>5. IsHeld(R) /\ R.input = E.input /\ R.output = E.output BY HeldTyped
<1>6. widths \in {"1", "2", "3", "ok"}
  <2>1. R.input \in Nat /\ R.output \in Nat BY <1>5 DEF IsHeld
  <2> HIDE DEF R
  <2> QED BY <2>1, WidthsSay
<1>7. host.export => Len(R.views) = Declared(E)
  BY <1>0, ReadTyped
<1>8. host.export => WidthVerdict(Declared(E), E.input, E.output) = widths
  <2> HIDE DEF R, E
  <2> QED BY <1>5, <1>7
<1> HIDE DEF R, E, widths, lost, lostAt, over, above, broken
<1>9. AskedFirst.rule # "malformed"
  <2>1. Accepted.rule # "malformed" BY DEF Accepted
  <2>2. lostAt.rule = "ref" /\ Refused(widths, -1).rule = widths BY NotAcceptedAs DEF lostAt
  <2> QED BY <1>1, <1>6, <2>1, <2>2
<1>10. host.export /\ over => BeforeWalk("native") # Accepted
  <2>1. Refused("oversize", -1) # Accepted BY NotAcceptedAs
  <2>2. widths # "ok" => Refused(widths, -1) # Accepted BY NotAcceptedAs
  <2> QED BY <1>4, <1>8, <2>1, <2>2
<1>11. host.export => /\ BeforeWalk("json") = IF over THEN Malformed ELSE AskedFirst
                      /\ ~over => BeforeWalk("native") = AskedFirst
  BY <1>1, <1>4, <1>8
<1>12. BeforeWalk("packed") = Malformed \/ BeforeWalk("packed") = AskedFirst BY <1>1, <1>3
<1>13. BeforeWalk("runtime") = IF above THEN Malformed ELSE AskedFirst BY <1>1, <1>2
<1> QED BY <1>7, <1>9, <1>10, <1>11, <1>12, <1>13 DEF over, above, E, R

\* The requests of two entry points differ in the wire vocabulary alone.
Alike(r, q) ==
  /\ r.views = q.views /\ r.syn = q.syn /\ r.input = q.input /\ r.output = q.output
  /\ r.options = q.options /\ r.memetic = q.memetic

LEMMA SeenAlike ==
  ASSUME NEW r, NEW q, Alike(r, q), NEW n
  PROVE  Seen(r, n) = Seen(q, n)
<1>1. r.views = q.views /\ r.input = q.input /\ r.output = q.output BY DEF Alike
<1>2. \A i : InSlice(r, i) = InSlice(q, i) BY <1>1 DEF InSlice
<1>3. \A kind : OfKind(r, n, kind) = OfKind(q, n, kind) BY <1>1 DEF OfKind
<1>4. HiddenSeen(r, n) = HiddenSeen(q, n) BY <1>2, <1>3 DEF HiddenSeen
<1>5. {r.views[i + 1].id : i \in 0 .. n - 1} = {q.views[i + 1].id : i \in 0 .. n - 1} BY <1>1
<1> QED BY <1>3, <1>4, <1>5 DEF Seen

LEMMA FaultsAlike ==
  ASSUME NEW r, NEW q, Alike(r, q)
  PROVE  /\ \A i : NeuronFault(r, i) = NeuronFault(q, i)
         /\ NeuronFaults(r) = NeuronFaults(q) /\ CountFault(r) = CountFault(q)
         /\ \A k : SynapseFault(r, k) = SynapseFault(q, k)
         /\ SynapseFaults(r) = SynapseFaults(q) /\ FlatVerdict(r) = FlatVerdict(q)
<1>1. r.views = q.views /\ r.input = q.input /\ r.output = q.output /\ r.syn = q.syn /\ r.options = q.options
  BY DEF Alike
<1>2. ASSUME NEW i PROVE NeuronFault(r, i) = NeuronFault(q, i)
  <2> DEFINE w == Seen(q, i)
             v == q.views[i + 1]
  <2>1. Seen(r, i) = w /\ r.views[i + 1] = v BY <1>1, SeenAlike
  <2>2. InSlice(r, i) = InSlice(q, i) BY <1>1 DEF InSlice
  <2>3. BreaksIf(r, i) = BreaksIf(q, i) BY <1>1 DEF BreaksIf
  <2>4. OrderRules(r, w, v, i) = OrderRules(q, w, v, i)
    <3> HIDE DEF w, v
    <3> QED BY <1>1, <2>2, <2>3 DEF OrderRules
  <2>5. KindRules(r, v, i) = KindRules(q, v, i)
    <3> HIDE DEF v
    <3> QED BY <1>1 DEF KindRules
  <2>6. NeuronFault(r, i) = FirstBroken(IdRules(w, v, i) \o OrderRules(r, w, v, i) \o KindRules(r, v, i))
    BY <2>1 DEF NeuronFault, NeuronVerdict
  <2>7. NeuronFault(q, i) = FirstBroken(IdRules(w, v, i) \o OrderRules(q, w, v, i) \o KindRules(q, v, i))
    BY DEF NeuronFault, NeuronVerdict
  <2> HIDE DEF w, v
  <2> QED BY <2>4, <2>5, <2>6, <2>7
<1>3. NeuronFaults(r) = NeuronFaults(q) BY <1>1, <1>2 DEF NeuronFaults
<1>4. CountFault(r) = CountFault(q)
  <2>1. Seen(r, Len(r.views)) = Seen(q, Len(q.views)) BY <1>1, SeenAlike
  <2> QED BY <1>1, <2>1 DEF CountFault, WidthFault
<1>5. ASSUME NEW k PROVE SynapseFault(r, k) = SynapseFault(q, k)
  <2>1. LastOf(r, k) = LastOf(q, k) BY <1>1 DEF LastOf
  <2>2. \A l, s : RepeatsIntoPlain(r, l, s) = RepeatsIntoPlain(q, l, s) BY <1>1 DEF RepeatsIntoPlain
  <2>3. \A l, s : SynapseVerdict(r, l, s) = SynapseVerdict(q, l, s) BY <1>1, <2>2 DEF SynapseVerdict
  <2> QED BY <1>1, <2>1, <2>3 DEF SynapseFault
<1>6. SynapseFaults(r) = SynapseFaults(q) BY <1>1, <1>5 DEF SynapseFaults
<1>7. FlatVerdict(r) = FlatVerdict(q)
  <2>1. StructureViews(r) = StructureViews(q) BY <1>1 DEF StructureViews
  <2>2. ForwardRules(r) = ForwardRules(q) BY <1>1, <2>1 DEF ForwardRules
  <2> QED BY <1>1, <2>2 DEF FlatVerdict
<1> QED BY <1>2, <1>3, <1>4, <1>5, <1>6, <1>7

LEMMA RulesAlike ==
  ASSUME NEW r, NEW q, Alike(r, q), MemoryVerdict(r) = MemoryVerdict(q)
  PROVE  RulesSay(r) = RulesSay(q)
BY FaultsAlike DEF RulesSay

\* The places of the views that bear an id.
Bearing(E, id) ==
  {k \in 1 .. Declared(E) : NeuronViews(E)[k].idKind = "integer" /\ NeuronViews(E)[k].id = id}

LEMMA BearingIs ==
  ASSUME NEW E, IsExport(E), NEW id
  PROVE  /\ \A k \in 1 .. E.input : k \in Bearing(E, id) <=> id = k - 1
         /\ \A i \in 1 .. Len(E.neurons) :
              E.input + i \in Bearing(E, id) <=> id # NotAnId /\ ListedId(E, i) = id
<1>1. E.input \in Nat /\ Len(E.neurons) \in Nat /\ Declared(E) = E.input + Len(E.neurons)
  BY LenProperties DEF IsExport, Declared
<1>2. ASSUME NEW k \in 1 .. E.input PROVE k \in Bearing(E, id) <=> id = k - 1
  <2>1. k \in 1 .. Declared(E) BY <1>1
  <2>2. NeuronViews(E)[k].idKind = "integer" /\ NeuronViews(E)[k].id = k - 1
    <3>1. NeuronViews(E)[k] = InputView(k - 1) BY ViewsAre
    <3> QED BY <3>1 DEF InputView
  <2> QED BY <2>1, <2>2 DEF Bearing
<1>3. ASSUME NEW i \in 1 .. Len(E.neurons)
      PROVE  E.input + i \in Bearing(E, id) <=> id # NotAnId /\ ListedId(E, i) = id
  <2>1. E.input + i \in 1 .. Declared(E) BY <1>1
  <2>2. /\ NeuronViews(E)[E.input + i].idKind = IF ListedId(E, i) = NotAnId THEN "none" ELSE "integer"
        /\ NeuronViews(E)[E.input + i].id = ListedId(E, i)
    <3>1. NeuronViews(E)[E.input + i] = ListedView(E, i) BY ViewsAre
    <3>2. ListedView(E, i).idKind = IF ListedId(E, i) = NotAnId THEN "none" ELSE "integer" BY DEF ListedView
    <3>3. ListedView(E, i).id = ListedId(E, i) BY DEF ListedView
    <3> QED BY <3>1, <3>2, <3>3
  <2> DEFINE v == NeuronViews(E)[E.input + i]
  <2>3. E.input + i \in Bearing(E, id) <=> v.idKind = "integer" /\ v.id = id BY <2>1 DEF Bearing
  <2> HIDE DEF v
  <2>4. "none" # "integer" OBVIOUS
  <2> QED BY <2>2, <2>3, <2>4 DEF v
<1> QED BY <1>2, <1>3

\* The vocabulary built from an export and the one built from its views name
\* the same neuron by an id.
LEMMA VocabulariesAgree ==
  ASSUME NEW E, IsExport(E), NEW wire, NEW wired, NEW id, id # NotAnId
  PROVE  /\ IndexOfId(ViewVocabulary(NeuronViews(E), wire, wired), id) = IndexOfId(ExportVocabulary(E), id)
         /\ IndexOfId(ExportVocabulary(E), id) =
              IF Bearing(E, id) = {} THEN Nowhere ELSE Max(Bearing(E, id)) - 1
<1> DEFINE n == Len(E.neurons)
           V == NeuronViews(E)
           B == Bearing(E, id)
           own == {i \in 1 .. n : ListedId(E, i) = id}
           idsV == {V[k].id : k \in {j \in 1 .. Len(V) : V[j].idKind = "integer"}}
           idsE == {ListedId(E, i) : i \in 1 .. n} \ {NotAnId}
           vocV == ViewVocabulary(V, wire, wired)
           vocE == ExportVocabulary(E)
<1>1. E.input \in Nat /\ n \in Nat /\ Len(V) = E.input + n /\ Declared(E) = E.input + n
  BY LenProperties, ViewsAre DEF IsExport, Declared
<1>2. vocV.input = 0 /\ vocV.listed = [x \in idsV |-> Max({k \in 1 .. Len(V) : V[k].idKind = "integer" /\ V[k].id = x}) - 1]
  BY DEF ViewVocabulary
<1>3. vocE.input = E.input /\ vocE.listed = [x \in idsE |-> E.input + Max({i \in 1 .. n : ListedId(E, i) = x}) - 1]
  BY DEF ExportVocabulary
<1>4. id \in idsV <=> B # {} BY <1>1 DEF Bearing
<1>5. IndexOfId(vocV, id) = IF B = {} THEN Nowhere ELSE Max(B) - 1
  <2>1. {k \in 1 .. Len(V) : V[k].idKind = "integer" /\ V[k].id = id} = B BY <1>1 DEF Bearing
  <2>2. DOMAIN vocV.listed = idsV /\ (id \in idsV => vocV.listed[id] = Max(B) - 1) BY <1>2, <2>1
  <2>3. id \notin 0 .. vocV.input - 1
    <3>1. 0 .. 0 - 1 = {} OBVIOUS
    <3> QED BY <1>2, <3>1
  <2> HIDE DEF vocV, idsV, B
  <2> QED BY <1>4, <2>2, <2>3 DEF IndexOfId
<1>6. B = {k \in 1 .. E.input : id = k - 1} \cup {E.input + i : i \in own}
  <2>1. B \in SUBSET (1 .. E.input + n) BY <1>1 DEF Bearing
  <2>2. ASSUME NEW k \in B PROVE k \in {j \in 1 .. E.input : id = j - 1} \cup {E.input + i : i \in own}
    <3>1. CASE k \in 1 .. E.input BY <3>1, BearingIs
    <3>2. CASE k \notin 1 .. E.input
      <4>1. k - E.input \in 1 .. n /\ k = E.input + (k - E.input) BY <1>1, <2>1, <3>2
      <4>2. k - E.input \in own BY <4>1, BearingIs
      <4> QED BY <4>1, <4>2
    <3> QED BY <3>1, <3>2
  <2>3. ASSUME NEW k \in 1 .. E.input, id = k - 1 PROVE k \in B BY <2>3, BearingIs
  <2>4. ASSUME NEW i \in own PROVE E.input + i \in B BY BearingIs
  <2> QED BY <2>2, <2>3, <2>4
<1>7. ASSUME own = {} PROVE IndexOfId(vocE, id) = IF B = {} THEN Nowhere ELSE Max(B) - 1
  <2>1. id \notin idsE BY <1>7
  <2>2. IndexOfId(vocE, id) = IF id \in 0 .. E.input - 1 THEN id ELSE Nowhere
    <3>1. DOMAIN vocE.listed = idsE BY <1>3
    <3> HIDE DEF vocE, idsE
    <3> QED BY <1>3, <2>1, <3>1 DEF IndexOfId
  <2>3. B = {k \in 1 .. E.input : id = k - 1} BY <1>6, <1>7
  <2>4. CASE id \in 0 .. E.input - 1
    <3>1. id + 1 \in B /\ \A k \in B : k = id + 1 BY <1>1, <2>3, <2>4
    <3>2. Max(B) = id + 1
      <4>1. B \in SUBSET Int /\ B # {} /\ id + 1 \in Int /\ \A k \in B : k <= id + 1 BY <1>1, <2>3, <2>4, <3>1
      <4> HIDE DEF B
      <4> QED BY <3>1, <4>1, MaxIs
    <3>3. IndexOfId(vocE, id) = id BY <2>2, <2>4
    <3>4. Max(B) - 1 = id BY <1>1, <2>4, <3>2
    <3> HIDE DEF B, vocE
    <3> QED BY <3>1, <3>3, <3>4
  <2>5. CASE id \notin 0 .. E.input - 1
    <3>1. B = {}
      <4>1. \A k \in 1 .. E.input : k - 1 \in 0 .. E.input - 1 BY <1>1
      <4> QED BY <2>3, <2>5, <4>1
    <3>2. IndexOfId(vocE, id) = Nowhere BY <2>2, <2>5
    <3> HIDE DEF B, vocE
    <3> QED BY <3>1, <3>2
  <2> QED BY <2>4, <2>5
<1>8. ASSUME own # {} PROVE IndexOfId(vocE, id) = IF B = {} THEN Nowhere ELSE Max(B) - 1
  <2>1. own \in SUBSET Int /\ \A i \in own : i <= n BY <1>1
  <2>2. Max(own) \in own /\ \A i \in own : i <= Max(own)
    <3>1. n \in Int BY <1>1
    <3> HIDE DEF own, n
    <3> QED BY <1>8, <2>1, <3>1, MaxIs
  <2>3. IndexOfId(vocE, id) = E.input + Max(own) - 1
    <3>1. id \in idsE BY <1>8
    <3>2. DOMAIN vocE.listed = idsE /\ vocE.listed[id] = E.input + Max(own) - 1 BY <1>3, <3>1
    <3> HIDE DEF vocE, idsE, own
    <3> QED BY <3>1, <3>2 DEF IndexOfId
  <2> DEFINE m == Max(own)
  <2>4. E.input + m \in B /\ m \in 1 .. n BY <1>6, <2>2
  <2>5. \A k \in B : k <= E.input + m
    <3>1. \A i \in own : E.input + i <= E.input + m
      <4>1. \A i \in own : i \in Nat /\ i <= m BY <2>2
      <4> HIDE DEF m, own
      <4> QED BY <1>1, <2>4, <4>1
    <3>2. \A k \in 1 .. E.input : k <= E.input + m
      <4> HIDE DEF m
      <4> QED BY <1>1, <2>4
    <3> HIDE DEF m, own
    <3> QED BY <1>6, <3>1, <3>2
  <2>6. Max(B) = E.input + m
    <3>1. B \in SUBSET Int /\ B # {} /\ E.input + m \in Int
      <4>1. B \in SUBSET (1 .. E.input + n) BY <1>1 DEF Bearing
      <4> HIDE DEF B, m
      <4> QED BY <1>1, <2>4, <4>1
    <3> HIDE DEF B, m
    <3>2. Max(B) \in B /\ \A y \in B : y <= Max(B) BY <2>5, <3>1, MaxIs
    <3>3. Max(B) \in Int /\ Max(B) <= E.input + m /\ E.input + m <= Max(B) BY <2>4, <2>5, <3>1, <3>2
    <3> QED BY <3>1, <3>3
  <2>7. IndexOfId(vocE, id) = E.input + m - 1 BY <2>3
  <2> HIDE DEF B, vocE, own, m
  <2>8. B # {} BY <2>4
  <2>9. Max(B) - 1 = E.input + m - 1
    <3>1. E.input \in Int /\ m \in Int BY <1>1, <2>4
    <3> QED BY <2>6, <3>1
  <2> QED BY ONLY <2>7, <2>8, <2>9
<1> HIDE DEF B, vocE, vocV, own
<1> QED BY <1>5, <1>7, <1>8 DEF vocE, vocV, B

\* A key that some id names, or that no UUID does, names the same neuron with
\* the wire vocabulary as without it.
LEMMA ResolvesAlike ==
  ASSUME NEW E, IsExport(E), NEW key, ~OnlyWired(E, key)
  PROVE  Resolve(ViewVocabulary(NeuronViews(E), <<>>, FALSE), key) =
         Resolve(ViewVocabulary(NeuronViews(E), Wire(E), TRUE), key)
<1> DEFINE u == ViewVocabulary(NeuronViews(E), <<>>, FALSE)
           w == ViewVocabulary(NeuronViews(E), Wire(E), TRUE)
<1>1. \A id : IndexOfId(u, id) = IndexOfId(w, id) BY DEF ViewVocabulary, IndexOfId
<1>2. key.id # NotAnId => IndexOfId(w, key.id) = IndexOfId(ExportVocabulary(E), key.id)
  BY VocabulariesAgree, ZenonT(40)
<1>3. IndexOfWire(u, key.text) = Nowhere
  <2>1. u.wired = FALSE BY DEF ViewVocabulary
  <2> QED BY <2>1 DEF IndexOfWire
<1>4. IndexOfWire(w, key.text) = AtWire(E, key.text)
  <2>1. w.wired = TRUE /\ w.wire = Wire(E) BY DEF ViewVocabulary
  <2> QED BY <2>1 DEF IndexOfWire, AtWire
<1> HIDE DEF u, w
<1>5. ASSUME key.id # NotAnId /\ IndexOfId(w, key.id) # Nowhere
      PROVE  Resolve(u, key) = Resolve(w, key)
  BY <1>1, <1>5 DEF Resolve
<1>6. ASSUME ~(key.id # NotAnId /\ IndexOfId(w, key.id) # Nowhere)
      PROVE  Resolve(u, key) = Resolve(w, key)
  <2>1. AtWire(E, key.text) = Nowhere BY <1>2, <1>6 DEF OnlyWired
  <2> QED BY <1>1, <1>3, <1>4, <1>6, <2>1 DEF Resolve
<1>7. Resolve(u, key) = Resolve(w, key) BY <1>5, <1>6
<1> QED BY <1>7 DEF u, w

LEMMA SoundAlike ==
  ASSUME NEW E, IsExport(E), NEW m, m.form = "map", ~WireKeyed(E, m), NEW syn
  PROVE  MemeticSound(ViewVocabulary(NeuronViews(E), <<>>, FALSE), syn, m) <=>
         MemeticSound(ViewVocabulary(NeuronViews(E), Wire(E), TRUE), syn, m)
<1> DEFINE u == ViewVocabulary(NeuronViews(E), <<>>, FALSE)
           w == ViewVocabulary(NeuronViews(E), Wire(E), TRUE)
<1>1. \A id : IndexOfId(u, id) = IndexOfId(w, id) BY DEF ViewVocabulary, IndexOfId
<1>2. /\ \A i \in 1 .. Len(m.biases) : Resolve(u, m.biases[i]) = Resolve(w, m.biases[i])
      /\ \A i \in 1 .. Len(m.weights) : Resolve(u, m.weights[i].key) = Resolve(w, m.weights[i].key)
  BY ResolvesAlike DEF WireKeyed
<1> HIDE DEF u, w
<1>3. \A pairs, from, e : EntryBad(u, pairs, from, e) = EntryBad(w, pairs, from, e) BY <1>1 DEF EntryBad
<1>4. MemeticSound(u, syn, m) <=> MemeticSound(w, syn, m) BY <1>2, <1>3 DEF MemeticSound
<1> QED BY <1>4 DEF u, w

\* The ids are the same in memory, so a vocabulary over them is.
LEMMA VocabularyAlike ==
  ASSUME NEW E, IsExport(E), NEW wire, NEW wired
  PROVE  ViewVocabulary(MemoryViews(E), wire, wired) = ViewVocabulary(NeuronViews(E), wire, wired)
<1> DEFINE V == NeuronViews(E)
           W == MemoryViews(E)
           borne(U) == {k \in 1 .. Len(U) : U[k].idKind = "integer"}
           ids(U) == {U[k].id : k \in borne(U)}
           at(U, id) == {k \in 1 .. Len(U) : U[k].idKind = "integer" /\ U[k].id = id}
<1>1. Len(W) = Len(V) BY ViewsAre, MemoryViewsAre
<1>2. \A k \in 1 .. Len(V) : W[k].idKind = V[k].idKind /\ W[k].id = V[k].id BY ViewsAre, MemoryViewsAre
<1>3. \A U : ViewVocabulary(U, wire, wired) =
        [listed |-> [id \in ids(U) |-> Max(at(U, id)) - 1], input |-> 0, wire |-> wire, wired |-> wired]
  BY DEF ViewVocabulary
<1> HIDE DEF V, W
<1>4. borne(W) = borne(V) BY <1>1, <1>2
<1>5. ids(W) = ids(V) BY <1>2, <1>4
<1>6. \A id : at(W, id) = at(V, id) BY <1>1, <1>2
<1> HIDE DEF ids, at
<1>7. ViewVocabulary(W, wire, wired) = ViewVocabulary(V, wire, wired) BY <1>3, <1>5, <1>6
<1> QED BY <1>7 DEF V, W

LEMMA MemoryAlike ==
  ASSUME IsHost(host), host.export,
         \/ host.creature.memetic.form = "none"
         \/ host.creature.memetic.form = "map" /\ ~WireKeyed(host.creature, host.creature.memetic)
  PROVE  MemoryVerdict(Request("runtime")) = MemoryVerdict(Request("native"))
<1> DEFINE r == Request("runtime")
           q == Request("native")
           E == host.creature
<1>1. IsExport(E) BY DEF IsHost
<1>2. /\ r.views = MemoryViews(E) /\ q.views = NeuronViews(E) /\ r.syn = q.syn
      /\ r.memetic = E.memetic /\ q.memetic = E.memetic /\ r.wired = FALSE /\ q.wired = TRUE
  BY RequestIs
<1> HIDE DEF r, q
<1>3. /\ Vocabulary(r) = ViewVocabulary(MemoryViews(E), <<>>, FALSE)
      /\ Vocabulary(q) = ViewVocabulary(NeuronViews(E), Wire(E), TRUE)
  BY <1>2 DEF Vocabulary
<1> HIDE DEF E
<1>4. Vocabulary(r) = ViewVocabulary(NeuronViews(E), <<>>, FALSE) BY <1>1, <1>3, VocabularyAlike
<1>5. ASSUME E.memetic.form = "none" PROVE MemoryVerdict(r) = MemoryVerdict(q)
  BY <1>2, <1>5 DEF MemoryVerdict
<1>6. ASSUME E.memetic.form = "map", ~WireKeyed(E, E.memetic) PROVE MemoryVerdict(r) = MemoryVerdict(q)
  <2> DEFINE m == E.memetic
  <2>1. m.form = "map" /\ ~WireKeyed(E, m) BY <1>6
  <2> HIDE DEF m
  <2>2. MemeticSound(ViewVocabulary(NeuronViews(E), <<>>, FALSE), r.syn, m) <=>
        MemeticSound(ViewVocabulary(NeuronViews(E), Wire(E), TRUE), r.syn, m)
    BY <1>1, <2>1, SoundAlike
  <2>3. r.memetic = m /\ q.memetic = m BY <1>2 DEF m
  <2> QED BY <1>2, <1>3, <1>4, <2>2, <2>3 DEF MemoryVerdict
<1>7. MemoryVerdict(r) = MemoryVerdict(q) BY <1>5, <1>6 DEF E
<1> QED BY <1>7 DEF r, q

FlatNames == {"28", "29", "30"}
WalkNames == NeuronRuleNames \cup WidthRuleNames \cup SynapseRuleNames \cup FlatNames

\* Behind the widths only the rules speak, and only the last of them of the
\* memetic record.
LEMMA RulesSayNames ==
  ASSUME NEW r, Len(r.views) \in Nat, Len(r.syn) \in Nat
  PROVE  \/ RulesSay(r).rule \in WalkNames
         \/ AllClear(r) /\ RulesSay(r) = MemoryVerdict(r)
<1>1. \A rule, at : Refused(rule, at).rule = rule BY NotAcceptedAs
<1>2. CASE NeuronFaults(r) # {}
  <2> DEFINE m == Min(NeuronFaults(r))
  <2>1. m \in NeuronFaults(r)
    <3>1. NeuronFaults(r) \in SUBSET Int /\ \A x \in NeuronFaults(r) : 0 <= x BY DEF NeuronFaults
    <3> QED BY <1>2, <3>1, MinIs
  <2> HIDE DEF m
  <2>2. m \in Nat /\ NeuronFault(r, m) # "ok" BY <2>1 DEF NeuronFaults
  <2>3. NeuronFault(r, m) \in NeuronRuleNames BY <2>2, NeuronRefused DEF NeuronFault
  <2>4. RulesSay(r) = Refused(NeuronFault(r, m), m) BY <1>2 DEF RulesSay, m
  <2> QED BY <1>1, <2>3, <2>4 DEF WalkNames
<1>3. CASE NeuronFaults(r) = {} /\ CountFault(r) # "ok"
  <2> DEFINE N == WidthRuleNames
             w == Seen(r, Len(r.views))
             A == w.stats.input # r.input
             B == w.stats.output # r.output
             a == << <<"21", A>>, <<"22", B>> >>
  <2>1. CountFault(r) = FirstBroken(a) BY DEF CountFault, WidthFault
  <2>2. A \in BOOLEAN /\ B \in BOOLEAN OBVIOUS
  <2> HIDE DEF A, B
  <2>3. a \in Seq(N \X BOOLEAN) BY <2>2 DEF WidthRuleNames
  <2>4. "ok" \notin N BY DEF WidthRuleNames
  <2> HIDE DEF a, N
  <2>5. CountFault(r) \in N BY <1>3, <2>1, <2>3, <2>4, FirstBrokenIs
  <2>6. RulesSay(r) = Refused(CountFault(r), -1) BY <1>3 DEF RulesSay
  <2> QED BY <1>1, <2>5, <2>6 DEF WalkNames, N
<1>4. CASE NeuronFaults(r) = {} /\ CountFault(r) = "ok" /\ SynapseFaults(r) # {}
  <2> DEFINE m == Min(SynapseFaults(r))
  <2>1. m \in SynapseFaults(r)
    <3>1. SynapseFaults(r) \in SUBSET Int /\ \A x \in SynapseFaults(r) : 0 <= x BY DEF SynapseFaults
    <3> QED BY <1>4, <3>1, MinIs
  <2> HIDE DEF m
  <2>2. SynapseFault(r, m) # "ok" BY <2>1 DEF SynapseFaults
  <2>3. SynapseFault(r, m) \in SynapseRuleNames BY <2>2, SynapseRefused DEF SynapseFault
  <2>4. RulesSay(r) = Refused(SynapseFault(r, m), m - 1) BY <1>4 DEF RulesSay, m
  <2> QED BY <1>1, <2>3, <2>4 DEF WalkNames
<1>5. CASE NeuronFaults(r) = {} /\ CountFault(r) = "ok" /\ SynapseFaults(r) = {} /\ FlatVerdict(r) # "ok"
  <2>1. FlatVerdict(r) \in FlatNames
    <3> DEFINE N == {"29", "30"}
               a == ForwardRules(r)
    <3>1. "ok" \notin N OBVIOUS
    <3>2. a \in Seq(N \X BOOLEAN)
      <4> DEFINE A == ~OrderedTyped(r.syn)
                 B == ~StructurallySound(r.syn, StructureViews(r), r.input, r.output)
                 C == Cyclic(r.syn, r.input .. Len(r.views) - 1)
      <4>1. A \in BOOLEAN /\ B \in BOOLEAN /\ C \in BOOLEAN BY DEF Cyclic
      <4>2. a = << <<"29", A>>, <<"30", B>>, <<"29", C>> >> BY DEF ForwardRules
      <4> HIDE DEF A, B, C, a
      <4> QED BY <4>1, <4>2
    <3>3. FlatVerdict(r) = "28" \/ FlatVerdict(r) = FirstBroken(a) BY <1>5 DEF FlatVerdict
    <3> HIDE DEF a, N
    <3>4. FirstBroken(a) \in N \cup {"ok"} BY <3>1, <3>2, FirstBrokenIs
    <3> QED BY <1>5, <3>3, <3>4 DEF FlatNames, N
  <2>2. RulesSay(r) = Refused(FlatVerdict(r), -1) BY <1>5 DEF RulesSay
  <2> QED BY <1>1, <2>1, <2>2 DEF WalkNames
<1>6. CASE AllClear(r) BY <1>6 DEF AllClear, RulesSay
<1> QED BY <1>2, <1>3, <1>4, <1>5, <1>6 DEF AllClear

LEMMA AnswerIs ==
  ASSUME AnswersAsTold, Answered
  PROVE  /\ AnswerOf("runtime") = Told("runtime")
         /\ AnswerOf("packed") = Wording("packed", Told("packed"))
         /\ host.export => AnswerOf("native") = Told("native") /\ AnswerOf("json") = Told("json")
<1>1. ASSUME NEW e \in EntryPoints, \E i \in 1 .. Len(Entries) : Entries[i] = e
      PROVE  AnswerOf(e) = Wording(e, Told(e))
  <2> DEFINE i == CHOOSE j \in 1 .. Len(Entries) : Entries[j] = e
  <2>1. i \in 1 .. Len(Entries) /\ Entries[i] = e BY <1>1
  <2>2. AnswerOf(e) = answers[i] BY DEF AnswerOf
  <2>3. Len(answers) = Len(Entries) BY DEF Answered
  <2> HIDE DEF i
  <2> QED BY <2>1, <2>2, <2>3 DEF AnswersAsTold
<1>2. \A e : e # "packed" => Wording(e, Told(e)) = Told(e) BY DEF Wording
<1>3. CASE host.export
  <2>1. Entries = <<"native", "json", "runtime", "packed", "both", "neither">> BY <1>3 DEF Entries
  <2>2. /\ Len(Entries) = 6 /\ Entries[1] = "native" /\ Entries[2] = "json" /\ Entries[3] = "runtime"
        /\ Entries[4] = "packed"
    BY <2>1
  <2>3. \A e \in {"native", "json", "runtime", "packed"} : \E i \in 1 .. Len(Entries) : Entries[i] = e
    <3>1. 1 \in 1 .. 6 /\ 2 \in 1 .. 6 /\ 3 \in 1 .. 6 /\ 4 \in 1 .. 6 OBVIOUS
    <3> QED BY <2>2, <3>1
  <2>4. \A e \in {"native", "json", "runtime", "packed"} : AnswerOf(e) = Wording(e, Told(e))
    BY <1>1, <2>3 DEF EntryPoints
  <2> QED BY <1>2, <2>4
<1>4. CASE ~host.export
  <2>1. Entries = <<"runtime", "packed">> BY <1>4 DEF Entries
  <2>2. Len(Entries) = 2 /\ Entries[1] = "runtime" /\ Entries[2] = "packed" BY <2>1
  <2>3. \A e \in {"runtime", "packed"} : \E i \in 1 .. Len(Entries) : Entries[i] = e
    <3>1. 1 \in 1 .. 2 /\ 2 \in 1 .. 2 OBVIOUS
    <3> QED BY <2>2, <3>1
  <2>4. \A e \in {"runtime", "packed"} : AnswerOf(e) = Wording(e, Told(e)) BY <1>1, <2>3 DEF EntryPoints
  <2> QED BY <1>2, <1>4, <2>4
<1> QED BY <1>3, <1>4

LEMMA ToldAgree ==
  ASSUME IsHost(host)
  PROVE  /\ \A e : /\ BeforeWalk(e) # Accepted => Told(e) = BeforeWalk(e)
                   /\ BeforeWalk(e) = Accepted => Told(e) = RulesSay(Request(e))
         /\ RulesSay(Request("packed")) = RulesSay(Request("runtime"))
         /\ RulesSay(Request("json")) = RulesSay(Request("native"))
         /\ \A e : RulesSay(Request(e)).rule # "malformed"
<1>1. \A e : /\ BeforeWalk(e) # Accepted => Told(e) = BeforeWalk(e)
             /\ BeforeWalk(e) = Accepted => Told(e) = RulesSay(Request(e))
  BY DEF Told
<1>2. Request("packed") = Request("runtime")
  <2>1. ("packed" \in {"native", "json"}) = ("runtime" \in {"native", "json"}) OBVIOUS
  <2>2. ReadBy("packed") = ReadBy("runtime") BY DEF ReadBy
  <2> QED BY <2>1, <2>2 DEF Request
<1>3. Request("json") = Request("native")
  <2>1. ("json" \in {"native", "json"}) = ("native" \in {"native", "json"}) OBVIOUS
  <2>2. ReadBy("json") = ReadBy("native") BY DEF ReadBy
  <2> QED BY <2>1, <2>2 DEF Request
<1>4. ASSUME NEW e PROVE RulesSay(Request(e)).rule # "malformed"
  <2>1. IsHeld(ReadBy(e)) BY ReadTyped
  <2>2. Len(Request(e).views) \in Nat /\ Len(Request(e).syn) \in Nat BY <2>1 DEF IsHeld, Request
  <2>3. RulesSay(Request(e)).rule \in WalkNames \/ RulesSay(Request(e)) = MemoryVerdict(Request(e))
    BY <2>2, RulesSayNames
  <2>4. MemoryVerdict(Request(e)).rule # "malformed"
    <3>1. Accepted.rule = "ok" /\ Refused("31", -1).rule = "31" BY DEF Accepted, Refused
    <3>2. MemoryVerdict(Request(e)) \in {Accepted, Refused("31", -1)} BY DEF MemoryVerdict
    <3> QED BY <3>1, <3>2
  <2>5. "malformed" \notin WalkNames
    BY DEF WalkNames, NeuronRuleNames, WidthRuleNames, SynapseRuleNames, FlatNames
  <2> QED BY <2>3, <2>4, <2>5
<1> QED BY <1>1, <1>2, <1>3, <1>4

LEMMA CountsClear ==
  ASSUME NEW r
  PROVE  CountFault(r) = "ok" <=> /\ Cardinality(OfKind(r, Len(r.views), "input")) = r.input
                                  /\ Cardinality(OfKind(r, Len(r.views), "output")) = r.output
<1> DEFINE N == WidthRuleNames
           R == N \X BOOLEAN
           w == Seen(r, Len(r.views))
           A == w.stats.input # r.input
           B == w.stats.output # r.output
           a == << <<"21", A>>, <<"22", B>> >>
<1>1. "ok" \notin N BY DEF WidthRuleNames
<1>2. <<"21", A>> \in R /\ <<"22", B>> \in R BY DEF WidthRuleNames
<1>3. CountFault(r) = FirstBroken(a) BY DEF CountFault, WidthFault
<1>4. /\ w.stats.input = Cardinality(OfKind(r, Len(r.views), "input"))
      /\ w.stats.output = Cardinality(OfKind(r, Len(r.views), "output"))
  BY DEF Seen
<1> HIDE DEF A, B
<1>5. a \in Seq(R) /\ Len(a) = 2 /\ (a[1][2] <=> A) /\ (a[2][2] <=> B)
  <2> HIDE DEF R
  <2> QED BY <1>2
<1> HIDE DEF a, N
<1>6. FirstBroken(a) = "ok" <=> \A i \in 1 .. Len(a) : ~a[i][2] BY <1>1, <1>5, FirstBrokenIs
<1>7. 1 .. 2 = {1, 2} OBVIOUS
<1>8. FirstBroken(a) = "ok" <=> ~A /\ ~B BY <1>5, <1>6, <1>7
<1> QED BY <1>3, <1>4, <1>8 DEF A, B

\* Up to a place in front of which two requests bear the same neurons, the rules
\* find the same fault there.
LEMMA FaultBefore ==
  ASSUME NEW r, NEW q, NEW i \in Nat, Len(r.views) = Len(q.views),
         r.syn = q.syn, r.input = q.input, r.output = q.output,
         \A k \in 1 .. i + 1 : r.views[k] = q.views[k]
  PROVE  NeuronFault(r, i) = NeuronFault(q, i)
<1> DEFINE w == Seen(q, i)
           v == q.views[i + 1]
<1>1. \A k \in 0 .. i : r.views[k + 1] = q.views[k + 1]
  <2> SUFFICES ASSUME NEW k \in 0 .. i PROVE r.views[k + 1] = q.views[k + 1] OBVIOUS
  <2>1. k + 1 \in 1 .. i + 1 OBVIOUS
  <2> QED BY <2>1
<1>2. \A k : InSlice(r, k) = InSlice(q, k) BY DEF InSlice
<1>3. \A k \in 0 .. i - 1 : r.views[k + 1] = q.views[k + 1]
  <2>1. \A k \in 0 .. i - 1 : k \in 0 .. i OBVIOUS
  <2> QED BY <1>1, <2>1
<1>4. Seen(r, i) = w
  <2>1. \A kind : OfKind(r, i, kind) = OfKind(q, i, kind) BY <1>3 DEF OfKind
  <2>2. HiddenSeen(r, i) = HiddenSeen(q, i) BY <1>2, <2>1 DEF HiddenSeen
  <2>3. {r.views[k + 1].id : k \in 0 .. i - 1} = {q.views[k + 1].id : k \in 0 .. i - 1} BY <1>3
  <2> QED BY <2>1, <2>2, <2>3 DEF Seen
<1>5. r.views[i + 1] = v BY <1>1
<1>6. BreaksIf(r, i) = BreaksIf(q, i) BY <1>5 DEF BreaksIf
<1>7. OrderRules(r, w, v, i) = OrderRules(q, w, v, i)
  <2> HIDE DEF w, v
  <2> QED BY <1>2, <1>6 DEF OrderRules
<1>8. KindRules(r, v, i) = KindRules(q, v, i)
  <2> HIDE DEF v
  <2> QED BY DEF KindRules
<1>9. NeuronFault(r, i) = FirstBroken(IdRules(w, v, i) \o OrderRules(r, w, v, i) \o KindRules(r, v, i))
  BY <1>4, <1>5 DEF NeuronFault, NeuronVerdict
<1>10. NeuronFault(q, i) = FirstBroken(IdRules(w, v, i) \o OrderRules(q, w, v, i) \o KindRules(q, v, i))
  BY DEF NeuronFault, NeuronVerdict
<1> HIDE DEF w, v
<1> QED BY <1>7, <1>8, <1>9, <1>10

\* A neuron of no kind is at fault.
LEMMA InvalidIsFault ==
  ASSUME NEW q, q.input \in Nat, Len(q.views) \in Nat, NEW i \in 0 .. Len(q.views) - 1,
         q.views[i + 1].kind = "invalid"
  PROVE  i \in NeuronFaults(q)
<1>1. i \in Nat OBVIOUS
<1>2. Seen(q, i).outputs \in Nat
  <2>1. Cardinality(OfKind(q, i, "output")) \in Nat BY <1>1, KindCounted
  <2> QED BY <2>1 DEF Seen
<1>3. NeuronFault(q, i) # "ok"
  <2>1. SUFFICES ASSUME NeuronVerdict(q, Seen(q, i), i) = "ok" PROVE FALSE BY DEF NeuronFault
  <2>2. q.views[i + 1].kind \in {"input", "constant", "hidden", "output", "invalid"} OBVIOUS
  <2>3. NeuronFine(q, i) BY <1>1, <1>2, <2>1, <2>2, NeuronPasses
  <2>4. q.views[i + 1].kind \in {"input", "constant", "hidden", "output"} BY <2>3 DEF NeuronFine
  <2> QED BY <2>4
<1> QED BY <1>3 DEF NeuronFaults

\* What the runtime form says of a creature beside what the export form says.
LEMMA ListedJudged ==
  ASSUME IsHost(host), host.export,
         MemoryVerdict(Request("runtime")) = MemoryVerdict(Request("native"))
  PROVE  \/ RulesSay(Request("runtime")) = RulesSay(Request("native"))
         \/ /\ RulesSay(Request("runtime")) # Accepted
            /\ RulesSay(Request("native")).at \in ListedInputs(host.creature)
<1> DEFINE E == host.creature
           L == ListedInputs(E)
           r == Request("runtime")
           q == Request("native")
           d == Declared(E)
           F == NeuronFaults(q)
           m == Min(F)
<1>1. IsExport(E) BY DEF IsHost
<1>2. /\ r.views = MemoryViews(E) /\ q.views = NeuronViews(E) /\ r.syn = q.syn /\ r.input = q.input
      /\ r.output = q.output /\ r.options = q.options /\ r.memetic = q.memetic
      /\ r.input = E.input /\ q.input = E.input
  BY RequestIs
<1>3. MemoryVerdict(r) = MemoryVerdict(q) OBVIOUS
<1>4. d \in Nat /\ E.input \in Nat /\ Len(NeuronViews(E)) = d /\ Len(MemoryViews(E)) = d
  BY <1>1, ViewsAre, MemoryViewsAre DEF IsExport
<1>5. /\ \A v \in 1 .. d : v - 1 \notin L => MemoryViews(E)[v] = NeuronViews(E)[v]
      /\ \A v \in L : v \in E.input .. d - 1 /\ NeuronViews(E)[v + 1].kind = "invalid"
  BY <1>1, MemoryViewsAre
<1> HIDE DEF r, q, E, L, d
<1>6. CASE L = {}
  <2>1. r.views = q.views BY <1>1, <1>2, <1>6, NoneListed DEF L
  <2>2. Alike(r, q) BY <1>2, <2>1 DEF Alike
  <2>3. RulesSay(r) = RulesSay(q) BY <1>3, <2>2, RulesAlike
  <2> QED BY <2>3 DEF r, q
<1>7. CASE L # {}
  <2>1. L \subseteq F
    <3>1. ASSUME NEW v \in L PROVE v \in F
      <4>1. v \in 0 .. Len(q.views) - 1 /\ q.views[v + 1].kind = "invalid" BY <1>2, <1>4, <1>5, <3>1
      <4>2. q.input \in Nat /\ Len(q.views) \in Nat BY <1>2, <1>4
      <4> QED BY <4>1, <4>2, InvalidIsFault
    <3> QED BY <3>1
  <2>2. F \in SUBSET Int /\ F \subseteq 0 .. d - 1 /\ \A x \in F : 0 <= x BY <1>2, <1>4 DEF NeuronFaults
  <2>3. m \in F /\ \A x \in F : m <= x
    <3>1. F # {} /\ 0 \in Int BY <1>7, <2>1
    <3> HIDE DEF F
    <3> QED BY <2>2, <3>1, MinIs
  <2>4. m \in 0 .. d - 1 /\ NeuronFault(q, m) # "ok" BY <1>4, <2>2, <2>3 DEF NeuronFaults
  <2>5. RulesSay(q) = Refused(NeuronFault(q, m), m) BY <1>7, <2>1 DEF RulesSay
  <2> HIDE DEF m, F
  <2>6. CASE m \in L
    <3>1. RulesSay(q).at = m BY <2>5 DEF Refused
    <3>2. RulesSay(r) # Accepted
      <4> SUFFICES ASSUME RulesSay(r) = Accepted PROVE FALSE OBVIOUS
      <4>1. \A x, at : x # "ok" => Refused(x, at) # Accepted BY NotAcceptedAs
      <4>2. NeuronFaults(r) = {}
        <5> DEFINE G == NeuronFaults(r)
                   g == Min(G)
        <5>1. SUFFICES ASSUME G # {} PROVE FALSE OBVIOUS
        <5>2. G \in SUBSET Int /\ \A x \in G : 0 <= x BY DEF NeuronFaults
        <5>3. RulesSay(r) = Refused(NeuronFault(r, g), g) BY <5>1 DEF RulesSay
        <5>4. 0 \in Int OBVIOUS
        <5> HIDE DEF G
        <5>5. g \in G BY <5>1, <5>2, <5>4, MinIs
        <5> HIDE DEF g
        <5>6. NeuronFault(r, g) # "ok" BY <5>5 DEF NeuronFaults, G
        <5> QED BY <4>1, <5>3, <5>6
      <4>3. CountFault(r) = "ok" BY <4>1, <4>2 DEF RulesSay
      <4>4. Cardinality(OfKind(r, Len(r.views), "input")) = r.input BY <4>3, CountsClear
      <4> QED BY <1>1, <1>2, <2>6, <4>4, TooManyInputs DEF L
    <3> QED BY <2>6, <3>1, <3>2 DEF r, q, L, E
  <2>7. CASE m \notin L
    <3>1. ASSUME NEW v \in 1 .. m + 1 PROVE r.views[v] = q.views[v]
      <4>1. v \in 1 .. d /\ v - 1 <= m /\ v - 1 \in Int BY <1>4, <2>4, <3>1
      <4>2. v - 1 \notin L
        <5>1. SUFFICES ASSUME v - 1 \in L PROVE FALSE OBVIOUS
        <5>2. m <= v - 1 BY <2>1, <2>3, <5>1
        <5>3. v - 1 = m BY <2>4, <4>1, <5>2
        <5> QED BY <2>7, <5>1, <5>3
      <4> QED BY <1>2, <1>5, <4>1, <4>2
    <3>2. ASSUME NEW i \in 0 .. m PROVE NeuronFault(r, i) = NeuronFault(q, i)
      <4>1. i \in Nat /\ Len(r.views) = Len(q.views) BY <1>2, <1>4, <2>4
      <4>2. \A k \in 1 .. i + 1 : r.views[k] = q.views[k]
        <5>1. \A k \in 1 .. i + 1 : k \in 1 .. m + 1 BY <2>4, <4>1
        <5> QED BY <3>1, <5>1
      <4> QED BY <1>2, <4>1, <4>2, FaultBefore
    <3>3. NeuronFault(r, m) = NeuronFault(q, m)
      <4>1. m \in 0 .. m BY <2>4
      <4> QED BY <3>2, <4>1
    <3>4. m \in NeuronFaults(r) BY <1>2, <1>4, <2>4, <3>3 DEF NeuronFaults
    <3>5. ASSUME NEW x \in NeuronFaults(r) PROVE m <= x
      <4>1. x \in 0 .. d - 1 /\ NeuronFault(r, x) # "ok" BY <1>2, <1>4, <3>5 DEF NeuronFaults
      <4>2. SUFFICES ASSUME ~(m <= x) PROVE FALSE OBVIOUS
      <4>3. x \in 0 .. m BY <2>4, <4>1, <4>2
      <4>4. x \in F BY <1>2, <1>4, <3>2, <4>1, <4>3 DEF F, NeuronFaults
      <4> QED BY <2>3, <4>2, <4>4
    <3>6. Min(NeuronFaults(r)) = m
      <4>1. NeuronFaults(r) \in SUBSET Int BY DEF NeuronFaults
      <4> QED BY <3>4, <3>5, <4>1, FirstFault
    <3>7. RulesSay(r) = Refused(NeuronFault(r, m), m) BY <3>4, <3>6 DEF RulesSay
    <3>8. RulesSay(r) = RulesSay(q) BY <2>5, <3>3, <3>7
    <3> QED BY <3>8 DEF r, q
  <2> QED BY <2>6, <2>7
<1> QED BY <1>6, <1>7

\* Every entry point judges a creature alike, whatever was asked, edited or
\* grafted before; only where the export form refuses a neuron that is listed as
\* an input may the runtime form name another rule, and it refuses it too.
THEOREM ShapesAlwaysAgree == GraftSpec => []ShapesAgree
<1>1. CreatureInv /\ ToldInv => ShapesAgree
  <2> SUFFICES ASSUME IsHost(host), AnswersAsTold, Answered
               PROVE  LET memory == AnswerOf("runtime") IN
                      /\ AnswerOf("packed").rule # "malformed" /\ memory.rule # "malformed" =>
                           (AnswerOf("packed") = Accepted <=> memory = Accepted)
                      /\ host.export =>
                           /\ AnswerOf("json").rule # "malformed" => AnswerOf("json") = AnswerOf("native")
                           /\ AnswerOf("json").rule = "malformed" => AnswerOf("native") # Accepted
                           /\ /\ host.creature.memetic.form = "none" \/ (host.creature.memetic.form = "map"
                                   /\ ~WireKeyed(host.creature, host.creature.memetic))
                              /\ memory.rule # "malformed"
                              => \/ memory = AnswerOf("native")
                                 \/ /\ memory # Accepted
                                    /\ AnswerOf("native").at \in ListedInputs(host.creature)
    BY DEF ShapesAgree, CreatureInv, HostInv, ToldInv
  <2> DEFINE P == Told("packed")
             M == Told("runtime")
             N == Told("native")
             J == Told("json")
  <2>1. /\ AnswerOf("runtime") = M /\ AnswerOf("packed") = Wording("packed", P)
        /\ host.export => AnswerOf("native") = N /\ AnswerOf("json") = J
    BY AnswerIs
  <2>2. Malformed.rule = "malformed" /\ Malformed # Accepted BY NotAcceptedAs DEF Malformed
  <2>3. M.rule # "malformed" =>
          BeforeWalk("runtime") = AskedFirst /\ ~(Len(InMemory.views) > MaxNodes)
    <3>1. BeforeWalk("runtime") = Malformed => M = Malformed BY <2>2, ToldAgree
    <3> QED BY <2>2, <3>1, BeforeWalkIs
  <2>4. Wording("packed", P).rule # "malformed" => BeforeWalk("packed") = AskedFirst
    <3>1. BeforeWalk("packed") = Malformed => P = Malformed BY <2>2, ToldAgree
    <3>2. P = Malformed => Wording("packed", P) = Malformed BY <2>2 DEF Wording
    <3> QED BY <2>2, <3>1, <3>2, BeforeWalkIs
  <2>5. Wording("packed", P).rule # "malformed" => (Wording("packed", P) = Accepted <=> P = Accepted)
    <3>1. Refused("detail", -1) # Accepted BY NotAcceptedAs
    <3>2. P = Accepted => P.rule = "ok" BY DEF Accepted
    <3> QED BY <3>1, <3>2 DEF Wording
  <2>6. Wording("packed", P).rule # "malformed" /\ M.rule # "malformed" => P = M
    BY <2>3, <2>4, ToldAgree
  <2>7. ASSUME host.export PROVE J.rule # "malformed" => J = N
    <3> SUFFICES ASSUME J.rule # "malformed" PROVE J = N OBVIOUS
    <3>1. BeforeWalk("json") # Malformed BY <2>2, ToldAgree
    <3>2. BeforeWalk("json") = AskedFirst /\ BeforeWalk("native") = AskedFirst BY <2>7, <3>1, BeforeWalkIs
    <3> QED BY <3>2, ToldAgree
  <2>8. ASSUME host.export PROVE J.rule = "malformed" => N # Accepted
    <3> SUFFICES ASSUME J.rule = "malformed" PROVE N # Accepted OBVIOUS
    <3>1. J = BeforeWalk("json") BY ToldAgree
    <3>2. Declared(host.creature) > MaxNodes BY <2>8, <3>1, BeforeWalkIs
    <3>3. BeforeWalk("native") # Accepted BY <2>8, <3>2, BeforeWalkIs
    <3> QED BY <3>3, ToldAgree
  <2>9. ASSUME host.export, M.rule # "malformed",
               \/ host.creature.memetic.form = "none"
               \/ host.creature.memetic.form = "map" /\ ~WireKeyed(host.creature, host.creature.memetic)
        PROVE  M = N \/ (M # Accepted /\ N.at \in ListedInputs(host.creature))
    <3>1. BeforeWalk("runtime") = AskedFirst /\ BeforeWalk("native") = AskedFirst
      BY <2>3, <2>9, BeforeWalkIs
    <3>2. MemoryVerdict(Request("runtime")) = MemoryVerdict(Request("native")) BY <2>9, MemoryAlike
    <3>3. CASE AskedFirst = Accepted
      <4>1. M = RulesSay(Request("runtime")) /\ N = RulesSay(Request("native")) BY <3>1, <3>3, ToldAgree
      <4> QED BY <2>9, <3>2, <4>1, ListedJudged
    <3>4. CASE AskedFirst # Accepted
      <4>1. M = AskedFirst /\ N = AskedFirst BY <3>1, <3>4, ToldAgree
      <4> QED BY <4>1
    <3> QED BY <3>3, <3>4
  <2> HIDE DEF P, M, N, J
  <2> QED BY <2>1, <2>5, <2>6, <2>7, <2>8, <2>9
<1> QED BY <1>1, CreatureOrder, AnswersAreTold, PTL

-----------------------------------------------------------------------------
(* The prune of the memetic record                                           *)

\* The views of the places a UUID names.
LEMMA WireNames ==
  ASSUME NEW E, IsExport(E), NEW u
  PROVE  /\ AtWire(E, u) # Nowhere =>
              AtWire(E, u) \in 0 .. Declared(E) - 1 /\ NeuronViews(E)[AtWire(E, u) + 1].uuid = u
         /\ \A v \in 0 .. Declared(E) - 1 : NeuronViews(E)[v + 1].uuid = u => AtWire(E, u) # Nowhere
<1> DEFINE n == Len(E.neurons)
           V == NeuronViews(E)
           named == {i \in 1 .. n : E.neurons[i].uuid = u}
           uuids == {E.neurons[i].uuid : i \in 1 .. n}
           inputs == {InputNames[i] : i \in 0 .. E.input - 1}
           input == CHOOSE i \in 0 .. E.input - 1 : InputNames[i] = u
           x == AtWire(E, u)
<1>1. n \in Nat /\ E.input \in Nat /\ Declared(E) = E.input + n BY LenProperties DEF IsExport, Declared
<1>2. /\ \A k \in 1 .. E.input : V[k].uuid = InputNames[k - 1]
      /\ \A i \in 1 .. n : V[E.input + i].uuid = E.neurons[i].uuid
  <2>1. \A i : InputView(i).uuid = InputNames[i] /\ ListedView(E, i).uuid = E.neurons[i].uuid
    BY DEF InputView, ListedView
  <2> QED BY <2>1, ViewsAre
<1>3. Nowhere = -1 BY DEF Nowhere
<1>4. CASE u \in uuids
  <2>1. named # {} /\ named \in SUBSET Int /\ \A y \in named : y <= n BY <1>1, <1>4
  <2>2. Max(named) \in named
    <3>1. n \in Int /\ \A y \in named : y <= n BY <1>1, <2>1
    <3>2. named # {} /\ named \in SUBSET Int BY <2>1
    <3> HIDE DEF named, n
    <3> QED BY <3>1, <3>2, MaxIs
  <2>3. x = E.input + Max(named) - 1
    <3>1. u \in DOMAIN Wire(E) BY <1>4 DEF Wire
    <3>2. Wire(E)[u] = E.input + Max(named) - 1 BY <1>4 DEF Wire
    <3> QED BY <3>1, <3>2 DEF AtWire
  <2>4. Max(named) \in 1 .. n /\ E.neurons[Max(named)].uuid = u BY <2>2
  <2> HIDE DEF named, x, V, n
  <2>5. x + 1 = E.input + Max(named) /\ x \in 0 .. Declared(E) - 1 /\ x # -1 BY <1>1, <2>3, <2>4
  <2>6. V[x + 1].uuid = u BY <1>2, <2>4, <2>5
  <2>7. x \in 0 .. Declared(E) - 1 /\ V[x + 1].uuid = u /\ x # Nowhere BY <1>3, <2>5, <2>6
  <2> QED BY <2>7 DEF x, V
<1>5. CASE u \notin uuids /\ u \in inputs
  <2>1. x = input
    <3>1. u \in DOMAIN Wire(E) BY <1>5 DEF Wire
    <3>2. Wire(E)[u] = input BY <1>5 DEF Wire
    <3> QED BY <3>1, <3>2 DEF AtWire
  <2>2. \E i \in 0 .. E.input - 1 : InputNames[i] = u BY <1>5
  <2>3. input \in 0 .. E.input - 1 /\ InputNames[input] = u BY <2>2
  <2> HIDE DEF input, x, V, n
  <2>4. x + 1 \in 1 .. E.input /\ (x + 1) - 1 = x /\ x \in 0 .. Declared(E) - 1 /\ x # -1 BY <1>1, <2>1, <2>3
  <2>5. V[x + 1].uuid = u BY <1>2, <2>1, <2>3, <2>4
  <2>6. x \in 0 .. Declared(E) - 1 /\ V[x + 1].uuid = u /\ x # Nowhere BY <1>3, <2>4, <2>5
  <2> QED BY <2>6 DEF x, V
<1>6. CASE u \notin uuids /\ u \notin inputs
  <2>1. u \notin DOMAIN Wire(E) BY <1>6 DEF Wire
  <2>2. x = Nowhere BY <2>1 DEF AtWire
  <2>3. ASSUME NEW v \in 0 .. Declared(E) - 1, V[v + 1].uuid = u PROVE FALSE
    <3>1. CASE v < E.input
      <4>1. v + 1 \in 1 .. E.input /\ (v + 1) - 1 = v /\ v \in 0 .. E.input - 1 BY <1>1, <3>1
      <4>2. V[v + 1].uuid = InputNames[v] BY <1>2, <4>1
      <4> QED BY <1>6, <2>3, <4>1, <4>2
    <3>2. CASE ~(v < E.input)
      <4> DEFINE i == v + 1 - E.input
      <4>1. i \in 1 .. n /\ E.input + i = v + 1 BY <1>1, <3>2
      <4> HIDE DEF i, V
      <4>2. V[v + 1].uuid = E.neurons[i].uuid BY <1>2, <4>1
      <4> QED BY <1>6, <2>3, <4>1, <4>2
    <3> QED BY <3>1, <3>2
  <2> QED BY <2>2, <2>3
<1> QED BY <1>4, <1>5, <1>6

\* An id is borne where it names a place, and nothing bears no id.
LEMMA NamedIs ==
  ASSUME NEW E, IsExport(E), NEW id
  PROVE  /\ id = NotAnId => NamedById(E, id) = {}
         /\ id # NotAnId => \A v \in Int : v \in NamedById(E, id) <=> v + 1 \in Bearing(E, id)
<1> DEFINE n == Len(E.neurons)
           V == NeuronViews(E)
<1>1. n \in Nat /\ E.input \in Nat /\ Declared(E) = E.input + n BY LenProperties DEF IsExport, Declared
<1>2. ASSUME id # NotAnId, NEW v \in Int PROVE v \in NamedById(E, id) <=> v + 1 \in Bearing(E, id)
  <2>1. v \in 0 .. Declared(E) - 1 <=> v + 1 \in 1 .. Declared(E) BY <1>1
  <2>2. ASSUME v + 1 \in 1 .. Declared(E), V[v + 1].id = id PROVE V[v + 1].idKind = "integer"
    <3>1. CASE v < E.input
      <4>1. v + 1 \in 1 .. E.input BY <1>1, <2>2, <3>1
      <4>2. V[v + 1] = InputView((v + 1) - 1) BY <4>1, ViewsAre
      <4> QED BY <4>2 DEF InputView
    <3>2. CASE ~(v < E.input)
      <4> DEFINE i == v + 1 - E.input
      <4>1. i \in 1 .. n /\ E.input + i = v + 1 BY <1>1, <2>2, <3>2
      <4> HIDE DEF i
      <4>2. V[v + 1] = ListedView(E, i) BY <4>1, ViewsAre
      <4>3. V[v + 1].id = ListedId(E, i) /\
            V[v + 1].idKind = IF ListedId(E, i) = NotAnId THEN "none" ELSE "integer"
        BY <4>2 DEF ListedView
      <4> QED BY <1>2, <2>2, <4>3
    <3> QED BY <3>1, <3>2
  <2> HIDE DEF V
  <2>3. v \in NamedById(E, id) <=> v + 1 \in 1 .. Declared(E) /\ V[v + 1].id = id
    BY <1>2, <2>1 DEF NamedById, V
  <2>4. v + 1 \in Bearing(E, id) <=>
          v + 1 \in 1 .. Declared(E) /\ V[v + 1].idKind = "integer" /\ V[v + 1].id = id
    BY DEF Bearing, V
  <2> QED BY <2>2, <2>3, <2>4
<1>3. ASSUME id = NotAnId PROVE NamedById(E, id) = {} BY <1>3 DEF NamedById
<1> QED BY <1>2, <1>3

LEMMA BorneIs ==
  ASSUME NEW E, IsExport(E), NEW id, id # NotAnId
  PROVE  /\ NamedById(E, id) = {} <=> IndexOfId(ExportVocabulary(E), id) = Nowhere
         /\ NamedById(E, id) # {} => IndexOfId(ExportVocabulary(E), id) \in NamedById(E, id)
<1> DEFINE B == Bearing(E, id)
           N == NamedById(E, id)
           x == IndexOfId(ExportVocabulary(E), id)
<1>1. \A v \in Int : v \in N <=> v + 1 \in B BY NamedIs
<1>2. x = IF B = {} THEN Nowhere ELSE Max(B) - 1 BY VocabulariesAgree
<1>3. Declared(E) \in Nat BY ViewsAre
<1>4. B \in SUBSET Int /\ (\A y \in B : y <= Declared(E) /\ y >= 1) BY <1>3 DEF Bearing
<1>5. \A v \in N : v \in Int BY <1>3 DEF NamedById
<1> HIDE DEF B, N, x
<1>6. CASE B = {}
  <2>1. N = {} BY <1>1, <1>5, <1>6
  <2>2. x = Nowhere BY <1>2, <1>6
  <2> QED BY <2>1, <2>2 DEF N, x
<1>7. CASE B # {}
  <2>1. Max(B) \in B
    <3>1. Declared(E) \in Int /\ \A y \in B : y <= Declared(E) BY <1>3, <1>4
    <3> QED BY <1>4, <1>7, <3>1, MaxIs
  <2>2. Max(B) \in Int /\ Max(B) >= 1 BY <1>4, <2>1
  <2>3. x = Max(B) - 1 BY <1>2, <1>7
  <2>4. x \in Int /\ x + 1 = Max(B) /\ x # -1 BY <2>2, <2>3
  <2>5. x \in N /\ x # Nowhere BY <1>1, <2>1, <2>4 DEF Nowhere
  <2> QED BY <2>5 DEF N, x
<1> QED BY <1>6, <1>7

\* A key that names a neuron is resolved, and where an id names one place, to
\* the place it names as far as a synapse ends there.
LEMMA NamesResolve ==
  ASSUME NEW E, IsExport(E), NEW key
  PROVE  /\ Names(E, key) # {} => Resolve(ExportVocabulary(E), key) # Nowhere
         /\ IdsAreOwn(E) =>
              \A u : AtWire(E, u) \in Names(E, key) => Resolve(ExportVocabulary(E), key) = AtWire(E, u)
<1> DEFINE vocab == ExportVocabulary(E)
           N == NamedById(E, key.id)
           U == {v \in 0 .. Declared(E) - 1 : NeuronViews(E)[v + 1].uuid = key.text}
<1>1. IndexOfWire(vocab, key.text) = AtWire(E, key.text)
  <2>1. vocab.wired = TRUE /\ vocab.wire = Wire(E) BY DEF ExportVocabulary
  <2> QED BY <2>1 DEF IndexOfWire, AtWire
<1>2. Names(E, key) = IF N # {} THEN N ELSE U BY DEF Names
<1> HIDE DEF vocab
<1>3. CASE N # {}
  <2>1. key.id # NotAnId BY <1>3, NamedIs
  <2>2. IndexOfId(vocab, key.id) \in N /\ IndexOfId(vocab, key.id) # Nowhere BY <1>3, <2>1, BorneIs DEF vocab
  <2>3. Resolve(vocab, key) = IndexOfId(vocab, key.id) BY <2>1, <2>2 DEF Resolve
  <2>4. ASSUME IdsAreOwn(E), NEW y \in N PROVE Resolve(vocab, key) = y
    <3> DEFINE x == IndexOfId(vocab, key.id)
    <3>1. /\ x \in 0 .. Declared(E) - 1 /\ y \in 0 .. Declared(E) - 1
          /\ NeuronViews(E)[x + 1].id = key.id /\ NeuronViews(E)[y + 1].id = key.id
      BY <2>2, <2>4 DEF NamedById
    <3> HIDE DEF x
    <3>2. x = y BY <2>1, <2>4, <3>1 DEF IdsAreOwn
    <3> QED BY <2>3, <3>2 DEF x
  <2> HIDE DEF N
  <2> QED BY <1>2, <1>3, <2>2, <2>3, <2>4 DEF vocab
<1>4. CASE N = {}
  <2>1. Resolve(vocab, key) = AtWire(E, key.text)
    <3>1. key.id = NotAnId \/ IndexOfId(vocab, key.id) = Nowhere BY <1>4, BorneIs DEF vocab
    <3> QED BY <1>1, <3>1 DEF Resolve
  <2>2. U # {} => AtWire(E, key.text) # Nowhere BY WireNames
  <2>3. ASSUME NEW u, AtWire(E, u) \in U PROVE AtWire(E, u) = AtWire(E, key.text)
    <3>1. Declared(E) \in Nat BY ViewsAre
    <3>2. AtWire(E, u) # Nowhere
      <4>1. AtWire(E, u) \in 0 .. Declared(E) - 1 BY <2>3
      <4> QED BY <3>1, <4>1 DEF Nowhere
    <3>3. NeuronViews(E)[AtWire(E, u) + 1].uuid = u BY <3>2, WireNames
    <3>4. NeuronViews(E)[AtWire(E, u) + 1].uuid = key.text BY <2>3
    <3> QED BY <3>3, <3>4
  <2> HIDE DEF N, U
  <2> QED BY <1>2, <1>4, <2>1, <2>2, <2>3 DEF vocab
<1> QED BY <1>3, <1>4

\* The pairs of a pruned record's synapses join two neurons.
LEMMA PairsAre ==
  ASSUME NEW syn
  PROVE  /\ \A a, b : <<a, b>> \in Pairs(syn) => a # Nowhere /\ b # Nowhere
         /\ \A k \in 1 .. Len(syn) : syn[k].from # Nowhere /\ syn[k].to # Nowhere =>
              <<syn[k].from, syn[k].to>> \in Pairs(syn)
<1>1. ASSUME NEW a, NEW b, <<a, b>> \in Pairs(syn) PROVE a # Nowhere /\ b # Nowhere
  <2>1. PICK k \in 1 .. Len(syn) :
          Nowhere \notin {syn[k].from, syn[k].to} /\ <<a, b>> = <<syn[k].from, syn[k].to>>
    BY <1>1 DEF Pairs
  <2>2. a = syn[k].from /\ b = syn[k].to BY <2>1
  <2> QED BY <2>1, <2>2
<1>2. ASSUME NEW k \in 1 .. Len(syn), syn[k].from # Nowhere, syn[k].to # Nowhere
      PROVE  <<syn[k].from, syn[k].to>> \in Pairs(syn)
  BY <1>2 DEF Pairs
<1> QED BY <1>1, <1>2

Has(s, x) == \E i \in 1 .. Len(s) : s[i] = x

\* What is in a pruned record, and what of the record is in it still.
LEMMA PrunedBiases ==
  ASSUME NEW vocab, NEW syn, NEW m, IsMemetic(m)
  PROVE  LET b == PruneTo(vocab, syn, m).biases IN
         /\ \A i \in 1 .. Len(b) : Resolve(vocab, b[i]) # Nowhere
         /\ \A i \in 1 .. Len(m.biases) : Resolve(vocab, m.biases[i]) # Nowhere => Has(b, m.biases[i])
<1> DEFINE keep == {i \in 1 .. Len(m.biases) : Resolve(vocab, m.biases[i]) # Nowhere}
           b == KeptOf(m.biases, keep)
<1>1. m.biases \in Seq(Keys) BY MemeticTyped
<1>2. PruneTo(vocab, syn, m).biases = b BY DEF PruneTo
<1>3. keep \in SUBSET (1 .. Len(m.biases)) OBVIOUS
<1>4. \A k \in 1 .. Len(m.biases) : k \in keep <=> Resolve(vocab, m.biases[k]) # Nowhere OBVIOUS
<1> HIDE DEF keep
<1>5. IsKept(b, m.biases, keep) BY <1>1, <1>3, KeptMembers
<1> HIDE DEF b
<1>6. ASSUME NEW i \in 1 .. Len(b) PROVE Resolve(vocab, b[i]) # Nowhere
  <2>1. PICK k \in keep : b[i] = m.biases[k] BY <1>5 DEF IsKept
  <2>2. Resolve(vocab, m.biases[k]) # Nowhere BY <1>3, <1>4
  <2> QED BY <2>1, <2>2
<1>7. ASSUME NEW i \in 1 .. Len(m.biases), Resolve(vocab, m.biases[i]) # Nowhere
      PROVE  Has(b, m.biases[i])
  <2>1. i \in keep BY <1>4, <1>7
  <2> QED BY <1>5, <2>1 DEF IsKept, Has
<1> QED BY <1>2, <1>6, <1>7

LEMMA PrunedRows ==
  ASSUME NEW vocab, NEW syn, NEW m, IsMemetic(m), m.form = "rows"
  PROVE  LET rows == PruneTo(vocab, syn, m).weights IN
         /\ \A i \in 1 .. Len(rows) : KeepRow(vocab, Pairs(syn), rows[i])
         /\ \A i \in 1 .. Len(m.weights) : KeepRow(vocab, Pairs(syn), m.weights[i]) => Has(rows, m.weights[i])
<1> DEFINE pairs == Pairs(syn)
           keep == {i \in 1 .. Len(m.weights) : KeepRow(vocab, pairs, m.weights[i])}
           rows == KeptOf(m.weights, keep)
<1>1. m.weights \in Seq(RowWeights) BY MemeticTyped
<1>2. PruneTo(vocab, syn, m).weights = rows BY DEF PruneTo
<1>3. keep \in SUBSET (1 .. Len(m.weights)) OBVIOUS
<1>4. \A k \in 1 .. Len(m.weights) : k \in keep <=> KeepRow(vocab, pairs, m.weights[k]) OBVIOUS
<1> HIDE DEF keep
<1>5. IsKept(rows, m.weights, keep) BY <1>1, <1>3, KeptMembers
<1> HIDE DEF rows, pairs
<1>6. ASSUME NEW i \in 1 .. Len(rows) PROVE KeepRow(vocab, pairs, rows[i])
  <2>1. PICK k \in keep : rows[i] = m.weights[k] BY <1>5 DEF IsKept
  <2>2. KeepRow(vocab, pairs, m.weights[k]) BY <1>3, <1>4
  <2> QED BY <2>1, <2>2
<1>7. ASSUME NEW i \in 1 .. Len(m.weights), KeepRow(vocab, pairs, m.weights[i])
      PROVE  Has(rows, m.weights[i])
  <2>1. i \in keep BY <1>4, <1>7
  <2> QED BY <1>5, <2>1 DEF IsKept, Has
<1> QED BY <1>2, <1>6, <1>7 DEF pairs

LEMMA PrunedEntries ==
  ASSUME NEW vocab, NEW pairs, NEW w \in MapWeights
  PROVE  LET q == PruneEntries(vocab, pairs, w)
             from == Resolve(vocab, w.key)
         IN /\ q.key = w.key
            /\ \A j \in 1 .. Len(q.entries) : KeepEntry(vocab, pairs, from, q.entries[j])
            /\ \A j \in 1 .. Len(w.entries) : KeepEntry(vocab, pairs, from, w.entries[j]) =>
                 Has(q.entries, w.entries[j])
<1> DEFINE q == PruneEntries(vocab, pairs, w)
           from == Resolve(vocab, w.key)
           keep == {j \in 1 .. Len(w.entries) : KeepEntry(vocab, pairs, from, w.entries[j])}
           kept == KeptOf(w.entries, keep)
<1>1. w.entries \in Seq([toId : Int, weight : BOOLEAN]) BY DEF MapWeights
<1>2. q = [w EXCEPT !.entries = kept] BY DEF PruneEntries
<1>3. q.key = w.key /\ q.entries = kept
  <2> HIDE DEF kept, q
  <2> QED BY <1>2 DEF MapWeights
<1>4. keep \in SUBSET (1 .. Len(w.entries)) OBVIOUS
<1>5. \A k \in 1 .. Len(w.entries) : k \in keep <=> KeepEntry(vocab, pairs, from, w.entries[k]) OBVIOUS
<1> HIDE DEF keep
<1>6. IsKept(kept, w.entries, keep) BY <1>1, <1>4, KeptMembers
<1> HIDE DEF q, kept, from
<1>7. ASSUME NEW j \in 1 .. Len(q.entries) PROVE KeepEntry(vocab, pairs, from, q.entries[j])
  <2>1. PICK k \in keep : kept[j] = w.entries[k] BY <1>3, <1>6 DEF IsKept
  <2>2. KeepEntry(vocab, pairs, from, w.entries[k]) BY <1>4, <1>5
  <2> QED BY <1>3, <2>1, <2>2
<1>8. ASSUME NEW j \in 1 .. Len(w.entries), KeepEntry(vocab, pairs, from, w.entries[j])
      PROVE  Has(q.entries, w.entries[j])
  <2>1. j \in keep BY <1>5, <1>8
  <2>2. Has(kept, w.entries[j]) BY <1>6, <2>1 DEF IsKept, Has
  <2> QED BY <1>3, <2>2
<1> QED BY <1>3, <1>7, <1>8 DEF q, from

\* The members of the map form that a prune leaves, before their entries are pruned.
NamedWeights(vocab, m) ==
  KeptOf(m.weights, {i \in 1 .. Len(m.weights) : Resolve(vocab, m.weights[i].key) # Nowhere})

LEMMA NamedWeightsAre ==
  ASSUME NEW vocab, NEW syn, NEW m, IsMemetic(m), m.form # "rows"
  PROVE  LET named == NamedWeights(vocab, m)
             maps == PruneTo(vocab, syn, m).weights
         IN /\ Len(maps) = Len(named)
            /\ \A i \in 1 .. Len(named) :
                 /\ named[i] \in MapWeights /\ Resolve(vocab, named[i].key) # Nowhere
                 /\ maps[i] = PruneEntries(vocab, Pairs(syn), named[i])
            /\ \A i \in 1 .. Len(m.weights) : Resolve(vocab, m.weights[i].key) # Nowhere =>
                 Has(named, m.weights[i])
<1> DEFINE keep == {i \in 1 .. Len(m.weights) : Resolve(vocab, m.weights[i].key) # Nowhere}
           named == NamedWeights(vocab, m)
           maps == [i \in 1 .. Len(named) |-> PruneEntries(vocab, Pairs(syn), named[i])]
<1>1. m.weights \in Seq(MapWeights)
  <2>1. <<>> \in Seq(MapWeights) BY EmptySeq
  <2> QED BY <2>1, MemeticTyped
<1>2. PruneTo(vocab, syn, m).weights = maps BY DEF PruneTo, NamedWeights
<1>3. keep \in SUBSET (1 .. Len(m.weights)) OBVIOUS
<1>4. \A k \in 1 .. Len(m.weights) : k \in keep <=> Resolve(vocab, m.weights[k].key) # Nowhere OBVIOUS
<1>5. named = KeptOf(m.weights, keep) BY DEF NamedWeights
<1> HIDE DEF keep, named
<1>6. IsKept(named, m.weights, keep) BY <1>1, <1>3, <1>5, KeptMembers
<1>7. Len(named) \in Nat /\ \A i \in 1 .. Len(named) : named[i] \in MapWeights BY <1>1, <1>5, KeptIs
<1>8. Len(maps) = Len(named) /\ \A i \in 1 .. Len(named) : maps[i] = PruneEntries(vocab, Pairs(syn), named[i])
  BY <1>7
<1> HIDE DEF maps
<1>9. ASSUME NEW i \in 1 .. Len(named) PROVE Resolve(vocab, named[i].key) # Nowhere
  <2>1. PICK k \in keep : named[i] = m.weights[k] BY <1>6 DEF IsKept
  <2>2. Resolve(vocab, m.weights[k].key) # Nowhere BY <1>3, <1>4
  <2> QED BY <2>1, <2>2
<1>10. ASSUME NEW i \in 1 .. Len(m.weights), Resolve(vocab, m.weights[i].key) # Nowhere
       PROVE  Has(named, m.weights[i])
  <2>1. i \in keep BY <1>4, <1>10
  <2> QED BY <1>6, <2>1 DEF IsKept, Has
<1> QED BY <1>2, <1>7, <1>8, <1>9, <1>10 DEF named

LEMMA PrunedMaps ==
  ASSUME NEW vocab, NEW syn, NEW m, IsMemetic(m), m.form # "rows"
  PROVE  LET maps == PruneTo(vocab, syn, m).weights IN
         \A i \in 1 .. Len(maps) :
           /\ Resolve(vocab, maps[i].key) # Nowhere
           /\ \A j \in 1 .. Len(maps[i].entries) :
                KeepEntry(vocab, Pairs(syn), Resolve(vocab, maps[i].key), maps[i].entries[j])
<1> DEFINE named == NamedWeights(vocab, m)
           maps == PruneTo(vocab, syn, m).weights
           pairs == Pairs(syn)
<1>1. /\ Len(maps) = Len(named)
      /\ \A i \in 1 .. Len(named) :
           /\ named[i] \in MapWeights /\ Resolve(vocab, named[i].key) # Nowhere
           /\ maps[i] = PruneEntries(vocab, pairs, named[i])
  BY NamedWeightsAre
<1> SUFFICES ASSUME NEW i \in 1 .. Len(maps)
             PROVE  /\ Resolve(vocab, maps[i].key) # Nowhere
                    /\ \A j \in 1 .. Len(maps[i].entries) :
                         KeepEntry(vocab, pairs, Resolve(vocab, maps[i].key), maps[i].entries[j])
  OBVIOUS
<1> DEFINE w == named[i]
           q == maps[i]
<1>2. w \in MapWeights /\ Resolve(vocab, w.key) # Nowhere /\ q = PruneEntries(vocab, pairs, w) BY <1>1
<1> HIDE DEF w, q, pairs
<1>3. q.key = w.key /\ \A j \in 1 .. Len(q.entries) : KeepEntry(vocab, pairs, Resolve(vocab, w.key), q.entries[j])
  BY <1>2, PrunedEntries
<1>4. /\ Resolve(vocab, q.key) # Nowhere
      /\ \A j \in 1 .. Len(q.entries) : KeepEntry(vocab, pairs, Resolve(vocab, q.key), q.entries[j])
  BY <1>2, <1>3
<1> QED BY <1>4 DEF q

\* A record in the map form carries the entry e under the key.
Carries(weights, key, e) ==
  \E k \in 1 .. Len(weights) :
    weights[k].key = key /\ Has(weights[k].entries, e)

LEMMA EntryStays ==
  ASSUME NEW vocab, NEW syn, NEW m, IsMemetic(m), m.form # "rows",
         NEW i \in 1 .. Len(m.weights), NEW j \in 1 .. Len(m.weights[i].entries),
         Resolve(vocab, m.weights[i].key) # Nowhere,
         KeepEntry(vocab, Pairs(syn), Resolve(vocab, m.weights[i].key), m.weights[i].entries[j])
  PROVE  Carries(PruneTo(vocab, syn, m).weights, m.weights[i].key, m.weights[i].entries[j])
<1> DEFINE named == NamedWeights(vocab, m)
           maps == PruneTo(vocab, syn, m).weights
           pairs == Pairs(syn)
           w == m.weights[i]
<1>1. /\ Len(maps) = Len(named)
      /\ \A n \in 1 .. Len(named) : named[n] \in MapWeights /\ maps[n] = PruneEntries(vocab, pairs, named[n])
  BY NamedWeightsAre
<1>2. Has(named, w) BY NamedWeightsAre
<1> HIDE DEF named, maps, pairs
<1>3. PICK k \in 1 .. Len(named) : named[k] = w BY <1>2 DEF Has
<1> DEFINE v == maps[k]
<1>4. w \in MapWeights /\ v = PruneEntries(vocab, pairs, w) /\ k \in 1 .. Len(maps) BY <1>1, <1>3
<1>5. j \in 1 .. Len(w.entries) /\ KeepEntry(vocab, pairs, Resolve(vocab, w.key), w.entries[j]) BY DEF pairs
<1> HIDE DEF w, v
<1>6. v.key = w.key /\ Has(v.entries, w.entries[j]) BY <1>4, <1>5, PrunedEntries
<1>7. Carries(maps, w.key, w.entries[j]) BY <1>4, <1>6 DEF Carries, v
<1> QED BY <1>7 DEF w, maps

\* Both vocabularies resolve a key alike.
LEMMA SameResolution ==
  ASSUME NEW E, IsExport(E)
  PROVE  /\ \A key : Resolve(ViewVocabulary(NeuronViews(E), Wire(E), TRUE), key) =
                     Resolve(ExportVocabulary(E), key)
         /\ \A id : id # NotAnId => IndexOfId(ViewVocabulary(NeuronViews(E), Wire(E), TRUE), id) =
                                    IndexOfId(ExportVocabulary(E), id)
<1> DEFINE w == ViewVocabulary(NeuronViews(E), Wire(E), TRUE)
           x == ExportVocabulary(E)
<1>1. \A id : id # NotAnId => IndexOfId(w, id) = IndexOfId(x, id) BY VocabulariesAgree, ZenonT(40)
<1>2. w.wired = TRUE /\ x.wired = TRUE /\ w.wire = x.wire BY DEF ViewVocabulary, ExportVocabulary
<1> HIDE DEF w, x
<1>3. \A text : IndexOfWire(w, text) = IndexOfWire(x, text) BY <1>2 DEF IndexOfWire
<1>4. ASSUME NEW key PROVE Resolve(w, key) = Resolve(x, key) BY <1>1, <1>3 DEF Resolve
<1> QED BY <1>1, <1>4 DEF w, x

\* Rule 31 finds nothing in a pruned record that the host wrote well.
LEMMA PrunedIsSound ==
  ASSUME NEW E, IsExport(E), NEW syn, NEW m, IsMemetic(m),
         ~MemeticMalformed(PruneTo(ExportVocabulary(E), syn, m))
  PROVE  MemeticSound(ViewVocabulary(NeuronViews(E), Wire(E), TRUE), syn,
                      PruneTo(ExportVocabulary(E), syn, m))
<1> DEFINE w == ViewVocabulary(NeuronViews(E), Wire(E), TRUE)
           x == ExportVocabulary(E)
           p == PruneTo(x, syn, m)
           pairs == Pairs(syn)
<1>1. /\ \A key : Resolve(w, key) = Resolve(x, key)
      /\ \A id : id # NotAnId => IndexOfId(w, id) = IndexOfId(x, id)
  BY SameResolution
<1>2. \A a, b : <<a, b>> \in pairs => a # Nowhere /\ b # Nowhere BY PairsAre
<1>3. p.form = m.form BY PruneTyped
<1>4. /\ \A i \in 1 .. Len(p.biases) : Resolve(x, p.biases[i]) # Nowhere
      /\ m.form = "rows" => \A i \in 1 .. Len(p.weights) : KeepRow(x, pairs, p.weights[i])
      /\ m.form # "rows" =>
           \A i \in 1 .. Len(p.weights) :
             /\ Resolve(x, p.weights[i].key) # Nowhere
             /\ \A j \in 1 .. Len(p.weights[i].entries) :
                  KeepEntry(x, pairs, Resolve(x, p.weights[i].key), p.weights[i].entries[j])
  BY PrunedBiases, PrunedRows, PrunedMaps
<1>5. ~MemeticMalformed(p) OBVIOUS
<1> HIDE DEF w, x, p, pairs
<1>6. ASSUME m.form = "rows", NEW i \in 1 .. Len(p.weights) PROVE ~RowBad(w, pairs, p.weights[i])
  <2> DEFINE row == p.weights[i]
  <2>1. KeepRow(x, pairs, row) BY <1>4, <1>6
  <2>2. ~RowMalformed(row) /\ row.weight BY <1>3, <1>5, <1>6 DEF MemeticMalformed
  <2>3. <<Resolve(x, row.from), Resolve(x, row.to)>> \in pairs BY <2>1, <2>2 DEF KeepRow
  <2> HIDE DEF row
  <2>4. Resolve(x, row.from) # Nowhere /\ Resolve(x, row.to) # Nowhere BY <1>2, <2>3
  <2>5. ~RowBad(w, pairs, row) BY <1>1, <2>2, <2>3, <2>4 DEF RowBad
  <2> QED BY <2>5 DEF row
<1>7. ASSUME m.form # "rows", NEW i \in 1 .. Len(p.weights)
      PROVE  /\ Resolve(w, p.weights[i].key) # Nowhere
             /\ p.weights[i].list
             /\ \A j \in 1 .. Len(p.weights[i].entries) :
                  ~EntryBad(w, pairs, Resolve(w, p.weights[i].key), p.weights[i].entries[j])
  <2> DEFINE v == p.weights[i]
             from == Resolve(x, v.key)
  <2>1. from # Nowhere /\ \A j \in 1 .. Len(v.entries) : KeepEntry(x, pairs, from, v.entries[j])
    BY <1>4, <1>7
  <2>2. v.list /\ \A j \in 1 .. Len(v.entries) : v.entries[j].toId # NotAnId /\ v.entries[j].weight
    BY <1>3, <1>5, <1>7 DEF MemeticMalformed
  <2>3. Resolve(w, v.key) = from BY <1>1
  <2> HIDE DEF v, from
  <2>4. ASSUME NEW j \in 1 .. Len(v.entries) PROVE ~EntryBad(w, pairs, from, v.entries[j])
    <3> DEFINE e == v.entries[j]
    <3>1. e.toId # NotAnId /\ e.weight /\ KeepEntry(x, pairs, from, e) BY <2>1, <2>2
    <3> HIDE DEF e
    <3>2. <<from, IndexOfId(x, e.toId)>> \in pairs BY <3>1 DEF KeepEntry
    <3>3. IndexOfId(w, e.toId) = IndexOfId(x, e.toId) /\ IndexOfId(x, e.toId) # Nowhere BY <1>1, <1>2, <3>1, <3>2
    <3>4. ~EntryBad(w, pairs, from, e) BY <3>1, <3>2, <3>3 DEF EntryBad
    <3> QED BY <3>4 DEF e
  <2> QED BY <2>1, <2>2, <2>3, <2>4 DEF v
<1>8. \A i \in 1 .. Len(p.biases) : Resolve(w, p.biases[i]) # Nowhere BY <1>1, <1>4
<1>9. MemeticSound(w, syn, p) BY <1>3, <1>6, <1>7, <1>8 DEF MemeticSound, pairs
<1> QED BY <1>9 DEF w, x, p

\* What names a synapse of the creature survives the prune.
LEMMA LiveStay ==
  ASSUME NEW E, IsExport(E), IdsAreOwn(E), NEW m, IsMemetic(m)
  PROVE  LiveWeights(E, m) \subseteq LiveWeights(E, PruneTo(ExportVocabulary(E), Resolved(E), m))
<1> DEFINE x == ExportVocabulary(E)
           syn == Resolved(E)
           p == PruneTo(x, syn, m)
           pairs == Pairs(syn)
           wired(F, T) == \E k \in 1 .. Len(E.synapses) : syn[k].from \in F /\ syn[k].to \in T
<1>1. /\ Len(syn) = Len(E.synapses)
      /\ \A k \in 1 .. Len(E.synapses) :
           syn[k].from = AtWire(E, E.synapses[k].from) /\ syn[k].to = AtWire(E, E.synapses[k].to)
  <2>1. Len(E.synapses) \in Nat BY LenProperties DEF IsExport
  <2> QED BY <2>1 DEF Resolved
<1>2. p.form = m.form BY PruneTyped
<1>3. m.form = "rows" =>
        \A i \in 1 .. Len(m.weights) : KeepRow(x, pairs, m.weights[i]) => Has(p.weights, m.weights[i])
  <2> HIDE DEF x, syn
  <2> QED BY PrunedRows
<1>4. ASSUME NEW key, NEW k \in 1 .. Len(E.synapses)
      PROVE  /\ syn[k].from \in Names(E, key) => Resolve(x, key) = syn[k].from /\ Resolve(x, key) # Nowhere
             /\ syn[k].to \in Names(E, key) => Resolve(x, key) = syn[k].to /\ Resolve(x, key) # Nowhere
  <2> HIDE DEF x, syn
  <2>1. Names(E, key) # {} => Resolve(x, key) # Nowhere BY NamesResolve DEF x
  <2>2. \A u : AtWire(E, u) \in Names(E, key) => Resolve(x, key) = AtWire(E, u) BY NamesResolve DEF x
  <2> QED BY <1>1, <2>1, <2>2
<1>5. ASSUME NEW a, NEW b, NEW k \in 1 .. Len(E.synapses), syn[k].from = a, syn[k].to = b, a # Nowhere, b # Nowhere
      PROVE  <<a, b>> \in pairs
  <2> HIDE DEF syn
  <2> QED BY <1>1, <1>5, PairsAre DEF pairs
<1>6. \A F, T : wired(F, T) <=>
        \E k \in 1 .. Len(E.synapses) : Resolved(E)[k].from \in F /\ Resolved(E)[k].to \in T
  OBVIOUS
<1> HIDE DEF x, syn, p, pairs, wired
<1>7. CASE m.form = "rows"
  <2>1. ASSUME NEW q, q.form = "rows"
        PROVE  LiveWeights(E, q) = {q.weights[i] : i \in {j \in 1 .. Len(q.weights) :
                 wired(Names(E, q.weights[j].from), Names(E, q.weights[j].to))}}
    BY <2>1 DEF LiveWeights, wired, syn
  <2>2. ASSUME NEW i \in 1 .. Len(m.weights), wired(Names(E, m.weights[i].from), Names(E, m.weights[i].to))
        PROVE  m.weights[i] \in LiveWeights(E, p)
    <3> DEFINE row == m.weights[i]
    <3>1. PICK k \in 1 .. Len(E.synapses) : syn[k].from \in Names(E, row.from) /\ syn[k].to \in Names(E, row.to)
      BY <2>2 DEF wired
    <3>2. /\ Resolve(x, row.from) = syn[k].from /\ Resolve(x, row.from) # Nowhere
          /\ Resolve(x, row.to) = syn[k].to /\ Resolve(x, row.to) # Nowhere
      BY <1>4, <3>1
    <3>3. <<Resolve(x, row.from), Resolve(x, row.to)>> \in pairs BY <1>5, <3>2
    <3>4. KeepRow(x, pairs, row) BY <3>3 DEF KeepRow
    <3>5. PICK j \in 1 .. Len(p.weights) : p.weights[j] = row BY <1>3, <1>7, <3>4 DEF Has
    <3>6. wired(Names(E, p.weights[j].from), Names(E, p.weights[j].to)) BY <2>2, <3>5
    <3>7. p.form = "rows" BY <1>2, <1>7
    <3>8. p.weights[j] \in LiveWeights(E, p) BY <2>1, <3>6, <3>7
    <3> QED BY <3>5, <3>8
  <2> QED BY <1>7, <2>1, <2>2 DEF p, x, syn
<1>8. CASE m.form # "rows"
  <2>1. ASSUME NEW q, q.form # "rows"
        PROVE  LiveWeights(E, q) =
                 UNION {{<<w.key, w.entries[j]>> : j \in {j \in 1 .. Len(w.entries) :
                          wired(Names(E, w.key), NamedById(E, w.entries[j].toId))}} :
                          w \in ToSet(q.weights)}
    BY <2>1 DEF LiveWeights, wired, syn
  <2>2. ASSUME NEW w \in ToSet(m.weights), NEW j \in 1 .. Len(w.entries),
               wired(Names(E, w.key), NamedById(E, w.entries[j].toId))
        PROVE  <<w.key, w.entries[j]>> \in LiveWeights(E, p)
    <3> DEFINE e == w.entries[j]
    <3>1. PICK i \in 1 .. Len(m.weights) : m.weights[i] = w
      <4>1. \E U : m.weights \in Seq(U)
        <5>1. <<>> \in Seq(MapWeights) BY EmptySeq
        <5> QED BY <5>1, MemeticTyped
      <4>2. DOMAIN m.weights = 1 .. Len(m.weights) BY <4>1, LenProperties
      <4> QED BY <4>2 DEF ToSet
    <3>2. PICK k \in 1 .. Len(E.synapses) : syn[k].from \in Names(E, w.key) /\ syn[k].to \in NamedById(E, e.toId)
      BY <2>2 DEF wired
    <3>3. Resolve(x, w.key) = syn[k].from /\ Resolve(x, w.key) # Nowhere BY <1>4, <3>2
    <3>4. e.toId # NotAnId BY <3>2, NamedIs
    <3>5. IndexOfId(x, e.toId) = syn[k].to /\ IndexOfId(x, e.toId) # Nowhere
      <4> DEFINE y == IndexOfId(x, e.toId)
                 z == syn[k].to
      <4>1. y \in NamedById(E, e.toId) /\ y # Nowhere BY <3>2, <3>4, BorneIs DEF x
      <4> HIDE DEF y, z
      <4>2. /\ y \in 0 .. Declared(E) - 1 /\ z \in 0 .. Declared(E) - 1
            /\ NeuronViews(E)[y + 1].id = e.toId /\ NeuronViews(E)[z + 1].id = e.toId
        BY <3>2, <4>1 DEF NamedById, z
      <4>3. y = z BY <3>4, <4>2 DEF IdsAreOwn
      <4> QED BY <4>1, <4>3 DEF y, z
    <3>6. <<Resolve(x, w.key), IndexOfId(x, e.toId)>> \in pairs BY <1>5, <3>3, <3>5
    <3>7. KeepEntry(x, pairs, Resolve(x, w.key), e) BY <3>6 DEF KeepEntry
    <3>8. PICK n \in 1 .. Len(p.weights) :
            p.weights[n].key = w.key /\ \E l \in 1 .. Len(p.weights[n].entries) : p.weights[n].entries[l] = e
      <4>1. j \in 1 .. Len(m.weights[i].entries) BY <3>1
      <4>2. /\ Resolve(x, m.weights[i].key) # Nowhere
            /\ KeepEntry(x, Pairs(syn), Resolve(x, m.weights[i].key), m.weights[i].entries[j])
        BY <3>1, <3>3, <3>7 DEF pairs
      <4>3. Carries(PruneTo(x, syn, m).weights, m.weights[i].key, m.weights[i].entries[j])
        BY <1>8, <4>1, <4>2, EntryStays
      <4>4. Carries(p.weights, w.key, e) BY <3>1, <4>3 DEF p
      <4> QED BY <4>4 DEF Carries, Has
    <3> DEFINE v == p.weights[n]
    <3>9. PICK l \in 1 .. Len(v.entries) : v.entries[l] = e BY <3>8
    <3>10. v \in ToSet(p.weights)
      <4>1. IsMemetic(p) BY PruneTyped DEF p
      <4>2. \E U : p.weights \in Seq(U)
        <5>1. <<>> \in Seq(MapWeights) BY EmptySeq
        <5> QED BY <4>1, <5>1, MemeticTyped
      <4>3. DOMAIN p.weights = 1 .. Len(p.weights) BY <4>2, LenProperties
      <4> QED BY <4>3 DEF ToSet
    <3>11. wired(Names(E, v.key), NamedById(E, v.entries[l].toId)) BY <2>2, <3>8, <3>9
    <3>12. v.key = w.key BY <3>8
    <3>13. p.form # "rows" BY <1>2, <1>8
    <3> HIDE DEF v, e
    <3>14. <<v.key, v.entries[l]>> \in LiveWeights(E, p) BY <2>1, <3>10, <3>11, <3>13
    <3>15. <<w.key, e>> \in LiveWeights(E, p) BY <3>9, <3>12, <3>14
    <3> QED BY <3>15 DEF e
  <2>3. LiveWeights(E, m) \subseteq LiveWeights(E, p) BY <1>8, <2>1, <2>2
  <2> QED BY <2>3 DEF p, x, syn
<1> QED BY <1>7, <1>8

\* The edit of a session has left its record pruned to the creature.
PruneInv ==
  edited => /\ host.export /\ Jobs = <<>> /\ IsMemetic(unpruned)
            /\ host.creature.memetic =
                 PruneTo(ExportVocabulary(host.creature), Resolved(host.creature), unpruned)

LEMMA EditPrunes ==
  ASSUME CreatureInv, EditAndPrune
  PROVE  PruneInv'
<1> DEFINE E == host.creature
<1>1. PICK D \in Edits(E) : host' = [host EXCEPT !.creature = Pruned(D)] BY DEF EditAndPrune
<1>2. unpruned' = E.memetic /\ host.export /\ Len(answers) = Len(Entries) BY DEF EditAndPrune
<1>3. HostInv /\ IsExport(E) BY <1>2 DEF CreatureInv, HostInv, IsHost
<1>4. IsExport(Pruned(D)) BY <1>3, EditTyped
<1>5. HostInv' /\ Jobs' = Jobs /\ host'.creature = Pruned(D) BY <1>1, <1>2, <1>3, <1>4, HostTakes
<1>6. host'.export = host.export
  <2>1. {"export", "creature"} \subseteq DOMAIN host BY <1>3 DEF HostInv, IsHost
  <2> QED BY <1>1, <2>1
<1>7. Jobs = <<>>
  <2>1. Len(Entries) = 6 BY <1>2 DEF Entries
  <2>2. Jobs # <<>> => Len(answers) <= 1 BY DEF CreatureInv, JobInv
  <2> QED BY <1>2, <2>1, <2>2
<1>8. ExportFields \subseteq DOMAIN D /\ D.memetic = E.memetic
  <2>1. ExportFields \subseteq DOMAIN E BY <1>3 DEF IsExport, ExportFields
  <2> HIDE DEF E
  <2> QED BY <2>1 DEF Edits, ExportFields
<1>9. /\ Pruned(D).input = D.input /\ Pruned(D).neurons = D.neurons /\ Pruned(D).synapses = D.synapses
      /\ Pruned(D).memetic = PruneTo(ExportVocabulary(D), Resolved(D), D.memetic)
  BY <1>8 DEF Pruned, ExportFields
<1>10. ExportVocabulary(Pruned(D)) = ExportVocabulary(D) /\ Resolved(Pruned(D)) = Resolved(D)
  <2> DEFINE P == Pruned(D)
  <2>1. P.input = D.input /\ P.neurons = D.neurons /\ P.synapses = D.synapses BY <1>9
  <2> HIDE DEF P
  <2>2. \A i : ListedId(P, i) = ListedId(D, i) BY <2>1 DEF ListedId, OutputsBefore
  <2>3. Wire(P) = Wire(D) BY <2>1 DEF Wire
  <2>4. \A u : AtWire(P, u) = AtWire(D, u) BY <2>3 DEF AtWire
  <2>5. Resolved(P) = Resolved(D) BY <2>1, <2>4 DEF Resolved
  <2>6. ExportVocabulary(P) = ExportVocabulary(D) BY <2>1, <2>2, <2>3 DEF ExportVocabulary
  <2> QED BY <2>5, <2>6 DEF P
<1>11. IsMemetic(unpruned') BY <1>2, <1>3 DEF IsExport
<1> QED BY <1>2, <1>5, <1>6, <1>7, <1>8, <1>9, <1>10, <1>11 DEF PruneInv

\* After an edit and its prune, rule 31 refuses a creature only for what its
\* host wrote badly; every bias that names a neuron still there, and every
\* weight that names a synapse still there, is still in the record.
THEOREM PruneAlwaysFits == GraftSpec => []PruneFitsTheRule
<1>1. GraftInit => PruneInv BY DEF GraftInit, Init, PruneInv
<1>2. CreatureInv /\ PruneInv /\ [GraftNext]_<<vars, gvars>> => PruneInv'
  <2> SUFFICES ASSUME CreatureInv, PruneInv, [GraftNext]_<<vars, gvars>> PROVE PruneInv' OBVIOUS
  <2>1. CASE EditAndPrune BY <2>1, EditPrunes
  <2>2. CASE UNCHANGED <<host, edited, unpruned>> BY <2>2 DEF PruneInv, Jobs
  <2>3. CASE TakeResult
    <3>1. outcome # "none" /\ edited' = edited BY <2>3 DEF TakeResult
    <3>2. Jobs # <<>> BY <3>1 DEF CreatureInv, JobInv
    <3> QED BY <3>1, <3>2 DEF PruneInv
  <2>4. CASE AskAgain BY <2>2, <2>4 DEF AskAgain, Ask
  <2>5. CASE Rules \/ Memory \/ Answer BY <2>2, <2>5 DEF Rules, Memory, Answer
  <2>6. CASE StartGraft \/ GraftOne \/ FinishGraft \/ UNCHANGED <<vars, gvars>>
    <3>1. UNCHANGED vars BY <2>6 DEF StartGraft, GraftOne, FinishGraft
    <3> QED BY <2>2, <3>1 DEF vars
  <2> QED BY <2>1, <2>3, <2>4, <2>5, <2>6 DEF GraftNext, Validating
<1>3. CreatureInv /\ ToldInv /\ PruneInv => PruneFitsTheRule
  <2> SUFFICES ASSUME CreatureInv, ToldInv, PruneInv, edited
               PROVE  LET E == host.creature IN
                      /\ \A i \in 1 .. Len(answers) :
                           answers[i].rule = "31" /\ Entries[i] = "native" => MemeticMalformed(E.memetic)
                      /\ \A i \in 1 .. Len(unpruned.biases) :
                           Names(E, unpruned.biases[i]) # {} =>
                             \E j \in 1 .. Len(E.memetic.biases) : E.memetic.biases[j] = unpruned.biases[i]
                      /\ IdsAreOwn(E) => LiveWeights(E, unpruned) \subseteq LiveWeights(E, E.memetic)
    BY DEF PruneFitsTheRule
  <2> DEFINE E == host.creature
             x == ExportVocabulary(E)
             w == ViewVocabulary(NeuronViews(E), Wire(E), TRUE)
             r == Request("native")
  <2>1. IsHost(host) /\ host.export /\ IsMemetic(unpruned) /\ E.memetic = PruneTo(x, Resolved(E), unpruned)
    BY DEF CreatureInv, HostInv, PruneInv
  <2>2. IsExport(E) BY <2>1 DEF IsHost
  <2>3. ASSUME NEW i \in 1 .. Len(answers), answers[i].rule = "31", Entries[i] = "native"
        PROVE  MemeticMalformed(E.memetic)
    <3>1. answers[i] = Told("native")
      <4>1. answers[i] = Wording("native", Told("native")) BY <2>3 DEF ToldInv, AnswersAsTold, EntryPoints
      <4> QED BY <4>1 DEF Wording
    <3>2. BeforeWalk("native") = Accepted
      <4>1. BeforeWalk("native").rule # "31" BY <2>1, BeforeWalkSays
      <4> QED BY <2>1, <2>3, <3>1, <4>1, ToldAgree
    <3>3. RulesSay(r).rule = "31" BY <2>1, <2>3, <3>1, <3>2, ToldAgree
    <3>4. RulesSay(r) = MemoryVerdict(r)
      <4>1. IsHeld(ReadBy("native")) BY <2>1, ReadTyped
      <4>2. Len(r.views) \in Nat /\ Len(r.syn) \in Nat BY <4>1 DEF IsHeld, Request
      <4>3. "31" \notin WalkNames
        BY DEF WalkNames, NeuronRuleNames, WidthRuleNames, SynapseRuleNames, FlatNames
      <4> HIDE DEF r
      <4> QED BY <3>3, <4>2, <4>3, RulesSayNames
    <3>5. r.syn = Resolved(E) /\ r.memetic = E.memetic /\ r.views = NeuronViews(E) /\ r.wired = TRUE
      BY <2>1, RequestIs
    <3> HIDE DEF r
    <3>6. Vocabulary(r) = w BY <3>5 DEF Vocabulary
    <3>7. ~MemeticSound(w, Resolved(E), E.memetic)
      <4>1. Accepted.rule # "31" BY DEF Accepted
      <4> HIDE DEF w, E
      <4> QED BY <3>3, <3>4, <3>5, <3>6, <4>1 DEF MemoryVerdict
    <3> QED BY <2>1, <2>2, <3>7, PrunedIsSound
  <2>4. ASSUME NEW i \in 1 .. Len(unpruned.biases), Names(E, unpruned.biases[i]) # {}
        PROVE  \E j \in 1 .. Len(E.memetic.biases) : E.memetic.biases[j] = unpruned.biases[i]
    <3>1. Resolve(x, unpruned.biases[i]) # Nowhere BY <2>2, <2>4, NamesResolve
    <3> HIDE DEF x
    <3>2. Has(E.memetic.biases, unpruned.biases[i]) BY <2>1, <2>4, <3>1, PrunedBiases
    <3> QED BY <3>2 DEF Has
  <2>5. IdsAreOwn(E) => LiveWeights(E, unpruned) \subseteq LiveWeights(E, E.memetic)
    BY <2>1, <2>2, LiveStay
  <2> QED BY <2>3, <2>4, <2>5
<1> QED BY <1>1, <1>2, <1>3, CreatureOrder, AnswersAreTold, PTL DEF GraftSpec

-----------------------------------------------------------------------------
(* What compiles                                                            *)

\* A list is unbroken where both its parts are.
LEMMA JoinedUnbroken ==
  ASSUME NEW N, "ok" \notin N, NEW a \in Seq(N \X BOOLEAN), NEW b \in Seq(N \X BOOLEAN)
  PROVE  /\ a \o b \in Seq(N \X BOOLEAN)
         /\ FirstBroken(a \o b) = "ok" <=> FirstBroken(a) = "ok" /\ FirstBroken(b) = "ok"
<1> DEFINE R == N \X BOOLEAN
           ab == a \o b
<1>1. /\ ab \in Seq(R) /\ Len(ab) = Len(a) + Len(b)
      /\ \A i \in 1 .. Len(a) : ab[i] = a[i]
      /\ \A i \in 1 .. Len(b) : ab[Len(a) + i] = b[i]
  <2>1. a \in Seq(R) /\ b \in Seq(R) OBVIOUS
  <2> HIDE DEF R
  <2> QED BY <2>1, RulesJoined
<1>2. FirstBroken(ab) = "ok" => FirstBroken(a) = "ok" /\ FirstBroken(b) = "ok" BY PartsUnbroken
<1>3. ASSUME FirstBroken(a) = "ok", FirstBroken(b) = "ok" PROVE FirstBroken(ab) = "ok"
  <2>1. (\A i \in 1 .. Len(a) : ~a[i][2]) /\ (\A i \in 1 .. Len(b) : ~b[i][2]) BY <1>3, FirstBrokenIs
  <2>2. Len(a) \in Nat /\ Len(b) \in Nat BY LenProperties
  <2>3. ASSUME NEW i \in 1 .. Len(ab) PROVE ~ab[i][2]
    <3>1. CASE i <= Len(a)
      <4>1. i \in 1 .. Len(a) BY <1>1, <2>2, <3>1
      <4> QED BY <1>1, <2>1, <4>1
    <3>2. CASE ~(i <= Len(a))
      <4>1. i - Len(a) \in 1 .. Len(b) /\ Len(a) + (i - Len(a)) = i BY <1>1, <2>2, <3>2
      <4> QED BY <1>1, <2>1, <4>1
    <3> QED BY <3>1, <3>2
  <2>4. ab \in Seq(N \X BOOLEAN) BY <1>1
  <2> HIDE DEF ab
  <2> QED BY <2>3, <2>4, FirstBrokenIs
<1> QED BY <1>1, <1>2, <1>3

\* The lists of s, joined one after the other.
Flattens(g, s) ==
  /\ g[0] = <<>> /\ g[Len(s)] = FlattenSeq(s)
  /\ \A k \in 1 .. Len(s) : g[k] = g[k - 1] \o s[k]

LEMMA FlattenStepwise ==
  ASSUME NEW U, NEW s \in Seq(Seq(U))
  PROVE  \E g \in [0 .. Len(s) -> Seq(U)] : Flattens(g, s)
<1> DEFINE n == Len(s)
           X == Seq(U)
           flatten[i \in 1 .. Len(s)] == IF i = 1 THEN s[i] ELSE flatten[i - 1] \o s[i]
           step == [p \in (1 .. n) \X X |-> p[2] \o s[p[1]]]
           none == <<>>
<1>1. n \in Nat /\ \A k \in 1 .. n : s[k] \in X BY LenProperties, ElementOfSeq
<1>2. none \in X BY EmptySeq
<1>3. ASSUME NEW k \in 1 .. n, NEW x \in X PROVE step[<<k, x>>] = x \o s[k] /\ step[<<k, x>>] \in X
  <2>1. step[<<k, x>>] = x \o s[k]
    <3> HIDE DEF n, X
    <3> QED OBVIOUS
  <2>2. x \o s[k] \in X BY <1>1, ConcatProperties
  <2> HIDE DEF step, X
  <2> QED BY <2>1, <2>2
<1>4. PICK g \in [0 .. n -> X] : g[0] = none /\ \A k \in 1 .. n : g[k] = step[<<k, g[k - 1]>>]
  <2> HIDE DEF step, n, X, none
  <2>1. \A k \in 1 .. n : \A x \in X : step[<<k, x>>] \in X BY <1>3
  <2>2. \E g \in [0 .. n -> X] : StepsBy(g, n, none, step) BY <1>1, <1>2, <2>1, Recursion
  <2> QED BY <2>2 DEF StepsBy
<1>5. \A k \in 1 .. n : g[k] = g[k - 1] \o s[k]
  <2> TAKE k \in 1 .. n
  <2>1. g[k - 1] \in X
    <3> HIDE DEF X, n, step
    <3> QED BY <1>1
  <2>2. g[k] = step[<<k, g[k - 1]>>] BY <1>4
  <2> HIDE DEF step, X, n
  <2> QED BY <1>3, <2>1, <2>2
<1> HIDE DEF step
<1>6. CASE n = 0
  <2>1. s = <<>>
    <3>1. s \in Seq(X) /\ Len(s) = 0 BY <1>6
    <3> HIDE DEF X
    <3> QED BY <3>1, EmptySeq
  <2>2. FlattenSeq(s) = s BY <1>6 DEF FlattenSeq
  <2>3. Flattens(g, s) BY <1>4, <1>5, <1>6, <2>1, <2>2 DEF Flattens
  <2> QED BY <2>3
<1>7. CASE n # 0
  <2> DEFINE h == [i \in 1 .. n |-> g[i]]
  <2>1. h = [i \in 1 .. n |-> IF i = 1 THEN s[i] ELSE h[i - 1] \o s[i]]
    <3>1. ASSUME NEW i \in 1 .. n PROVE h[i] = IF i = 1 THEN s[i] ELSE h[i - 1] \o s[i]
      <4>1. h[i] = g[i - 1] \o s[i] BY <1>5
      <4>2. CASE i = 1
        <5>1. g[i - 1] = <<>> BY <1>4, <4>2
        <5>2. s[i] \in Seq(U) BY <1>1
        <5>3. <<>> \o s[i] = s[i] BY <5>2, ConcatEmptySeq
        <5> HIDE DEF h
        <5> QED BY <4>1, <4>2, <5>1, <5>3
      <4>3. CASE i # 1
        <5>1. i - 1 \in 1 .. n BY <1>1, <4>3
        <5>2. h[i - 1] = g[i - 1] BY <5>1
        <5> HIDE DEF h
        <5> QED BY <4>1, <4>3, <5>2
      <4> QED BY <4>2, <4>3
    <3> HIDE DEF n
    <3> QED BY <3>1
  <2>2. flatten = [i \in 1 .. n |-> IF i = 1 THEN s[i] ELSE flatten[i - 1] \o s[i]] BY <2>1, ZenonT(40)
  <2>3. FlattenSeq(s) = flatten[n] BY <1>7 DEF FlattenSeq
  <2> HIDE DEF flatten, h
  <2> DEFINE T == {k \in 0 .. n : k # 0 => flatten[k] = g[k]}
  <2>4. 0 \in T BY <1>1
  <2>5. ASSUME NEW k \in 1 .. n, k - 1 \in T PROVE k \in T
    <3>1. flatten[k] = IF k = 1 THEN s[k] ELSE flatten[k - 1] \o s[k]
      <4> HIDE DEF n
      <4> QED BY <2>2
    <3>2. g[k] = g[k - 1] \o s[k] BY <1>5
    <3>3. CASE k = 1
      <4>1. g[k - 1] = <<>> BY <1>4, <3>3
      <4>2. s[k] \in Seq(U) BY <1>1
      <4>3. <<>> \o s[k] = s[k] BY <4>2, ConcatEmptySeq
      <4>4. flatten[k] = g[k] BY <3>1, <3>2, <3>3, <4>1, <4>3
      <4> QED BY <1>1, <4>4
    <3>4. CASE k # 1
      <4>1. flatten[k - 1] = g[k - 1] BY <1>1, <2>5, <3>4
      <4>2. flatten[k] = g[k] BY <3>1, <3>2, <3>4, <4>1
      <4> QED BY <1>1, <4>2
    <3> QED BY <3>3, <3>4
  <2>6. 0 .. n \subseteq T
    <3> HIDE DEF T, n
    <3> QED BY <1>1, <2>4, <2>5, InductionUpTo
  <2>7. flatten[n] = g[n] BY <1>1, <1>7, <2>6
  <2>8. Flattens(g, s) BY <1>4, <1>5, <2>3, <2>7 DEF Flattens
  <2> QED BY <2>8
<1> QED BY <1>6, <1>7

\* A flattened list of rules is unbroken where each of its lists is.
LEMMA FlatUnbroken ==
  ASSUME NEW N, "ok" \notin N, NEW s \in Seq(Seq(N \X BOOLEAN))
  PROVE  /\ FlattenSeq(s) \in Seq(N \X BOOLEAN)
         /\ FirstBroken(FlattenSeq(s)) = "ok" <=> \A i \in 1 .. Len(s) : FirstBroken(s[i]) = "ok"
<1> DEFINE n == Len(s)
           R == N \X BOOLEAN
<1>0. ASSUME NEW a \in Seq(R), NEW b \in Seq(R)
      PROVE  FirstBroken(a \o b) = "ok" <=> FirstBroken(a) = "ok" /\ FirstBroken(b) = "ok"
  BY JoinedUnbroken
<1>1. n \in Nat /\ \A k \in 1 .. n : s[k] \in Seq(R) BY LenProperties, ElementOfSeq
<1>2. PICK g \in [0 .. n -> Seq(R)] : Flattens(g, s) BY FlattenStepwise
<1>3. /\ g[0] = <<>> /\ g[n] = FlattenSeq(s)
      /\ \A k \in 1 .. n : g[k] = g[k - 1] \o s[k]
  BY <1>2 DEF Flattens
<1> DEFINE T == {k \in 0 .. n : FirstBroken(g[k]) = "ok" <=> \A i \in 1 .. k : FirstBroken(s[i]) = "ok"}
<1>4. 0 \in T
  <2>1. Len(<<>>) = 0 OBVIOUS
  <2>2. FirstBroken(<<>>) = "ok" BY <2>1 DEF FirstBroken
  <2> QED BY <1>1, <1>3, <2>2
<1>5. ASSUME NEW k \in 1 .. n, k - 1 \in T PROVE k \in T
  <2>1. g[k - 1] \in Seq(R) /\ s[k] \in Seq(R)
    <3>1. k - 1 \in 0 .. n /\ s[k] \in Seq(R) BY <1>1
    <3> HIDE DEF R, n
    <3> QED BY <3>1
  <2>2. FirstBroken(g[k - 1] \o s[k]) = "ok" <=> FirstBroken(g[k - 1]) = "ok" /\ FirstBroken(s[k]) = "ok"
    <3> HIDE DEF T, n
    <3> QED BY <1>0, <2>1
  <2>3. FirstBroken(g[k - 1]) = "ok" <=> \A i \in 1 .. k - 1 : FirstBroken(s[i]) = "ok" BY <1>5
  <2>4. 1 .. k = 1 .. (k - 1) \cup {k} OBVIOUS
  <2>5. (\A i \in 1 .. k : FirstBroken(s[i]) = "ok") <=>
          (\A i \in 1 .. k - 1 : FirstBroken(s[i]) = "ok") /\ FirstBroken(s[k]) = "ok"
    BY <2>4
  <2>6. g[k] = g[k - 1] \o s[k] BY <1>3
  <2>7. k \in 0 .. n BY <1>1
  <2>8. FirstBroken(g[k]) = "ok" <=> \A i \in 1 .. k : FirstBroken(s[i]) = "ok"
    BY ONLY <2>2, <2>3, <2>5, <2>6
  <2> QED BY <2>7, <2>8
<1>6. 0 .. n \subseteq T
  <2> HIDE DEF T, n
  <2> QED BY <1>1, <1>4, <1>5, InductionUpTo
<1>7. n \in 0 .. n BY <1>1
<1> QED BY <1>3, <1>6, <1>7

\* The counts are clear where the declared widths are those listed.
\* What the verdict in closed form passes is what the walk passes.
LEMMA ClearIsWalked ==
  ASSUME NEW r, IsRequest(r), NeuronFaults(r) = {}, CountFault(r) = "ok", SynapseFaults(r) = {}
  PROVE  Walked(r)
<1> DEFINE n == Len(r.views)
           O == OfKind(r, n, "output")
<1>1. /\ n \in Nat /\ \A v \in 1 .. n : r.views[v].kind \in Kinds
      /\ r.input \in Nat /\ r.output \in Nat /\ r.options.forwardOnly \in BOOLEAN
  BY DEF IsRequest
<1>2. ASSUME NEW i \in 0 .. n - 1
      PROVE  NeuronFine(r, i) /\ (r.views[i + 1].kind # "output" => OfKind(r, i, "output") = {})
  <2>1. i \in Nat /\ r.views[i + 1].kind \in Kinds
    <3>1. i + 1 \in 1 .. n BY <1>1
    <3> QED BY <1>1, <3>1
  <2>2. NeuronVerdict(r, Seen(r, i), i) = "ok"
    <3>1. i \notin NeuronFaults(r) OBVIOUS
    <3> QED BY <3>1 DEF NeuronFaults, NeuronFault
  <2>3. Seen(r, i).outputs = Cardinality(OfKind(r, i, "output")) BY DEF Seen
  <2>4. IsFiniteSet(OfKind(r, i, "output")) /\ Cardinality(OfKind(r, i, "output")) \in Nat BY <2>1, KindCounted
  <2>5. NeuronFine(r, i) /\ (r.views[i + 1].kind # "output" => Seen(r, i).outputs = 0)
    <3>1. Seen(r, i).outputs \in Nat BY <2>3, <2>4
    <3>2. r.views[i + 1].kind \in {"input", "constant", "hidden", "output", "invalid"} BY <2>1 DEF Kinds
    <3> QED BY <1>1, <2>1, <2>2, <3>1, <3>2, NeuronPasses
  <2>6. Cardinality(OfKind(r, i, "output")) = 0 => OfKind(r, i, "output") = {} BY <2>4, FS_EmptySet
  <2> QED BY <2>3, <2>5, <2>6
<1>3. Cardinality(InputsBefore(r, n)) = r.input /\ Cardinality(O) = r.output
  BY CountsClear DEF InputsBefore
<1>4. ASSUME NEW i \in O, NEW k \in i .. n - 1 PROVE k \in O
  <2>1. i \in 0 .. n - 1 /\ k \in 0 .. n - 1 BY <1>1 DEF OfKind
  <2>2. CASE k = i BY <1>4, <2>2
  <2>3. CASE k # i
    <3>1. i \in OfKind(r, k, "output")
      <4>1. i \in 0 .. k - 1 BY <2>1, <2>3
      <4> QED BY <1>4, <4>1 DEF OfKind
    <3>2. r.views[k + 1].kind = "output" BY <1>2, <2>1, <3>1
    <3> QED BY <2>1, <3>2 DEF OfKind
  <2> QED BY <2>2, <2>3
<1>5. r.output <= n /\ O = (n - r.output) .. (n - 1)
  <2>1. CASE O = {}
    <3>1. r.output = 0 BY <1>3, <2>1, FS_EmptySet
    <3> HIDE DEF O
    <3>2. r.output <= n /\ n - r.output = n BY <1>1, <3>1
    <3>3. n .. (n - 1) = {} BY <1>1
    <3> QED BY <2>1, <3>2, <3>3
  <2>2. CASE O # {}
    <3>1. O \subseteq 0 .. n - 1 BY DEF OfKind
    <3>2. O \subseteq Nat BY <1>1, <3>1
    <3> HIDE DEF O
    <3>3. PICK m \in O : \A k \in O : m <= k BY <2>2, <3>2, LeastMember
    <3>4. m \in 0 .. n - 1 BY <3>1
    <3>5. O = m .. n - 1
      <4>1. ASSUME NEW k \in m .. n - 1 PROVE k \in O BY <1>4, <3>3, <4>1
      <4>2. ASSUME NEW k \in O PROVE k \in m .. n - 1 BY <3>1, <3>3, <3>4
      <4> QED BY <4>1, <4>2
    <3>6. Cardinality(m .. n - 1) = n - m
      <4>1. m \in Int /\ n - 1 \in Int BY <1>1, <3>4
      <4>2. Cardinality(m .. n - 1) = IF m > n - 1 THEN 0 ELSE (n - 1) - m + 1 BY <4>1, FS_Interval
      <4> QED BY <1>1, <3>4, <4>2
    <3>7. r.output = n - m BY <1>3, <3>5, <3>6
    <3>8. n - r.output = m /\ r.output <= n BY <1>1, <3>4, <3>7
    <3> QED BY <3>5, <3>8
  <2> QED BY <2>1, <2>2
<1>6. Placed(r)
  <2>1. ASSUME NEW i \in 0 .. n - 1 PROVE r.views[i + 1].kind = "output" <=> i >= n - r.output
    <3>1. r.views[i + 1].kind = "output" <=> i \in O BY DEF OfKind
    <3>2. i \in (n - r.output) .. (n - 1) <=> i >= n - r.output BY <1>1
    <3> QED BY <1>5, <3>1, <3>2
  <2> QED BY <1>2, <1>3, <1>5, <2>1 DEF Placed
<1>7. ASSUME NEW k \in 1 .. Len(r.syn) PROVE SynapseFine(r, k)
  <2>1. k \notin SynapseFaults(r) OBVIOUS
  <2>2. SynapseVerdict(r, LastOf(r, k), r.syn[k]) = "ok" BY <2>1 DEF SynapseFaults, SynapseFault
  <2>3. r.syn[k] \in Synapses /\ LastOf(r, k) \in Synapses BY LastTyped
  <2>4. k \in Nat \ {0} BY DEF IsRequest
  <2> QED BY <1>1, <2>2, <2>3, <2>4, SynapsePasses
<1> QED BY <1>6, <1>7 DEF Walked

\* What the walk is handed when it may start.
LEMMA RequestTyped ==
  ASSUME IsHost(host), BeforeWalk("native") = Accepted
  PROVE  IsRequest(Request("native"))
<1> DEFINE r == Request("native")
<1>1. /\ ReadBy("native").input >= 1
      /\ \A k \in 1 .. Len(ReadBy("native").syn) : /\ ReadBy("native").syn[k].from \in 0 .. Len(ReadBy("native").views) - 1
                                           /\ ReadBy("native").syn[k].to \in 0 .. Len(ReadBy("native").views) - 1
  BY BeforeWalkSays
<1>2. /\ r.views = ReadBy("native").views /\ r.syn = ReadBy("native").syn /\ r.input = ReadBy("native").input
      /\ r.output = ReadBy("native").output /\ r.options = host.options
  BY DEF Request
<1>3. host.options.forwardOnly \in BOOLEAN BY DEF IsHost
<1>4. IsHeld(ReadBy("native")) BY ReadTyped
<1> HIDE DEF r
<1>5. r.input \in Nat \ {0} BY <1>1, <1>2, <1>4 DEF IsHeld
<1>6. IsRequest(r) BY <1>1, <1>2, <1>3, <1>4, <1>5 DEF IsHeld, IsRequest
<1> QED BY <1>6 DEF r

\* What the native entry point accepts.
LEMMA NativeAccepts ==
  ASSUME CreatureInv, AnswersAsTold, host.export, answers # <<>>
  PROVE  /\ answers[1] = Told("native")
         /\ Told("native") = Accepted =>
              LET r == Request("native") IN
              /\ IsRequest(r) /\ AllClear(r) /\ MemoryVerdict(r) = Accepted
              /\ ~(Declared(host.creature) > MaxNodes) /\ AskedFirst = Accepted
<1> DEFINE r == Request("native")
<1>1. Entries = <<"native", "json", "runtime", "packed", "both", "neither">> BY DEF Entries
<1>2. Len(answers) \in Nat /\ Len(answers) # 0
  <2>1. answers \in Seq(Verdicts) BY DEF CreatureInv, AnswersInv
  <2> QED BY <2>1, LenProperties, EmptySeq
<1>3. 1 \in 1 .. Len(answers) /\ Entries[1] = "native" /\ "native" \in EntryPoints
  <2>1. 1 \in 1 .. Len(answers) BY <1>2
  <2> QED BY <1>1, <2>1 DEF EntryPoints
<1>4. answers[1] = Wording("native", Told("native")) BY <1>3 DEF AnswersAsTold
<1>5. Wording("native", Told("native")) = Told("native") BY DEF Wording
<1>6. ASSUME Told("native") = Accepted
      PROVE  /\ IsRequest(r) /\ AllClear(r) /\ MemoryVerdict(r) = Accepted
             /\ ~(Declared(host.creature) > MaxNodes) /\ AskedFirst = Accepted
  <2>0. IsHost(host) BY DEF CreatureInv, HostInv
  <2>1. BeforeWalk("native") = Accepted BY <1>6 DEF Told
  <2>2. ~(Declared(host.creature) > MaxNodes) /\ AskedFirst = Accepted BY <2>0, <2>1, BeforeWalkIs
  <2>3. RulesSay(r) = Accepted BY <1>6, <2>1 DEF Told
  <2>4. \A x, at : x # "ok" => Refused(x, at) # Accepted BY NotAcceptedAs
  <2>6. IsRequest(r) BY <2>0, <2>1, RequestTyped
  <2>7. NeuronFaults(r) = {}
    <3>1. ASSUME NeuronFaults(r) # {} PROVE FALSE
      <4> DEFINE m == Min(NeuronFaults(r))
      <4>1. RulesSay(r) = Refused(NeuronFault(r, m), m) BY <3>1 DEF RulesSay
      <4>2. NeuronFaults(r) \in SUBSET Int /\ \A x \in NeuronFaults(r) : 0 <= x
        BY <2>6 DEF NeuronFaults, IsRequest
      <4>3. m \in NeuronFaults(r)
        <5>1. 0 \in Int OBVIOUS
        <5> QED BY <3>1, <4>2, <5>1, MinIs
      <4> HIDE DEF m, r
      <4>4. NeuronFault(r, m) # "ok" BY <4>3 DEF NeuronFaults
      <4> QED BY <2>3, <2>4, <4>1, <4>4
    <3> QED BY <3>1
  <2>8. CountFault(r) = "ok" BY <2>3, <2>4, <2>7 DEF RulesSay
  <2>9. SynapseFaults(r) = {}
    <3>1. ASSUME SynapseFaults(r) # {} PROVE FALSE
      <4> DEFINE m == Min(SynapseFaults(r))
      <4>1. RulesSay(r) = Refused(SynapseFault(r, m), m - 1) BY <2>7, <2>8, <3>1 DEF RulesSay
      <4>2. SynapseFaults(r) \in SUBSET Int /\ \A x \in SynapseFaults(r) : 0 <= x
        BY <2>6 DEF SynapseFaults, IsRequest
      <4>3. m \in SynapseFaults(r)
        <5>1. 0 \in Int OBVIOUS
        <5> QED BY <3>1, <4>2, <5>1, MinIs
      <4> HIDE DEF m, r
      <4>4. SynapseFault(r, m) # "ok" BY <4>3 DEF SynapseFaults
      <4> QED BY <2>3, <2>4, <4>1, <4>4
    <3> QED BY <3>1
  <2>10. FlatVerdict(r) = "ok" BY <2>3, <2>4, <2>7, <2>8, <2>9 DEF RulesSay
  <2>11. MemoryVerdict(r) = Accepted BY <2>3, <2>7, <2>8, <2>9, <2>10 DEF RulesSay
  <2> QED BY <2>2, <2>6, <2>7, <2>8, <2>9, <2>10, <2>11 DEF AllClear
<1> QED BY <1>4, <1>5, <1>6

\* A UUID that is listed resolves to the last neuron under it, any other one in
\* front of the listed neurons or nowhere.
LEMMA WireAt ==
  ASSUME NEW E, IsExport(E), NEW u
  PROVE  LET at == AtWire(E, u) IN
         /\ u \in Listed(E) => /\ at - E.input + 1 \in 1 .. Len(E.neurons)
                               /\ E.neurons[at - E.input + 1].uuid = u
                               /\ \A i \in 1 .. Len(E.neurons) :
                                    E.neurons[i].uuid = u => E.input + i - 1 <= at
         /\ u \notin Listed(E) => at < E.input
<1> DEFINE n == Len(E.neurons)
           named == {i \in 1 .. n : E.neurons[i].uuid = u}
           inputs == {InputNames[i] : i \in 0 .. E.input - 1}
           input == CHOOSE i \in 0 .. E.input - 1 : InputNames[i] = u
           x == AtWire(E, u)
           uuids == {E.neurons[i].uuid : i \in 1 .. n}
<1>0. Listed(E) = uuids BY DEF Listed
<1>1. n \in Nat /\ E.input \in Nat BY LenProperties DEF IsExport
<1>2. CASE u \in uuids
  <2>1. named # {} /\ named \in SUBSET Int /\ \A y \in named : y <= n BY <1>1, <1>2
  <2>2. Max(named) \in named /\ \A y \in named : y <= Max(named)
    <3>1. n \in Int /\ \A y \in named : y <= n BY <1>1, <2>1
    <3>2. named # {} /\ named \in SUBSET Int BY <2>1
    <3> HIDE DEF named, n
    <3> QED BY <3>1, <3>2, MaxIs
  <2>3. x = E.input + Max(named) - 1
    <3>1. u \in DOMAIN Wire(E) BY <1>2 DEF Wire
    <3>2. Wire(E)[u] = E.input + Max(named) - 1 BY <1>2 DEF Wire
    <3> QED BY <3>1, <3>2 DEF AtWire
  <2>4. Max(named) \in 1 .. n /\ E.neurons[Max(named)].uuid = u BY <2>2
  <2> DEFINE m == Max(named)
  <2>5. \A i \in 1 .. n : E.neurons[i].uuid = u => i <= m BY <2>2
  <2> HIDE DEF named, m
  <2>6. x - E.input + 1 = m /\ \A i \in 1 .. n : i <= m => E.input + i - 1 <= x
    BY <1>1, <2>3, <2>4 DEF m
  <2> QED BY <1>0, <1>2, <2>4, <2>5, <2>6 DEF m
<1>3. CASE u \notin uuids /\ u \in inputs
  <2>1. x = input
    <3>1. u \in DOMAIN Wire(E) BY <1>3 DEF Wire
    <3>2. Wire(E)[u] = input BY <1>3 DEF Wire
    <3> QED BY <3>1, <3>2 DEF AtWire
  <2>2. \E i \in 0 .. E.input - 1 : InputNames[i] = u BY <1>3
  <2>3. input \in 0 .. E.input - 1 BY <2>2
  <2> HIDE DEF input
  <2> QED BY <1>0, <1>1, <1>3, <2>1, <2>3
<1>4. CASE u \notin uuids /\ u \notin inputs
  <2>1. u \notin DOMAIN Wire(E) BY <1>4 DEF Wire
  <2>2. x = -1 BY <2>1 DEF AtWire, Nowhere
  <2> QED BY <1>0, <1>1, <1>4, <2>2
<1> QED BY <1>2, <1>3, <1>4

\* An export as the walk leaves it: its synapses end at listed neurons, and
\* follow on each other.
WalkedExport(E) ==
  /\ \A k \in 1 .. Len(E.synapses) :
       /\ AtWire(E, E.synapses[k].from) # Nowhere
       /\ E.synapses[k].to \in Listed(E)
  /\ \A j, k \in 1 .. Len(E.synapses) :
       j < k /\ E.synapses[j].from = E.synapses[k].from /\ E.synapses[j].to = E.synapses[k].to =>
         E.synapses[j].role # E.synapses[k].role /\ IsIfTarget(E, E.synapses[k].to)
  /\ Cardinality({i \in 1 .. Len(E.neurons) : E.neurons[i].type = "output"}) = E.output

LEMMA WalkLeaves ==
  ASSUME NEW E, IsExport(E), NEW r, IsRequest(r), Walked(r), CountFault(r) = "ok",
         r.views = NeuronViews(E), r.syn = Resolved(E), r.input = E.input, r.output = E.output
  PROVE  WalkedExport(E)
<1> DEFINE n == Len(E.neurons)
           s(k) == E.synapses[k]
<1>1. /\ n \in Nat /\ E.input \in Nat /\ Len(r.views) = E.input + n
      /\ \A k \in 1 .. E.input : r.views[k].kind = "input"
      /\ \A i \in 1 .. n : /\ r.views[E.input + i].squash = E.neurons[i].squash
                           /\ r.views[E.input + i].kind = KindOf(E.neurons[i].type)
  <2>1. \A i : /\ InputView(i).kind = "input" /\ ListedView(E, i).squash = E.neurons[i].squash
               /\ ListedView(E, i).kind = KindOf(E.neurons[i].type)
    BY DEF InputView, ListedView
  <2>2. n \in Nat /\ E.input \in Nat BY LenProperties DEF IsExport
  <2>3. Len(r.views) = E.input + n BY ViewsAre DEF Declared
  <2>4. \A k \in 1 .. E.input : r.views[k].kind = "input" BY <2>1, ViewsAre
  <2>5. \A i \in 1 .. n : /\ r.views[E.input + i].squash = E.neurons[i].squash
                          /\ r.views[E.input + i].kind = KindOf(E.neurons[i].type)
    BY <2>1, ViewsAre
  <2> QED BY <2>2, <2>3, <2>4, <2>5
<1>2. /\ Len(r.syn) = Len(E.synapses) /\ Len(r.syn) \in Nat
      /\ \A k \in 1 .. Len(E.synapses) :
           /\ r.syn[k].from = AtWire(E, s(k).from) /\ r.syn[k].to = AtWire(E, s(k).to)
           /\ r.syn[k].role = s(k).role
           /\ r.syn[k].from \in 0 .. Len(r.views) - 1 /\ r.syn[k].to \in 0 .. Len(r.views) - 1
           /\ r.syn[k].role \in Int
  <2>1. Len(E.synapses) \in Nat BY LenProperties DEF IsExport
  <2>2. Len(r.syn) = Len(E.synapses) BY <2>1 DEF Resolved
  <2>3. ASSUME NEW k \in 1 .. Len(E.synapses)
        PROVE  r.syn[k] = [from |-> AtWire(E, s(k).from), to |-> AtWire(E, s(k).to), role |-> s(k).role]
    BY DEF Resolved
  <2>4. ASSUME NEW k \in 1 .. Len(E.synapses)
        PROVE  /\ r.syn[k].from \in 0 .. Len(r.views) - 1 /\ r.syn[k].to \in 0 .. Len(r.views) - 1
               /\ r.syn[k].role \in Int
    BY <2>2 DEF IsRequest, Synapses
  <2>5. ASSUME NEW k \in 1 .. Len(E.synapses)
        PROVE  /\ r.syn[k].from = AtWire(E, s(k).from) /\ r.syn[k].to = AtWire(E, s(k).to)
               /\ r.syn[k].role = s(k).role
    <3> DEFINE a == AtWire(E, s(k).from)
               b == AtWire(E, s(k).to)
               c == s(k).role
    <3>1. r.syn[k] = [from |-> a, to |-> b, role |-> c] BY <2>3
    <3> HIDE DEF a, b, c
    <3>2. r.syn[k].from = a /\ r.syn[k].to = b /\ r.syn[k].role = c BY <3>1
    <3> QED BY <3>2 DEF a, b, c
  <2> HIDE DEF s
  <2> QED BY <2>1, <2>2, <2>4, <2>5
<1>3. ASSUME NEW k \in 1 .. Len(E.synapses)
      PROVE  AtWire(E, s(k).from) # Nowhere /\ s(k).to \in Listed(E)
  <2>1. r.views[r.syn[k].to + 1].kind # "input" BY <1>2 DEF Walked, SynapseFine
  <2>2. ~(r.syn[k].to < E.input)
    <3>1. ASSUME r.syn[k].to < E.input PROVE FALSE
      <4>1. r.syn[k].to + 1 \in 1 .. E.input BY <1>1, <1>2, <3>1
      <4> QED BY <1>1, <2>1, <4>1
    <3> QED BY <3>1
  <2>3. s(k).to \in Listed(E) BY <1>2, <2>2, WireAt
  <2>4. AtWire(E, s(k).from) # -1 BY <1>2
  <2> QED BY <2>3, <2>4 DEF Nowhere
<1>4. ASSUME NEW j \in 1 .. Len(E.synapses), NEW k \in 1 .. Len(E.synapses),
             j < k, s(j).from = s(k).from, s(j).to = s(k).to
      PROVE  s(j).role # s(k).role /\ IsIfTarget(E, s(k).to)
  <2>1. j \in 1 .. Len(r.syn) /\ k \in 1 .. Len(r.syn) BY <1>2
  <2>2. r.syn[j].from = r.syn[k].from /\ r.syn[j].to = r.syn[k].to BY <1>2, <1>4
  <2>3. /\ Follows(r.syn[j], r.syn[k])
        /\ r.views[r.syn[k].to + 1].squash = "IF"
    BY <1>4, <2>1, <2>2, FollowsOn
  <2>4. r.syn[j].role # r.syn[k].role BY <1>2, <2>2, <2>3 DEF Follows
  <2> DEFINE i == AtWire(E, s(k).to) - E.input + 1
  <2>5. i \in 1 .. n /\ E.neurons[i].uuid = s(k).to BY <1>3, WireAt
  <2>6. r.syn[k].to + 1 = E.input + i BY <1>1, <1>2
  <2> HIDE DEF i
  <2>7. E.neurons[i].squash = "IF" BY <1>1, <2>3, <2>5, <2>6
  <2> QED BY <1>2, <2>4, <2>5, <2>7 DEF IsIfTarget
<1>5. Cardinality({i \in 1 .. n : E.neurons[i].type = "output"}) = E.output
  <2> DEFINE O == OfKind(r, Len(r.views), "output")
             T == {i \in 1 .. n : E.neurons[i].type = "output"}
             f == [i \in T |-> E.input + i - 1]
  <2>1. Cardinality(O) = E.output BY CountsClear
  <2>2. \A i \in 1 .. n : r.views[E.input + i].kind = "output" <=> E.neurons[i].type = "output"
    BY <1>1 DEF KindOf
  <2>3. ASSUME NEW i \in T PROVE E.input + i - 1 \in O
    <3>1. (E.input + i - 1) + 1 = E.input + i /\ E.input + i - 1 \in 0 .. Len(r.views) - 1 BY <1>1
    <3> QED BY <2>2, <3>1 DEF OfKind
  <2>4. ASSUME NEW v \in O PROVE v - E.input + 1 \in T
    <3>1. v \in 0 .. Len(r.views) - 1 /\ r.views[v + 1].kind = "output" BY DEF OfKind
    <3>2. ~(v < E.input)
      <4>1. ASSUME v < E.input PROVE FALSE
        <5>1. v + 1 \in 1 .. E.input BY <1>1, <3>1, <4>1
        <5> QED BY <1>1, <3>1, <5>1
      <4> QED BY <4>1
    <3> DEFINE i == v - E.input + 1
    <3>3. i \in 1 .. n /\ v + 1 = E.input + i BY <1>1, <3>1, <3>2
    <3> HIDE DEF i
    <3>4. i \in T BY <2>2, <3>1, <3>3
    <3> QED BY <3>4 DEF i
  <2>5. f \in Bijection(T, O)
    <3>1. f \in [T -> O] BY <2>3
    <3>2. \A a, b \in T : f[a] = f[b] => a = b BY <1>1
    <3>3. ASSUME NEW v \in O PROVE \E i \in T : f[i] = v
      <4>1. v \in 0 .. Len(r.views) - 1 BY DEF OfKind
      <4>2. E.input + (v - E.input + 1) - 1 = v BY <1>1, <4>1
      <4>3. v - E.input + 1 \in T BY <2>4
      <4>4. f[v - E.input + 1] = v BY <4>2, <4>3
      <4> QED BY <4>3, <4>4
    <3> HIDE DEF f, T, O
    <3> QED BY <3>1, <3>2, <3>3, Fun_IsBij
  <2>6. IsFiniteSet(T)
    <3>1. T \subseteq 1 .. n OBVIOUS
    <3>2. IsFiniteSet(1 .. n)
      <4>1. 1 \in Int /\ n \in Int BY <1>1
      <4> QED BY <4>1, FS_Interval
    <3> HIDE DEF T
    <3> QED BY <3>1, <3>2, FS_Subset
  <2>7. ExistsBijection(T, O) BY <2>5 DEF ExistsBijection
  <2> HIDE DEF T, O
  <2>8. Cardinality(O) = Cardinality(T) BY <2>6, <2>7, FS_Bijection
  <2> QED BY <2>1, <2>8 DEF T
<1> QED BY <1>3, <1>4, <1>5 DEF WalkedExport

CompileNames ==
  {"InvalidInputCount", "TooManyNodes", "InvalidOutputCount", "DuplicateSynapse", "TypedDuplicateSynapse",
   "OutputCountMismatch", "UnknownTargetUuid", "UnknownSquash", "UnknownSourceUuid"}

InwardReads(E, in) ==
  \A x \in 1 .. Len(in) : \E k \in 1 .. Len(E.synapses) : in[x].from = AtWire(E, E.synapses[k].from)

\* What compilation groups under a neuron are the synapses of its UUID.
LEMMA InwardIs ==
  ASSUME NEW E, IsExport(E), NEW i \in 1 .. Len(E.neurons)
  PROVE  LET mine == {k \in 1 .. Len(E.synapses) : E.synapses[k].to = E.neurons[i].uuid}
             at(k) == [from |-> AtWire(E, E.synapses[k].from), role |-> E.synapses[k].role]
         IN /\ Len(Inward(E, i)) = Cardinality(mine) /\ Len(Inward(E, i)) \in Nat
            /\ InwardReads(E, Inward(E, i))
            /\ ToSet(Inward(E, i)) = {at(k) : k \in mine}
<1> DEFINE mine == {k \in 1 .. Len(E.synapses) : E.synapses[k].to = E.neurons[i].uuid}
           at(k) == [from |-> AtWire(E, E.synapses[k].from), role |-> E.synapses[k].role]
           kept == KeptOf(E.synapses, mine)
           in == Inward(E, i)
           seen(x) == [from |-> AtWire(E, kept[x].from), role |-> kept[x].role]
<1>1. E.synapses \in Seq(NamedSynapses) BY DEF IsExport, NamedSynapses
<1>2. kept \in Seq(NamedSynapses) /\ IsKept(kept, E.synapses, mine)
  <2>1. mine \in SUBSET (1 .. Len(E.synapses)) OBVIOUS
  <2> HIDE DEF mine
  <2> QED BY <1>1, <2>1, KeptTyped, KeptMembers
<1>3. in = [x \in 1 .. Len(kept) |-> seen(x)] BY DEF Inward
<1>4. Len(kept) \in Nat BY <1>2, LenProperties
<1> HIDE DEF kept, mine
<1>5. Len(in) = Len(kept) /\ DOMAIN in = 1 .. Len(kept) /\ \A x \in 1 .. Len(kept) : in[x] = seen(x)
  <2> HIDE DEF in, seen
  <2> QED BY <1>3, <1>4
<1> HIDE DEF in
<1>6. /\ \A x \in 1 .. Len(kept) : \E k \in mine : kept[x] = E.synapses[k]
      /\ \A k \in mine : \E x \in 1 .. Len(kept) : kept[x] = E.synapses[k]
      /\ Len(kept) = Cardinality(mine)
  BY <1>2 DEF IsKept
<1>7. \A x \in 1 .. Len(in) : \E k \in mine : in[x] = at(k) BY <1>5, <1>6, SMTT(30)
<1>8. ToSet(in) = {at(k) : k \in mine}
  <2>1. ASSUME NEW y \in ToSet(in) PROVE y \in {at(k) : k \in mine}
    <3>1. PICK x \in 1 .. Len(kept) : y = in[x] BY <1>5 DEF ToSet
    <3>2. PICK k \in mine : in[x] = at(k) BY <1>5, <1>7
    <3> QED BY <3>1, <3>2
  <2>2. ASSUME NEW k \in mine PROVE at(k) \in ToSet(in)
    <3>1. PICK x \in 1 .. Len(kept) : kept[x] = E.synapses[k] BY <1>6
    <3>2. in[x] = at(k) BY <1>5, <3>1
    <3> HIDE DEF at
    <3> QED BY <1>5, <3>2 DEF ToSet
  <2> HIDE DEF at
  <2> QED BY <2>1, <2>2
<1>9. InwardReads(E, in)
  <2>1. ASSUME NEW x \in 1 .. Len(in)
        PROVE  \E k \in 1 .. Len(E.synapses) : in[x].from = AtWire(E, E.synapses[k].from)
    <3>1. PICK k \in mine : in[x] = at(k) BY <1>7
    <3>2. k \in 1 .. Len(E.synapses) BY DEF mine
    <3> QED BY <3>1, <3>2
  <2> QED BY <2>1 DEF InwardReads
<1> QED BY <1>4, <1>5, <1>6, <1>8, <1>9 DEF mine, in

\* An export as the walk leaves it compiles, its widths and squashes being good.
LEMMA WalkedCompiles ==
  ASSUME NEW E, IsExport(E), WalkedExport(E), E.input >= 1, E.output >= 1, Declared(E) <= MaxNodes,
         \A i \in 1 .. Len(E.neurons) : IsKnownSquash(E.neurons[i])
  PROVE  CompileFault(E) = "ok"
<1> DEFINE N == CompileNames
           R == N \X BOOLEAN
           m == Len(E.synapses)
           n == Len(E.neurons)
           dup(k) == LET s == E.synapses[k]
                         pair == {j \in 1 .. k - 1 : E.synapses[j].from = s.from /\ E.synapses[j].to = s.to}
                     IN << <<"DuplicateSynapse", \E j \in pair : E.synapses[j].role = s.role>>,
                           <<"TypedDuplicateSynapse", pair # {} /\ ~IsIfTarget(E, s.to)>> >>
           dups == [k \in 1 .. m |-> dup(k)]
           rest == << <<"OutputCountMismatch", OutputCountMismatch(E)>>,
                      <<"TooManyNodes", DeclaredNodeCount(E) > MaxNodes>> >>
           ends == [k \in 1 .. m |-> <<"UnknownTargetUuid", E.synapses[k].to \notin Listed(E)>>]
           own == [i \in 1 .. n |-> NeuronRules(E, i)]
           Fine(s) == s \in Seq(R) /\ FirstBroken(s) = "ok"
<1>0. /\ n \in Nat /\ m \in Nat /\ E.input \in Nat /\ E.output \in Nat /\ MaxNodes \in Nat
      /\ "ok" \notin N
  BY LenProperties, CeilingAssumption DEF IsExport, CompileNames
<1>1. ASSUME NEW s \in Seq(R), \A k \in 1 .. Len(s) : ~s[k][2] PROVE Fine(s)
  BY <1>0, <1>1, FirstBrokenIs
<1>2. ASSUME NEW a, NEW b, Fine(a), Fine(b) PROVE Fine(a \o b)
  BY <1>0, <1>2, JoinedUnbroken
<1>3. ASSUME NEW s \in Seq(Seq(R)), \A k \in 1 .. Len(s) : FirstBroken(s[k]) = "ok" PROVE Fine(FlattenSeq(s))
  BY <1>0, <1>3, FlatUnbroken
<1>4. Fine(WidthRules(E))
  <2> DEFINE A == E.input < 1
             B == E.input > MaxNodes
             C == E.output < 1
             s == << <<"InvalidInputCount", A>>, <<"TooManyNodes", B>>, <<"InvalidOutputCount", C>> >>
  <2>1. ~A /\ ~B /\ ~C BY <1>0 DEF Declared
  <2>2. WidthRules(E) = s /\ A \in BOOLEAN /\ B \in BOOLEAN /\ C \in BOOLEAN BY DEF WidthRules
  <2> HIDE DEF A, B, C
  <2>3. <<"InvalidInputCount", A>> \in R /\ <<"TooManyNodes", B>> \in R /\ <<"InvalidOutputCount", C>> \in R
    BY <2>2 DEF CompileNames
  <2>4. s \in Seq(R) /\ Len(s) = 3 /\ (\A k \in 1 .. 3 : ~s[k][2])
    <3>1. 1 .. 3 = {1, 2, 3} OBVIOUS
    <3> HIDE DEF R
    <3> QED BY <2>1, <2>3, <3>1
  <2> HIDE DEF s, Fine
  <2> QED BY <1>1, <2>2, <2>4
<1>5. Fine(DuplicateRules(E))
  <2>1. ASSUME NEW k \in 1 .. m PROVE Fine(dup(k))
    <3> DEFINE pair == {j \in 1 .. k - 1 : E.synapses[j].from = E.synapses[k].from
                                         /\ E.synapses[j].to = E.synapses[k].to}
               A == \E j \in pair : E.synapses[j].role = E.synapses[k].role
               B == pair # {} /\ ~IsIfTarget(E, E.synapses[k].to)
               s == << <<"DuplicateSynapse", A>>, <<"TypedDuplicateSynapse", B>> >>
    <3>1. ASSUME NEW j \in pair
          PROVE  E.synapses[j].role # E.synapses[k].role /\ IsIfTarget(E, E.synapses[k].to)
      <4>1. j \in 1 .. m /\ j < k BY <1>0
      <4> QED BY <4>1 DEF WalkedExport
    <3>2. ~A /\ ~B BY <3>1
    <3>3. dup(k) = s /\ A \in BOOLEAN /\ B \in BOOLEAN OBVIOUS
    <3> HIDE DEF A, B, dup
    <3>4. <<"DuplicateSynapse", A>> \in R /\ <<"TypedDuplicateSynapse", B>> \in R BY <3>3 DEF CompileNames
    <3>5. s \in Seq(R) /\ Len(s) = 2 /\ (\A x \in 1 .. 2 : ~s[x][2])
      <4>1. 1 .. 2 = {1, 2} OBVIOUS
      <4> HIDE DEF R
      <4> QED BY <3>2, <3>4, <4>1
    <3> HIDE DEF s, Fine
    <3> QED BY <1>1, <3>3, <3>5
  <2>2. DuplicateRules(E) = FlattenSeq(dups) BY DEF DuplicateRules
  <2> HIDE DEF dup
  <2>3. dups \in Seq(Seq(R)) /\ Len(dups) = m /\ \A k \in 1 .. m : FirstBroken(dups[k]) = "ok"
    <3>1. \A k \in 1 .. m : dup(k) \in Seq(R) /\ FirstBroken(dup(k)) = "ok" BY <2>1
    <3> HIDE DEF R
    <3> QED BY <1>0, <3>1
  <2> HIDE DEF dups, Fine
  <2> QED BY <1>3, <2>2, <2>3
<1>6. Fine(rest)
  <2> DEFINE A == OutputCountMismatch(E)
             B == DeclaredNodeCount(E) > MaxNodes
  <2>1. ~A /\ ~B BY <1>0 DEF WalkedExport, OutputCountMismatch, DeclaredNodeCount, Declared
  <2>0. A \in BOOLEAN /\ B \in BOOLEAN BY DEF OutputCountMismatch
  <2> HIDE DEF A, B
  <2>2. <<"OutputCountMismatch", A>> \in R /\ <<"TooManyNodes", B>> \in R BY <2>0 DEF CompileNames
  <2>3. rest \in Seq(R) /\ Len(rest) = 2 /\ (\A x \in 1 .. 2 : ~rest[x][2])
    <3>1. 1 .. 2 = {1, 2} OBVIOUS
    <3>2. rest = << <<"OutputCountMismatch", A>>, <<"TooManyNodes", B>> >> BY DEF A, B
    <3> HIDE DEF R, rest
    <3> QED BY <2>1, <2>2, <3>1, <3>2
  <2> HIDE DEF rest, Fine
  <2> QED BY <1>1, <2>3
<1>7. Fine(ends)
  <2>1. ASSUME NEW k \in 1 .. m PROVE <<"UnknownTargetUuid", E.synapses[k].to \notin Listed(E)>> \in R
    BY DEF CompileNames
  <2>2. ends \in Seq(R) /\ Len(ends) = m
    <3> HIDE DEF R
    <3> QED BY <1>0, <2>1
  <2>3. \A k \in 1 .. m : ~ends[k][2] BY DEF WalkedExport
  <2> HIDE DEF ends, Fine
  <2> QED BY <1>1, <2>2, <2>3
<1>8. Fine(FlattenSeq(own))
  <2>1. ASSUME NEW i \in 1 .. n PROVE Fine(NeuronRules(E, i))
    <3> DEFINE in == Inward(E, i)
               A == ~IsKnownSquash(E.neurons[i])
               a == << <<"UnknownSquash", A>> >>
               lost(k) == in[k].from = Nowhere
               b == [k \in 1 .. Len(in) |-> <<"UnknownSourceUuid", lost(k)>>]
    <3>1. NeuronRules(E, i) = a \o b BY DEF NeuronRules
    <3>2. Fine(a)
      <4>1. ~A /\ A \in BOOLEAN BY DEF IsKnownSquash
      <4> HIDE DEF A
      <4>2. <<"UnknownSquash", A>> \in R BY <4>1 DEF CompileNames
      <4>3. a \in Seq(R) /\ Len(a) = 1 /\ (\A x \in 1 .. 1 : ~a[x][2])
        <5>1. 1 .. 1 = {1} OBVIOUS
        <5> HIDE DEF R
        <5> QED BY <4>1, <4>2, <5>1
      <4> HIDE DEF a, Fine
      <4> QED BY <1>1, <4>3
    <3>3. Fine(b)
      <4>1. /\ Len(in) \in Nat
            /\ \A x \in 1 .. Len(in) : \E k \in 1 .. m : in[x].from = AtWire(E, E.synapses[k].from)
        BY InwardIs DEF InwardReads
      <4>2. \A x \in 1 .. Len(in) : ~lost(x) /\ lost(x) \in BOOLEAN BY <4>1 DEF WalkedExport
      <4> HIDE DEF lost, in
      <4>3. \A k \in 1 .. Len(in) : <<"UnknownSourceUuid", lost(k)>> \in R BY <4>2 DEF CompileNames
      <4>4. b \in Seq(R) /\ Len(b) = Len(in) /\ (\A x \in 1 .. Len(in) : ~b[x][2])
        <5> HIDE DEF R
        <5> QED BY <4>1, <4>2, <4>3
      <4> HIDE DEF b, Fine
      <4> QED BY <1>1, <4>4
    <3> HIDE DEF a, b, Fine
    <3> QED BY <1>2, <3>1, <3>2, <3>3
  <2>2. own \in Seq(Seq(R)) /\ Len(own) = n /\ \A i \in 1 .. n : FirstBroken(own[i]) = "ok"
    <3>1. \A i \in 1 .. n : NeuronRules(E, i) \in Seq(R) /\ FirstBroken(NeuronRules(E, i)) = "ok" BY <2>1
    <3> HIDE DEF R
    <3> QED BY <1>0, <3>1
  <2> HIDE DEF own, Fine
  <2> QED BY <1>3, <2>2
<1>9. CompileRules(E) = WidthRules(E) \o DuplicateRules(E) \o rest \o ends \o FlattenSeq(own) BY DEF CompileRules
<1>10. Fine(CompileRules(E))
  <2> HIDE DEF rest, ends, own, Fine
  <2>1. Fine(WidthRules(E) \o DuplicateRules(E)) BY <1>2, <1>4, <1>5
  <2>2. Fine(WidthRules(E) \o DuplicateRules(E) \o rest) BY <1>2, <1>6, <2>1
  <2>3. Fine(WidthRules(E) \o DuplicateRules(E) \o rest \o ends) BY <1>2, <1>7, <2>2
  <2> QED BY <1>2, <1>8, <1>9, <2>3
<1> QED BY <1>10 DEF CompileFault

\* And a neuron whose UUID is its own has in its span the synapses resolved to
\* it.
LEMMA SpanIs ==
  ASSUME NEW E, IsExport(E), NEW i \in 1 .. Len(E.neurons),
         \A j \in 1 .. Len(E.neurons) : j # i => E.neurons[j].uuid # E.neurons[i].uuid,
         Cardinality(InwardSynapses(Resolved(E), E.input + i - 1)) < SpanWidth
  PROVE  LET in == InwardSynapses(Resolved(E), E.input + i - 1) IN
         /\ Compiled(E)[i].count = Cardinality(in)
         /\ ToSet(Compiled(E)[i].synapses)
              = {[from |-> Resolved(E)[k].from, role |-> Resolved(E)[k].role] : k \in in}
<1> DEFINE in == InwardSynapses(Resolved(E), E.input + i - 1)
           mine == {k \in 1 .. Len(E.synapses) : E.synapses[k].to = E.neurons[i].uuid}
           at(k) == [from |-> AtWire(E, E.synapses[k].from), role |-> E.synapses[k].role]
<1>0. ASSUME NEW a \in Int, NEW b \in Int, NEW c \in Int, a - b + 1 = c PROVE a = b + c - 1
  BY <1>0
<1>1. Len(E.neurons) \in Nat /\ E.input \in Nat /\ Len(E.synapses) \in Nat BY LenProperties DEF IsExport
<1>2. /\ Len(Resolved(E)) = Len(E.synapses)
      /\ \A k \in 1 .. Len(E.synapses) :
           /\ Resolved(E)[k].from = AtWire(E, E.synapses[k].from)
           /\ Resolved(E)[k].to = AtWire(E, E.synapses[k].to)
           /\ Resolved(E)[k].role = E.synapses[k].role
  BY <1>1 DEF Resolved
<1>3. ASSUME NEW k \in 1 .. Len(E.synapses)
      PROVE  E.synapses[k].to = E.neurons[i].uuid <=> AtWire(E, E.synapses[k].to) = E.input + i - 1
  <2> DEFINE u == E.synapses[k].to
             x == AtWire(E, u)
  <2>1. x \in Int
    <3>1. x \in -1 .. E.input + Len(E.neurons) - 1 BY WireTyped
    <3> QED BY <1>1, <3>1
  <2>2. u \in Listed(E) => /\ x - E.input + 1 \in 1 .. Len(E.neurons)
                           /\ E.neurons[x - E.input + 1].uuid = u
    BY WireAt
  <2>3. u \notin Listed(E) => x < E.input BY WireAt
  <2>4. ASSUME u = E.neurons[i].uuid PROVE x = E.input + i - 1
    <3>1. u \in Listed(E) BY <2>4 DEF Listed
    <3> DEFINE j == x - E.input + 1
    <3>2. j \in 1 .. Len(E.neurons) /\ E.neurons[j].uuid = u BY <2>2, <3>1
    <3>3. j = i BY <2>4, <3>2
    <3>4. i \in Int BY <1>1
    <3> HIDE DEF x, u
    <3>5. x - E.input + 1 = i BY <3>3
    <3>6. E.input \in Int BY <1>1
    <3> HIDE DEF j
    <3> QED BY ONLY <1>0, <2>1, <3>4, <3>5, <3>6
  <2>5. ASSUME x = E.input + i - 1 PROVE u = E.neurons[i].uuid
    <3>1. ~(x < E.input) /\ x - E.input + 1 = i
      <4> HIDE DEF x, u
      <4> QED BY <1>1, <2>1, <2>5
    <3> HIDE DEF x, u
    <3> QED BY <2>2, <2>3, <3>1
  <2> QED BY <2>4, <2>5
<1>4. in = mine BY <1>2, <1>3 DEF InwardSynapses
<1>5. /\ Len(Inward(E, i)) = Cardinality(mine) /\ Len(Inward(E, i)) \in Nat
      /\ ToSet(Inward(E, i)) = {at(k) : k \in mine}
  BY InwardIs
<1>6. Compiled(E)[i].synapses = Inward(E, i) /\ Compiled(E)[i].count = Len(Inward(E, i)) % SpanWidth
  BY DEF Compiled, Span
<1>7. Cardinality(mine) < SpanWidth BY <1>4
<1> HIDE DEF in, mine
<1>8. Len(Inward(E, i)) % SpanWidth = Len(Inward(E, i))
  <2> DEFINE c == Len(Inward(E, i))
  <2>1. c \in Nat /\ c < SpanWidth /\ SpanWidth \in Nat \ {0} BY <1>5, <1>7, SpanAssumption
  <2> HIDE DEF c
  <2>2. \A p \in Nat, q \in Nat \ {0} : p < q => p % q = p BY SMT
  <2>3. c % SpanWidth = c BY <2>1, <2>2
  <2> QED BY <2>3 DEF c
<1>9. ToSet(Compiled(E)[i].synapses) = {[from |-> Resolved(E)[k].from, role |-> Resolved(E)[k].role] : k \in in}
  <2>1. \A k \in in : at(k) = [from |-> Resolved(E)[k].from, role |-> Resolved(E)[k].role]
    BY <1>2, <1>4 DEF mine
  <2> HIDE DEF at
  <2> QED BY <1>4, <1>5, <1>6, <2>1
<1> QED BY <1>4, <1>5, <1>6, <1>8, <1>9 DEF in

\* A creature the native entry point accepts compiles, every squash being
\* known, and runs on the synapses that were validated.
THEOREM AcceptedAlwaysCompiles == GraftSpec => []AcceptedCompiles
<1> DEFINE E == host.creature
           r == Request("native")
<1>1. ASSUME CreatureInv, ToldInv PROVE AcceptedCompiles
  <2>1. SUFFICES ASSUME host.export, answers # <<>>, answers[1] = Accepted,
                        \A i \in 1 .. Len(E.neurons) : IsKnownSquash(E.neurons[i])
                 PROVE  /\ CompileFault(E) = "ok"
                        /\ \A i \in 1 .. Len(E.neurons) :
                             (\A j \in 1 .. Len(E.neurons) : j # i => E.neurons[j].uuid # E.neurons[i].uuid) =>
                               LET in == InwardSynapses(Resolved(E), E.input + i - 1) IN
                               Cardinality(in) < SpanWidth =>
                                 /\ Compiled(E)[i].count = Cardinality(in)
                                 /\ ToSet(Compiled(E)[i].synapses)
                                      = {[from |-> Resolved(E)[k].from, role |-> Resolved(E)[k].role] : k \in in}
    BY DEF AcceptedCompiles
  <2>2. IsHost(host) /\ IsExport(E) BY <1>1, <2>1 DEF CreatureInv, HostInv, IsHost
  <2>3. IsRequest(r) /\ AllClear(r) /\ ~(Declared(E) > MaxNodes) /\ AskedFirst = Accepted
    <3>1. AnswersAsTold BY <1>1 DEF ToldInv
    <3> QED BY <1>1, <2>1, <3>1, NativeAccepts
  <2>4. /\ r.views = NeuronViews(E) /\ r.syn = Resolved(E) /\ r.input = E.input /\ r.output = E.output
        /\ InMemory.input = E.input /\ InMemory.output = E.output
    BY <2>1, <2>2, RequestIs, HeldTyped
  <2>5. WalkedExport(E)
    <3>0. NeuronFaults(r) = {} /\ CountFault(r) = "ok" /\ SynapseFaults(r) = {} BY <2>3 DEF AllClear
    <3>1. Walked(r) BY <2>3, <3>0, ClearIsWalked
    <3>2. CountFault(r) = "ok" BY <3>0
    <3> HIDE DEF r, E
    <3> QED BY <2>2, <2>3, <2>4, <3>1, <3>2, WalkLeaves
  <2>6. E.input >= 1 /\ E.output >= 1
    <3>1. E.input \in Nat /\ E.output \in Nat BY <2>2 DEF IsExport
    <3>2. WidthVerdict(Len(InMemory.views), E.input, E.output) = "ok" BY <2>3, <2>4, NotAcceptedAs DEF AskedFirst
    <3> QED BY <3>1, <3>2, WidthsSay
  <2>7. Declared(E) <= MaxNodes
    <3>1. Declared(E) \in Nat /\ MaxNodes \in Nat BY <2>2, ViewsAre, CeilingAssumption
    <3> QED BY <2>3, <3>1
  <2>8. CompileFault(E) = "ok" BY <2>1, <2>2, <2>5, <2>6, <2>7, WalkedCompiles
  <2>9. ASSUME NEW i \in 1 .. Len(E.neurons),
               \A j \in 1 .. Len(E.neurons) : j # i => E.neurons[j].uuid # E.neurons[i].uuid,
               Cardinality(InwardSynapses(Resolved(E), E.input + i - 1)) < SpanWidth
        PROVE  LET in == InwardSynapses(Resolved(E), E.input + i - 1) IN
               /\ Compiled(E)[i].count = Cardinality(in)
               /\ ToSet(Compiled(E)[i].synapses)
                    = {[from |-> Resolved(E)[k].from, role |-> Resolved(E)[k].role] : k \in in}
    <3> HIDE DEF E
    <3> QED BY <2>2, <2>9, SpanIs
  <2> QED BY <2>8, <2>9
<1> QED BY <1>1, CreatureOrder, AnswersAreTold, PTL
=============================================================================
