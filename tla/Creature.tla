------------------------------ MODULE Creature ------------------------------
(***************************************************************************)
(* A creature as the pruning code of neat-core handles it, and what it      *)
(* computes.  A creature is an exported network: a list of neurons in       *)
(* forward-pass order (inputs are implicit and come first), and a list of   *)
(* synapses ("rows"), each from a uuid to a uuid in a role.  Weights,       *)
(* biases and activations are integers here: the rewrites move whole terms, *)
(* and what is checked is that the terms arrive, not how f32 rounds them.   *)
(***************************************************************************)
EXTENDS Integers, Sequences, SequencesExt

CONSTANTS
  Inputs,      \* uuids of the observation neurons, in index order
  RecordStream,\* records activated one after the other, [input uuid -> value]
  F32Max       \* largest magnitude the forward pass can carry

NoSquash == "none"
Roles == <<"standard", "condition", "negative", "positive">>
Aggregates == {"MINIMUM", "MAXIMUM", "MEAN", "HYPOT", "HYPOTv2", "IF"}
PointWise == {"IDENTITY", "RELU", "ABSOLUTE"}

Neuron(uuid, kind, squash, bias) ==
  [uuid |-> uuid, kind |-> kind, squash |-> squash, bias |-> bias]
Row(from, to, role, weight) ==
  [from |-> from, to |-> to, role |-> role, weight |-> weight]

InputUuids == {Inputs[i] : i \in DOMAIN Inputs}
Uuids(c) == {c.neurons[i].uuid : i \in DOMAIN c.neurons}
RowsOf(c) == {c.synapses[i] : i \in DOMAIN c.synapses}
Abs(x) == IF x < 0 THEN -x ELSE x
Total(s) == FoldLeft(LAMBDA acc, x : acc + x, 0, s)
Extreme(s, Better(_, _)) == CHOOSE x \in {s[i] : i \in DOMAIN s} :
                              \A i \in DOMAIN s : Better(x, s[i])
Root(x) == CHOOSE r \in 0 .. x : r * r <= x /\ x < (r + 1) * (r + 1)

-----------------------------------------------------------------------------
(* Reading a creature *)

NeuronAt(c, u) == c.neurons[SelectInSeq(c.neurons, LAMBDA n : n.uuid = u)]
Find(s, Test(_)) == SelectInSeq(s, Test)
Inward(c, u) == SelectSeq(c.synapses, LAMBDA r : r.to = u)
Outward(c, u) == SelectSeq(c.synapses, LAMBDA r : r.from = u)
NeuronsOfKind(c, k) == SelectSeq(c.neurons, LAMBDA n : n.kind = k)

\* A constant emits its bias whatever it declares.
SquashOf(n) == IF n.kind = "constant" THEN "IDENTITY" ELSE n.squash
TargetSquash(c, u) == SquashOf(NeuronAt(c, u))

\* Place of a uuid in forward-pass order: inputs first, then the list.
IndexOf(c, u) ==
  IF u \in InputUuids THEN SelectInSeq(Inputs, LAMBDA x : x = u)
  ELSE Len(Inputs) + SelectInSeq(c.neurons, LAMBDA n : n.uuid = u)
RoleRank(role) == SelectInSeq(Roles, LAMBDA x : x = role)

EditNeuron(c, u, Edit(_)) ==
  [c EXCEPT !.neurons = [i \in DOMAIN @ |-> IF @[i].uuid = u THEN Edit(@[i]) ELSE @[i]]]
EditRows(c, Test(_), Edit(_)) ==
  [c EXCEPT !.synapses = [i \in DOMAIN @ |-> IF Test(@[i]) THEN Edit(@[i]) ELSE @[i]]]
DropNeurons(c, S) == [c EXCEPT !.neurons = SelectSeq(@, LAMBDA n : n.uuid \notin S)]
KeepRows(c, Test(_)) == [c EXCEPT !.synapses = SelectSeq(@, Test)]

-----------------------------------------------------------------------------
(* The forward pass *)

ApplySquash(squash, x) ==
  CASE squash = "IDENTITY" -> x
    [] squash = "RELU" -> IF x > 0 THEN x ELSE 0
    [] squash = "ABSOLUTE" -> Abs(x)

\* What neuron n computes from activations act: the aggregates read their
\* terms as a list, IF picks an arm, everything else sums and squashes.
Fire(c, n, act) ==
  LET terms(rs) == [i \in DOMAIN rs |-> act[rs[i].from] * rs[i].weight]
      rows == Inward(c, n.uuid)
      t == terms(rows)
      arm(roles) == Total(terms(SelectSeq(rows, LAMBDA r : r.role \in roles)))
      squares(shift) == Total([i \in DOMAIN t |-> (shift + t[i]) * (shift + t[i])])
  IN CASE n.kind = "constant" -> n.bias
       [] n.squash = "IF" ->
            n.bias + arm(IF arm({"condition"}) > 0 THEN {"positive", "standard"} ELSE {"negative"})
       [] n.squash \in {"MINIMUM", "MAXIMUM", "MEAN"} /\ t = <<>> -> n.bias
       [] n.squash = "MINIMUM" -> n.bias + Extreme(t, LAMBDA x, y : x <= y)
       [] n.squash = "MAXIMUM" -> n.bias + Extreme(t, LAMBDA x, y : x >= y)
       [] n.squash = "MEAN" -> n.bias + (Total(t) \div Len(t))
       [] n.squash = "HYPOT" -> n.bias + Root(squares(0))
       [] n.squash = "HYPOTv2" -> Root(squares(n.bias))
       [] OTHER -> ApplySquash(n.squash, n.bias + Total(t))

\* One record through the network, neuron by neuron in list order, over the
\* activations the previous record left behind.
Activate(c, act, record) ==
  FoldLeft(LAMBDA a, n : [a EXCEPT ![n.uuid] = Fire(c, n, a)], record @@ act, c.neurons)

\* The activations after each record of the stream, from a fresh network.
Activations(c) ==
  LET zero == [u \in InputUuids \cup Uuids(c) |-> 0]
      next(s, r) == Append(s, Activate(c, IF s = <<>> THEN zero ELSE s[Len(s)], r))
  IN FoldLeft(next, <<>>, RecordStream)

\* The output vectors the stream produces.
Outputs(c) ==
  LET outs == NeuronsOfKind(c, "output")
      acts == Activations(c)
  IN [i \in DOMAIN acts |-> [k \in DOMAIN outs |-> acts[i][outs[k].uuid]]]

-----------------------------------------------------------------------------
(* What the rewrites know about an edge *)

CanonicalRole(squash, role) ==
  IF squash # "IF" THEN "standard"
  ELSE IF role = "standard" THEN "positive" ELSE role

\* Mutant: every squash is treated as a sum of its terms.
MergeRuleAlwaysSum(squash) == "sum"

MergeRule(squash) ==
  CASE squash = "MINIMUM" -> "minWeight"
    [] squash = "MAXIMUM" -> "maxWeight"
    [] squash \in {"MEAN", "HYPOT", "HYPOTv2"} -> "never"
    [] OTHER -> "sum"
SumsInwardTerms(squash) == MergeRule(squash) = "sum"

Representable(x) == Abs(x) <= F32Max

IsConstant(n) == n.kind = "constant"
IsSupport(n) == n.kind = "constant" /\ n.bias = 1
IsSupportConstant(c, u) == \E i \in DOMAIN c.neurons : c.neurons[i].uuid = u /\ IsSupport(c.neurons[i])

\* Two weights on one readable key as one weight; the empty set refuses.
MergeWeights(rule, w, v, constantSource) ==
  CASE rule = "sum" -> {w + v}
    [] rule = "minWeight" /\ constantSource -> {IF w < v THEN w ELSE v}
    [] rule = "maxWeight" /\ constantSource -> {IF w > v THEN w ELSE v}
    [] OTHER -> {}

SameKey(squash, r, s) ==
  /\ r.from = s.from
  /\ r.to = s.to
  /\ CanonicalRole(squash, r.role) = CanonicalRole(squash, s.role)

\* The rows with one more, merged into the row that holds its readable key;
\* the empty set when that merge would not be exact.
AddRow(c, rows, row) ==
  LET squash == TargetSquash(c, row.to)
      at == Find(rows, LAMBDA r : SameKey(squash, r, row))
  IN IF at = 0 THEN {Append(rows, row)}
     ELSE {[rows EXCEPT ![at].weight = w] :
             w \in MergeWeights(MergeRule(squash), rows[at].weight, row.weight,
                                IsSupportConstant(c, row.from))}

AddRows(c, rows, new) ==
  FoldLeft(LAMBDA S, row : UNION {AddRow(c, s, row) : s \in S}, {rows}, new)

\* The activation of a neuron with no inward row.
ZeroInwardActivation(squash, bias) ==
  CASE squash = "HYPOTv2" -> 0
    [] squash \in Aggregates \ {"HYPOTv2"} -> bias
    [] OTHER -> ApplySquash(squash, bias)

\* {v} when the creature alone fixes u's activation at v, {} when it varies.
FixedActivation(c, u) ==
  IF u \in InputUuids \/ Inward(c, u) # <<>> \/ u \notin Uuids(c) THEN {}
  ELSE {ZeroInwardActivation(TargetSquash(c, u), NeuronAt(c, u).bias)}

\* {arm} when the creature alone decides which arm IF neuron u takes.
StaticConditionBranch(c, u) ==
  LET conditions == SelectSeq(Inward(c, u), LAMBDA r : r.role = "condition")
      value(r) == (CHOOSE v \in FixedActivation(c, r.from) : TRUE) * r.weight
  IN IF \E i \in DOMAIN conditions : FixedActivation(c, conditions[i].from) = {} THEN {}
     ELSE {IF Total([i \in DOMAIN conditions |-> value(conditions[i])]) > 0
             THEN "positive" ELSE "negative"}

ArmRoles(branch) == IF branch = "negative" THEN {"negative"} ELSE {"positive", "standard"}

InwardRoles(c, u) == {r.role : r \in {Inward(c, u)[i] : i \in DOMAIN Inward(c, u)}}
HasPositive(roles) == {"positive", "standard"} \cap roles # {}
IfNeuronFault(c, u) ==
  \/ Len(Inward(c, u)) < 3
  \/ "condition" \notin InwardRoles(c, u)
  \/ ~ HasPositive(InwardRoles(c, u))
  \/ "negative" \notin InwardRoles(c, u)

-----------------------------------------------------------------------------
(* Canonical form *)

OrderNeurons(c) ==
  [c EXCEPT !.neurons = NeuronsOfKind(c, "constant") \o NeuronsOfKind(c, "hidden")
                          \o NeuronsOfKind(c, "output")]

RowBefore(c, r, s) ==
  LET key(x) == <<IndexOf(c, x.from), IndexOf(c, x.to), RoleRank(x.role)>>
  IN \E k \in 1 .. 3 : /\ key(r)[k] < key(s)[k]
                       /\ \A j \in 1 .. k - 1 : key(r)[j] = key(s)[j]

\* Stable insertion sort by (from, to, role).
SortSynapses(c) ==
  LET place(s, row) ==
        LET before == SelectSeq(s, LAMBDA r : ~ RowBefore(c, row, r))
        IN before \o <<row>> \o SelectSeq(s, LAMBDA r : RowBefore(c, row, r))
  IN [c EXCEPT !.synapses = FoldLeft(place, <<>>, @)]

\* Every endpoint exists, uuids are unique, and nothing feeds an input or a
\* constant.
WellReferenced(c) ==
  /\ \A i, j \in DOMAIN c.neurons : c.neurons[i].uuid = c.neurons[j].uuid => i = j
  /\ Uuids(c) \cap InputUuids = {}
  /\ \A r \in RowsOf(c) : /\ {r.from, r.to} \subseteq InputUuids \cup Uuids(c)
                          /\ r.to \notin InputUuids
                          /\ ~ IsConstant(NeuronAt(c, r.to))

\* The neuron rules of creature_validate: kinds in order, constants without
\* squash, no constant or hidden neuron unread, no hidden neuron unfed, no IF
\* short of a role.
NeuronsValid(c) ==
  /\ c.neurons = OrderNeurons(c).neurons
  /\ \A i \in DOMAIN c.neurons :
       LET n == c.neurons[i] IN
       /\ IsConstant(n) => n.squash = NoSquash
       /\ n.kind # "output" => Outward(c, n.uuid) # <<>>
       /\ n.kind = "hidden" => Inward(c, n.uuid) # <<>>
       /\ n.squash = "IF" => ~ IfNeuronFault(c, n.uuid)

\* The synapse rules: sorted, one row per key, a second role only into an IF,
\* and edges that point forwards in a forwardOnly creature.
SynapsesValid(c) ==
  /\ \A i, j \in DOMAIN c.synapses :
       LET r == c.synapses[i]
           s == c.synapses[j]
       IN i < j => /\ RowBefore(c, r, s)
                   /\ r.from = s.from /\ r.to = s.to => TargetSquash(c, r.to) = "IF"
  /\ c.forwardOnly => \A r \in RowsOf(c) : IndexOf(c, r.from) < IndexOf(c, r.to)

Valid(c) == WellReferenced(c) /\ NeuronsValid(c) /\ SynapsesValid(c)
=============================================================================
