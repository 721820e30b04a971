-------------------------------- MODULE Prune --------------------------------
(***************************************************************************)
(* prune_neuron and prune_synapse (neat-core/src/prune_neuron.rs,           *)
(* prune_synapse.rs, prune_rewrite.rs): cut one hidden neuron or one edge,  *)
(* compensate the targets that lost a term, convert aggregates left with a  *)
(* single one, clean up, and grade what came of it.                         *)
(***************************************************************************)
EXTENDS PruneCleanup

CONSTANT Prunings  \* the calls to make: [creature, neuron | key, stats]

VARIABLES
  before,  \* the creature as the caller sent it
  source,  \* the neuron whose term is taken away
  stats,   \* the caller's statistics of it, a set of at most one
  owed,    \* the targets that lost a term and have not been looked at
  touched, \* all of them
  ledger,  \* what was done for them
  label    \* the grade of the whole rewrite

request == <<before, source, stats, touched>>
pruneVars == <<vars, before, source, stats, owed, touched, ledger, label>>

NoLedger == [exact |-> TRUE, bare |-> FALSE, uncompensated |-> {}]

-----------------------------------------------------------------------------
(* Checking the request *)

BadProxy(s, p) ==
  \/ p.variance <= 0
  \/ \E v \in s.variance : p.covariance * p.covariance > v * p.variance
BadStats(s) == (\E v \in s.variance : v < 0) \/ \E p \in s.proxy : BadProxy(s, p)

\* The proxy must be a neuron that survives the cut.
UnknownProxy(cut, s, gone) == \E p \in s.proxy : p.uuid \notin (InputUuids \cup Uuids(cut)) \ gone

Hidden(c, u) == u \in Uuids(c) /\ NeuronAt(c, u).kind = "hidden"

\* The rows one readable key names.
Matched(c, k) ==
  LET squash == TargetSquash(c, k.to) IN SelectSeq(c.synapses, LAMBDA r : SameKey(squash, r, k))

-----------------------------------------------------------------------------
(* The cut *)

\* What u carries out, one entry per target and, at an IF, per role.
OutwardKeys(c, u) ==
  LET entry(r) == [to |-> r.to, squash |-> TargetSquash(c, r.to), weight |-> r.weight,
                   role |-> IF TargetSquash(c, r.to) = "IF" THEN r.role ELSE "standard"]
      add(s, e) == LET at == SelectInSeq(s, LAMBDA x : x.to = e.to /\ x.role = e.role)
                   IN IF at = 0 THEN Append(s, e) ELSE [s EXCEPT ![at].weight = @ + e.weight]
      rows == Outward(c, u)
  IN FoldLeft(add, <<>>, [i \in DOMAIN rows |-> entry(rows[i])])

WithoutNeuron(c, u) == DropNeurons(KeepRows(c, LAMBDA r : u \notin {r.from, r.to}), {u})
WithoutKey(c, k) ==
  LET squash == TargetSquash(c, k.to) IN KeepRows(c, LAMBDA r : ~ SameKey(squash, r, k))

Begin(q, from, cut, keys) ==
  /\ before' = q.creature /\ source' = from /\ stats' = q.stats
  /\ owed' = keys /\ touched' = {keys[i].to : i \in DOMAIN keys}
  /\ cre' = cut /\ pc' = "compensate"
  /\ UNCHANGED <<engine, passes, changed, todo, report, ledger, label>>
Refuse == pc' = "refused" /\ UNCHANGED <<engine, cre, passes, changed, todo, report, owed, ledger, label>>

PruneNeuron(q) ==
  LET c == q.creature
      cut == WithoutNeuron(c, q.neuron)
  IN IF \/ ~ Hidden(c, q.neuron)
        \/ \E s \in q.stats : BadStats(s) \/ UnknownProxy(cut, s, {q.neuron})
     THEN Refuse /\ UNCHANGED request
     ELSE Begin(q, q.neuron, cut, OutwardKeys(c, q.neuron))

PruneSynapse(q) ==
  LET c == q.creature
      k == q.key
      rows == Matched(c, k)
  IN IF \/ k.to \notin Uuids(c) \/ rows = <<>>
        \/ \E s \in q.stats : BadStats(s) \/ UnknownProxy(c, s, {})
     THEN Refuse /\ UNCHANGED request
     ELSE Begin(q, k.from, WithoutKey(c, k),
                << [to |-> k.to, squash |-> TargetSquash(c, k.to),
                    weight |-> Total([i \in DOMAIN rows |-> rows[i].weight]),
                    role |-> CanonicalRole(TargetSquash(c, k.to), k.role)] >>)

RequestNeuron == pc = "idle" /\ \E q \in Prunings : "neuron" \in DOMAIN q /\ PruneNeuron(q)
RequestSynapse == pc = "idle" /\ \E q \in Prunings : "key" \in DOMAIN q /\ PruneSynapse(q)

-----------------------------------------------------------------------------
(* Compensation *)

\* A point-wise target can always take the term in its bias, an aggregate only
\* once it has nothing left to aggregate, an IF never.
FoldPolicy(squash, remaining) ==
  CASE squash = "IF" -> FALSE
    [] squash \in Aggregates \ {"IF"} -> remaining = 0
    [] OTHER -> TRUE

\* What a target that lost weight w is owed, if anything can be derived: the
\* value the creature fixes outranks the caller's statistics.
Compensation(w) ==
  LET fixed == FixedActivation(before, source) IN
  IF fixed # {} THEN {[bias |-> w * v, share |-> 0, exact |-> TRUE] : v \in fixed}
  ELSE UNION {IF s.proxy = {} THEN {[bias |-> w * s.mean, share |-> 0, exact |-> FALSE]}
              ELSE {LET beta == p.covariance \div p.variance
                    IN [bias |-> w * (s.mean - beta * p.mean), share |-> w * beta, exact |-> FALSE] :
                      p \in s.proxy} : s \in stats}

\* Mutant: only a structural value is read the way HYPOT reads its term.
BareCompensationSignedMean(squash, w) ==
  LET fixed == FixedActivation(before, source)
      read(x) == IF squash = "HYPOT" THEN Abs(x) ELSE x
  IN IF fixed # {} THEN {[bias |-> read(w * v), exact |-> TRUE] : v \in fixed}
     ELSE {[bias |-> w * s.mean, exact |-> FALSE] : s \in stats}

\* An emptied aggregate takes the mean alone: a share would have no row to land on.
BareCompensation(squash, w) ==
  LET fixed == FixedActivation(before, source)
      read(x) == IF squash = "HYPOT" THEN Abs(x) ELSE x
  IN IF fixed # {} THEN {[bias |-> read(w * v), exact |-> TRUE] : v \in fixed}
     ELSE {[bias |-> read(w * s.mean), exact |-> FALSE] : s \in stats}

AddToBias(c, u, delta) == EditNeuron(c, u, LAMBDA n : [n EXCEPT !.bias = @ + delta])
SetSquash(c, u, squash) == EditNeuron(c, u, LAMBDA n : [n EXCEPT !.squash = squash])

ProxyRow(c, u) ==
  SelectInSeq(c.synapses, LAMBDA r : r.to = u /\ \E s \in stats : \E p \in s.proxy : r.from = p.uuid)

Target(t) == pc = "compensate" /\ owed # <<>> /\ t = Head(owed)
Remaining(t) == Len(Inward(cre, t.to))
Foldable(t) == FoldPolicy(t.squash, Remaining(t))
Targets == {owed[i] : i \in DOMAIN owed}
Settled(c, l) == /\ cre' = c /\ ledger' = l /\ owed' = Tail(owed)
                 /\ UNCHANGED <<pc, engine, passes, changed, todo, report, request, label>>
Spare(t) == [ledger EXCEPT !.uncompensated =
               @ \cup {[to |-> t.to, role |-> t.role, squash |-> t.squash]}]
Paid(exact, bare) == [ledger EXCEPT !.exact = @ /\ exact, !.bare = @ \/ bare]

\* No fold: the target aggregates, or nothing says what the term was worth.
LeaveShort == \E t \in Targets :
  /\ Target(t)
  /\ Foldable(t) => Compensation(t.weight) = {}
  /\ Settled(cre, Spare(t))

FoldBare == \E t \in Targets :
  /\ Target(t) /\ Foldable(t) /\ t.squash \in Aggregates
  /\ \E x \in BareCompensation(t.squash, t.weight) :
       LET c == AddToBias(cre, t.to, x.bias) IN
       Settled(IF t.squash = "HYPOTv2" THEN SetSquash(c, t.to, "ABSOLUTE") ELSE c,
               Paid(x.exact, TRUE))

FoldBias == \E t \in Targets :
  /\ Target(t) /\ Foldable(t) /\ t.squash \notin Aggregates
  /\ \E x \in Compensation(t.weight) :
       /\ x.share # 0 => ProxyRow(cre, t.to) # 0
       /\ LET c == AddToBias(cre, t.to, x.bias) IN
          Settled(IF x.share = 0 THEN c
                  ELSE [c EXCEPT !.synapses[ProxyRow(cre, t.to)].weight = @ + x.share],
                  Paid(x.exact, FALSE))

MissingProxyEdge == \E t \in Targets :
  /\ Target(t) /\ Foldable(t) /\ t.squash \notin Aggregates
  /\ \E x \in Compensation(t.weight) : x.share # 0 /\ ProxyRow(cre, t.to) = 0
  /\ Refuse /\ UNCHANGED request

-----------------------------------------------------------------------------
(* Conversion, cleanup and the grade *)

\* The point-wise squash a one-term aggregate is the same function as.
Replacement(n) ==
  CASE n.squash \in {"MINIMUM", "MAXIMUM", "MEAN"} -> "IDENTITY"
    [] n.squash = "HYPOTv2" -> "ABSOLUTE"
    [] n.squash = "HYPOT" /\ n.bias = 0 -> "ABSOLUTE"
    [] OTHER -> n.squash

Converted(c, S) ==
  LET single(n) == n.uuid \in S /\ Len(Inward(c, n.uuid)) = 1
      convert(n) == IF single(n) THEN [n EXCEPT !.squash = Replacement(n)] ELSE n
  IN [c EXCEPT !.neurons = [i \in DOMAIN @ |-> convert(@[i])]]

ConvertAndClean ==
  /\ pc = "compensate" /\ owed = <<>>
  /\ Enter(Converted(cre, touched), [ifRepair |-> "rewrite", splice |-> TRUE])
  /\ UNCHANGED <<request, owed, ledger, label>>

\* Mutant: the flattened arm alone is asked.
CostsNothingAfterwards(t) ==
  \E x \in report.static : t.squash = "IF" /\ x.uuid = t.to /\ t.role \notin ArmRoles(x.branch)

\* A term an IF lost cost nothing when the arm the flatten kept is the arm the
\* caller's creature always took, and the term was not in it.
CostsNothing(t) ==
  \E x \in report.static :
    /\ t.squash = "IF" /\ x.uuid = t.to
    /\ StaticConditionBranch(before, t.to) = {x.branch}
    /\ t.role \notin ArmRoles(x.branch)

Grade ==
  /\ pc = "ok" /\ label = "none" /\ source # "none"
  /\ label' = IF /\ ledger.exact /\ report.downgraded = {}
                 /\ \A t \in ledger.uncompensated : CostsNothing(t)
              THEN "exact" ELSE "approximate"
  /\ UNCHANGED <<vars, request, owed, ledger>>

PruneInit == /\ Init /\ before = NoCreature /\ source = "none" /\ stats = {}
             /\ owed = <<>> /\ touched = {} /\ ledger = NoLedger /\ label = "none"

\* cleanup_creature_with, called on a creature for its own sake.
CleanOnly == Call /\ UNCHANGED <<request, owed, ledger, label>>

Cleaning == CleanupStep /\ UNCHANGED <<request, owed, ledger, label>>
PruneStep == LeaveShort \/ FoldBare \/ FoldBias \/ MissingProxyEdge
               \/ ConvertAndClean \/ Cleaning \/ Grade
PruneNext == RequestNeuron \/ RequestSynapse \/ CleanOnly \/ PruneStep
PruneSpec == PruneInit /\ [][PruneNext]_pruneVars

-----------------------------------------------------------------------------
(* What a pruning promises *)

\* "Exact - the pruned creature computes the same number on every record": the
\* grade is only given to a creature that answers the stream as the caller's did.
ExactGradeIsTrue == label = "exact" => Outputs(OrderNeurons(cre)) = Outputs(OrderNeurons(before))

\* On record i the source activates to exactly what the statistics predict.
Predicted(i) ==
  LET act == Activations(before)[i] IN
  \A s \in stats :
    /\ ledger.bare \/ s.proxy = {} => act[source] = s.mean
    /\ \A p \in s.proxy :
         act[source] = s.mean + (p.covariance \div p.variance) * (act[p.uuid] - p.mean)

\* The compensation says what it stands for: where every target took its fold,
\* a record the statistics predict is answered exactly as before, whatever the
\* conversion and the cleanup made of the creature afterwards.
FoldsKeepTheMean ==
  label # "none" /\ ledger.uncompensated = {} =>
    \A i \in DOMAIN RecordStream : Predicted(i) =>
      Outputs(OrderNeurons(cre))[i] = Outputs(OrderNeurons(before))[i]

=============================================================================
