---------------------------- MODULE PruneCleanup ----------------------------
(***************************************************************************)
(* neat-core/src/prune_cleanup.rs: cleanup_creature_with, the fixed-point   *)
(* loop that turns a creature somebody has cut into back into a canonical,  *)
(* valid one without changing what it computes.  One action per rewrite the *)
(* engine applies; the creature is observable between any two of them.      *)
(***************************************************************************)
EXTENDS Creature, FiniteSets

CONSTANTS
  MaxSupportConstants, \* the most constants a canonical creature carries
  MaxNetNew,           \* the most rows a splice may add over those it removes
  SupportNames,        \* names of constants cleanup mints, in order
  F64Max,              \* largest magnitude a stored weight can have
  Requests             \* the calls to make, [creature, options]

ASSUME CleanupAssumption ==
  /\ MaxSupportConstants \in Nat \ {0}
  /\ MaxNetNew \in Nat
  /\ F32Max \in Nat /\ F64Max \in Nat

VARIABLES
  pc,       \* the sub-pass the engine is in
  start,    \* the creature the caller supplied
  options,  \* [ifRepair, splice]
  cre,      \* the engine's creature
  passes,   \* fixed-point passes begun
  changed,  \* has this pass rewritten anything
  todo,     \* uuids the current sub-pass has listed and not yet looked at
  report    \* what was done to the creature, by kind

engine == <<start, options>>
vars == <<pc, start, options, cre, passes, changed, todo, report>>

NoReport == [removed |-> {}, folded |-> {}, rescaled |-> {}, merged |-> {},
             downgraded |-> {}, static |-> {}, restored |-> {}, spliced |-> {}]
NoCreature == [neurons |-> <<>>, synapses |-> <<>>, forwardOnly |-> TRUE]
Finite(x) == Abs(x) <= F64Max

-----------------------------------------------------------------------------
(* Entering and leaving *)

\* check_references, then the loop.
Enter(c, o) ==
  /\ start' = c /\ options' = o /\ cre' = c
  /\ passes' = 0 /\ changed' = FALSE /\ todo' = <<>> /\ report' = NoReport
  /\ pc' = IF WellReferenced(c) THEN "pass" ELSE "references"

Call == /\ pc = "idle"
        /\ \E q \in Requests : Enter(q.creature, q.options)

Fail(error) == /\ pc' = error
               /\ UNCHANGED <<engine, cre, passes, changed, todo, report>>

\* One rewrite: the creature is now c, listed in the report as rep.
Rewrite(c, rep) == /\ cre' = c /\ report' = rep /\ changed' = TRUE
                   /\ UNCHANGED <<engine, passes>>
Proceed(next, list) == /\ pc' = next /\ todo' = list
                       /\ UNCHANGED <<engine, cre, passes, changed, report>>

Cap(c) == 8 + 4 * (Len(c.neurons) + Len(c.synapses))

IfUuids(c) ==
  LET ifs == SelectSeq(c.neurons, LAMBDA n : SquashOf(n) = "IF")
  IN [i \in DOMAIN ifs |-> ifs[i].uuid]

BeginPass ==
  /\ pc = "pass"
  /\ IF passes >= Cap(start) THEN Fail("notStable")
     ELSE /\ passes' = passes + 1 /\ changed' = FALSE
          /\ pc' = "repair" /\ todo' = IfUuids(cre)
          /\ UNCHANGED <<engine, cre, report>>

-----------------------------------------------------------------------------
(* Repairing the IF neurons *)

AsIdentity(n) == [n EXCEPT !.squash = "IDENTITY"]
Plain(r) == [r EXCEPT !.role = "standard"]

Downgrade(c, u) ==
  EditRows(EditNeuron(c, u, AsIdentity), LAMBDA r : r.to = u, Plain)

Flatten(c, u, branch) ==
  LET kept == KeepRows(c, LAMBDA r : r.to # u \/ r.role \in ArmRoles(branch))
  IN Downgrade(kept, u)

Minted(c) == LET i == SelectInSeq(SupportNames, LAMBDA s : s \notin Uuids(c)) IN SupportNames[i]

\* A zero-weight row in the role, from the first constant or a minted one.
RestoreRole(c, u, role) ==
  LET known == NeuronsOfKind(c, "constant")
      support == IF known = <<>> THEN Minted(c) ELSE known[1].uuid
      row == Row(support, u, role, 0)
  IN [c EXCEPT !.neurons = IF known = <<>>
                             THEN Append(@, Neuron(support, "constant", NoSquash, 1)) ELSE @,
               !.synapses = Append(@, row)]

MissingArms(c, u) ==
  LET roles == InwardRoles(c, u) IN
  SelectSeq(<<"positive", "negative">>,
            LAMBDA a : IF a = "negative" THEN a \notin roles ELSE ~ HasPositive(roles))

Repairing(u) == pc = "repair" /\ todo # <<>> /\ u = Head(todo)
NextIf == pc' = pc /\ todo' = Tail(todo)

DowngradeIf == \E u \in Uuids(cre) :
  /\ Repairing(u) /\ options.ifRepair = "downgrade" /\ IfNeuronFault(cre, u)
  /\ Rewrite(Downgrade(cre, u), [report EXCEPT !.downgraded = @ \cup {u}])
  /\ NextIf

FlattenIf == \E u \in Uuids(cre) :
  /\ Repairing(u) /\ options.ifRepair = "rewrite"
  /\ \E branch \in StaticConditionBranch(cre, u) :
       Rewrite(Flatten(cre, u, branch),
               [report EXCEPT !.static = @ \cup {[uuid |-> u, branch |-> branch]}])
  /\ NextIf

RestoreIfRoles == \E u \in Uuids(cre) :
  /\ Repairing(u) /\ options.ifRepair = "rewrite"
  /\ StaticConditionBranch(cre, u) = {} /\ MissingArms(cre, u) # <<>>
  /\ LET arms == MissingArms(cre, u) IN
     Rewrite(FoldLeft(LAMBDA c, role : RestoreRole(c, u, role), cre, arms),
             [report EXCEPT !.restored = @ \cup {<<u, arms[i]>> : i \in DOMAIN arms}])
  /\ NextIf

KeepIf == \E u \in Uuids(cre) :
  /\ Repairing(u)
  /\ IF options.ifRepair = "downgrade" THEN ~ IfNeuronFault(cre, u)
     ELSE StaticConditionBranch(cre, u) = {} /\ MissingArms(cre, u) = <<>>
  /\ Proceed("repair", Tail(todo))

IfsRepaired == pc = "repair" /\ todo = <<>> /\ Proceed("dead", <<>>)

-----------------------------------------------------------------------------
(* Dead structure and constants *)

\* Mutant: constants are left behind.
DeadHidden(c) == {n.uuid : n \in {m \in {c.neurons[i] : i \in DOMAIN c.neurons} :
                                     m.kind = "hidden" /\ Outward(c, m.uuid) = <<>>}}
Dead(c) == {n.uuid : n \in {m \in {c.neurons[i] : i \in DOMAIN c.neurons} :
                               m.kind # "output" /\ Outward(c, m.uuid) = <<>>}}

RemoveDead == /\ pc = "dead" /\ Dead(cre) # {}
              /\ Rewrite(DropNeurons(KeepRows(cre, LAMBDA r : r.to \notin Dead(cre)), Dead(cre)),
                         [report EXCEPT !.removed = @ \cup Dead(cre)])
              /\ UNCHANGED <<pc, todo>>
NothingDead == pc = "dead" /\ Dead(cre) = {} /\ Proceed("normalise", <<>>)

\* Constants lose their squash and deliver 1; each row they feed is scaled.
Normal(c) ==
  LET worth(u) == IF u \in Uuids(c) /\ IsConstant(NeuronAt(c, u)) THEN NeuronAt(c, u).bias ELSE 1
      scaled == EditRows(c, LAMBDA r : TRUE, LAMBDA r : [r EXCEPT !.weight = @ * worth(r.from)])
  IN [scaled EXCEPT !.neurons = [i \in DOMAIN @ |->
        IF IsConstant(@[i]) THEN [@[i] EXCEPT !.squash = NoSquash, !.bias = 1] ELSE @[i]]]
Unscaled(c) == {u \in Uuids(c) : IsConstant(NeuronAt(c, u)) /\ ~ IsSupport(NeuronAt(c, u))}

NormaliseConstants ==
  /\ pc = "normalise"
  /\ \A r \in RowsOf(Normal(cre)) : Finite(r.weight)
  /\ cre' = Normal(cre) /\ changed' = (changed \/ Normal(cre) # cre)
  /\ report' = [report EXCEPT !.rescaled = @ \cup Unscaled(cre)]
  /\ pc' = "cap" /\ UNCHANGED <<engine, passes, todo>>
NormaliseOverflows == /\ pc = "normalise"
                      /\ \E r \in RowsOf(Normal(cre)) : ~ Finite(r.weight)
                      /\ Fail("nonFinite")

\* Would every row of u, moved onto `onto`, either find its key free or merge
\* exactly?
CanRepointOnto(c, u, onto) ==
  LET moving == Outward(c, u)
      key(r) == <<r.to, CanonicalRole(TargetSquash(c, r.to), r.role)>>
      landing == {key(Outward(c, onto)[i]) : i \in DOMAIN Outward(c, onto)}
  IN \A i \in DOMAIN moving :
       MergeRule(TargetSquash(c, moving[i].to)) = "never" =>
         /\ key(moving[i]) \notin landing
         /\ \A j \in 1 .. i - 1 : key(moving[j]) # key(moving[i])

\* u's rows moved onto `onto` and scaled, u itself gone.
RepointOutward(c, u, onto, scale) ==
  LET moving == Outward(c, u)
      moved == [i \in DOMAIN moving |->
                  [moving[i] EXCEPT !.from = onto, !.weight = @ * scale]]
      kept == KeepRows(c, LAMBDA r : r.from # u).synapses
  IN {[DropNeurons(c, {u}) EXCEPT !.synapses = rows] : rows \in AddRows(c, kept, moved)}
Overflows(c, u, scale) ==
  \E i \in DOMAIN Outward(c, u) : ~ Finite(Outward(c, u)[i].weight * scale)

\* The pairs <<surplus, host>> of positions among the constants that can merge.
Mergeable(c) ==
  LET constants == NeuronsOfKind(c, "constant")
  IN {p \in (MaxSupportConstants + 1 .. Len(constants)) \X (1 .. MaxSupportConstants) :
        CanRepointOnto(c, constants[p[1]].uuid, constants[p[2]].uuid)}
FirstPair(S) == CHOOSE p \in S : \A q \in S : p[1] < q[1] \/ (p[1] = q[1] /\ p[2] <= q[2])

MergeSurplus ==
  /\ pc = "cap" /\ Mergeable(cre) # {}
  /\ LET constants == NeuronsOfKind(cre, "constant")
         surplus == constants[FirstPair(Mergeable(cre))[1]].uuid
         host == constants[FirstPair(Mergeable(cre))[2]].uuid
     IN \E c \in RepointOutward(cre, surplus, host, 1) :
          Rewrite(c, [report EXCEPT !.merged = @ \cup {surplus}])
  /\ UNCHANGED <<pc, todo>>
CapEnforced == pc = "cap" /\ Mergeable(cre) = {} /\ Proceed("fold", <<>>)

-----------------------------------------------------------------------------
(* Folding a neuron with nothing to sum *)

Unfed(c) == SelectSeq(c.neurons, LAMBDA n : n.kind = "hidden" /\ Inward(c, n.uuid) = <<>>)
Value(n) == ZeroInwardActivation(n.squash, n.bias)
ReusableSupport(c, u) ==
  SelectSeq(c.neurons, LAMBDA n : IsSupport(n) /\ CanRepointOnto(c, u, n.uuid))
AsConstant(n) == [n EXCEPT !.kind = "constant", !.squash = NoSquash, !.bias = 1]
ScaleOutward(c, u, scale) ==
  EditRows(c, LAMBDA r : r.from = u, LAMBDA r : [r EXCEPT !.weight = @ * scale])

Folding(n) == pc = "fold" /\ Unfed(cre) # <<>> /\ n = Unfed(cre)[1]
\* Mutant: a fold is not reported.
FoldedSilently(n) == report

Folded(n) == [report EXCEPT !.folded = @ \cup {n.uuid}]

FoldOntoSupport == \E i \in DOMAIN cre.neurons : LET n == cre.neurons[i] IN
  /\ Folding(n) /\ ~ Overflows(cre, n.uuid, Value(n))
  /\ ReusableSupport(cre, n.uuid) # <<>>
  /\ \E c \in RepointOutward(cre, n.uuid, ReusableSupport(cre, n.uuid)[1].uuid, Value(n)) :
       Rewrite(c, Folded(n))
  /\ pc' = "canonicalise" /\ UNCHANGED todo

FoldIntoConstant == \E i \in DOMAIN cre.neurons : LET n == cre.neurons[i] IN
  /\ Folding(n) /\ ~ Overflows(cre, n.uuid, Value(n))
  /\ ReusableSupport(cre, n.uuid) = <<>>
  /\ Rewrite(EditNeuron(ScaleOutward(cre, n.uuid, Value(n)), n.uuid, AsConstant), Folded(n))
  /\ pc' = "canonicalise" /\ UNCHANGED todo

FoldOverflows == \E i \in DOMAIN cre.neurons : LET n == cre.neurons[i] IN
  Folding(n) /\ Overflows(cre, n.uuid, Value(n)) /\ Fail("nonFinite")

NothingToFold == pc = "fold" /\ Unfed(cre) = <<>> /\ Proceed("canonicalise", <<>>)

-----------------------------------------------------------------------------
(* Canonical form *)

StripRoles(c) == EditRows(c, LAMBDA r : TargetSquash(c, r.to) # "IF", Plain)

\* One row per readable key; the empty set when two rows cannot be one.
Coalesce(c) == {[c EXCEPT !.synapses = rows] : rows \in AddRows(c, <<>>, c.synapses)}

Canonical(c) == {SortSynapses(OrderNeurons(d)) : d \in Coalesce(StripRoles(c))}

Relays(c) ==
  LET relays == SelectSeq(c.neurons, LAMBDA n : n.kind = "hidden" /\ n.squash = "IDENTITY")
  IN IF options.splice /\ c.forwardOnly
       THEN [i \in DOMAIN relays |-> relays[i].uuid] ELSE <<>>

Canonicalise == /\ pc = "canonicalise"
                /\ \E c \in Canonical(cre) :
                     /\ cre' = c /\ changed' = (changed \/ c # cre)
                     /\ todo' = Relays(c)
                /\ pc' = "splice" /\ UNCHANGED <<engine, passes, report>>
InexactMerge == pc = "canonicalise" /\ Canonical(cre) = {} /\ Fail("inexactMerge")

-----------------------------------------------------------------------------
(* Splicing out IDENTITY relays *)

\* AddRow, refused as well when the merged weight leaves the f32 range.
PlanRow(c, rows, row) ==
  {s \in AddRow(c, rows, row) :
     \A i \in DOMAIN s : SameKey(TargetSquash(c, row.to), s[i], row) => Representable(s[i].weight)}

\* May the relay's rows become rows of its targets at all?
Qualifies(c, n, feeds, outs) ==
  /\ feeds # <<>> /\ outs # <<>>
  /\ \A i \in DOMAIN feeds : feeds[i].from # n.uuid
  /\ \A i \in DOMAIN outs :
       LET squash == TargetSquash(c, outs[i].to) IN
       /\ ~ SumsInwardTerms(squash) => Len(feeds) = 1 /\ n.bias = 0
       /\ squash = "IF" /\ n.bias # 0 => \E j \in DOMAIN c.neurons : IsSupport(c.neurons[j])

\* The rows one outward row of the relay becomes: feed by feed, and at an IF
\* the relay's bias on a row from a support constant into the same role.
Rewired(c, n, feeds, out) ==
  LET isIf == TargetSquash(c, out.to) = "IF"
      role == IF isIf THEN out.role ELSE "standard"
      support == SelectSeq(c.neurons, IsSupport)
  IN [i \in DOMAIN feeds |-> Row(feeds[i].from, out.to, role, feeds[i].weight * out.weight)]
       \o IF isIf /\ n.bias # 0
            THEN <<Row(support[1].uuid, out.to, role, out.weight * n.bias)>> ELSE <<>>

\* What every other target is owed of the relay's bias.
BiasDelta(c, n, u) ==
  LET rows == SelectSeq(Outward(c, n.uuid), LAMBDA r : r.to = u /\ TargetSquash(c, u) # "IF")
  IN n.bias * Total([i \in DOMAIN rows |-> rows[i].weight])

\* The splice may not leave more synapses than the budget allows for.
WithinBudget(c, rows) == Len(rows) - Len(c.synapses) <= MaxNetNew

\* The creature without relay u, when it can go: the empty set keeps it.
PlanSplice(c, u) ==
  LET n == NeuronAt(c, u)
      feeds == Inward(c, u)
      outs == Outward(c, u)
      away == KeepRows(c, LAMBDA r : u \notin {r.from, r.to}).synapses
      new == FlattenSeq([i \in DOMAIN outs |-> Rewired(c, n, feeds, outs[i])])
      plans == FoldLeft(LAMBDA S, row : UNION {PlanRow(c, s, row) : s \in S}, {away}, new)
      owed == [i \in DOMAIN c.neurons |-> BiasDelta(c, n, c.neurons[i].uuid)]
      kept == [c EXCEPT !.neurons = [i \in DOMAIN @ |-> [@[i] EXCEPT !.bias = @ + owed[i]]]]
  IN IF /\ Qualifies(c, n, feeds, outs)
        /\ \A i \in DOMAIN new : Representable(new[i].weight)
        /\ \A i \in DOMAIN outs : n.bias # 0 => Representable(n.bias * outs[i].weight)
        /\ \A i \in DOMAIN c.neurons : owed[i] # 0 => Representable(c.neurons[i].bias + owed[i])
     THEN {[DropNeurons(kept, {u}) EXCEPT !.synapses = rows] :
             rows \in {s \in plans : WithinBudget(c, s)}}
     ELSE {}

Relay(u) == pc = "splice" /\ todo # <<>> /\ u = Head(todo)

SpliceRelay == \E u \in Uuids(cre) :
  /\ Relay(u)
  /\ \E c \in PlanSplice(cre, u) :
       Rewrite(c, [report EXCEPT !.spliced = @ \cup {u}])
  /\ pc' = pc /\ todo' = Tail(todo)
KeepRelay == \E u \in Uuids(cre) :
  Relay(u) /\ PlanSplice(cre, u) = {} /\ Proceed("splice", Tail(todo))
RelaysDone == pc = "splice" /\ todo = <<>> /\ Proceed("end", <<>>)

-----------------------------------------------------------------------------
(* The end of a pass, and of the call *)

AnotherPass == pc = "end" /\ changed /\ Proceed("pass", <<>>)
Finish == /\ pc = "end" /\ ~ changed
          /\ IF Valid(cre) THEN Proceed("ok", <<>>) ELSE Fail("invalid")

Init == /\ pc = "idle" /\ start = NoCreature /\ cre = NoCreature
        /\ options = [ifRepair |-> "rewrite", splice |-> FALSE]
        /\ passes = 0 /\ changed = FALSE /\ todo = <<>> /\ report = NoReport

CleanupStep ==
  \/ BeginPass
  \/ DowngradeIf \/ FlattenIf \/ RestoreIfRoles \/ KeepIf \/ IfsRepaired
  \/ RemoveDead \/ NothingDead
  \/ NormaliseConstants \/ NormaliseOverflows \/ MergeSurplus \/ CapEnforced
  \/ FoldOntoSupport \/ FoldIntoConstant \/ FoldOverflows \/ NothingToFold
  \/ Canonicalise \/ InexactMerge
  \/ SpliceRelay \/ KeepRelay \/ RelaysDone
  \/ AnotherPass \/ Finish

Next == Call \/ CleanupStep
Spec == Init /\ [][Next]_vars

-----------------------------------------------------------------------------
(* What cleanup promises *)

\* The engine has been given its creature.
Entered == start # NoCreature

\* In a forwardOnly creature every edge points forwards in the order the
\* neurons will be listed in.
PointsForwards(c) ==
  c.forwardOnly => \A r \in RowsOf(c) : IndexOf(OrderNeurons(c), r.from) < IndexOf(OrderNeurons(c), r.to)

\* No row says what another row says.
OneRowPerKey(c) ==
  \A i, j \in DOMAIN c.synapses :
    i # j => ~ SameKey(TargetSquash(c, c.synapses[i].to), c.synapses[i], c.synapses[j])

\* "Every rewrite is exact": whatever cleanup has done so far, the creature
\* answers every record of a stream as the one supplied did.  The downgrade of
\* an IF is the one rewrite that is allowed to move an output.
ExactOnEveryRecord ==
  Entered /\ pc # "references" /\ PointsForwards(start) /\ report.downgraded = {} =>
    Outputs(OrderNeurons(cre)) = Outputs(OrderNeurons(start))

\* Cleanup always finishes what a cut leaves behind: it is stable before its pass cap,
\* never asks for a merge it cannot make, and what it built passes both
\* validators.
WreckageIsRepaired ==
  Entered /\ WellReferenced(start) /\ PointsForwards(start) /\ OneRowPerKey(start) =>
    pc \notin {"references", "notStable", "inexactMerge", "invalid"}

\* Nothing disappears unsaid: a neuron missing from the result is one the
\* report names, and the only neurons gained are minted constants, minted for a
\* restored role.
NothingGoesUnreported ==
  pc = "ok" =>
    /\ Uuids(start) \ Uuids(cre) \subseteq
         report.removed \cup report.folded \cup report.merged \cup report.spliced
    /\ Uuids(cre) \ Uuids(start) # {} => report.restored # {}
    /\ report.removed \cup report.merged \cup report.spliced \subseteq
         (Uuids(start) \cup {SupportNames[i] : i \in DOMAIN SupportNames}) \ Uuids(cre)

=============================================================================
