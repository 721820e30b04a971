----------------------------- MODULE GraftProofs -----------------------------
(***************************************************************************)
(* Proofs about grafting (IfGraft), for every host the assumptions allow:   *)
(* what a graft builds, what it leaves of its base, and that what is        *)
(* grafted onto an accepted creature is accepted again.                     *)
(***************************************************************************)
EXTENDS CreatureProofs

-----------------------------------------------------------------------------
(* What a graft builds                                                      *)

\* The names a plan introduces.
LEMMA NamesAre ==
  ASSUME NEW plan, Len(plan.constants) \in Nat
  PROVE  /\ Len(NewNames(plan)) = Len(plan.constants) + 1
         /\ NewNames(plan)[1] = plan.uuid
         /\ \A k \in 1 .. Len(plan.constants) : NewNames(plan)[k + 1] = plan.constants[k].uuid
         /\ Introduced(plan) = {plan.uuid} \cup {plan.constants[k].uuid : k \in 1 .. Len(plan.constants)}
<1> DEFINE m == Len(plan.constants)
           U == {plan.uuid} \cup {plan.constants[k].uuid : k \in 1 .. m}
           one == <<plan.uuid>>
           others == [k \in 1 .. m |-> plan.constants[k].uuid]
           all == one \o others
<1>1. NewNames(plan) = all BY DEF NewNames
<1>2. one \in Seq(U) /\ Len(one) = 1 /\ one[1] = plan.uuid OBVIOUS
<1>3. others \in Seq(U) /\ Len(others) = m /\ \A k \in 1 .. m : others[k] = plan.constants[k].uuid
  <2>1. \A k \in 1 .. m : plan.constants[k].uuid \in U OBVIOUS
  <2> HIDE DEF U
  <2> QED BY <2>1
<1> HIDE DEF one, others, U
<1>4. /\ all \in Seq(U) /\ Len(all) = 1 + m
      /\ \A i \in 1 .. 1 : all[i] = one[i]
      /\ \A i \in 1 .. m : all[1 + i] = others[i]
  <2>1. ASSUME NEW a \in Seq(U), NEW b \in Seq(U), Len(a) = 1, Len(b) = m
        PROVE  /\ a \o b \in Seq(U) /\ Len(a \o b) = 1 + m
               /\ \A i \in 1 .. 1 : (a \o b)[i] = a[i]
               /\ \A i \in 1 .. m : (a \o b)[1 + i] = b[i]
    <3>1. /\ a \o b \in Seq(U) /\ Len(a \o b) = Len(a) + Len(b)
          /\ \A i \in 1 .. Len(a) : (a \o b)[i] = a[i]
          /\ \A i \in 1 .. Len(b) : (a \o b)[Len(a) + i] = b[i]
      BY RulesJoined
    <3> HIDE DEF m
    <3> QED BY <2>1, <3>1
  <2> HIDE DEF m
  <2>2. one \in Seq(U) /\ others \in Seq(U) /\ Len(one) = 1 /\ Len(others) = m BY <1>2, <1>3
  <2> QED BY <2>1, <2>2
<1> HIDE DEF all
<1>5. m \in Nat OBVIOUS
<1> HIDE DEF m
<1>6. all[1] = plan.uuid /\ \A k \in 1 .. m : all[k + 1] = plan.constants[k].uuid BY <1>2, <1>3, <1>4, <1>5
<1>7. DOMAIN all = 1 .. m + 1 BY <1>4, <1>5
<1>8. ToSet(all) = U
  <2>1. ASSUME NEW x \in ToSet(all) PROVE x \in U
    <3>1. PICK i \in 1 .. m + 1 : x = all[i] BY <1>7 DEF ToSet
    <3>2. i = 1 \/ (i - 1 \in 1 .. m /\ (i - 1) + 1 = i) BY <1>5
    <3>3. CASE i = 1 BY <1>6, <3>1, <3>3 DEF U
    <3>4. CASE i - 1 \in 1 .. m /\ (i - 1) + 1 = i BY <1>6, <3>1, <3>4 DEF U
    <3> QED BY <3>2, <3>3, <3>4
  <2>2. ASSUME NEW x \in U PROVE x \in ToSet(all)
    <3>1. CASE x = plan.uuid
      <4>1. 1 \in 1 .. m + 1 BY <1>5
      <4> QED BY <1>6, <1>7, <3>1, <4>1 DEF ToSet
    <3>2. CASE x # plan.uuid
      <4>1. PICK k \in 1 .. m : x = plan.constants[k].uuid BY <2>2, <3>2 DEF U
      <4>2. k + 1 \in 1 .. m + 1 BY <1>5
      <4> QED BY <1>6, <1>7, <4>1, <4>2 DEF ToSet
    <3> QED BY <3>1, <3>2
  <2> QED BY <2>1, <2>2
<1> QED BY <1>1, <1>4, <1>5, <1>6, <1>8 DEF Introduced, U, m

\* What the rules on names, on the edges and on the place leave of a plan.
NamesFit(E, plan) ==
  /\ plan.uuid \notin DOMAIN Wire(E) /\ plan.bias = "finite"
  /\ \A k \in 1 .. Len(plan.constants) :
       /\ plan.constants[k].uuid \notin DOMAIN Wire(E) /\ plan.constants[k].uuid # plan.uuid
       /\ plan.constants[k].bias = "finite"
       /\ \A j \in 1 .. k - 1 : plan.constants[j].uuid # plan.constants[k].uuid

InboundFit(E, plan) ==
  \A k \in 1 .. Len(plan.inbound) :
    LET e == plan.inbound[k] IN
    /\ e.uuid # plan.uuid /\ e.uuid \in Introduced(plan) \cup DOMAIN Wire(E)
    /\ \A j \in 1 .. k - 1 : plan.inbound[j].uuid = e.uuid =>
         plan.inbound[j].branch # e.branch /\ plan.squash = "IF"

TargetsFit(E, plan) ==
  \A k \in 1 .. Len(plan.targets) :
    LET e == plan.targets[k] IN
    /\ AtWire(E, e.uuid) >= E.input /\ AtWire(E, e.uuid) # Nowhere
    /\ e.uuid \notin Introduced(plan) /\ NeuronAt(E, e.uuid).type # "constant"
    /\ \A j \in 1 .. k - 1 : plan.targets[j].uuid = e.uuid =>
         plan.targets[j].role # e.role /\ NeuronAt(E, e.uuid).squash = "IF"

Fits(E, plan) ==
  NamesFit(E, plan) /\ InboundFit(E, plan) /\ TargetsFit(E, plan) /\ Earliest(E, plan) <= Latest(E, plan)

PlacementNames ==
  {"MissingConditionSynapse", "MissingPositiveSynapse", "MissingNegativeSynapse", "DuplicateUuid",
   "NonFiniteBias", "NoSources", "NoTargets", "InboundEdgeHasRole", "SelfEdge", "NonFiniteWeight",
   "DuplicateEdge", "TypedDuplicateEdge", "UnknownSourceUuid", "TargetIsConstant", "UnknownTargetUuid",
   "TargetIsInput", "ConstantAfterPosition", "ForwardOrderViolation"}

LEMMA NameRulesFit ==
  ASSUME NEW E, NEW plan, IsPlan(plan)
  PROVE  /\ NameRules(E, plan) \in Seq(PlacementNames \X BOOLEAN)
         /\ FirstBroken(NameRules(E, plan)) = "ok" => NamesFit(E, plan)
<1> DEFINE N == PlacementNames
           R == N \X BOOLEAN
           m == Len(plan.constants)
           taken(k) == \/ NewNames(plan)[k] \in DOMAIN Wire(E)
                       \/ \E j \in 1 .. k - 1 : NewNames(plan)[j] = NewNames(plan)[k]
           a == [k \in 1 .. Len(NewNames(plan)) |-> <<"DuplicateUuid", taken(k)>>]
           A == plan.bias # "finite"
           B == \E k \in 1 .. Len(plan.constants) : plan.constants[k].bias # "finite"
           b == << <<"NonFiniteBias", A>>, <<"NonFiniteBias", B>> >>
<1>1. m \in Nat BY DEF IsPlan
<1>2. Len(NewNames(plan)) = m + 1 BY <1>1, NamesAre
<1>3. NameRules(E, plan) = a \o b BY DEF NameRules
<1>4. "ok" \notin N BY DEF PlacementNames
<1>5. A \in BOOLEAN /\ B \in BOOLEAN /\ \A k : taken(k) \in BOOLEAN OBVIOUS
<1> HIDE DEF A, B, taken, m
<1>6. a \in Seq(R) /\ Len(a) = m + 1 /\ \A k \in 1 .. m + 1 : a[k][2] = taken(k)
  <2>1. \A k : <<"DuplicateUuid", taken(k)>> \in R BY <1>5 DEF PlacementNames
  <2> HIDE DEF R
  <2> QED BY <1>1, <1>2, <2>1
<1>7. b \in Seq(R) /\ Len(b) = 2 /\ b[1][2] = A /\ b[2][2] = B
  <2>1. <<"NonFiniteBias", A>> \in R /\ <<"NonFiniteBias", B>> \in R BY <1>5 DEF PlacementNames
  <2> HIDE DEF R
  <2> QED BY <2>1
<1> HIDE DEF a, b
<1>8. /\ a \o b \in Seq(R)
      /\ FirstBroken(a \o b) = "ok" => (\A k \in 1 .. m + 1 : ~taken(k)) /\ ~A /\ ~B
  <2>1. a \o b \in Seq(R) /\ (FirstBroken(a \o b) = "ok" => FirstBroken(a) = "ok" /\ FirstBroken(b) = "ok")
    <3> HIDE DEF N
    <3> QED BY <1>4, <1>6, <1>7, PartsUnbroken
  <2>2. FirstBroken(a) = "ok" => \A k \in 1 .. m + 1 : ~taken(k)
    <3> HIDE DEF N
    <3> QED BY <1>4, <1>6, FirstBrokenIs
  <2>3. FirstBroken(b) = "ok" => ~A /\ ~B
    <3>1. FirstBroken(b) = "ok" => \A k \in 1 .. 2 : ~b[k][2]
      <4> HIDE DEF N
      <4> QED BY <1>4, <1>7, FirstBrokenIs
    <3>2. 1 \in 1 .. 2 /\ 2 \in 1 .. 2 OBVIOUS
    <3> QED BY <1>7, <3>1, <3>2
  <2> QED BY <2>1, <2>2, <2>3
<1>9. ASSUME \A k \in 1 .. m + 1 : ~taken(k), ~A, ~B PROVE NamesFit(E, plan)
  <2>1. /\ NewNames(plan)[1] = plan.uuid
        /\ \A k \in 1 .. m : NewNames(plan)[k + 1] = plan.constants[k].uuid
    BY <1>1, NamesAre DEF m
  <2>2. plan.uuid \notin DOMAIN Wire(E)
    <3>1. 1 \in 1 .. m + 1 BY <1>1
    <3> QED BY <1>9, <2>1, <3>1 DEF taken
  <2>3. ASSUME NEW k \in 1 .. m
        PROVE  /\ plan.constants[k].uuid \notin DOMAIN Wire(E) /\ plan.constants[k].uuid # plan.uuid
               /\ \A j \in 1 .. k - 1 : plan.constants[j].uuid # plan.constants[k].uuid
    <3>1. k + 1 \in 1 .. m + 1 /\ 1 \in 1 .. (k + 1) - 1 BY <1>1
    <3>2. \A j \in 1 .. k - 1 : j + 1 \in 1 .. (k + 1) - 1 /\ j \in 1 .. m BY <1>1
    <3>3. /\ NewNames(plan)[k + 1] \notin DOMAIN Wire(E)
          /\ \A j \in 1 .. (k + 1) - 1 : NewNames(plan)[j] # NewNames(plan)[k + 1]
      BY <1>9, <3>1 DEF taken
    <3> QED BY <2>1, <3>1, <3>2, <3>3
  <2>4. plan.bias = "finite" /\ \A k \in 1 .. m : plan.constants[k].bias = "finite" BY <1>9 DEF A, B, m
  <2> QED BY <2>2, <2>3, <2>4 DEF NamesFit, m
<1> QED BY <1>3, <1>8, <1>9

LEMMA InboundRulesFit ==
  ASSUME NEW E, NEW plan, IsPlan(plan)
  PROVE  /\ \A k \in 1 .. Len(plan.inbound) : InboundRules(E, plan, k) \in Seq(PlacementNames \X BOOLEAN)
         /\ (\A k \in 1 .. Len(plan.inbound) : FirstBroken(InboundRules(E, plan, k)) = "ok") =>
              InboundFit(E, plan)
<1> DEFINE N == PlacementNames
           R == N \X BOOLEAN
<1>1. "ok" \notin N BY DEF PlacementNames
<1>2. ASSUME NEW k \in 1 .. Len(plan.inbound)
      PROVE  /\ InboundRules(E, plan, k) \in Seq(R)
             /\ FirstBroken(InboundRules(E, plan, k)) = "ok" =>
                  LET e == plan.inbound[k] IN
                  /\ e.uuid # plan.uuid /\ e.uuid \in Introduced(plan) \cup DOMAIN Wire(E)
                  /\ \A j \in 1 .. k - 1 : plan.inbound[j].uuid = e.uuid =>
                       plan.inbound[j].branch # e.branch /\ plan.squash = "IF"
  <2> DEFINE e == plan.inbound[k]
             same == {j \in 1 .. k - 1 : plan.inbound[j].uuid = e.uuid}
             A == e.role # Standard
             B == e.uuid = plan.uuid
             C == e.weight # "finite"
             D == \E j \in same : plan.inbound[j].branch = e.branch
             F == same # {} /\ plan.squash # "IF"
             G == e.uuid \notin Introduced(plan) \cup DOMAIN Wire(E)
             s == << <<"InboundEdgeHasRole", A>>, <<"SelfEdge", B>>, <<"NonFiniteWeight", C>>,
                     <<"DuplicateEdge", D>>, <<"TypedDuplicateEdge", F>>, <<"UnknownSourceUuid", G>> >>
  <2>1. InboundRules(E, plan, k) = s BY DEF InboundRules
  <2>2. /\ A \in BOOLEAN /\ B \in BOOLEAN /\ C \in BOOLEAN /\ D \in BOOLEAN /\ F \in BOOLEAN /\ G \in BOOLEAN
    OBVIOUS
  <2>3. ASSUME ~B, ~D, ~F, ~G
        PROVE  /\ e.uuid # plan.uuid /\ e.uuid \in Introduced(plan) \cup DOMAIN Wire(E)
               /\ \A j \in 1 .. k - 1 : plan.inbound[j].uuid = e.uuid =>
                    plan.inbound[j].branch # e.branch /\ plan.squash = "IF"
    BY <2>3
  <2> HIDE DEF A, B, C, D, F, G, e, same
  <2>4. /\ <<"InboundEdgeHasRole", A>> \in R /\ <<"SelfEdge", B>> \in R /\ <<"NonFiniteWeight", C>> \in R
        /\ <<"DuplicateEdge", D>> \in R /\ <<"TypedDuplicateEdge", F>> \in R
        /\ <<"UnknownSourceUuid", G>> \in R
    BY <2>2 DEF PlacementNames
  <2>5. s \in Seq(R) /\ Len(s) = 6 /\ s[2][2] = B /\ s[4][2] = D /\ s[5][2] = F /\ s[6][2] = G
    <3> HIDE DEF R
    <3> QED BY <2>4
  <2> HIDE DEF s
  <2>6. FirstBroken(s) = "ok" => \A i \in 1 .. 6 : ~s[i][2]
    <3> HIDE DEF N
    <3> QED BY <1>1, <2>5, FirstBrokenIs
  <2>7. 2 \in 1 .. 6 /\ 4 \in 1 .. 6 /\ 5 \in 1 .. 6 /\ 6 \in 1 .. 6 OBVIOUS
  <2>8. FirstBroken(s) = "ok" => ~B /\ ~D /\ ~F /\ ~G BY <2>5, <2>6, <2>7
  <2> QED BY <2>1, <2>3, <2>5, <2>8 DEF e
<1> QED BY <1>2 DEF InboundFit

LEMMA TargetRulesFit ==
  ASSUME NEW E, NEW plan, IsPlan(plan)
  PROVE  /\ \A k \in 1 .. Len(plan.targets) : TargetRules(E, plan, k) \in Seq(PlacementNames \X BOOLEAN)
         /\ (\A k \in 1 .. Len(plan.targets) : FirstBroken(TargetRules(E, plan, k)) = "ok") =>
              TargetsFit(E, plan)
<1> DEFINE N == PlacementNames
           R == N \X BOOLEAN
<1>1. "ok" \notin N BY DEF PlacementNames
<1>2. ASSUME NEW k \in 1 .. Len(plan.targets)
      PROVE  /\ TargetRules(E, plan, k) \in Seq(R)
             /\ FirstBroken(TargetRules(E, plan, k)) = "ok" =>
                  LET e == plan.targets[k] IN
                  /\ AtWire(E, e.uuid) >= E.input /\ AtWire(E, e.uuid) # Nowhere
                  /\ e.uuid \notin Introduced(plan) /\ NeuronAt(E, e.uuid).type # "constant"
                  /\ \A j \in 1 .. k - 1 : plan.targets[j].uuid = e.uuid =>
                       plan.targets[j].role # e.role /\ NeuronAt(E, e.uuid).squash = "IF"
  <2> DEFINE e == plan.targets[k]
             same == {j \in 1 .. k - 1 : plan.targets[j].uuid = e.uuid}
             listed == AtWire(E, e.uuid) >= E.input
             A == e.uuid = plan.uuid
             B == e.weight # "finite"
             C == \E j \in same : plan.targets[j].role = e.role
             D == e.uuid \in Introduced(plan)
             F == AtWire(E, e.uuid) = Nowhere
             G == ~listed
             H == listed /\ NeuronAt(E, e.uuid).type = "constant"
             I == same # {} /\ listed /\ NeuronAt(E, e.uuid).squash # "IF"
             s == << <<"SelfEdge", A>>, <<"NonFiniteWeight", B>>, <<"DuplicateEdge", C>>,
                     <<"TargetIsConstant", D>>, <<"UnknownTargetUuid", F>>, <<"TargetIsInput", G>>,
                     <<"TargetIsConstant", H>>, <<"TypedDuplicateEdge", I>> >>
  <2>1. TargetRules(E, plan, k) = s BY DEF TargetRules
  <2>2. /\ A \in BOOLEAN /\ B \in BOOLEAN /\ C \in BOOLEAN /\ D \in BOOLEAN /\ F \in BOOLEAN
        /\ G \in BOOLEAN /\ H \in BOOLEAN /\ I \in BOOLEAN
    OBVIOUS
  <2>3. ASSUME ~C, ~D, ~F, ~G, ~H, ~I
        PROVE  /\ AtWire(E, e.uuid) >= E.input /\ AtWire(E, e.uuid) # Nowhere
               /\ e.uuid \notin Introduced(plan) /\ NeuronAt(E, e.uuid).type # "constant"
               /\ \A j \in 1 .. k - 1 : plan.targets[j].uuid = e.uuid =>
                    plan.targets[j].role # e.role /\ NeuronAt(E, e.uuid).squash = "IF"
    BY <2>3
  <2> HIDE DEF A, B, C, D, F, G, H, I, e, same, listed
  <2>4. /\ <<"SelfEdge", A>> \in R /\ <<"NonFiniteWeight", B>> \in R /\ <<"DuplicateEdge", C>> \in R
        /\ <<"TargetIsConstant", D>> \in R /\ <<"UnknownTargetUuid", F>> \in R /\ <<"TargetIsInput", G>> \in R
        /\ <<"TargetIsConstant", H>> \in R /\ <<"TypedDuplicateEdge", I>> \in R
    BY <2>2 DEF PlacementNames
  <2>5. /\ s \in Seq(R) /\ Len(s) = 8 /\ s[3][2] = C /\ s[4][2] = D /\ s[5][2] = F /\ s[6][2] = G
        /\ s[7][2] = H /\ s[8][2] = I
    <3> HIDE DEF R
    <3> QED BY <2>4
  <2> HIDE DEF s
  <2>6. FirstBroken(s) = "ok" => \A i \in 1 .. 8 : ~s[i][2]
    <3> HIDE DEF N
    <3> QED BY <1>1, <2>5, FirstBrokenIs
  <2>7. \A i \in 3 .. 8 : i \in 1 .. 8 OBVIOUS
  <2>8. FirstBroken(s) = "ok" => ~C /\ ~D /\ ~F /\ ~G /\ ~H /\ ~I BY <2>5, <2>6, <2>7
  <2> QED BY <2>1, <2>3, <2>5, <2>8 DEF e
<1> QED BY <1>2 DEF TargetsFit

\* A plan that passes its rules fits.
LEMMA PlacementFits ==
  ASSUME NEW E, IsExport(E), NEW plan, IsPlan(plan), NEW requireTargets \in BOOLEAN, NEW spec,
         FirstBroken(PlanRules(spec) \o PlacementRules(E, plan, requireTargets)) = "ok"
  PROVE  Fits(E, plan)
<1> DEFINE N == PlacementNames
           R == N \X BOOLEAN
           A == plan.inbound = <<>>
           B == requireTargets /\ plan.targets = <<>>
           C == Constants(E) # {} /\ Max(Constants(E)) > Latest(E, plan)
           D == Earliest(E, plan) > Latest(E, plan)
           ends == << <<"NoSources", A>>, <<"NoTargets", B>> >>
           last == << <<"ConstantAfterPosition", C>>, <<"ForwardOrderViolation", D>> >>
           ins == [k \in 1 .. Len(plan.inbound) |-> InboundRules(E, plan, k)]
           outs == [k \in 1 .. Len(plan.targets) |-> TargetRules(E, plan, k)]
           checked == NameRules(E, plan) \o ends \o FlattenSeq(ins) \o FlattenSeq(outs)
           rules == PlacementRules(E, plan, requireTargets)
<1>0. "ok" \notin N /\ Len(plan.inbound) \in Nat /\ Len(plan.targets) \in Nat BY DEF PlacementNames, IsPlan
<1>1. ASSUME NEW a \in Seq(R), NEW b \in Seq(R)
      PROVE  a \o b \in Seq(R) /\ (FirstBroken(a \o b) = "ok" => FirstBroken(a) = "ok" /\ FirstBroken(b) = "ok")
  <2> HIDE DEF N
  <2> QED BY <1>0, PartsUnbroken
<1>2. ASSUME NEW s \in Seq(Seq(R))
      PROVE  /\ FlattenSeq(s) \in Seq(R)
             /\ FirstBroken(FlattenSeq(s)) = "ok" => \A i \in 1 .. Len(s) : FirstBroken(s[i]) = "ok"
  <2> HIDE DEF N
  <2> QED BY <1>0, FlatUnbroken
<1>3. ends \in Seq(R)
  <2>1. A \in BOOLEAN /\ B \in BOOLEAN OBVIOUS
  <2> HIDE DEF A, B
  <2>2. <<"NoSources", A>> \in R /\ <<"NoTargets", B>> \in R BY <2>1 DEF PlacementNames
  <2> HIDE DEF R
  <2> QED BY <2>2
<1>4. last \in Seq(R) /\ Len(last) = 2 /\ last[2][2] = D
  <2>1. C \in BOOLEAN /\ D \in BOOLEAN OBVIOUS
  <2> HIDE DEF C, D
  <2>2. <<"ConstantAfterPosition", C>> \in R /\ <<"ForwardOrderViolation", D>> \in R BY <2>1 DEF PlacementNames
  <2> HIDE DEF R
  <2> QED BY <2>2
<1>5. ins \in Seq(Seq(R)) /\ Len(ins) = Len(plan.inbound)
      /\ \A k \in 1 .. Len(plan.inbound) : ins[k] = InboundRules(E, plan, k)
  <2>1. \A k \in 1 .. Len(plan.inbound) : InboundRules(E, plan, k) \in Seq(R) BY InboundRulesFit
  <2> HIDE DEF R
  <2> QED BY <1>0, <2>1
<1>6. outs \in Seq(Seq(R)) /\ Len(outs) = Len(plan.targets)
      /\ \A k \in 1 .. Len(plan.targets) : outs[k] = TargetRules(E, plan, k)
  <2>1. \A k \in 1 .. Len(plan.targets) : TargetRules(E, plan, k) \in Seq(R) BY TargetRulesFit
  <2> HIDE DEF R
  <2> QED BY <1>0, <2>1
<1>7. rules = IF FirstBroken(checked) # "ok" THEN checked ELSE last BY DEF PlacementRules
<1>8. PlanRules(spec) \in Seq(R)
  <2>1. CASE spec.kind # "if"
    <3>1. PlanRules(spec) = <<>> BY <2>1 DEF PlanRules
    <3> QED BY <3>1, EmptySeq
  <2>2. CASE spec.kind = "if"
    <3> DEFINE P == spec.condition = <<>>
               Q == spec.positive = <<>>
               S == spec.negative = <<>>
               s == << <<"MissingConditionSynapse", P>>, <<"MissingPositiveSynapse", Q>>,
                       <<"MissingNegativeSynapse", S>> >>
    <3>1. PlanRules(spec) = s /\ P \in BOOLEAN /\ Q \in BOOLEAN /\ S \in BOOLEAN BY <2>2 DEF PlanRules
    <3> HIDE DEF P, Q, S
    <3>2. /\ <<"MissingConditionSynapse", P>> \in R /\ <<"MissingPositiveSynapse", Q>> \in R
          /\ <<"MissingNegativeSynapse", S>> \in R
      BY <3>1 DEF PlacementNames
    <3> HIDE DEF R
    <3> QED BY <3>1, <3>2
  <2> QED BY <2>1, <2>2
<1>9. NameRules(E, plan) \in Seq(R) BY NameRulesFit
<1> HIDE DEF ends, last, ins, outs, rules, R, D
<1>10. /\ checked \in Seq(R)
       /\ FirstBroken(checked) = "ok" => /\ FirstBroken(NameRules(E, plan)) = "ok"
                                         /\ FirstBroken(FlattenSeq(ins)) = "ok"
                                         /\ FirstBroken(FlattenSeq(outs)) = "ok"
  <2>1. NameRules(E, plan) \o ends \in Seq(R) BY <1>1, <1>3, <1>9
  <2>2. FlattenSeq(ins) \in Seq(R) /\ FlattenSeq(outs) \in Seq(R) BY <1>2, <1>5, <1>6
  <2>3. NameRules(E, plan) \o ends \o FlattenSeq(ins) \in Seq(R) BY <1>1, <2>1, <2>2
  <2> QED BY <1>1, <1>3, <1>9, <2>1, <2>2, <2>3
<1> HIDE DEF checked
<1>11. rules \in Seq(R) BY <1>4, <1>7, <1>10
<1>12. FirstBroken(rules) = "ok" BY <1>1, <1>8, <1>11 DEF rules
<1>13. FirstBroken(checked) = "ok" /\ rules = last BY <1>7, <1>12
<1>14. NamesFit(E, plan) BY <1>10, <1>13, NameRulesFit
<1>15. InboundFit(E, plan)
  <2>1. \A k \in 1 .. Len(plan.inbound) : FirstBroken(InboundRules(E, plan, k)) = "ok"
    BY <1>2, <1>5, <1>10, <1>13
  <2> QED BY <2>1, InboundRulesFit
<1>16. TargetsFit(E, plan)
  <2>1. \A k \in 1 .. Len(plan.targets) : FirstBroken(TargetRules(E, plan, k)) = "ok"
    BY <1>2, <1>6, <1>10, <1>13
  <2> QED BY <2>1, TargetRulesFit
<1>17. ~D
  <2>1. FirstBroken(last) = "ok" => \A i \in 1 .. 2 : ~last[i][2]
    <3> HIDE DEF N
    <3> QED BY <1>0, <1>4, FirstBrokenIs DEF R
  <2>2. 2 \in 1 .. 2 OBVIOUS
  <2> QED BY <1>4, <1>12, <1>13, <2>1, <2>2
<1>18. Earliest(E, plan) \in Int /\ Latest(E, plan) \in Int
  <2>1. Earliest(E, plan) \in Int
    <3>1. Place(E, plan) \in 0 .. Len(E.neurons) BY PlaceFits
    <3> QED BY <3>1 DEF Place
  <2>2. Latest(E, plan) \in Int
    <3> DEFINE n == Len(E.neurons)
               T == {AtWire(E, plan.targets[k].uuid) - E.input : k \in 1 .. Len(plan.targets)}
               S == {n} \cup T
    <3>1. E.input \in Nat /\ n \in Nat BY LenProperties DEF IsExport
    <3>2. \A x \in T : x \in Int /\ -1 - E.input <= x
      <4>1. \A u : AtWire(E, u) \in -1 .. E.input + n - 1 BY WireTyped
      <4>2. \A u : AtWire(E, u) - E.input \in Int /\ -1 - E.input <= AtWire(E, u) - E.input
        <5> HIDE DEF n
        <5> QED BY <3>1, <4>1
      <4> QED BY <4>2
    <3> HIDE DEF T, n
    <3>3. /\ S \in SUBSET Int /\ S # {} /\ -1 - E.input \in Int
          /\ \A x \in S : -1 - E.input <= x
      BY <3>1, <3>2
    <3> HIDE DEF S
    <3>4. Min(S) \in S BY <3>3, MinIs
    <3> QED BY <3>3, <3>4 DEF Latest, S, T, n
  <2> QED BY <2>1, <2>2
<1> QED BY <1>14, <1>15, <1>16, <1>17, <1>18 DEF Fits, D

\* Two sequences keep the same where f leads along the one as the other is walked,
\* and every member passed over is dropped.
Along(f, s, K, t, L) ==
  /\ f \in [0 .. Len(t) -> 0 .. Len(s)] /\ f[0] = 0 /\ f[Len(t)] = Len(s)
  /\ \A k \in 1 .. Len(t) :
       \/ k \notin L /\ f[k] = f[k - 1]
       \/ f[k] = f[k - 1] + 1 /\ t[k] = s[f[k]] /\ (k \in L <=> f[k] \in K)

LEMMA KeptAlong ==
  ASSUME NEW U, NEW s \in Seq(U), NEW t \in Seq(U), NEW K, NEW L, NEW f, Along(f, s, K, t, L)
  PROVE  KeptOf(t, L) = KeptOf(s, K)
<1> DEFINE n == Len(t)
           m == Len(s)
<1>1. n \in Nat /\ m \in Nat BY LenProperties
<1>2. PICK g \in [0 .. m -> Seq(U)] :
           /\ g[0] = <<>> /\ g[m] = KeptOf(s, K)
           /\ \A k \in 1 .. m : g[k] = IF k \in K THEN Append(g[k - 1], s[k]) ELSE g[k - 1]
  <2>1. \E g \in [0 .. Len(s) -> Seq(U)] : Keeps(g, s, K) BY KeptStepwise
  <2> QED BY <2>1 DEF Keeps
<1>3. PICK h \in [0 .. n -> Seq(U)] :
           /\ h[0] = <<>> /\ h[n] = KeptOf(t, L)
           /\ \A k \in 1 .. n : h[k] = IF k \in L THEN Append(h[k - 1], t[k]) ELSE h[k - 1]
  <2>1. \E h \in [0 .. Len(t) -> Seq(U)] : Keeps(h, t, L) BY KeptStepwise
  <2> QED BY <2>1 DEF Keeps
<1>4. /\ f \in [0 .. n -> 0 .. m] /\ f[0] = 0 /\ f[n] = m
      /\ \A k \in 1 .. n :
           \/ k \notin L /\ f[k] = f[k - 1]
           \/ f[k] = f[k - 1] + 1 /\ t[k] = s[f[k]] /\ (k \in L <=> f[k] \in K)
  BY DEF Along
<1> HIDE DEF n, m
<1> DEFINE T == {k \in 0 .. n : h[k] = g[f[k]]}
<1>5. 0 \in T
  <2>1. 0 \in 0 .. n BY <1>1
  <2> QED BY <1>2, <1>3, <1>4, <2>1
<1>6. ASSUME NEW k \in 1 .. n, k - 1 \in T PROVE k \in T
  <2>1. k \in 0 .. n /\ k - 1 \in 0 .. n /\ h[k - 1] = g[f[k - 1]] BY <1>1, <1>6
  <2>2. CASE k \notin L /\ f[k] = f[k - 1] BY <1>3, <2>1, <2>2
  <2>3. CASE f[k] = f[k - 1] + 1 /\ t[k] = s[f[k]] /\ (k \in L <=> f[k] \in K)
    <3>1. f[k] \in 0 .. m /\ f[k - 1] \in 0 .. m BY <1>4, <2>1
    <3>2. f[k] \in 1 .. m /\ f[k] - 1 = f[k - 1]
      <4>1. \A x, y \in 0 .. m : x = y + 1 => x \in 1 .. m /\ x - 1 = y BY <1>1
      <4> QED BY <2>3, <3>1, <4>1
    <3>3. g[f[k]] = IF f[k] \in K THEN Append(g[f[k] - 1], s[f[k]]) ELSE g[f[k] - 1] BY <1>2, <3>2
    <3> QED BY <1>3, <2>1, <2>3, <3>2, <3>3
  <2> QED BY <1>4, <2>2, <2>3
<1>7. 0 .. n \subseteq T
  <2> HIDE DEF T
  <2> QED BY <1>1, <1>5, <1>6, InductionUpTo
<1>8. n \in 0 .. n BY <1>1
<1> QED BY <1>2, <1>3, <1>4, <1>7, <1>8

\* Who keeps every member keeps the sequence.
LEMMA KeptWhole ==
  ASSUME NEW U, NEW s \in Seq(U), NEW K, 1 .. Len(s) \subseteq K
  PROVE  KeptOf(s, K) = s
<1> DEFINE n == Len(s)
<1>1. n \in Nat /\ \A k \in 1 .. n : s[k] \in U BY LenProperties, ElementOfSeq
<1>2. PICK g \in [0 .. n -> Seq(U)] :
           /\ g[0] = <<>> /\ g[n] = KeptOf(s, K)
           /\ \A k \in 1 .. n : g[k] = IF k \in K THEN Append(g[k - 1], s[k]) ELSE g[k - 1]
  <2>1. \E g \in [0 .. Len(s) -> Seq(U)] : Keeps(g, s, K) BY KeptStepwise
  <2> QED BY <2>1 DEF Keeps
<1>3. \A k \in 1 .. n : g[k] = Append(g[k - 1], s[k]) BY <1>2
<1> HIDE DEF n
<1> DEFINE T == {k \in 0 .. n : Len(g[k]) = k /\ \A i \in 1 .. k : g[k][i] = s[i]}
<1>4. 0 \in T
  <2>1. 0 \in 0 .. n /\ Len(g[0]) = 0 BY <1>1, <1>2
  <2> QED BY <2>1
<1>5. ASSUME NEW k \in 1 .. n, k - 1 \in T PROVE k \in T
  <2> DEFINE a == g[k - 1]
             b == g[k]
  <2>1. k \in 0 .. n /\ k - 1 \in 0 .. n BY <1>1
  <2>2. a \in Seq(U) /\ Len(a) = k - 1 /\ (\A i \in 1 .. k - 1 : a[i] = s[i]) /\ s[k] \in U
    BY <1>1, <1>2, <1>5, <2>1
  <2>3. b = Append(a, s[k]) BY <1>3
  <2> HIDE DEF a, b
  <2>4. Len(b) = Len(a) + 1 /\ (\A i \in 1 .. Len(a) : b[i] = a[i]) /\ b[Len(a) + 1] = s[k]
    BY <2>2, <2>3, AppendProperties
  <2>5. Len(b) = k /\ \A i \in 1 .. k - 1 : b[i] = s[i] BY <1>1, <2>2, <2>4
  <2>6. b[k] = s[k]
    <3>1. Len(a) + 1 = k BY <1>1, <2>2
    <3> QED BY <2>4, <3>1
  <2>7. \A i \in 1 .. k : i = k \/ i \in 1 .. k - 1 BY <1>1
  <2>8. Len(b) = k /\ \A i \in 1 .. k : b[i] = s[i] BY <2>5, <2>6, <2>7
  <2> QED BY <2>1, <2>8 DEF b
<1>6. 0 .. n \subseteq T
  <2> HIDE DEF T
  <2> QED BY <1>1, <1>4, <1>5, InductionUpTo
<1>7. n \in 0 .. n BY <1>1
<1>8. g[n] \in Seq(U) /\ Len(g[n]) = n /\ \A i \in 1 .. n : g[n][i] = s[i] BY <1>2, <1>6, <1>7
<1> DEFINE x == g[n]
<1> HIDE DEF x
<1>9. x \in Seq(U) /\ Len(x) = Len(s) /\ \A i \in 1 .. Len(s) : x[i] = s[i] BY <1>8 DEF x, n
<1>10. x = s BY <1>9, SeqEqual
<1> QED BY <1>2, <1>10 DEF x

-----------------------------------------------------------------------------
\* Where a node and its constants are placed: behind all it reads and every
\* constant, in front of all it feeds; the constants in front of all that are none.
LEMMA PlacedBetween ==
  ASSUME NEW E, IsExport(E), NEW plan, IsPlan(plan)
  PROVE  LET p == Place(E, plan)
             at == ConstantsAt(E, p)
         IN /\ p \in 0 .. Len(E.neurons) /\ at \in 0 .. p
            /\ \A i \in 1 .. Len(E.neurons) :
                 IF E.neurons[i].type = "constant" THEN i <= p ELSE at < i
            /\ \A k \in 1 .. Len(plan.inbound) : AtWire(E, plan.inbound[k].uuid) - E.input + 1 <= p
            /\ Earliest(E, plan) <= Latest(E, plan) =>
                 \A k \in 1 .. Len(plan.targets) : p <= AtWire(E, plan.targets[k].uuid) - E.input
<1> DEFINE n == Len(E.neurons)
           p == Place(E, plan)
           at == ConstantsAt(E, p)
<1>1. E.input \in Nat /\ n \in Nat BY LenProperties DEF IsExport
<1>2. p \in 0 .. n /\ at \in 0 .. p
  <2>1. p \in 0 .. n BY PlaceFits
  <2> HIDE DEF p
  <2> QED BY <2>1, ConstantsFit
<1>3. \A u : AtWire(E, u) - E.input \in Int /\ -1 - E.input <= AtWire(E, u) - E.input
             /\ AtWire(E, u) - E.input + 1 \in Int /\ AtWire(E, u) - E.input + 1 <= n
  <2>1. \A u : AtWire(E, u) \in -1 .. E.input + n - 1 BY WireTyped
  <2> HIDE DEF n
  <2> QED BY <1>1, <2>1
<1>4. /\ \A i \in Constants(E) : i <= p
      /\ \A k \in 1 .. Len(plan.inbound) : AtWire(E, plan.inbound[k].uuid) - E.input + 1 <= p
  <2> DEFINE A == {AtWire(E, plan.inbound[k].uuid) - E.input + 1 : k \in 1 .. Len(plan.inbound)}
             S == {0} \cup Constants(E) \cup A
  <2>1. \A x \in A : x \in Int /\ x <= n
    <3> HIDE DEF n
    <3> QED BY <1>3
  <2>2. Constants(E) \subseteq 1 .. n BY DEF Constants
  <2>3. p = Max(S) BY DEF Place, Earliest
  <2>4. \A k \in 1 .. Len(plan.inbound) : AtWire(E, plan.inbound[k].uuid) - E.input + 1 \in A OBVIOUS
  <2> HIDE DEF A, n, p, at
  <2>5. S \in SUBSET Int /\ S # {} /\ n \in Int /\ \A x \in S : x <= n BY <1>1, <2>1, <2>2
  <2>6. \A i \in Constants(E) : i \in S BY DEF S
  <2>7. \A x \in A : x \in S BY DEF S
  <2> HIDE DEF S
  <2>8. \A y \in S : y <= Max(S) BY <2>5, MaxIs
  <2> QED BY <2>3, <2>4, <2>6, <2>7, <2>8
<1>5. \A i \in (1 .. n) \ Constants(E) : at < i
  <2> DEFINE A == {i - 1 : i \in (1 .. n) \ Constants(E)}
             S == {p, n} \cup A
  <2>1. A \subseteq 0 .. n - 1 /\ \A i \in (1 .. n) \ Constants(E) : i - 1 \in A
    <3> HIDE DEF n
    <3> QED BY <1>1
  <2>2. at = Min(S) BY DEF ConstantsAt
  <2> HIDE DEF A, p, at, n
  <2>3. S \in SUBSET Int /\ S # {} /\ 0 \in Int /\ \A x \in S : 0 <= x
    <3>1. p \in Int /\ 0 <= p /\ n \in Int /\ 0 <= n BY <1>1, <1>2
    <3>2. \A x \in A : x \in Int /\ 0 <= x BY <1>1, <2>1
    <3> QED BY <3>1, <3>2
  <2>4. \A x \in A : x \in S OBVIOUS
  <2> HIDE DEF S
  <2>5. \A y \in S : Min(S) <= y BY <2>3, MinIs
  <2>6. \A i \in (1 .. n) \ Constants(E) : at <= i - 1 BY <2>1, <2>2, <2>4, <2>5
  <2>7. at \in Int BY <1>2
  <2> QED BY <1>1, <2>6, <2>7
<1>6. ASSUME Earliest(E, plan) <= Latest(E, plan), NEW k \in 1 .. Len(plan.targets)
      PROVE  p <= AtWire(E, plan.targets[k].uuid) - E.input
  <2> DEFINE A == {AtWire(E, plan.targets[j].uuid) - E.input : j \in 1 .. Len(plan.targets)}
             S == {n} \cup A
             x == AtWire(E, plan.targets[k].uuid) - E.input
  <2>1. \A y \in A : y \in Int /\ -1 - E.input <= y
    <3> HIDE DEF n
    <3> QED BY <1>3
  <2>2. p <= Min(S) BY <1>6 DEF Place, Latest
  <2>3. x \in A /\ x \in Int BY <1>3
  <2> HIDE DEF A, x, n, p, at
  <2>4. S \in SUBSET Int /\ S # {} /\ -1 - E.input \in Int /\ \A y \in S : -1 - E.input <= y
    BY <1>1, <2>1
  <2>5. x \in S BY <2>3
  <2> HIDE DEF S
  <2>6. Min(S) \in S /\ \A y \in S : Min(S) <= y BY <2>4, MinIs
  <2>7. Min(S) \in Int /\ Min(S) <= x BY <2>4, <2>5, <2>6
  <2>8. p \in Int BY <1>2
  <2> QED BY <2>2, <2>3, <2>7, <2>8 DEF x
<1>7. \A i \in 1 .. n : IF E.neurons[i].type = "constant" THEN i <= p ELSE at < i
  <2> HIDE DEF p, at
  <2> QED BY <1>4, <1>5 DEF Constants
<1> QED BY <1>2, <1>4, <1>6, <1>7

\* The neurons of E keep their order around the new ones, and nothing else stands
\* among them.
LEMMA ShiftedIs ==
  ASSUME NEW E, IsExport(E), NEW plan, IsPlan(plan)
  PROVE  LET N == Len(E.neurons)
             p == Place(E, plan)
             at == ConstantsAt(E, p)
             c == Len(plan.constants)
             to(i) == Shifted(E, plan, i)
         IN /\ \A i \in 1 .. N : /\ to(i) \in 1 .. N + c + 1 /\ to(i) # p + c + 1 /\ to(i) \notin at + 1 .. at + c
                                 /\ IF i <= at THEN to(i) = i ELSE at + c < to(i)
                                 /\ IF i <= p THEN to(i) < p + c + 1 ELSE p + c + 1 < to(i)
            /\ \A i, j \in 1 .. N : i < j => to(i) < to(j)
            /\ \A j \in 1 .. N + c + 1 : \/ \E i \in 1 .. N : j = to(i)
                                         \/ \E k \in 1 .. c : j = at + k
                                         \/ j = p + c + 1
<1> DEFINE N == Len(E.neurons)
           p == Place(E, plan)
           at == ConstantsAt(E, p)
           c == Len(plan.constants)
           to(i) == Shifted(E, plan, i)
<1>1. N \in Nat /\ c \in Nat BY LenProperties DEF IsExport, IsPlan
<1>2. p \in 0 .. N /\ at \in 0 .. p
  <2>1. p \in 0 .. N BY PlaceFits
  <2> HIDE DEF p
  <2> QED BY <2>1, ConstantsFit
<1>3. \A i : to(i) = IF i <= at THEN i ELSE IF i <= p THEN i + c ELSE i + c + 1 BY DEF Shifted
<1> HIDE DEF to, at, p, c, N
<1>4. N \in Int /\ c \in Int /\ 0 <= c /\ p \in Int /\ at \in Int /\ 0 <= at /\ at <= p /\ p <= N BY <1>1, <1>2
<1>5. ASSUME NEW i \in 1 .. N
      PROVE  /\ to(i) \in 1 .. N + c + 1 /\ to(i) # p + c + 1 /\ to(i) \notin at + 1 .. at + c
             /\ IF i <= at THEN to(i) = i ELSE at + c < to(i)
             /\ IF i <= p THEN to(i) < p + c + 1 ELSE p + c + 1 < to(i)
  <2>1. i \in Int /\ 1 <= i /\ i <= N BY <1>4
  <2>2. CASE i <= at BY <1>3, <1>4, <2>1, <2>2
  <2>3. CASE ~(i <= at) /\ i <= p BY <1>3, <1>4, <2>1, <2>3
  <2>4. CASE ~(i <= at) /\ ~(i <= p) BY <1>3, <1>4, <2>1, <2>4
  <2> QED BY <2>2, <2>3, <2>4
<1>6. ASSUME NEW i \in 1 .. N, NEW j \in 1 .. N, i < j PROVE to(i) < to(j)
  <2>1. i \in Int /\ j \in Int BY <1>4
  <2>2. CASE i <= at BY <1>3, <1>4, <1>6, <2>1, <2>2
  <2>3. CASE ~(i <= at) /\ i <= p BY <1>3, <1>4, <1>6, <2>1, <2>3
  <2>4. CASE ~(i <= at) /\ ~(i <= p) BY <1>3, <1>4, <1>6, <2>1, <2>4
  <2> QED BY <2>2, <2>3, <2>4
<1>7. ASSUME NEW j \in 1 .. N + c + 1
      PROVE  (\E i \in 1 .. N : j = to(i)) \/ (\E k \in 1 .. c : j = at + k) \/ j = p + c + 1
  <2>1. j \in Int /\ 1 <= j /\ j <= N + c + 1 BY <1>4
  <2>2. CASE j <= at
    <3>1. j \in 1 .. N BY <1>4, <2>1, <2>2
    <3> QED BY <1>3, <2>2, <3>1
  <2>3. CASE ~(j <= at) /\ j <= at + c
    <3>1. j - at \in 1 .. c /\ j = at + (j - at) BY <1>4, <2>1, <2>3
    <3> QED BY <3>1
  <2>4. CASE ~(j <= at + c) /\ j <= p + c
    <3>1. j - c \in 1 .. N /\ ~(j - c <= at) /\ j - c <= p /\ (j - c) + c = j BY <1>4, <2>1, <2>4
    <3> QED BY <1>3, <3>1
  <2>5. CASE ~(j <= p + c) /\ j # p + c + 1
    <3>1. j - c - 1 \in 1 .. N /\ ~(j - c - 1 <= at) /\ ~(j - c - 1 <= p) /\ (j - c - 1) + c + 1 = j
      BY <1>4, <2>1, <2>5
    <3> QED BY <1>3, <3>1
  <2>6. at <= at + c /\ at + c <= p + c BY <1>4
  <2> QED BY <2>2, <2>3, <2>4, <2>5
<1> QED BY <1>5, <1>6, <1>7 DEF to, at, p, c, N

\* B is E with plan grafted, whatever the order of its synapses.
Grows(E, plan, B) ==
  /\ IsExport(B) /\ B.input = E.input /\ Inserts(E, plan, B)
  /\ ToSet(B.synapses) = ToSet(E.synapses) \cup ToSet(Reads(plan)) \cup ToSet(Feeds(plan))

\* Every neuron of B is one of E, a constant of the plan or its node.
NeuronsGrow(E, plan, B) ==
  \A j \in 1 .. Len(B.neurons) :
    \/ \E i \in 1 .. Len(E.neurons) : j = Shifted(E, plan, i) /\ B.neurons[j] = E.neurons[i]
    \/ \E k \in 1 .. Len(plan.constants) :
         j = ConstantsAt(E, Place(E, plan)) + k /\ B.neurons[j] = TheConstant(plan, k)
    \/ j = Place(E, plan) + Len(plan.constants) + 1 /\ B.neurons[j] = TheNode(plan)

LEMMA GrownNeurons ==
  ASSUME NEW E, IsExport(E), NEW plan, IsPlan(plan), NEW B, Inserts(E, plan, B)
  PROVE  NeuronsGrow(E, plan, B)
<1> DEFINE N == Len(E.neurons)
           p == Place(E, plan)
           at == ConstantsAt(E, p)
           c == Len(plan.constants)
           to(i) == Shifted(E, plan, i)
<1>1. /\ Len(B.neurons) = N + c + 1 /\ \A i \in 1 .. N : B.neurons[to(i)] = E.neurons[i]
      /\ \A k \in 1 .. c : B.neurons[at + k] = TheConstant(plan, k)
      /\ B.neurons[p + c + 1] = TheNode(plan)
  BY DEF Inserts
<1>2. \A j \in 1 .. N + c + 1 : \/ \E i \in 1 .. N : j = to(i)
                                \/ \E k \in 1 .. c : j = at + k
                                \/ j = p + c + 1
  BY ShiftedIs, ZenonT(40)
<1> HIDE DEF to, at, p, c, N
<1>3. \A j \in 1 .. Len(B.neurons) :
        \/ \E i \in 1 .. N : j = to(i) /\ B.neurons[j] = E.neurons[i]
        \/ \E k \in 1 .. c : j = at + k /\ B.neurons[j] = TheConstant(plan, k)
        \/ j = p + c + 1 /\ B.neurons[j] = TheNode(plan)
  BY <1>1, <1>2
<1> QED BY <1>3 DEF NeuronsGrow, to, at, p, c, N

\* A name is in the wire exactly where it has a place.
LEMMA WireDomain ==
  ASSUME NEW E, IsExport(E), NEW u
  PROVE  /\ u \in DOMAIN Wire(E) <=> AtWire(E, u) # Nowhere
         /\ u \in DOMAIN Wire(E) => 0 <= AtWire(E, u)
         /\ u \in Listed(E) => u \in DOMAIN Wire(E)
         /\ E.input <= AtWire(E, u) <=> u \in Listed(E)
<1> DEFINE n == Len(E.neurons)
           inputs == {InputNames[i] : i \in 0 .. E.input - 1}
           input == CHOOSE i \in 0 .. E.input - 1 : InputNames[i] = u
           x == AtWire(E, u)
<1>1. n \in Nat /\ E.input \in Nat /\ x \in Int
  <2>1. n \in Nat /\ E.input \in Nat BY LenProperties DEF IsExport
  <2>2. x \in -1 .. E.input + n - 1 BY WireTyped
  <2> HIDE DEF n, x
  <2> QED BY <2>1, <2>2
<1>2. DOMAIN Wire(E) = Listed(E) \cup inputs BY DEF Wire, Listed
<1>3. Nowhere = -1 BY DEF Nowhere
<1>4. CASE u \in Listed(E)
  <2>1. x - E.input + 1 \in 1 .. n BY <1>4, WireAt
  <2> HIDE DEF x, n, inputs
  <2>2. E.input <= x /\ 0 <= x /\ x # -1 BY <1>1, <2>1
  <2> QED BY <1>2, <1>3, <1>4, <2>2 DEF x
<1>5. CASE u \notin Listed(E) /\ u \in inputs
  <2>1. x = input
    <3>1. u \in DOMAIN Wire(E) BY <1>5, <1>2
    <3>2. Wire(E)[u] = input BY <1>5 DEF Wire, Listed
    <3> QED BY <3>1, <3>2 DEF AtWire
  <2>2. \E i \in 0 .. E.input - 1 : InputNames[i] = u BY <1>5
  <2>3. input \in 0 .. E.input - 1 BY <2>2
  <2> HIDE DEF input, x, inputs
  <2>4. 0 <= x /\ x # -1 /\ ~(E.input <= x) BY <1>1, <2>1, <2>3
  <2> QED BY <1>2, <1>3, <1>5, <2>4 DEF x
<1>6. CASE u \notin Listed(E) /\ u \notin inputs
  <2>1. u \notin DOMAIN Wire(E) BY <1>2, <1>6
  <2>2. x = -1 BY <2>1, <1>3 DEF AtWire
  <2> HIDE DEF x
  <2>3. ~(E.input <= x) BY <1>1, <2>2
  <2> QED BY <1>3, <1>6, <2>1, <2>2, <2>3 DEF x
<1> QED BY <1>4, <1>5, <1>6

\* Names that are not listed have the places of the inputs.
LEMMA UnlistedAlike ==
  ASSUME NEW E, NEW B, E.input = B.input, NEW u, u \notin Listed(E), u \notin Listed(B)
  PROVE  AtWire(E, u) = AtWire(B, u)
<1> DEFINE inputs == {InputNames[i] : i \in 0 .. E.input - 1}
           input == CHOOSE i \in 0 .. E.input - 1 : InputNames[i] = u
<1>1. ASSUME NEW X, X.input = E.input, u \notin Listed(X)
      PROVE  AtWire(X, u) = IF u \in inputs THEN input ELSE Nowhere
  <2>1. DOMAIN Wire(X) = Listed(X) \cup inputs BY <1>1 DEF Wire, Listed
  <2>2. u \in inputs => Wire(X)[u] = input BY <1>1 DEF Wire, Listed
  <2> HIDE DEF inputs, input
  <2> QED BY <1>1, <2>1, <2>2 DEF AtWire
<1> HIDE DEF inputs, input
<1>2. AtWire(E, u) = IF u \in inputs THEN input ELSE Nowhere BY <1>1
<1>3. AtWire(B, u) = IF u \in inputs THEN input ELSE Nowhere BY <1>1
<1> QED BY <1>2, <1>3

\* Where the names of E and those of a plan that fits stand once it is grafted.
WireGrows(E, plan, B) ==
  LET at == ConstantsAt(E, Place(E, plan))
      c == Len(plan.constants)
  IN /\ \A u \in DOMAIN Wire(E) :
          AtWire(B, u) = IF AtWire(E, u) < E.input THEN AtWire(E, u)
                         ELSE E.input + Shifted(E, plan, AtWire(E, u) - E.input + 1) - 1
     /\ AtWire(B, plan.uuid) = E.input + Place(E, plan) + c
     /\ \A k \in 1 .. c : /\ E.input + at <= AtWire(B, plan.constants[k].uuid)
                          /\ AtWire(B, plan.constants[k].uuid) < E.input + at + c

LEMMA GrownWire ==
  ASSUME NEW E, IsExport(E), NEW plan, IsPlan(plan), Fits(E, plan), NEW B, Grows(E, plan, B)
  PROVE  WireGrows(E, plan, B)
<1> DEFINE N == Len(E.neurons)
           p == Place(E, plan)
           at == ConstantsAt(E, p)
           c == Len(plan.constants)
           to(i) == Shifted(E, plan, i)
           new == plan.uuid
           cst(k) == plan.constants[k].uuid
<1>1. /\ N \in Nat /\ c \in Nat /\ E.input \in Nat /\ p \in Int /\ at \in Int
      /\ 0 <= at /\ at <= p /\ p <= N
  <2>1. N \in Nat /\ E.input \in Nat /\ c \in Nat BY LenProperties DEF IsExport, IsPlan
  <2>2. p \in 0 .. N BY PlaceFits
  <2> HIDE DEF p
  <2>3. at \in 0 .. p BY <2>2, ConstantsFit
  <2> HIDE DEF at, N, c
  <2> QED BY <2>1, <2>2, <2>3
<1>2. /\ IsExport(B) /\ B.input = E.input
      /\ \A j \in 1 .. Len(B.neurons) :
           \/ \E i \in 1 .. N : j = to(i) /\ B.neurons[j].uuid = E.neurons[i].uuid
           \/ \E k \in 1 .. c : j = at + k /\ B.neurons[j].uuid = cst(k)
           \/ j = p + c + 1 /\ B.neurons[j].uuid = new
  <2>1. IsExport(B) /\ B.input = E.input /\ NeuronsGrow(E, plan, B) BY GrownNeurons DEF Grows
  <2>2. TheNode(plan).uuid = new /\ \A k \in 1 .. c : TheConstant(plan, k).uuid = cst(k)
    BY DEF TheNode, TheConstant, NewNeuron
  <2> HIDE DEF new, cst, c, at, p, to, N
  <2> QED BY <2>1, <2>2 DEF NeuronsGrow, c, at, p, to, N
<1>3. /\ Len(B.neurons) = N + c + 1
      /\ \A i \in 1 .. N : to(i) \in 1 .. N + c + 1 /\ B.neurons[to(i)].uuid = E.neurons[i].uuid
      /\ \A k \in 1 .. c : B.neurons[at + k].uuid = cst(k)
      /\ B.neurons[p + c + 1].uuid = new
  <2>1. TheNode(plan).uuid = new /\ \A k \in 1 .. c : TheConstant(plan, k).uuid = cst(k)
    BY DEF TheNode, TheConstant, NewNeuron
  <2>2. /\ Len(B.neurons) = N + c + 1
        /\ \A i \in 1 .. N : B.neurons[to(i)] = E.neurons[i]
        /\ \A k \in 1 .. c : B.neurons[at + k] = TheConstant(plan, k)
        /\ B.neurons[p + c + 1] = TheNode(plan)
    BY DEF Grows, Inserts
  <2>3. \A i \in 1 .. N : to(i) \in 1 .. N + c + 1 BY ShiftedIs
  <2> HIDE DEF new, cst, c, at, p, to, N
  <2> QED BY <2>1, <2>2, <2>3
<1>4. \A i, j \in 1 .. N : i < j => to(i) < to(j) BY ShiftedIs
<1>5. /\ new \notin DOMAIN Wire(E)
      /\ \A k \in 1 .. c : cst(k) \notin DOMAIN Wire(E) /\ cst(k) # new
  BY DEF Fits, NamesFit
<1>6. \A i \in 1 .. N : E.neurons[i].uuid \in Listed(E) BY DEF Listed
<1>7. \A u \in Listed(E) : u \in DOMAIN Wire(E) BY WireDomain
<1>8. Listed(B) = {B.neurons[j].uuid : j \in 1 .. Len(B.neurons)} BY DEF Listed
<1>9. \A j \in 1 .. Len(B.neurons) : B.neurons[j].uuid \in Listed(B) BY <1>8
<1>10. ASSUME NEW u \in Listed(B)
       PROVE  LET j == AtWire(B, u) - E.input + 1 IN
              /\ j \in 1 .. Len(B.neurons) /\ B.neurons[j].uuid = u /\ AtWire(B, u) = E.input + j - 1
              /\ \A i \in 1 .. Len(B.neurons) : B.neurons[i].uuid = u => i <= j
  <2> DEFINE x == AtWire(B, u)
             j == x - E.input + 1
  <2>1. /\ j \in 1 .. Len(B.neurons) /\ B.neurons[j].uuid = u
        /\ \A i \in 1 .. Len(B.neurons) : B.neurons[i].uuid = u => E.input + i - 1 <= x
    BY <1>2, WireAt
  <2>2. x \in -1 .. E.input + Len(B.neurons) - 1 BY <1>2, WireTyped
  <2>3. Len(B.neurons) \in Nat BY <1>2, LenProperties DEF IsExport
  <2> HIDE DEF x
  <2>4. x \in Int BY <1>1, <2>2, <2>3
  <2>5. x = E.input + j - 1 /\ \A i \in 1 .. Len(B.neurons) : E.input + i - 1 <= x => i <= j
    BY <1>1, <2>3, <2>4
  <2> QED BY <2>1, <2>5 DEF x
<1> HIDE DEF N, p, at, c, to, new, cst
<1>11. ASSUME NEW u \in DOMAIN Wire(E), ~(AtWire(E, u) < E.input)
       PROVE  AtWire(B, u) = E.input + to(AtWire(E, u) - E.input + 1) - 1
  <2> DEFINE i == AtWire(E, u) - E.input + 1
             j == AtWire(B, u) - E.input + 1
  <2>1. AtWire(E, u) \in Int
    <3>1. AtWire(E, u) \in -1 .. E.input + N - 1 BY WireTyped DEF N
    <3> QED BY <1>1, <3>1
  <2>2. u \in Listed(E)
    <3>1. E.input <= AtWire(E, u) BY <1>1, <1>11, <2>1
    <3> QED BY <3>1, WireDomain
  <2>3. /\ i \in 1 .. N /\ E.neurons[i].uuid = u
        /\ \A k \in 1 .. N : E.neurons[k].uuid = u => k <= i
    <3>1. /\ i \in 1 .. N /\ E.neurons[i].uuid = u
          /\ \A k \in 1 .. N : E.neurons[k].uuid = u => E.input + k - 1 <= AtWire(E, u)
      BY <2>2, WireAt DEF N
    <3>2. \A k \in 1 .. N : E.input + k - 1 <= AtWire(E, u) => k <= i BY <1>1, <2>1
    <3> QED BY <3>1, <3>2
  <2>4. to(i) \in 1 .. Len(B.neurons) /\ B.neurons[to(i)].uuid = u BY <1>3, <2>3
  <2>5. u \in Listed(B) BY <1>9, <2>4
  <2>6. /\ j \in 1 .. Len(B.neurons) /\ B.neurons[j].uuid = u /\ AtWire(B, u) = E.input + j - 1
        /\ to(i) <= j
    BY <1>10, <2>4, <2>5
  <2> HIDE DEF i, j
  <2>7. PICK k \in 1 .. N : j = to(k) /\ B.neurons[j].uuid = E.neurons[k].uuid
    BY <1>2, <1>5, <2>6
  <2>8. k <= i BY <2>3, <2>6, <2>7
  <2>9. k = i
    <3>1. k \in Int /\ i \in Int BY <1>1, <2>3
    <3>2. CASE k < i
      <4>1. to(k) < to(i) BY <1>4, <2>3, <3>2
      <4>2. to(k) \in Int /\ to(i) \in Int BY <1>1, <1>3, <2>3
      <4> QED BY <2>6, <2>7, <4>1, <4>2
    <3> QED BY <2>8, <3>1, <3>2
  <2> QED BY <2>6, <2>7, <2>9 DEF i
<1>12. ASSUME NEW u \in DOMAIN Wire(E), AtWire(E, u) < E.input
       PROVE  AtWire(B, u) = AtWire(E, u)
  <2>1. AtWire(E, u) \in Int
    <3>1. AtWire(E, u) \in -1 .. E.input + N - 1 BY WireTyped DEF N
    <3> QED BY <1>1, <3>1
  <2>2. u \notin Listed(E)
    <3>1. ~(E.input <= AtWire(E, u)) BY <1>1, <1>12, <2>1
    <3> QED BY <3>1, WireDomain
  <2>3. u \notin Listed(B)
    <3> SUFFICES ASSUME NEW j \in 1 .. Len(B.neurons), B.neurons[j].uuid = u PROVE FALSE BY <1>8
    <3> QED BY <1>2, <1>5, <1>6, <1>12, <2>2
  <2> QED BY <1>2, <2>2, <2>3, UnlistedAlike
<1>13. AtWire(B, new) = E.input + p + c
  <2> DEFINE j == AtWire(B, new) - E.input + 1
  <2>1. p + c + 1 \in 1 .. Len(B.neurons) BY <1>1, <1>3
  <2>2. new \in Listed(B) BY <1>3, <1>9, <2>1
  <2>3. j \in 1 .. Len(B.neurons) /\ B.neurons[j].uuid = new /\ AtWire(B, new) = E.input + j - 1
    BY <1>10, <2>2
  <2> HIDE DEF j
  <2>4. j = p + c + 1 BY <1>2, <1>5, <1>6, <1>7, <2>3
  <2> QED BY <1>1, <2>3, <2>4
<1>14. ASSUME NEW k \in 1 .. c
       PROVE  E.input + at <= AtWire(B, cst(k)) /\ AtWire(B, cst(k)) < E.input + at + c
  <2> DEFINE u == cst(k)
             j == AtWire(B, u) - E.input + 1
  <2>1. at + k \in 1 .. Len(B.neurons) BY <1>1, <1>3
  <2>2. u \in Listed(B) BY <1>3, <1>9, <2>1
  <2>3. j \in 1 .. Len(B.neurons) /\ B.neurons[j].uuid = u /\ AtWire(B, u) = E.input + j - 1
    BY <1>10, <2>2
  <2>4. u \notin DOMAIN Wire(E) /\ u # new BY <1>5
  <2> HIDE DEF j, u
  <2>5. PICK x \in 1 .. c : j = at + x BY <1>2, <1>6, <1>7, <2>3, <2>4
  <2>6. E.input + at <= E.input + j - 1 /\ E.input + j - 1 < E.input + at + c BY <1>1, <2>5
  <2> QED BY <2>3, <2>6 DEF u
<1>15. ASSUME NEW u \in DOMAIN Wire(E)
       PROVE  AtWire(B, u) = IF AtWire(E, u) < E.input THEN AtWire(E, u)
                             ELSE E.input + to(AtWire(E, u) - E.input + 1) - 1
  BY <1>11, <1>12
<1> QED BY <1>13, <1>14, <1>15 DEF WireGrows, N, p, at, c, to, new, cst

LEMMA SortedSet ==
  ASSUME NEW U, NEW s \in Seq(U), NEW t \in Seq(U), NEW key, NEW p, Sorts(p, s, key, t)
  PROVE  ToSet(t) = ToSet(s)
<1> DEFINE I == 1 .. Len(s)
<1>1. DOMAIN s = I /\ DOMAIN t = I
  <2>1. Len(t) = Len(s) BY DEF Sorts
  <2> QED BY <2>1, LenProperties
<1>2. p \in Bijection(I, I) /\ \A i \in I : t[i] = s[p[i]] BY DEF Sorts
<1>3. (\A i \in I : p[i] \in I) /\ \A k \in I : \E i \in I : p[i] = k
  BY <1>2 DEF Bijection, Surjection, Injection
<1> HIDE DEF I
<1>4. ToSet(s) = {s[i] : i \in I} /\ ToSet(t) = {t[i] : i \in I} BY <1>1 DEF ToSet
<1>5. \A i \in I : t[i] \in ToSet(s) BY <1>2, <1>3, <1>4
<1>6. \A k \in I : s[k] \in ToSet(t)
  <2> TAKE k \in I
  <2>1. PICK i \in I : p[i] = k BY <1>3
  <2> QED BY <1>2, <1>4, <2>1
<1> QED BY <1>4, <1>5, <1>6

LEMMA JoinedSet ==
  ASSUME NEW U, NEW s \in Seq(U), NEW t \in Seq(U)
  PROVE  s \o t \in Seq(U) /\ ToSet(s \o t) = ToSet(s) \cup ToSet(t)
<1> DEFINE st == s \o t
<1>1. /\ st \in Seq(U) /\ Len(st) = Len(s) + Len(t)
      /\ \A i \in 1 .. Len(s) : st[i] = s[i]
      /\ \A i \in 1 .. Len(t) : st[Len(s) + i] = t[i]
  BY JoinedAt
<1> HIDE DEF st
<1>2. /\ DOMAIN s = 1 .. Len(s) /\ DOMAIN t = 1 .. Len(t) /\ DOMAIN st = 1 .. Len(s) + Len(t)
      /\ Len(s) \in Nat /\ Len(t) \in Nat
  BY <1>1, LenProperties
<1>3. ASSUME NEW x \in ToSet(st) PROVE x \in ToSet(s) \cup ToSet(t)
  <2>1. PICK i \in 1 .. Len(s) + Len(t) : x = st[i] BY <1>2 DEF ToSet
  <2>2. CASE i <= Len(s)
    <3>1. i \in 1 .. Len(s) BY <1>2, <2>2
    <3> QED BY <1>1, <1>2, <2>1, <3>1 DEF ToSet
  <2>3. CASE ~(i <= Len(s))
    <3>1. i - Len(s) \in 1 .. Len(t) /\ Len(s) + (i - Len(s)) = i BY <1>2, <2>3
    <3> QED BY <1>1, <1>2, <2>1, <3>1 DEF ToSet
  <2> QED BY <2>2, <2>3
<1>4. ASSUME NEW x \in ToSet(s) PROVE x \in ToSet(st)
  <2>1. PICK i \in 1 .. Len(s) : x = s[i] BY <1>2 DEF ToSet
  <2>2. i \in 1 .. Len(s) + Len(t) BY <1>2
  <2> QED BY <1>1, <1>2, <2>1, <2>2 DEF ToSet
<1>5. ASSUME NEW x \in ToSet(t) PROVE x \in ToSet(st)
  <2>1. PICK i \in 1 .. Len(t) : x = t[i] BY <1>2 DEF ToSet
  <2>2. Len(s) + i \in 1 .. Len(s) + Len(t) BY <1>2
  <2> QED BY <1>1, <1>2, <2>1, <2>2 DEF ToSet
<1> QED BY <1>1, <1>3, <1>4, <1>5 DEF st

\* What is built is the creature with the plan grafted.
LEMMA BuildGrows ==
  ASSUME NEW E, IsExport(E), NEW plan, IsPlan(plan)
  PROVE  Grows(E, plan, Build(E, plan, Place(E, plan)))
<1> DEFINE D == Assembly(E, plan)
           B == Canonical(D)
<1>1. /\ IsExport(D) /\ ExportFields \subseteq DOMAIN D /\ D.input = E.input /\ Inserts(E, plan, D)
      /\ Reads(plan) \in Seq(NamedSynapses) /\ Feeds(plan) \in Seq(NamedSynapses)
      /\ D.synapses = E.synapses \o Reads(plan) \o Feeds(plan)
      /\ Build(E, plan, Place(E, plan)) = B
  BY AssemblyIs
<1> HIDE DEF D
<1>2. /\ IsExport(B) /\ B.input = D.input /\ B.neurons = D.neurons
      /\ \E p : Sorts(p, D.synapses, KeysOf(D), B.synapses)
  BY <1>1, CanonicalTyped
<1> HIDE DEF B
<1>3. /\ D.synapses \in Seq(NamedSynapses) /\ B.synapses \in Seq(NamedSynapses)
      /\ E.synapses \in Seq(NamedSynapses)
  BY <1>1, <1>2 DEF IsExport, NamedSynapses
<1>4. ToSet(B.synapses) = ToSet(D.synapses) BY <1>2, <1>3, SortedSet
<1>5. ToSet(D.synapses) = ToSet(E.synapses) \cup ToSet(Reads(plan)) \cup ToSet(Feeds(plan))
  <2> DEFINE r == Reads(plan)
             f == Feeds(plan)
             e == E.synapses
  <2>1. r \in Seq(NamedSynapses) /\ f \in Seq(NamedSynapses) /\ e \in Seq(NamedSynapses) BY <1>1, <1>3
  <2>2. D.synapses = (e \o r) \o f BY <1>1
  <2> HIDE DEF r, f, e
  <2>3. e \o r \in Seq(NamedSynapses) /\ ToSet(e \o r) = ToSet(e) \cup ToSet(r) BY <2>1, JoinedSet
  <2> DEFINE er == e \o r
  <2> HIDE DEF er
  <2>4. er \in Seq(NamedSynapses) /\ ToSet(er) = ToSet(e) \cup ToSet(r) BY <2>3 DEF er
  <2>5. ToSet(er \o f) = ToSet(er) \cup ToSet(f)
    <3> HIDE DEF er
    <3> QED BY <2>1, <2>4, JoinedSet
  <2> QED BY <2>2, <2>4, <2>5 DEF r, f, e, er
<1>6. Inserts(E, plan, B) BY <1>1, <1>2 DEF Inserts
<1> QED BY <1>1, <1>2, <1>4, <1>5, <1>6 DEF Grows

\* New is what has been grafted onto E0 to make E.
EndsKnown(E) == \A s \in ToSet(E.synapses) : s.from \in DOMAIN Wire(E) /\ s.to \in DOMAIN Wire(E)
ReadsAhead(E, New) ==
  \A s \in ToSet(E.synapses) : {s.from, s.to} \cap New # {} => AtWire(E, s.from) < AtWire(E, s.to)
ConstantsApart(E, New) ==
  \A i, j \in 1 .. Len(E.neurons) :
    i < j /\ E.neurons[j].type = "constant" /\ E.neurons[i].type # "constant" =>
      {E.neurons[i].uuid, E.neurons[j].uuid} \cap New = {}
NeuronsLeft(E, New) ==
  KeptOf(E.neurons, {i \in 1 .. Len(E.neurons) : E.neurons[i].uuid \notin New})
SynapsesLeft(E, New) == {s \in ToSet(E.synapses) : {s.from, s.to} \cap New = {}}

Fresh(E, New, E0) ==
  /\ EndsKnown(E) /\ ReadsAhead(E, New) /\ ConstantsApart(E, New)
  /\ NeuronsLeft(E, New) = E0.neurons /\ SynapsesLeft(E, New) = ToSet(E0.synapses)

\* The edges of a plan end at its names or at names of the creature.
EdgesNamed(E, plan) ==
  /\ \A s \in ToSet(Reads(plan)) :
       /\ s.to = plan.uuid
       /\ \/ \E k \in 1 .. Len(plan.constants) : s.from = plan.constants[k].uuid
          \/ s.from \in DOMAIN Wire(E) /\ AtWire(E, s.from) - E.input + 1 <= Place(E, plan)
  /\ \A s \in ToSet(Feeds(plan)) :
       /\ s.from = plan.uuid /\ s.to \in DOMAIN Wire(E) /\ E.input <= AtWire(E, s.to)
       /\ Place(E, plan) <= AtWire(E, s.to) - E.input

LEMMA EdgesAreNamed ==
  ASSUME NEW E, IsExport(E), NEW plan, IsPlan(plan), Fits(E, plan)
  PROVE  EdgesNamed(E, plan)
<1>1. /\ \A k \in 1 .. Len(plan.inbound) : AtWire(E, plan.inbound[k].uuid) - E.input + 1 <= Place(E, plan)
      /\ \A k \in 1 .. Len(plan.targets) : Place(E, plan) <= AtWire(E, plan.targets[k].uuid) - E.input
  BY PlacedBetween DEF Fits
<1>2. ASSUME NEW s \in ToSet(Reads(plan))
      PROVE  /\ s.to = plan.uuid
             /\ \/ \E k \in 1 .. Len(plan.constants) : s.from = plan.constants[k].uuid
                \/ s.from \in DOMAIN Wire(E) /\ AtWire(E, s.from) - E.input + 1 <= Place(E, plan)
  <2>1. PICK k \in 1 .. Len(plan.inbound) :
             s = [from |-> plan.inbound[k].uuid, to |-> plan.uuid, role |-> plan.inbound[k].branch]
    BY DEF ToSet, Reads
  <2>2. s.from = plan.inbound[k].uuid /\ s.to = plan.uuid BY <2>1
  <2>3. s.from # plan.uuid /\ s.from \in Introduced(plan) \cup DOMAIN Wire(E)
    BY <2>2 DEF Fits, InboundFit
  <2>4. Introduced(plan) = {plan.uuid} \cup {plan.constants[j].uuid : j \in 1 .. Len(plan.constants)}
    BY NamesAre DEF IsPlan
  <2> QED BY <1>1, <2>2, <2>3, <2>4
<1>3. ASSUME NEW s \in ToSet(Feeds(plan))
      PROVE  /\ s.from = plan.uuid /\ s.to \in DOMAIN Wire(E) /\ E.input <= AtWire(E, s.to)
             /\ Place(E, plan) <= AtWire(E, s.to) - E.input
  <2>1. PICK k \in 1 .. Len(plan.targets) :
             s = [from |-> plan.uuid, to |-> plan.targets[k].uuid, role |-> plan.targets[k].role]
    BY DEF ToSet, Feeds
  <2>2. s.to = plan.targets[k].uuid /\ s.from = plan.uuid BY <2>1
  <2>3. AtWire(E, s.to) >= E.input /\ AtWire(E, s.to) # Nowhere BY <2>2 DEF Fits, TargetsFit
  <2>4. s.to \in DOMAIN Wire(E) BY <2>3, WireDomain
  <2>5. AtWire(E, s.to) \in Int /\ E.input \in Int
    <3>1. E.input \in Nat /\ Len(E.neurons) \in Nat BY LenProperties DEF IsExport
    <3>2. AtWire(E, s.to) \in -1 .. E.input + Len(E.neurons) - 1 BY WireTyped
    <3> QED BY <3>1, <3>2
  <2> QED BY <1>1, <2>2, <2>3, <2>4, <2>5
<1> QED BY <1>2, <1>3 DEF EdgesNamed

LEMMA StaysAhead ==
  ASSUME NEW E, IsExport(E), NEW plan, IsPlan(plan), Fits(E, plan), NEW B, Grows(E, plan, B),
         NEW u \in DOMAIN Wire(E), NEW w \in DOMAIN Wire(E), AtWire(E, u) < AtWire(E, w)
  PROVE  AtWire(B, u) < AtWire(B, w)
<1> DEFINE N == Len(E.neurons)
           x == AtWire(E, u)
           y == AtWire(E, w)
           to(i) == Shifted(E, plan, i)
           m == N + Len(plan.constants) + 1
<1>1. N \in Nat /\ E.input \in Nat /\ x \in -1 .. E.input + N - 1 /\ y \in -1 .. E.input + N - 1 /\ m \in Nat
  <2>1. N \in Nat /\ E.input \in Nat /\ Len(plan.constants) \in Nat BY LenProperties DEF IsExport, IsPlan
  <2>2. x \in -1 .. E.input + N - 1 /\ y \in -1 .. E.input + N - 1 BY WireTyped
  <2> HIDE DEF N, x, y
  <2> QED BY <2>1, <2>2
<1>2. /\ AtWire(B, u) = IF x < E.input THEN x ELSE E.input + to(x - E.input + 1) - 1
      /\ AtWire(B, w) = IF y < E.input THEN y ELSE E.input + to(y - E.input + 1) - 1
  BY GrownWire DEF WireGrows
<1>3. /\ \A i \in 1 .. N : to(i) \in 1 .. m
      /\ \A i, j \in 1 .. N : i < j => to(i) < to(j)
  BY ShiftedIs
<1>4. x < y OBVIOUS
<1> HIDE DEF N, x, y, to, m
<1>5. x \in Int /\ y \in Int /\ x <= E.input + N - 1 /\ y <= E.input + N - 1 BY <1>1
<1>6. CASE y < E.input
  <2>1. x < E.input BY <1>1, <1>4, <1>5, <1>6
  <2> QED BY <1>2, <1>4, <1>6, <2>1
<1>7. CASE ~(y < E.input) /\ x < E.input
  <2> DEFINE j == y - E.input + 1
  <2>1. j \in 1 .. N BY <1>1, <1>5, <1>7
  <2> HIDE DEF j
  <2>2. to(j) \in Int /\ 1 <= to(j) BY <1>1, <1>3, <2>1
  <2>3. AtWire(B, u) = x /\ AtWire(B, w) = E.input + to(j) - 1 BY <1>2, <1>7 DEF j
  <2> QED BY <1>1, <1>5, <1>7, <2>2, <2>3
<1>8. CASE ~(y < E.input) /\ ~(x < E.input)
  <2> DEFINE i == x - E.input + 1
             j == y - E.input + 1
  <2>1. i \in 1 .. N /\ j \in 1 .. N /\ i < j BY <1>1, <1>4, <1>5, <1>8
  <2> HIDE DEF i, j
  <2>2. to(i) \in Int /\ to(j) \in Int /\ to(i) < to(j) BY <1>1, <1>3, <2>1
  <2>3. AtWire(B, u) = E.input + to(i) - 1 /\ AtWire(B, w) = E.input + to(j) - 1 BY <1>2, <1>8 DEF i, j
  <2> QED BY <1>1, <2>2, <2>3
<1> QED BY <1>6, <1>7, <1>8

\* Taking out what was grafted leaves what was there.
LEMMA GrownLeaves ==
  ASSUME NEW E, IsExport(E), NEW plan, IsPlan(plan), Fits(E, plan), NEW B, Grows(E, plan, B), NEW New
  PROVE  NeuronsLeft(B, New \cup Introduced(plan)) = NeuronsLeft(E, New)
<1> DEFINE N == Len(E.neurons)
           p == Place(E, plan)
           at == ConstantsAt(E, p)
           c == Len(plan.constants)
           K == {i \in 1 .. N : E.neurons[i].uuid \notin New}
           L == {j \in 1 .. Len(B.neurons) : B.neurons[j].uuid \notin New \cup Introduced(plan)}
           n == N + c + 1
           f == [k \in 0 .. n |-> IF k <= at THEN k ELSE IF k <= at + c THEN at
                                  ELSE IF k <= p + c THEN k - c ELSE k - c - 1]
           U == ToSet(E.neurons) \cup ToSet(B.neurons)
<1>1. /\ N \in Nat /\ c \in Nat /\ p \in Int /\ at \in Int /\ 0 <= at /\ at <= p /\ p <= N
      /\ n \in Nat /\ n \in Int /\ N \in Int /\ c \in Int /\ 0 <= c
  <2>1. N \in Nat /\ c \in Nat BY LenProperties DEF IsExport, IsPlan
  <2>2. p \in 0 .. N BY PlaceFits
  <2> HIDE DEF p
  <2>3. at \in 0 .. p BY <2>2, ConstantsFit
  <2> HIDE DEF at, N, c
  <2> QED BY <2>1, <2>2, <2>3
<1>2. /\ Len(B.neurons) = n
      /\ \A i \in 1 .. N : B.neurons[Shifted(E, plan, i)] = E.neurons[i]
      /\ \A k \in 1 .. c : B.neurons[at + k].uuid = plan.constants[k].uuid
      /\ B.neurons[p + c + 1].uuid = plan.uuid
  <2>1. TheNode(plan).uuid = plan.uuid /\ \A k \in 1 .. c : TheConstant(plan, k).uuid = plan.constants[k].uuid
    BY DEF TheNode, TheConstant, NewNeuron
  <2>2. /\ Len(B.neurons) = n
        /\ \A i \in 1 .. N : B.neurons[Shifted(E, plan, i)] = E.neurons[i]
        /\ \A k \in 1 .. c : B.neurons[at + k] = TheConstant(plan, k)
        /\ B.neurons[p + c + 1] = TheNode(plan)
    BY DEF Grows, Inserts
  <2> HIDE DEF c, at, p, n, N
  <2> QED BY <2>1, <2>2
<1>3. \A i : Shifted(E, plan, i) = IF i <= at THEN i ELSE IF i <= p THEN i + c ELSE i + c + 1 BY DEF Shifted
<1>4. \A i \in 1 .. N : E.neurons[i].uuid \in DOMAIN Wire(E)
  <2>1. \A i \in 1 .. N : E.neurons[i].uuid \in Listed(E) BY DEF Listed
  <2> HIDE DEF N
  <2> QED BY <2>1, WireDomain
<1>5. Introduced(plan) = {plan.uuid} \cup {plan.constants[k].uuid : k \in 1 .. c} BY NamesAre DEF IsPlan
<1>6. plan.uuid \notin DOMAIN Wire(E) /\ \A k \in 1 .. c : plan.constants[k].uuid \notin DOMAIN Wire(E)
  BY DEF Fits, NamesFit
<1>7. E.neurons \in Seq(U) /\ B.neurons \in Seq(U)
  <2>1. E.neurons \in Seq(ToSet(E.neurons)) /\ B.neurons \in Seq(ToSet(B.neurons)) BY DEF IsExport, Grows
  <2>2. /\ DOMAIN E.neurons = 1 .. Len(E.neurons) /\ DOMAIN B.neurons = 1 .. Len(B.neurons)
        /\ Len(E.neurons) \in Nat /\ Len(B.neurons) \in Nat
    BY <2>1, LenProperties
  <2>3. E.neurons \in [1 .. Len(E.neurons) -> U] /\ B.neurons \in [1 .. Len(B.neurons) -> U]
    <3>1. E.neurons \in [1 .. Len(E.neurons) -> ToSet(E.neurons)] BY <2>1, LenProperties
    <3>2. B.neurons \in [1 .. Len(B.neurons) -> ToSet(B.neurons)] BY <2>1, LenProperties
    <3> QED BY <3>1, <3>2
  <2> HIDE DEF U
  <2> QED BY <2>2, <2>3
<1>8. \A j \in 1 .. n : j \in L <=> B.neurons[j].uuid \notin New \cup Introduced(plan) BY <1>2
<1> HIDE DEF p, at, c, n, U, L
<1>9. ASSUME NEW k \in 0 .. n
      PROVE  /\ f[k] \in 0 .. N
             /\ f[k] = IF k <= at THEN k ELSE IF k <= at + c THEN at
                       ELSE IF k <= p + c THEN k - c ELSE k - c - 1
  <2>1. f[k] = IF k <= at THEN k ELSE IF k <= at + c THEN at ELSE IF k <= p + c THEN k - c ELSE k - c - 1
    OBVIOUS
  <2>2. k \in Int /\ 0 <= k /\ k <= N + c + 1 BY <1>1 DEF n
  <2> HIDE DEF f, N
  <2>3. f[k] \in 0 .. N BY <1>1, <2>1, <2>2
  <2> QED BY <2>1, <2>3
<1>10. f \in [0 .. n -> 0 .. N]
  <2>1. f = [k \in 0 .. n |-> f[k]] OBVIOUS
  <2> HIDE DEF f
  <2> QED BY <1>9, <2>1
<1>11. f[0] = 0 /\ f[n] = N
  <2>1. 0 \in 0 .. n /\ n \in 0 .. n BY <1>1
  <2> HIDE DEF f, N
  <2>2. f[0] = 0 BY <1>1, <1>9, <2>1
  <2>3. ~(n <= at) /\ ~(n <= at + c) /\ ~(n <= p + c) /\ n - c - 1 = N BY <1>1 DEF n
  <2> QED BY <1>9, <2>1, <2>2, <2>3
<1> HIDE DEF f
<1>12. ASSUME NEW k \in 1 .. n
       PROVE  \/ k \notin L /\ f[k] = f[k - 1]
              \/ f[k] = f[k - 1] + 1 /\ B.neurons[k] = E.neurons[f[k]] /\ (k \in L <=> f[k] \in K)
  <2>1. k \in 0 .. n /\ k - 1 \in 0 .. n /\ k \in Int /\ 1 <= k /\ k <= N + c + 1 BY <1>1 DEF n
  <2>2. /\ f[k] = IF k <= at THEN k ELSE IF k <= at + c THEN at ELSE IF k <= p + c THEN k - c ELSE k - c - 1
        /\ f[k - 1] = IF k - 1 <= at THEN k - 1 ELSE IF k - 1 <= at + c THEN at
                      ELSE IF k - 1 <= p + c THEN (k - 1) - c ELSE (k - 1) - c - 1
    BY <1>9, <2>1
  <2>3. ASSUME NEW i \in 1 .. N, k = Shifted(E, plan, i), f[k] = i
        PROVE  B.neurons[k] = E.neurons[f[k]] /\ (k \in L <=> f[k] \in K)
    <3>1. B.neurons[k] = E.neurons[i] /\ E.neurons[i].uuid \in DOMAIN Wire(E) BY <1>2, <1>4, <2>3
    <3>2. E.neurons[i].uuid \notin Introduced(plan) BY <1>5, <1>6, <3>1
    <3>3. i \in K <=> E.neurons[i].uuid \notin New OBVIOUS
    <3> HIDE DEF K
    <3> QED BY <1>8, <2>3, <3>1, <3>2, <3>3
  <2> HIDE DEF K, N
  <2>4. CASE k <= at
    <3>1. k \in 1 .. N /\ f[k] = k /\ f[k] = f[k - 1] + 1 BY <1>1, <2>1, <2>2, <2>4
    <3>2. k = Shifted(E, plan, k) BY <1>3, <2>4
    <3> QED BY <2>3, <3>1, <3>2
  <2>5. CASE ~(k <= at) /\ k <= at + c
    <3>1. f[k] = f[k - 1] /\ k - at \in 1 .. c /\ at + (k - at) = k BY <1>1, <2>1, <2>2, <2>5
    <3>2. B.neurons[k].uuid \in Introduced(plan) BY <1>2, <1>5, <3>1
    <3> QED BY <1>8, <3>1, <3>2
  <2>6. CASE ~(k <= at) /\ ~(k <= at + c) /\ k <= p + c
    <3> DEFINE i == k - c
    <3>1. i \in 1 .. N /\ f[k] = i /\ f[k] = f[k - 1] + 1 /\ ~(i <= at) /\ i <= p /\ i + c = k
      BY <1>1, <2>1, <2>2, <2>6
    <3> HIDE DEF i
    <3>2. k = Shifted(E, plan, i) BY <1>3, <3>1
    <3> QED BY <2>3, <3>1, <3>2
  <2>7. CASE ~(k <= at) /\ ~(k <= at + c) /\ k = p + c + 1
    <3>1. f[k] = f[k - 1] BY <1>1, <2>1, <2>2, <2>7
    <3>2. B.neurons[k].uuid \in Introduced(plan) BY <1>2, <1>5, <2>7
    <3> QED BY <1>8, <3>1, <3>2
  <2>8. CASE ~(k <= at) /\ ~(k <= at + c) /\ ~(k <= p + c) /\ k # p + c + 1
    <3> DEFINE i == k - c - 1
    <3>1. i \in 1 .. N /\ f[k] = i /\ f[k] = f[k - 1] + 1 /\ ~(i <= at) /\ ~(i <= p) /\ i + c + 1 = k
      BY <1>1, <2>1, <2>2, <2>8
    <3> HIDE DEF i
    <3>2. k = Shifted(E, plan, i) BY <1>3, <3>1
    <3> QED BY <2>3, <3>1, <3>2
  <2> QED BY <2>4, <2>5, <2>6, <2>7, <2>8
<1>13. Along(f, E.neurons, K, B.neurons, L)
  <2> HIDE DEF K
  <2> QED BY <1>2, <1>10, <1>11, <1>12 DEF Along, N
<1>14. KeptOf(B.neurons, L) = KeptOf(E.neurons, K)
  <2> HIDE DEF K
  <2> QED BY <1>7, <1>13, KeptAlong
<1> QED BY <1>14 DEF NeuronsLeft, L, N

\* Grafting a plan that fits keeps a creature fresh.
LEMMA FreshStays ==
  ASSUME NEW E, IsExport(E), NEW plan, IsPlan(plan), Fits(E, plan), NEW B, Grows(E, plan, B),
         NEW New, NEW E0, Fresh(E, New, E0)
  PROVE  Fresh(B, New \cup Introduced(plan), E0)
<1> DEFINE p == Place(E, plan)
           at == ConstantsAt(E, p)
           c == Len(plan.constants)
           N == Len(E.neurons)
           I == Introduced(plan)
<1>1. /\ N \in Nat /\ c \in Nat /\ E.input \in Nat /\ p \in Int /\ at \in Int
      /\ 0 <= at /\ at <= p /\ p <= N
  <2>1. N \in Nat /\ c \in Nat /\ E.input \in Nat BY LenProperties DEF IsExport, IsPlan
  <2>2. p \in 0 .. N BY PlaceFits
  <2> HIDE DEF p
  <2>3. at \in 0 .. p BY <2>2, ConstantsFit
  <2> HIDE DEF at, N, c
  <2> QED BY <2>1, <2>2, <2>3
<1>2. I = {plan.uuid} \cup {plan.constants[k].uuid : k \in 1 .. c} BY NamesAre DEF IsPlan
<1>3. plan.uuid \notin DOMAIN Wire(E) /\ \A k \in 1 .. c : plan.constants[k].uuid \notin DOMAIN Wire(E)
  BY DEF Fits, NamesFit
<1>4. \A u \in DOMAIN Wire(E) : u \notin I BY <1>2, <1>3
<1>5. /\ IsExport(B) /\ B.input = E.input
      /\ ToSet(B.synapses) = ToSet(E.synapses) \cup ToSet(Reads(plan)) \cup ToSet(Feeds(plan))
  BY DEF Grows
<1>6. /\ \A s \in ToSet(Reads(plan)) :
           /\ s.to = plan.uuid
           /\ \/ \E k \in 1 .. c : s.from = plan.constants[k].uuid
              \/ s.from \in DOMAIN Wire(E) /\ AtWire(E, s.from) - E.input + 1 <= p
      /\ \A s \in ToSet(Feeds(plan)) :
           /\ s.from = plan.uuid /\ s.to \in DOMAIN Wire(E) /\ E.input <= AtWire(E, s.to)
           /\ p <= AtWire(E, s.to) - E.input
  BY EdgesAreNamed DEF EdgesNamed
<1>7. /\ \A u \in DOMAIN Wire(E) :
           AtWire(B, u) = IF AtWire(E, u) < E.input THEN AtWire(E, u)
                          ELSE E.input + Shifted(E, plan, AtWire(E, u) - E.input + 1) - 1
      /\ AtWire(B, plan.uuid) = E.input + p + c
      /\ \A k \in 1 .. c : /\ E.input + at <= AtWire(B, plan.constants[k].uuid)
                           /\ AtWire(B, plan.constants[k].uuid) < E.input + at + c
  BY GrownWire DEF WireGrows
<1>8. \A u : AtWire(B, u) \in Int /\ AtWire(E, u) \in Int /\ AtWire(E, u) <= E.input + N - 1
  <2>1. \A u : AtWire(E, u) \in -1 .. E.input + N - 1 BY WireTyped
  <2>2. \A u : AtWire(B, u) \in -1 .. B.input + Len(B.neurons) - 1 BY <1>5, WireTyped
  <2>3. Len(B.neurons) \in Nat BY <1>5, LenProperties DEF IsExport
  <2> HIDE DEF N
  <2> QED BY <1>1, <1>5, <2>1, <2>2, <2>3
<1>9. \A i \in 1 .. N : /\ Shifted(E, plan, i) \in Int /\ 1 <= Shifted(E, plan, i)
                        /\ IF i <= p THEN Shifted(E, plan, i) < p + c + 1 ELSE p + c + 1 < Shifted(E, plan, i)
  <2>1. \A i \in 1 .. N : /\ Shifted(E, plan, i) \in 1 .. N + c + 1
                          /\ IF i <= p THEN Shifted(E, plan, i) < p + c + 1 ELSE p + c + 1 < Shifted(E, plan, i)
    BY ShiftedIs
  <2> HIDE DEF p, at, c, N
  <2> QED BY <1>1, <2>1
<1>10. EndsKnown(E) /\ ReadsAhead(E, New) /\ ConstantsApart(E, New) BY DEF Fresh
<1> HIDE DEF p, at, c, N, I
<1>11. ASSUME NEW s \in ToSet(Reads(plan)) PROVE AtWire(B, s.from) < AtWire(B, s.to)
  <2>1. s.to = plan.uuid /\ AtWire(B, s.to) = E.input + p + c BY <1>6, <1>7
  <2> DEFINE x == AtWire(E, s.from)
             y == AtWire(B, s.from)
  <2>2. CASE \E k \in 1 .. c : s.from = plan.constants[k].uuid
    <3>1. y < E.input + at + c BY <1>7, <2>2
    <3>2. y \in Int BY <1>8
    <3> HIDE DEF y
    <3>3. y < E.input + p + c BY <1>1, <3>1, <3>2
    <3> QED BY <2>1, <3>3 DEF y
  <2>3. CASE s.from \in DOMAIN Wire(E) /\ x - E.input + 1 <= p
    <3>1. y = IF x < E.input THEN x ELSE E.input + Shifted(E, plan, x - E.input + 1) - 1 BY <1>7, <2>3
    <3>2. x \in Int /\ y \in Int /\ x <= E.input + N - 1 BY <1>8
    <3> HIDE DEF x, y
    <3>3. CASE x < E.input
      <4>1. y < E.input + p + c BY <1>1, <3>1, <3>2, <3>3
      <4> QED BY <2>1, <4>1 DEF y
    <3>4. CASE ~(x < E.input)
      <4> DEFINE i == x - E.input + 1
      <4>1. i \in 1 .. N /\ i <= p BY <1>1, <2>3, <3>2, <3>4
      <4>2. y = E.input + Shifted(E, plan, i) - 1 BY <3>1, <3>4
      <4> HIDE DEF i
      <4>3. Shifted(E, plan, i) \in Int /\ Shifted(E, plan, i) < p + c + 1 BY <1>9, <4>1
      <4>4. y < E.input + p + c BY <1>1, <4>2, <4>3
      <4> QED BY <2>1, <4>4 DEF y
    <3> QED BY <3>3, <3>4
  <2> QED BY <1>6, <2>2, <2>3
<1>12. ASSUME NEW s \in ToSet(Feeds(plan)) PROVE AtWire(B, s.from) < AtWire(B, s.to)
  <2>1. s.from = plan.uuid /\ AtWire(B, s.from) = E.input + p + c BY <1>6, <1>7
  <2> DEFINE x == AtWire(E, s.to)
             y == AtWire(B, s.to)
             i == x - E.input + 1
  <2>2. s.to \in DOMAIN Wire(E) /\ E.input <= x /\ p <= x - E.input BY <1>6
  <2>3. x \in Int /\ y \in Int /\ x <= E.input + N - 1 BY <1>8
  <2>4. y = IF x < E.input THEN x ELSE E.input + Shifted(E, plan, i) - 1 BY <1>7, <2>2
  <2> HIDE DEF x, y
  <2>5. i \in 1 .. N /\ ~(i <= p) /\ ~(x < E.input) BY <1>1, <2>2, <2>3
  <2> HIDE DEF i
  <2>6. Shifted(E, plan, i) \in Int /\ p + c + 1 < Shifted(E, plan, i) BY <1>9, <2>5
  <2>7. E.input + p + c < y BY <1>1, <2>4, <2>5, <2>6
  <2> QED BY <2>1, <2>7 DEF y
<1>13. ASSUME NEW s \in ToSet(E.synapses)
       PROVE  /\ s.from \in DOMAIN Wire(E) /\ s.to \in DOMAIN Wire(E) /\ s.from \notin I /\ s.to \notin I
              /\ AtWire(E, s.from) < AtWire(E, s.to) => AtWire(B, s.from) < AtWire(B, s.to)
  <2>1. s.from \in DOMAIN Wire(E) /\ s.to \in DOMAIN Wire(E) BY <1>10 DEF EndsKnown
  <2>2. AtWire(E, s.from) < AtWire(E, s.to) => AtWire(B, s.from) < AtWire(B, s.to) BY <2>1, StaysAhead
  <2> QED BY <1>4, <2>1, <2>2
<1>14. \A u \in DOMAIN Wire(E) \cup I : u \in DOMAIN Wire(B)
  <2> SUFFICES ASSUME NEW u \in DOMAIN Wire(E) \cup I PROVE AtWire(B, u) # Nowhere BY <1>5, WireDomain
  <2>0. Nowhere = -1 BY DEF Nowhere
  <2>1. CASE u = plan.uuid
    <3>1. E.input + p + c # -1 BY <1>1
    <3> QED BY <1>7, <2>0, <2>1, <3>1
  <2>2. CASE \E k \in 1 .. c : u = plan.constants[k].uuid
    <3> DEFINE y == AtWire(B, u)
    <3>1. E.input + at <= y /\ y \in Int BY <1>7, <1>8, <2>2
    <3> HIDE DEF y
    <3>2. y # -1 BY <1>1, <3>1
    <3> QED BY <2>0, <3>2 DEF y
  <2>3. CASE u \in DOMAIN Wire(E)
    <3> DEFINE x == AtWire(E, u)
               y == AtWire(B, u)
    <3>1. 0 <= x BY <2>3, WireDomain
    <3>2. x \in Int /\ y \in Int /\ x <= E.input + N - 1 BY <1>8
    <3>3. y = IF x < E.input THEN x ELSE E.input + Shifted(E, plan, x - E.input + 1) - 1 BY <1>7, <2>3
    <3> HIDE DEF x, y
    <3>4. CASE x < E.input
      <4>1. y # -1 BY <3>1, <3>2, <3>3, <3>4
      <4> QED BY <2>0, <4>1 DEF y
    <3>5. CASE ~(x < E.input)
      <4> DEFINE i == x - E.input + 1
      <4>1. i \in 1 .. N BY <1>1, <3>2, <3>5
      <4>2. y = E.input + Shifted(E, plan, i) - 1 BY <3>3, <3>5
      <4> HIDE DEF i
      <4>3. Shifted(E, plan, i) \in Int /\ 1 <= Shifted(E, plan, i) BY <1>9, <4>1
      <4>4. y # -1 BY <1>1, <4>2, <4>3
      <4> QED BY <2>0, <4>4 DEF y
    <3> QED BY <3>4, <3>5
  <2> QED BY <1>2, <2>1, <2>2, <2>3
<1>15. EndsKnown(B)
  <2> SUFFICES ASSUME NEW s \in ToSet(B.synapses)
               PROVE  s.from \in DOMAIN Wire(E) \cup I /\ s.to \in DOMAIN Wire(E) \cup I
    BY <1>14 DEF EndsKnown
  <2>1. CASE s \in ToSet(E.synapses) BY <1>13, <2>1
  <2>2. CASE s \in ToSet(Reads(plan)) BY <1>2, <1>6, <2>2
  <2>3. CASE s \in ToSet(Feeds(plan)) BY <1>2, <1>6, <2>3
  <2> QED BY <1>5, <2>1, <2>2, <2>3
<1>16. ReadsAhead(B, New \cup I)
  <2> SUFFICES ASSUME NEW s \in ToSet(B.synapses), {s.from, s.to} \cap (New \cup I) # {}
               PROVE  AtWire(B, s.from) < AtWire(B, s.to)
    BY DEF ReadsAhead
  <2>1. CASE s \in ToSet(E.synapses)
    <3>1. {s.from, s.to} \cap New # {} BY <1>13, <2>1
    <3> QED BY <1>10, <1>13, <2>1, <3>1 DEF ReadsAhead
  <2> QED BY <1>5, <1>11, <1>12, <2>1
<1>17. SynapsesLeft(B, New \cup I) = SynapsesLeft(E, New)
  <2>1. ASSUME NEW s \in ToSet(E.synapses)
        PROVE  {s.from, s.to} \cap (New \cup I) = {} <=> {s.from, s.to} \cap New = {}
    BY <1>13
  <2>2. \A s \in ToSet(Reads(plan)) \cup ToSet(Feeds(plan)) : {s.from, s.to} \cap (New \cup I) # {}
    <3>1. \A s \in ToSet(Reads(plan)) \cup ToSet(Feeds(plan)) : plan.uuid \in {s.from, s.to} BY <1>6
    <3>2. plan.uuid \in I BY <1>2
    <3> QED BY <3>1, <3>2
  <2> QED BY <1>5, <2>1, <2>2 DEF SynapsesLeft
<1>18. NeuronsLeft(B, New \cup I) = NeuronsLeft(E, New) BY GrownLeaves DEF I
<1>19. ConstantsApart(B, New \cup I)
  <2> SUFFICES ASSUME NEW i \in 1 .. Len(B.neurons), NEW j \in 1 .. Len(B.neurons), i < j,
                      B.neurons[j].type = "constant", B.neurons[i].type # "constant"
               PROVE  {B.neurons[i].uuid, B.neurons[j].uuid} \cap (New \cup I) = {}
    BY DEF ConstantsApart
  <2>1. NeuronsGrow(E, plan, B) BY GrownNeurons DEF Grows
  <2>2. TheNode(plan).type = "hidden" /\ \A k \in 1 .. c : TheConstant(plan, k).type = "constant"
    BY DEF TheNode, TheConstant, NewNeuron
  <2>3. /\ \A k \in 1 .. N : /\ Shifted(E, plan, k) \in Int
                             /\ IF k <= at THEN Shifted(E, plan, k) = k ELSE at + c < Shifted(E, plan, k)
                             /\ IF k <= p THEN Shifted(E, plan, k) < p + c + 1 ELSE p + c + 1 < Shifted(E, plan, k)
        /\ \A k, l \in 1 .. N : k < l => Shifted(E, plan, k) < Shifted(E, plan, l)
    <3>1. /\ \A k \in 1 .. N : IF k <= at THEN Shifted(E, plan, k) = k ELSE at + c < Shifted(E, plan, k)
          /\ \A k, l \in 1 .. N : k < l => Shifted(E, plan, k) < Shifted(E, plan, l)
      BY ShiftedIs DEF p, at, c, N
    <3> QED BY <1>9, <3>1
  <2>4. \A k \in 1 .. N : IF E.neurons[k].type = "constant" THEN k <= p ELSE at < k
    BY PlacedBetween DEF p, at, N
  <2>5. /\ \/ \E k \in 1 .. N : i = Shifted(E, plan, k) /\ B.neurons[i] = E.neurons[k]
           \/ i = p + c + 1 /\ B.neurons[i] = TheNode(plan)
        /\ \/ \E k \in 1 .. N : j = Shifted(E, plan, k) /\ B.neurons[j] = E.neurons[k]
           \/ \E k \in 1 .. c : j = at + k
    BY <2>1, <2>2 DEF NeuronsGrow, N, p, at, c
  <2>6. i \in Int /\ j \in Int
    <3>1. Len(B.neurons) \in Nat BY <1>5, LenProperties DEF IsExport
    <3> QED BY <3>1
  <2>7. CASE \E k \in 1 .. c : j = at + k
    <3>1. j <= at + c BY <1>1, <2>7
    <3>2. CASE \E k \in 1 .. N : i = Shifted(E, plan, k) /\ B.neurons[i] = E.neurons[k]
      <4>1. PICK k \in 1 .. N : i = Shifted(E, plan, k) /\ B.neurons[i] = E.neurons[k] BY <3>2
      <4>2. at < k BY <2>4, <4>1
      <4>3. k \in Int BY <1>1
      <4>4. at + c < i BY <1>1, <2>3, <4>1, <4>2, <4>3
      <4> QED BY <1>1, <2>6, <3>1, <4>4
    <3>3. CASE i = p + c + 1 BY <1>1, <2>6, <3>1, <3>3
    <3> QED BY <2>5, <3>2, <3>3
  <2>8. CASE \E k \in 1 .. N : j = Shifted(E, plan, k) /\ B.neurons[j] = E.neurons[k]
    <3>1. PICK l \in 1 .. N : j = Shifted(E, plan, l) /\ B.neurons[j] = E.neurons[l] BY <2>8
    <3>2. l \in Int /\ l <= p BY <1>1, <2>4, <3>1
    <3>3. j < p + c + 1 BY <2>3, <3>1, <3>2
    <3>4. i # p + c + 1 BY <1>1, <2>6, <3>3
    <3>5. PICK k \in 1 .. N : i = Shifted(E, plan, k) /\ B.neurons[i] = E.neurons[k] BY <2>5, <3>4
    <3>6. k < l
      <4>1. k \in Int BY <1>1
      <4>2. CASE k = l BY <2>6, <3>1, <3>5, <4>2
      <4>3. CASE l < k
        <5>1. j < i BY <2>3, <3>1, <3>5, <4>3
        <5> QED BY <2>6, <5>1
      <4> QED BY <3>2, <4>1, <4>2, <4>3
    <3>7. {E.neurons[k].uuid, E.neurons[l].uuid} \cap New = {}
      BY <1>10, <3>1, <3>5, <3>6 DEF ConstantsApart, N
    <3>8. E.neurons[k].uuid \notin I /\ E.neurons[l].uuid \notin I
      <4>1. E.neurons[k].uuid \in Listed(E) /\ E.neurons[l].uuid \in Listed(E) BY DEF Listed, N
      <4> QED BY <1>4, <4>1, WireDomain
    <3> QED BY <3>1, <3>5, <3>7, <3>8
  <2> QED BY <2>5, <2>7, <2>8
<1> QED BY <1>15, <1>16, <1>17, <1>18, <1>19 DEF Fresh, I

GateNames ==
  {"InvalidInputCount", "TooManyNodes", "InvalidOutputCount", "CountNotRepresentable", "UnknownSquash",
   "UnknownSourceUuid", "UnknownTargetUuid"}

\* Where no early rule of the gates is broken, every synapse ends at a known name
\* and every squash is known.
LEMMA EarlyRules ==
  ASSUME NEW E, IsExport(E)
  PROVE  LET early == WidthRules(E) \o CountRules(E) \o ReferenceRules(E) IN
         /\ early \in Seq(GateNames \X BOOLEAN)
         /\ FirstBroken(early) = "ok" =>
              EndsKnown(E) /\ \A i \in 1 .. Len(E.neurons) : IsKnownSquash(E.neurons[i])
<1> DEFINE N == GateNames
           R == N \X BOOLEAN
           n == Len(E.neurons)
           m == Len(E.synapses)
           widths == WidthRules(E)
           counts == CountRules(E)
           known == [i \in 1 .. n |-> <<"UnknownSquash", ~IsKnownSquash(E.neurons[i])>>]
           A(k) == AtWire(E, E.synapses[k].from) = Nowhere
           B(k) == AtWire(E, E.synapses[k].to) = Nowhere
           pair(k) == << <<"UnknownSourceUuid", A(k)>>, <<"UnknownTargetUuid", B(k)>> >>
           ends == [k \in 1 .. m |-> pair(k)]
<1>0. /\ n \in Nat /\ m \in Nat /\ E.synapses \in Seq(NamedSynapses) /\ "ok" \notin N
  BY LenProperties DEF IsExport, NamedSynapses, GateNames
<1>1. ASSUME NEW a \in Seq(R), NEW b \in Seq(R)
      PROVE  a \o b \in Seq(R) /\ (FirstBroken(a \o b) = "ok" => FirstBroken(a) = "ok" /\ FirstBroken(b) = "ok")
  <2> HIDE DEF N
  <2> QED BY <1>0, PartsUnbroken
<1>2. ASSUME NEW s \in Seq(R), FirstBroken(s) = "ok" PROVE \A i \in 1 .. Len(s) : ~s[i][2]
  <2> HIDE DEF N
  <2> QED BY <1>0, <1>2, FirstBrokenIs
<1>3. ReferenceRules(E) = known \o FlattenSeq(ends) BY DEF ReferenceRules
<1>4. widths \in Seq(R)
  <2> DEFINE P == E.input < 1
             Q == E.input > MaxNodes
             S == E.output < 1
             s == << <<"InvalidInputCount", P>>, <<"TooManyNodes", Q>>, <<"InvalidOutputCount", S>> >>
  <2>1. widths = s /\ P \in BOOLEAN /\ Q \in BOOLEAN /\ S \in BOOLEAN BY DEF WidthRules
  <2> HIDE DEF P, Q, S
  <2>2. <<"InvalidInputCount", P>> \in R /\ <<"TooManyNodes", Q>> \in R /\ <<"InvalidOutputCount", S>> \in R
    BY <2>1 DEF GateNames
  <2> HIDE DEF R, widths
  <2>3. s \in Seq(R) BY <2>2
  <2> QED BY <2>1, <2>3
<1>5. counts \in Seq(R)
  <2> DEFINE P == E.output > IndexSpace
             Q == DeclaredNodeCount(E) > IndexSpace
             s == << <<"CountNotRepresentable", P>>, <<"CountNotRepresentable", Q>> >>
  <2>1. counts = s /\ P \in BOOLEAN /\ Q \in BOOLEAN BY DEF CountRules
  <2> HIDE DEF P, Q
  <2>2. <<"CountNotRepresentable", P>> \in R /\ <<"CountNotRepresentable", Q>> \in R BY <2>1 DEF GateNames
  <2> HIDE DEF R, counts
  <2>3. s \in Seq(R) BY <2>2
  <2> QED BY <2>1, <2>3
<1>6. known \in Seq(R) /\ Len(known) = n /\ \A i \in 1 .. n : known[i][2] = ~IsKnownSquash(E.neurons[i])
  <2> DEFINE K(i) == ~IsKnownSquash(E.neurons[i])
  <2>1. \A i : K(i) \in BOOLEAN OBVIOUS
  <2> HIDE DEF K
  <2>2. \A i : <<"UnknownSquash", K(i)>> \in R BY <2>1 DEF GateNames
  <2>3. known = [i \in 1 .. n |-> <<"UnknownSquash", K(i)>>] BY DEF K
  <2> HIDE DEF R, n, known
  <2>4. known \in Seq(R) /\ Len(known) = n /\ \A i \in 1 .. n : known[i] = <<"UnknownSquash", K(i)>>
    BY <1>0, <2>2, <2>3
  <2>5. \A i \in 1 .. n : known[i][2] = K(i) BY <2>4
  <2> QED BY <2>4, <2>5 DEF K
<1>7. ASSUME NEW k \in 1 .. m
      PROVE  pair(k) \in Seq(R) /\ Len(pair(k)) = 2 /\ pair(k)[1][2] = A(k) /\ pair(k)[2][2] = B(k)
  <2>1. A(k) \in BOOLEAN /\ B(k) \in BOOLEAN OBVIOUS
  <2> HIDE DEF A, B
  <2>2. <<"UnknownSourceUuid", A(k)>> \in R /\ <<"UnknownTargetUuid", B(k)>> \in R BY <2>1 DEF GateNames
  <2> HIDE DEF R
  <2> QED BY <2>2
<1> HIDE DEF widths, counts, known, A, B, pair
<1>8. ends \in Seq(Seq(R)) /\ Len(ends) = m /\ \A k \in 1 .. m : ends[k] = pair(k)
  <2>1. \A k \in 1 .. m : pair(k) \in Seq(R) BY <1>7
  <2> HIDE DEF R, m
  <2> QED BY <1>0, <2>1
<1> HIDE DEF ends
<1>9. /\ FlattenSeq(ends) \in Seq(R)
      /\ FirstBroken(FlattenSeq(ends)) = "ok" => \A k \in 1 .. m : FirstBroken(pair(k)) = "ok"
  <2>1. /\ FlattenSeq(ends) \in Seq(R)
        /\ FirstBroken(FlattenSeq(ends)) = "ok" => \A k \in 1 .. Len(ends) : FirstBroken(ends[k]) = "ok"
    <3> HIDE DEF N
    <3> QED BY <1>0, <1>8, FlatUnbroken
  <2> HIDE DEF R, m
  <2> QED BY <1>8, <2>1
<1> HIDE DEF R
<1>10. /\ widths \o counts \o (known \o FlattenSeq(ends)) \in Seq(R)
       /\ FirstBroken(widths \o counts \o (known \o FlattenSeq(ends))) = "ok" =>
            FirstBroken(known) = "ok" /\ FirstBroken(FlattenSeq(ends)) = "ok"
  <2>1. widths \o counts \in Seq(R) BY <1>1, <1>4, <1>5
  <2>2. known \o FlattenSeq(ends) \in Seq(R) BY <1>1, <1>6, <1>9
  <2>3. /\ widths \o counts \o (known \o FlattenSeq(ends)) \in Seq(R)
        /\ FirstBroken(widths \o counts \o (known \o FlattenSeq(ends))) = "ok" =>
             FirstBroken(known \o FlattenSeq(ends)) = "ok"
    BY <1>1, <2>1, <2>2
  <2> QED BY <1>1, <1>6, <1>9, <2>3
<1> DEFINE early == WidthRules(E) \o CountRules(E) \o ReferenceRules(E)
<1>11. early = widths \o counts \o (known \o FlattenSeq(ends)) BY <1>3 DEF widths, counts
<1> HIDE DEF early
<1>12. early \in Seq(R) BY <1>10, <1>11
<1>13. SUFFICES ASSUME FirstBroken(early) = "ok"
                PROVE  EndsKnown(E) /\ \A i \in 1 .. Len(E.neurons) : IsKnownSquash(E.neurons[i])
  BY <1>12 DEF early, R
<1>14. FirstBroken(known) = "ok" /\ FirstBroken(FlattenSeq(ends)) = "ok" BY <1>10, <1>11, <1>13
<1>15. \A i \in 1 .. n : IsKnownSquash(E.neurons[i])
  <2> HIDE DEF n
  <2> QED BY <1>2, <1>6, <1>14
<1>16. \A k \in 1 .. m : ~A(k) /\ ~B(k)
  <2> SUFFICES ASSUME NEW k \in 1 .. m PROVE ~A(k) /\ ~B(k) OBVIOUS
  <2>1. FirstBroken(pair(k)) = "ok" BY <1>9, <1>14
  <2>2. \A i \in 1 .. 2 : ~pair(k)[i][2] BY <1>2, <1>7, <2>1
  <2>3. 1 \in 1 .. 2 /\ 2 \in 1 .. 2 OBVIOUS
  <2> QED BY <1>7, <2>2, <2>3
<1>17. EndsKnown(E)
  <2> SUFFICES ASSUME NEW s \in ToSet(E.synapses) PROVE s.from \in DOMAIN Wire(E) /\ s.to \in DOMAIN Wire(E)
    BY DEF EndsKnown
  <2>1. PICK k \in 1 .. m : s = E.synapses[k]
    <3>1. DOMAIN E.synapses = 1 .. m BY <1>0, LenProperties
    <3> QED BY <3>1 DEF ToSet
  <2>2. AtWire(E, s.from) # Nowhere /\ AtWire(E, s.to) # Nowhere BY <1>16, <2>1 DEF A, B
  <2> QED BY <2>2, WireDomain
<1> QED BY <1>15, <1>17

LateNames == {"MalformedTopology", "MalformedStructure", "DuplicateSynapse", "TypedDuplicateSynapse"}

LEMMA LateRulesTyped ==
  ASSUME NEW E, IsExport(E)
  PROVE  /\ GateRules(E) \in Seq(LateNames \X BOOLEAN) /\ DuplicateRules(E) \in Seq(LateNames \X BOOLEAN)
         /\ GateRules(E) \o DuplicateRules(E) \in Seq(LateNames \X BOOLEAN)
<1> DEFINE N == LateNames
           R == N \X BOOLEAN
           m == Len(E.synapses)
           dup(k) == LET s == E.synapses[k]
                         pair == {j \in 1 .. k - 1 : E.synapses[j].from = s.from /\ E.synapses[j].to = s.to}
                     IN << <<"DuplicateSynapse", \E j \in pair : E.synapses[j].role = s.role>>,
                           <<"TypedDuplicateSynapse", pair # {} /\ ~IsIfTarget(E, s.to)>> >>
           dups == [k \in 1 .. m |-> dup(k)]
<1>1. "ok" \notin N /\ m \in Nat BY LenProperties DEF LateNames, IsExport
<1>2. GateRules(E) \in Seq(R)
  <2> DEFINE edges == ByKey(Resolved(E), Resolved(E))
             P == E.forwardOnly /\ ~OrderedTyped(edges)
             Q == ~StructurallySound(edges, FlatViews(E), E.input, E.output)
             s == << <<"MalformedTopology", P>>, <<"MalformedStructure", Q>> >>
  <2>1. GateRules(E) = s /\ P \in BOOLEAN /\ Q \in BOOLEAN BY DEF GateRules
  <2> HIDE DEF P, Q
  <2>2. <<"MalformedTopology", P>> \in R /\ <<"MalformedStructure", Q>> \in R BY <2>1 DEF LateNames
  <2> HIDE DEF R
  <2>3. s \in Seq(R) BY <2>2
  <2> QED BY <2>1, <2>3
<1>3. DuplicateRules(E) \in Seq(R)
  <2>1. ASSUME NEW k \in 1 .. m PROVE dup(k) \in Seq(R)
    <3> DEFINE pair == {j \in 1 .. k - 1 : E.synapses[j].from = E.synapses[k].from
                                         /\ E.synapses[j].to = E.synapses[k].to}
               P == \E j \in pair : E.synapses[j].role = E.synapses[k].role
               Q == pair # {} /\ ~IsIfTarget(E, E.synapses[k].to)
               s == << <<"DuplicateSynapse", P>>, <<"TypedDuplicateSynapse", Q>> >>
    <3>1. dup(k) = s /\ P \in BOOLEAN /\ Q \in BOOLEAN OBVIOUS
    <3> HIDE DEF P, Q
    <3>2. <<"DuplicateSynapse", P>> \in R /\ <<"TypedDuplicateSynapse", Q>> \in R BY <3>1 DEF LateNames
    <3> HIDE DEF R, dup
    <3>3. s \in Seq(R) BY <3>2
    <3> QED BY <3>1, <3>3
  <2>2. DuplicateRules(E) = FlattenSeq(dups) BY DEF DuplicateRules
  <2> HIDE DEF dup, m
  <2>3. dups \in Seq(Seq(R))
    <3> HIDE DEF R
    <3> QED BY <1>1, <2>1
  <2> HIDE DEF dups
  <2>4. FlattenSeq(dups) \in Seq(R)
    <3> HIDE DEF N
    <3> QED BY <1>1, <2>3, FlatUnbroken
  <2> QED BY <2>2, <2>4
<1>4. GateRules(E) \o DuplicateRules(E) \in Seq(R)
  <2> DEFINE a == GateRules(E)
             b == DuplicateRules(E)
  <2> HIDE DEF a, b, R
  <2>1. a \in Seq(R) /\ b \in Seq(R) BY <1>2, <1>3 DEF a, b
  <2>2. a \o b \in Seq(R) BY <2>1, JoinedAt
  <2> QED BY <2>2 DEF a, b
<1> QED BY <1>2, <1>3, <1>4

\* What the gates say.
LEMMA GateSpeaks ==
  ASSUME NEW E, IsExport(E)
  PROVE  Gate(E) \in GateNames \cup LateNames \cup {"ok"}
<1>1. ASSUME NEW N, "ok" \notin N, NEW s \in Seq(N \X BOOLEAN) PROVE FirstBroken(s) \in N \cup {"ok"}
  BY <1>1, FirstBrokenIs
<1> DEFINE early == WidthRules(E) \o CountRules(E) \o ReferenceRules(E)
           late == GateRules(E) \o DuplicateRules(E)
<1>2. "ok" \notin GateNames /\ "ok" \notin LateNames BY DEF GateNames, LateNames
<1>3. FirstBroken(early) \in GateNames \cup {"ok"} BY <1>1, <1>2, EarlyRules
<1>4. FirstBroken(late) \in LateNames \cup {"ok"} BY <1>1, <1>2, LateRulesTyped
<1>5. Gate(E) = IF FirstBroken(early) # "ok" THEN FirstBroken(early) ELSE FirstBroken(late) BY DEF Gate
<1> HIDE DEF early, late
<1> QED BY <1>3, <1>4, <1>5

FreshInv == Assembled => Fresh(current, NewUuids, base.creature)

\* A job starts with the creature it grafts onto.
LEMMA StartIsFresh ==
  ASSUME CreatureInv, StartGraft
  PROVE  FreshInv'
<1> DEFINE E == host.creature
<1>1. /\ next' = 0 /\ current' = E /\ base'.creature = E /\ host' = host /\ job' = job + 1
      /\ outcome' = IF Gate(E) = "ok" THEN "assembling" ELSE Gate(E)
      /\ answers # <<>> /\ job < Len(Jobs)
  BY DEF StartGraft, vars
<1> SUFFICES ASSUME Assembled' PROVE Fresh(current', NewUuids', base'.creature) BY DEF FreshInv
<1>2. Len(Jobs) \in Nat /\ job \in Nat BY DEF CreatureInv, HostInv, JobsFine, Jobs, JobInv
<1>3. Jobs # <<>>
  <2>1. Jobs = <<>> => Len(Jobs) = 0 OBVIOUS
  <2> QED BY <1>1, <1>2, <2>1
<1>4. IsExport(E) BY <1>3 DEF CreatureInv, HostInv, IsHost, JobsFine, Jobs
<1>5. Gate(E) = "ok"
  <2>1. Gate(E) # "assembling" BY <1>4, GateSpeaks DEF GateNames, LateNames
  <2> QED BY <1>1, <2>1 DEF Assembled
<1>6. NewUuids' = {}
  <2>1. 1 .. next' = {} BY <1>1
  <2>2. Grafted' = {} BY <2>1 DEF Grafted
  <2> QED BY <2>2 DEF NewUuids
<1>7. EndsKnown(E)
  <2>1. FirstBroken(WidthRules(E) \o CountRules(E) \o ReferenceRules(E)) = "ok" BY <1>5 DEF Gate
  <2> QED BY <1>4, <2>1, EarlyRules
<1>8. ReadsAhead(E, {}) /\ ConstantsApart(E, {}) /\ SynapsesLeft(E, {}) = ToSet(E.synapses)
  BY DEF ReadsAhead, ConstantsApart, SynapsesLeft
<1>9. NeuronsLeft(E, {}) = E.neurons
  <2>1. E.neurons \in Seq(ToSet(E.neurons)) BY <1>4 DEF IsExport
  <2> DEFINE K == {i \in 1 .. Len(E.neurons) : E.neurons[i].uuid \notin {}}
  <2>2. 1 .. Len(E.neurons) \subseteq K OBVIOUS
  <2> HIDE DEF K
  <2>3. KeptOf(E.neurons, K) = E.neurons BY <2>1, <2>2, KeptWhole
  <2> QED BY <2>3 DEF NeuronsLeft, K
<1>10. Fresh(E, {}, E) BY <1>7, <1>8, <1>9 DEF Fresh
<1> QED BY <1>1, <1>6, <1>10

\* A node that passes its rules is grafted where it reads and feeds in order.
LEMMA GraftIsFresh ==
  ASSUME CreatureInv, FreshInv, GraftOne
  PROVE  FreshInv'
<1> DEFINE spec == SpecAt(next + 1)
           plan == Plan(spec)
           E == current
           B == Build(E, plan, Place(E, plan))
           refusal == FirstBroken(PlanRules(spec) \o PlacementRules(E, plan, RequiresTargets(next + 1)))
<1>1. /\ outcome = "assembling" /\ next < Len(Doing.specs) /\ UNCHANGED <<vars, job, base>>
      /\ IF refusal # "ok" THEN UNCHANGED <<current, next>> ELSE current' = B /\ next' = next + 1
  BY DEF GraftOne
<1>2. Fresh(E, NewUuids, base.creature) BY <1>1 DEF FreshInv, Assembled
<1>3. next \in Nat /\ job \in Nat /\ job # 0 /\ IsExport(E) /\ job <= Len(Jobs) /\ Len(Jobs) \in Nat
  BY <1>1 DEF CreatureInv, JobInv, HostInv, JobsFine, Jobs
<1>4. \A k : Plan(SpecAt(k))' = Plan(SpecAt(k))
  <2>1. host' = host /\ job' = job BY <1>1 DEF vars
  <2> QED BY <2>1 DEF SpecAt, Doing, Jobs
<1>5. CASE refusal # "ok"
  <2>1. current' = current /\ next' = next /\ base' = base BY <1>1, <1>5
  <2>2. NewUuids' = NewUuids BY <1>4, <2>1 DEF NewUuids, Grafted
  <2> QED BY <1>2, <2>1, <2>2 DEF FreshInv
<1>6. CASE refusal = "ok"
  <2>1. current' = B /\ next' = next + 1 /\ base' = base BY <1>1, <1>6
  <2>2. IsPlan(plan)
    <3>1. JobsFine(host) /\ job \in 1 .. Len(Jobs) BY <1>3 DEF CreatureInv, HostInv
    <3>2. Len(Doing.specs) \in Nat BY <3>1 DEF JobsFine, Doing, Jobs
    <3>3. next + 1 \in 1 .. Len(Doing.specs) BY <1>1, <1>3, <3>2
    <3> QED BY <3>1, <3>3, SpecTyped
  <2>3. RequiresTargets(next + 1) \in BOOLEAN BY DEF RequiresTargets
  <2>4. NewUuids' = NewUuids \cup Introduced(plan)
    <3>1. 1 .. next' = (1 .. next) \cup {next + 1} BY <1>3, <2>1
    <3>2. Grafted' = {Plan(SpecAt(k)) : k \in 1 .. next'} BY <1>4 DEF Grafted
    <3>3. Grafted' = Grafted \cup {plan} BY <3>1, <3>2 DEF Grafted
    <3> HIDE DEF plan
    <3> QED BY <3>3 DEF NewUuids
  <2> HIDE DEF plan, spec
  <2>5. Fits(E, plan) BY <1>3, <1>6, <2>2, <2>3, PlacementFits
  <2>6. Grows(E, plan, B) BY <1>3, <2>2, BuildGrows
  <2> HIDE DEF B
  <2>7. Fresh(B, NewUuids \cup Introduced(plan), base.creature)
    BY <1>2, <1>3, <2>2, <2>5, <2>6, FreshStays
  <2> QED BY <2>1, <2>4, <2>7 DEF FreshInv
<1> QED BY <1>5, <1>6

\* What is left alone stays fresh.
LEMMA FreshAsIs ==
  ASSUME FreshInv, Jobs' = Jobs, UNCHANGED <<job, next, current, base>>, Assembled' => Assembled
  PROVE  FreshInv'
<1>1. \A k : Plan(SpecAt(k))' = Plan(SpecAt(k)) BY DEF SpecAt, Doing
<1>2. NewUuids' = NewUuids BY <1>1 DEF NewUuids, Grafted
<1> QED BY <1>2 DEF FreshInv

LEMMA FreshAlways == GraftSpec => []FreshInv
<1>1. GraftInit => FreshInv BY DEF GraftInit, FreshInv, Assembled
<1>2. CreatureInv /\ FreshInv /\ [GraftNext]_<<vars, gvars>> => FreshInv'
  <2> SUFFICES ASSUME CreatureInv, FreshInv, [GraftNext]_<<vars, gvars>> PROVE FreshInv' OBVIOUS
  <2>1. CASE UNCHANGED gvars /\ host' = host
    <3>1. Jobs' = Jobs BY <2>1 DEF Jobs
    <3> QED BY <2>1, <3>1, FreshAsIs DEF gvars, Assembled
  <2>2. CASE AskAgain BY <2>1, <2>2 DEF AskAgain, Ask
  <2>3. CASE Validating /\ ~EditAndPrune BY <2>1, <2>3 DEF Validating, Rules, Memory, Answer
  <2>4. CASE Validating /\ EditAndPrune
    <3>1. UNCHANGED gvars /\ host.export BY <2>4 DEF Validating, EditAndPrune
    <3>2. PICK D \in Edits(host.creature) : host' = [host EXCEPT !.creature = Pruned(D)]
      BY <2>4 DEF EditAndPrune
    <3>3. HostInv /\ IsExport(host.creature) BY <3>1 DEF CreatureInv, HostInv, IsHost
    <3>4. Jobs' = Jobs BY <3>1, <3>2, <3>3, EditTyped, HostTakes
    <3> QED BY <3>1, <3>4, FreshAsIs DEF gvars, Assembled
  <2>5. CASE StartGraft BY <2>5, StartIsFresh
  <2>6. CASE GraftOne BY <2>6, GraftIsFresh
  <2>7. CASE FinishGraft
    <3>1. /\ outcome = "assembling" /\ host' = host /\ UNCHANGED <<job, next, current, base>>
      BY <2>7 DEF FinishGraft, vars
    <3>2. Jobs' = Jobs BY <3>1 DEF Jobs
    <3>3. Assembled BY <3>1 DEF Assembled
    <3> QED BY <3>1, <3>2, <3>3, FreshAsIs
  <2>8. CASE TakeResult BY <2>8 DEF TakeResult, FreshInv, Assembled
  <2>9. CASE UNCHANGED <<vars, gvars>> BY <2>1, <2>9 DEF vars
  <2> QED BY <2>2, <2>3, <2>4, <2>5, <2>6, <2>7, <2>8, <2>9 DEF GraftNext
<1> QED BY <1>1, <1>2, CreatureOrder, PTL DEF GraftSpec

\* Whatever a job grafts, one node after another, every grafted node stands behind
\* all it reads and in front of all it feeds, the constants stay in front, and
\* taking the new neurons out again leaves the base in its order with its synapses.
THEOREM GraftsAlwaysReadFresh == GraftSpec => []GraftsReadFresh
<1>1. CreatureInv /\ FreshInv => GraftsReadFresh
  <2> SUFFICES ASSUME CreatureInv, FreshInv, Assembled
               PROVE  /\ \A k \in 1 .. Len(current.synapses) :
                           {current.synapses[k].from, current.synapses[k].to} \cap NewUuids # {} =>
                             AtWire(current, current.synapses[k].from) < AtWire(current, current.synapses[k].to)
                      /\ ConstantsApart(current, NewUuids)
                      /\ NeuronsLeft(current, NewUuids) = base.creature.neurons
                      /\ SynapsesLeft(current, NewUuids) = ToSet(base.creature.synapses)
    BY DEF GraftsReadFresh, ConstantsApart, NeuronsLeft, SynapsesLeft
  <2>1. Fresh(current, NewUuids, base.creature) BY DEF FreshInv
  <2>2. IsExport(current) BY DEF CreatureInv, JobInv, Assembled
  <2>3. \A k \in 1 .. Len(current.synapses) : current.synapses[k] \in ToSet(current.synapses)
    <3>1. DOMAIN current.synapses = 1 .. Len(current.synapses) BY <2>2, LenProperties DEF IsExport
    <3> QED BY <3>1 DEF ToSet
  <2> QED BY <2>1, <2>3 DEF Fresh, ReadsAhead
<1> QED BY <1>1, CreatureOrder, FreshAlways, PTL

-----------------------------------------------------------------------------
(* A healthy creature, and what a graft leaves of its health                *)

\* No rule on neuron i of r is broken, behind w.
NeuronClear(r, w, i) ==
  LET v == r.views[i + 1] IN
  /\ v.idKind # "none" /\ v.idKind # "fraction"
  /\ ~(v.idKind = "integer" /\ v.id > MaxNeuronId) /\ ~(v.idKind = "integer" /\ v.id \in w.ids)
  /\ ~(v.kind = "input" /\ v.id # i) /\ ~(v.kind # "input" /\ v.bias # "finite")
  /\ ~(v.kind # "output" /\ w.outputs > 0) /\ ~(v.kind = "input" /\ i > r.input)
  /\ ~(InSlice(r, i) /\ v.kind = "constant" /\ w.seenHidden) /\ ~BreaksIf(r, i)
  /\ ~(v.kind = "input" /\ InwardSynapses(r.syn, i) # {})
  /\ ~(v.kind = "constant" /\ InwardSynapses(r.syn, i) # {})
  /\ ~(v.kind = "constant" /\ v.squash # "none")
  /\ ~(v.kind = "constant" /\ OutwardSynapses(r.syn, i) = {})
  /\ ~(v.kind = "hidden" /\ HiddenWiringFault(r.syn, i) = "NO_INWARD")
  /\ ~(v.kind = "hidden" /\ HiddenWiringFault(r.syn, i) = "NO_OUTWARD")
  /\ ~(v.kind = "hidden" /\ v.bias # "finite") /\ v.kind # "invalid"

\* A neuron passes when each rule of its walk is met.
LEMMA NeuronClearIs ==
  ASSUME NEW r, NEW w, NEW i
  PROVE  NeuronVerdict(r, w, i) = "ok" <=> NeuronClear(r, w, i)
<1> DEFINE v == r.views[i + 1]
           N == NeuronRuleNames
           R == N \X BOOLEAN
           a == IdRules(w, v, i)
           b == OrderRules(r, w, v, i)
           c == KindRules(r, v, i)
           A1 == v.idKind = "none"
           A2 == v.idKind = "fraction" \/ (v.idKind = "integer" /\ v.id > MaxNeuronId)
           A3 == v.idKind = "integer" /\ v.id \in w.ids
           A4 == v.kind = "input" /\ v.id # i
           A5 == v.kind # "input" /\ v.bias # "finite"
           B1 == v.kind # "output" /\ w.outputs > 0
           B2 == v.kind = "input" /\ i > r.input
           B3 == InSlice(r, i) /\ v.kind = "constant" /\ w.seenHidden
           B4 == BreaksIf(r, i)
           C1 == v.kind = "input" /\ InwardSynapses(r.syn, i) # {}
           C2 == v.kind = "constant" /\ InwardSynapses(r.syn, i) # {}
           C3 == v.kind = "constant" /\ v.squash # "none"
           C4 == v.kind = "constant" /\ OutwardSynapses(r.syn, i) = {}
           C5 == v.kind = "hidden" /\ HiddenWiringFault(r.syn, i) = "NO_INWARD"
           C6 == v.kind = "hidden" /\ HiddenWiringFault(r.syn, i) = "NO_OUTWARD"
           C7 == v.kind = "hidden" /\ v.bias # "finite"
           C8 == v.kind = "invalid"
<1>1. "ok" \notin N BY DEF NeuronRuleNames
<1>2. /\ A1 \in BOOLEAN /\ A2 \in BOOLEAN /\ A3 \in BOOLEAN /\ A4 \in BOOLEAN /\ A5 \in BOOLEAN
      /\ B1 \in BOOLEAN /\ B2 \in BOOLEAN /\ B3 \in BOOLEAN /\ B4 \in BOOLEAN
      /\ C1 \in BOOLEAN /\ C2 \in BOOLEAN /\ C3 \in BOOLEAN /\ C4 \in BOOLEAN
      /\ C5 \in BOOLEAN /\ C6 \in BOOLEAN /\ C7 \in BOOLEAN /\ C8 \in BOOLEAN
  BY DEF BreaksIf
<1>3. /\ a = << <<"4", A1>>, <<"5", A2>>, <<"6", A3>>, <<"7", A4>>, <<"8", A5>> >>
      /\ b = << <<"9", B1>>, <<"10", B2>>, <<"11", B3>>, <<"12", B4>> >>
      /\ c = << <<"13", C1>>, <<"14", C2>>, <<"15", C3>>, <<"16", C4>>, <<"17", C5>>, <<"18", C6>>,
                <<"19", C7>>, <<"20", C8>> >>
  BY DEF IdRules, OrderRules, KindRules
<1>4. NeuronVerdict(r, w, i) = FirstBroken((a \o b) \o c) BY DEF NeuronVerdict
<1>5. NeuronClear(r, w, i) <=> /\ ~A1 /\ ~A2 /\ ~A3 /\ ~A4 /\ ~A5 /\ ~B1 /\ ~B2 /\ ~B3 /\ ~B4
                               /\ ~C1 /\ ~C2 /\ ~C3 /\ ~C4 /\ ~C5 /\ ~C6 /\ ~C7 /\ ~C8
  BY DEF NeuronClear
<1> HIDE DEF a, b, c, A1, A2, A3, A4, A5, B1, B2, B3, B4, C1, C2, C3, C4, C5, C6, C7, C8
<1>6. /\ <<"4", A1>> \in R /\ <<"5", A2>> \in R /\ <<"6", A3>> \in R /\ <<"7", A4>> \in R /\ <<"8", A5>> \in R
      /\ <<"9", B1>> \in R /\ <<"10", B2>> \in R /\ <<"11", B3>> \in R /\ <<"12", B4>> \in R
      /\ <<"13", C1>> \in R /\ <<"14", C2>> \in R /\ <<"15", C3>> \in R /\ <<"16", C4>> \in R
      /\ <<"17", C5>> \in R /\ <<"18", C6>> \in R /\ <<"19", C7>> \in R /\ <<"20", C8>> \in R
  BY <1>2 DEF NeuronRuleNames
<1> HIDE DEF R, N
<1>7. a \in Seq(R) /\ Len(a) = 5 /\ ((\A k \in 1 .. 5 : ~a[k][2]) <=> ~A1 /\ ~A2 /\ ~A3 /\ ~A4 /\ ~A5)
  <2>1. 1 .. 5 = {1, 2, 3, 4, 5} OBVIOUS
  <2> QED BY <1>3, <1>6, <2>1
<1>8. b \in Seq(R) /\ Len(b) = 4 /\ ((\A k \in 1 .. 4 : ~b[k][2]) <=> ~B1 /\ ~B2 /\ ~B3 /\ ~B4)
  <2>1. 1 .. 4 = {1, 2, 3, 4} OBVIOUS
  <2> QED BY <1>3, <1>6, <2>1
<1>9. /\ c \in Seq(R) /\ Len(c) = 8
      /\ (\A k \in 1 .. 8 : ~c[k][2]) <=> ~C1 /\ ~C2 /\ ~C3 /\ ~C4 /\ ~C5 /\ ~C6 /\ ~C7 /\ ~C8
  <2>1. 1 .. 8 = {1, 2, 3, 4, 5, 6, 7, 8} OBVIOUS
  <2> QED BY <1>3, <1>6, <2>1
<1>10. ASSUME NEW s \in Seq(R)
       PROVE  FirstBroken(s) = "ok" <=> \A k \in 1 .. Len(s) : ~s[k][2]
  BY <1>1, FirstBrokenIs DEF R
<1>11. a \o b \in Seq(R) /\ (FirstBroken(a \o b) = "ok" <=> FirstBroken(a) = "ok" /\ FirstBroken(b) = "ok")
  BY <1>1, <1>7, <1>8, JoinedUnbroken DEF R
<1> DEFINE ab == a \o b
<1>11b. ab \in Seq(R) BY <1>11
<1>11c. FirstBroken(ab) = "ok" <=> FirstBroken(a) = "ok" /\ FirstBroken(b) = "ok" BY <1>11
<1> HIDE DEF ab
<1>12. FirstBroken(ab \o c) = "ok" <=> FirstBroken(ab) = "ok" /\ FirstBroken(c) = "ok"
  <2>1. ab \in Seq(N \X BOOLEAN) /\ c \in Seq(N \X BOOLEAN) BY <1>9, <1>11b DEF R
  <2> QED BY <1>1, <2>1, JoinedUnbroken
<1>12b. (a \o b) \o c = ab \o c BY DEF ab
<1>13. FirstBroken(a) = "ok" <=> ~A1 /\ ~A2 /\ ~A3 /\ ~A4 /\ ~A5 BY <1>7, <1>10
<1>14. FirstBroken(b) = "ok" <=> ~B1 /\ ~B2 /\ ~B3 /\ ~B4 BY <1>8, <1>10
<1>15. FirstBroken(c) = "ok" <=> ~C1 /\ ~C2 /\ ~C3 /\ ~C4 /\ ~C5 /\ ~C6 /\ ~C7 /\ ~C8 BY <1>9, <1>10
<1> QED BY <1>4, <1>5, <1>11c, <1>12, <1>12b, <1>13, <1>14, <1>15

\* No rule on synapse s of r is broken, behind l.
SynapseClear(r, l, s) ==
  /\ r.views[s.to + 1].kind # "input"
  /\ ~(r.options.forwardOnly /\ s.from = s.to)
  /\ ~OutOfOrder(l, s) /\ ~(SamePair(l, s) /\ s.role = l.role) /\ ~RepeatsIntoPlain(r, l, s)
  /\ ~(s.from > s.to /\ RejectsRecursive(r.options))

\* A synapse passes when each rule of its walk is met.
LEMMA SynapseClearIs ==
  ASSUME NEW r, NEW l, NEW s, r.options.forwardOnly \in BOOLEAN
  PROVE  SynapseVerdict(r, l, s) = "ok" <=> SynapseClear(r, l, s)
<1> DEFINE N == SynapseRuleNames
           R == N \X BOOLEAN
           A1 == r.views[s.to + 1].kind = "input"
           A2 == r.options.forwardOnly /\ s.from = s.to
           A3 == OutOfOrder(l, s)
           A4 == SamePair(l, s) /\ s.role = l.role
           A5 == RepeatsIntoPlain(r, l, s)
           A6 == s.from > s.to /\ RejectsRecursive(r.options)
           a == << <<"23", A1>>, <<"24", A2>>, <<"25", A3>>, <<"26", A4>>, <<"26b", A5>>, <<"27", A6>> >>
<1>1. "ok" \notin N BY DEF SynapseRuleNames
<1>2. /\ A1 \in BOOLEAN /\ A2 \in BOOLEAN /\ A3 \in BOOLEAN /\ A4 \in BOOLEAN /\ A5 \in BOOLEAN
      /\ A6 \in BOOLEAN
  BY DEF OutOfOrder, SamePair, RepeatsIntoPlain, RejectsRecursive
<1>3. SynapseVerdict(r, l, s) = FirstBroken(a) BY DEF SynapseVerdict
<1>4. SynapseClear(r, l, s) <=> ~A1 /\ ~A2 /\ ~A3 /\ ~A4 /\ ~A5 /\ ~A6 BY DEF SynapseClear
<1> HIDE DEF A1, A2, A3, A4, A5, A6
<1>5. /\ <<"23", A1>> \in R /\ <<"24", A2>> \in R /\ <<"25", A3>> \in R /\ <<"26", A4>> \in R
      /\ <<"26b", A5>> \in R /\ <<"27", A6>> \in R
  BY <1>2 DEF SynapseRuleNames
<1> HIDE DEF R
<1>6. /\ a \in Seq(R) /\ Len(a) = 6
      /\ (\A k \in 1 .. 6 : ~a[k][2]) <=> ~A1 /\ ~A2 /\ ~A3 /\ ~A4 /\ ~A5 /\ ~A6
  <2>1. 1 .. 6 = {1, 2, 3, 4, 5, 6} OBVIOUS
  <2> QED BY <1>5, <2>1
<1> HIDE DEF a, N
<1>7. FirstBroken(a) = "ok" <=> \A k \in 1 .. Len(a) : ~a[k][2] BY <1>1, <1>6, FirstBrokenIs DEF R
<1> QED BY <1>3, <1>4, <1>6, <1>7

\* What is in order already stays as it stands.
LEMMA SortedAlready ==
  ASSUME NEW s \in Seq(Synapses), \A i, j \in 1 .. Len(s) : i < j => ~Precedes(s[j], s[i])
  PROVE  ByKey(s, s) = s
<1> DEFINE n == Len(s)
<1>1. n \in Nat /\ s = [i \in 1 .. n |-> s[i]] /\ \A k \in 1 .. n : s[k] \in Synapses BY LenProperties, ElementOfSeq
<1>2. \A a, b \in Synapses : a = b \/ Precedes(a, b) \/ Precedes(b, a)
  <2>1. \A a \in Synapses : /\ a.from \in Int /\ a.to \in Int /\ a.role \in Int
                            /\ a = [from |-> a.from, to |-> a.to, role |-> a.role]
    BY DEF Synapses
  <2> TAKE a, b \in Synapses
  <2>2. a.from = b.from /\ a.to = b.to /\ a.role = b.role => a = b BY <2>1
  <2> QED BY <2>1, <2>2 DEF Precedes
<1>3. \A a \in Synapses : ~Precedes(a, a)
  <2>1. \A a \in Synapses : a.from \in Int /\ a.to \in Int /\ a.role \in Int BY DEF Synapses
  <2> QED BY <2>1 DEF Precedes
<1> HIDE DEF n
<1>4. ASSUME NEW k \in 1 .. n PROVE Before(s, n, k) = 1 .. k - 1
  <2>1. ASSUME NEW j \in 1 .. n PROVE j \in Before(s, n, k) <=> j < k
    <3>1. s[j] \in Synapses /\ s[k] \in Synapses BY <1>1
    <3>2. j \in Before(s, n, k) <=> Precedes(s[j], s[k]) \/ (s[j] = s[k] /\ j < k) BY DEF Before
    <3>3. CASE j < k
      <4>1. ~Precedes(s[k], s[j]) BY <3>3 DEF n
      <4>2. s[j] = s[k] \/ Precedes(s[j], s[k]) BY <1>2, <3>1, <4>1
      <4> QED BY <3>2, <3>3, <4>2
    <3>4. CASE j = k
      <4>1. ~Precedes(s[j], s[k]) BY <1>3, <3>1, <3>4
      <4>2. ~(j < k) BY <1>1, <3>4
      <4> QED BY <3>2, <4>1, <4>2
    <3>5. CASE k < j
      <4>1. ~Precedes(s[j], s[k]) BY <3>5 DEF n
      <4>2. ~(j < k) BY <1>1, <3>5
      <4> QED BY <3>2, <4>1, <4>2
    <3>6. j < k \/ j = k \/ k < j BY <1>1
    <3> QED BY <3>3, <3>4, <3>5, <3>6
  <2>2. Before(s, n, k) \subseteq 1 .. n BY DEF Before
  <2>3. \A j : j \in 1 .. k - 1 <=> j \in 1 .. n /\ j < k BY <1>1
  <2> QED BY <2>1, <2>2, <2>3
<1>5. ASSUME NEW k \in 1 .. n PROVE RankOf(s, n)[k] = k
  <2>1. k \in Int /\ 1 <= k /\ k - 1 \in Int /\ 1 \in Int BY <1>1
  <2>2. Cardinality(1 .. k - 1) = IF 1 > k - 1 THEN 0 ELSE (k - 1) - 1 + 1 BY <2>1, FS_Interval
  <2>3. Cardinality(1 .. k - 1) + 1 = k BY <2>1, <2>2
  <2>4. RankOf(s, n)[k] = Cardinality(Before(s, n, k)) + 1 BY DEF RankOf
  <2> QED BY <1>4, <2>3, <2>4
<1>6. ByKey(s, s) = [i \in 1 .. n |-> s[CHOOSE k \in 1 .. n : RankOf(s, n)[k] = i]]
  BY DEF ByKey, RankOf, Before, n
<1>7. ASSUME NEW i \in 1 .. n PROVE (CHOOSE k \in 1 .. n : RankOf(s, n)[k] = i) = i
  <2>1. \E k \in 1 .. n : RankOf(s, n)[k] = i BY <1>5
  <2>2. \A k \in 1 .. n : RankOf(s, n)[k] = i => k = i BY <1>5
  <2> QED BY <2>1, <2>2
<1>8. ByKey(s, s) = [i \in 1 .. n |-> s[i]] BY <1>6, <1>7
<1> QED BY <1>1, <1>8

\* The synapses of E stand in the canonical order.
InOrder(E) ==
  \A i, j \in 1 .. Len(E.synapses) : i < j => ~Precedes(Resolved(E)[j], Resolved(E)[i])

\* What is built is in order, once all its synapses end at known names.
LEMMA BuildInOrder ==
  ASSUME NEW E, IsExport(E), NEW plan, IsPlan(plan)
  PROVE  LET B == Build(E, plan, Place(E, plan)) IN
         /\ B.output = E.output /\ B.memetic = NoMemetic
         /\ EndsKnown(B) => InOrder(B)
<1> DEFINE D == Assembly(E, plan)
           B == Canonical(D)
<1>1. /\ IsExport(D) /\ ExportFields \subseteq DOMAIN D /\ D.output = E.output /\ D.memetic = NoMemetic
      /\ Build(E, plan, Place(E, plan)) = B
  BY AssemblyIs
<1> HIDE DEF D
<1>2. /\ IsExport(B) /\ B.input = D.input /\ B.output = D.output /\ B.neurons = D.neurons
      /\ B.memetic = D.memetic
      /\ \E p : Sorts(p, D.synapses, KeysOf(D), B.synapses)
  BY <1>1, CanonicalTyped
<1> HIDE DEF B
<1>3. SUFFICES ASSUME EndsKnown(B) PROVE InOrder(B) BY <1>1, <1>2
<1>4. \A u : AtWire(B, u) = AtWire(D, u) BY <1>2 DEF AtWire, Wire
<1> DEFINE n == Len(D.synapses)
           key == KeysOf(D)
<1>5. PICK p : Sorts(p, D.synapses, key, B.synapses) BY <1>2
<1>6. /\ p \in [1 .. n -> 1 .. n] /\ Len(B.synapses) = n /\ \A i \in 1 .. n : B.synapses[i] = D.synapses[p[i]]
      /\ \A i, j \in 1 .. n : i < j => ~Precedes(key[p[j]], key[p[i]])
  BY <1>5 DEF Sorts, Bijection, Injection, Surjection
<1>7. B.synapses \in Seq(NamedSynapses) BY <1>2 DEF IsExport, NamedSynapses
<1> HIDE DEF key
<1>8. ASSUME NEW i \in 1 .. n PROVE key[p[i]] = Resolved(B)[i]
  <2> DEFINE s == B.synapses[i]
  <2>1. p[i] \in 1 .. n /\ s = D.synapses[p[i]] BY <1>6
  <2>2. s \in ToSet(B.synapses)
    <3>1. DOMAIN B.synapses = 1 .. n BY <1>6, <1>7, LenProperties
    <3> QED BY <3>1 DEF ToSet
  <2>3. s.from \in DOMAIN Wire(B) /\ s.to \in DOMAIN Wire(B) BY <1>3, <2>2 DEF EndsKnown
  <2>4. AtWire(B, s.from) # Nowhere /\ AtWire(B, s.to) # Nowhere BY <1>2, <2>3, WireDomain
  <2>5. Resolved(B)[i] = [from |-> AtWire(B, s.from), to |-> AtWire(B, s.to), role |-> s.role]
    BY <1>6 DEF Resolved
  <2>6. key[p[i]] = [from |-> EndAt(D, s.from), to |-> EndAt(D, s.to), role |-> s.role]
    BY <2>1 DEF key, KeysOf
  <2>7. EndAt(D, s.from) = AtWire(B, s.from) /\ EndAt(D, s.to) = AtWire(B, s.to)
    BY <1>4, <2>4 DEF EndAt
  <2> QED BY <2>5, <2>6, <2>7
<1> QED BY <1>6, <1>8 DEF InOrder

\* The outputs are the last neurons listed, as many as are declared.
OutputsLast(E) ==
  /\ E.output <= Len(E.neurons)
  /\ \A i \in 1 .. Len(E.neurons) : E.neurons[i].type = "output" <=> i > Len(E.neurons) - E.output

\* Outputs that stand last are known by their place among them, the others by what they carry.
LEMMA OutputIds ==
  ASSUME NEW E, IsExport(E), OutputsLast(E), NEW i \in 1 .. Len(E.neurons)
  PROVE  /\ E.neurons[i].type = "output" => ListedId(E, i) = Len(E.neurons) - E.output - i
         /\ E.neurons[i].type # "output" =>
              ListedId(E, i) = IF E.neurons[i].idKind = "integer" THEN E.neurons[i].id
                               ELSE DerivedId[E.neurons[i].uuid]
<1> DEFINE n == Len(E.neurons)
           m == n - E.output
           O == {j \in 1 .. i - 1 : E.neurons[j].type = "output"}
<1>1. n \in Nat /\ E.output \in Nat /\ i \in 1 .. n BY LenProperties DEF IsExport
<1>2. E.output <= n /\ \A j \in 1 .. n : E.neurons[j].type = "output" <=> j > m BY DEF OutputsLast
<1>3. ASSUME E.neurons[i].type = "output" PROVE ListedId(E, i) = m - i
  <2>1. i > m /\ m \in Nat BY <1>1, <1>2, <1>3
  <2>2. O = (m + 1) .. (i - 1)
    <3>1. \A j \in 1 .. i - 1 : j \in 1 .. n BY <1>1
    <3>2. \A j : j \in O <=> j \in 1 .. i - 1 /\ j > m BY <1>2, <3>1
    <3> HIDE DEF O, m
    <3>3. \A j : j \in (m + 1) .. (i - 1) <=> j \in 1 .. i - 1 /\ j > m BY <1>1, <2>1
    <3> QED BY <3>2, <3>3
  <2> HIDE DEF O, m
  <2>3. Cardinality((m + 1) .. (i - 1)) = IF m + 1 > i - 1 THEN 0 ELSE (i - 1) - (m + 1) + 1
    <3>1. m + 1 \in Int /\ i - 1 \in Int BY <1>1, <2>1
    <3> QED BY <3>1, FS_Interval
  <2>4. Cardinality(O) = i - 1 - m BY <1>1, <2>1, <2>2, <2>3
  <2>5. ListedId(E, i) = -(Cardinality(O) + 1) BY <1>3 DEF ListedId, OutputsBefore, O
  <2> QED BY <1>1, <2>1, <2>4, <2>5
<1>4. E.neurons[i].type # "output" =>
        ListedId(E, i) = IF E.neurons[i].idKind = "integer" THEN E.neurons[i].id
                         ELSE DerivedId[E.neurons[i].uuid]
  BY DEF ListedId
<1> QED BY <1>3, <1>4

\* What acceptance asks of a creature beyond the gates: of its neurons, one by
\* one, of their order, of its constants, and of the way its edges lead.
NeuronHealthy(E, i) ==
  LET n == E.neurons[i] IN
  /\ n.type \in {"constant", "hidden", "output"} /\ n.bias = "finite"
  /\ n.type = "constant" => n.squash = "none"
  /\ ListedId(E, i) # NotAnId /\ ~(ListedId(E, i) > MaxNeuronId)
NeuronsHealthy(E) ==
  /\ E.input >= 1 /\ E.output >= 1
  /\ \A i \in 0 .. E.input - 1 : ~(i > MaxNeuronId)
  /\ \A i \in 1 .. Len(E.neurons) : NeuronHealthy(E, i)
ConstantsLead(E) ==
  \A i, j \in 1 .. Len(E.neurons) :
    i < j /\ E.neurons[j].type = "constant" => E.neurons[i].type = "constant"
ConstantsRead(E) ==
  \A i \in 1 .. Len(E.neurons) :
    E.neurons[i].type = "constant" => \E s \in ToSet(E.synapses) : AtWire(E, s.from) = E.input + i - 1
LeadsOn(E, o) ==
  \A s \in ToSet(E.synapses) :
    /\ RejectsRecursive(o) => AtWire(E, s.from) <= AtWire(E, s.to)
    /\ o.forwardOnly => AtWire(E, s.from) < AtWire(E, s.to)

Healthy(E, o) ==
  OutputsLast(E) /\ NeuronsHealthy(E) /\ ConstantsLead(E) /\ ConstantsRead(E) /\ LeadsOn(E, o)

\* The request r is the creature E, asked with options o.
Asks(r, E, o) ==
  /\ r.views = NeuronViews(E) /\ r.syn = Resolved(E) /\ r.input = E.input /\ r.output = E.output
  /\ r.options = o

\* What a request for a creature asks, neuron by neuron and synapse by synapse.
LEMMA AskedViews ==
  ASSUME NEW E, IsExport(E), NEW r, NEW o, Asks(r, E, o)
  PROVE  /\ Len(E.neurons) \in Nat /\ E.input \in Nat /\ E.output \in Nat
         /\ Len(r.views) = E.input + Len(E.neurons)
         /\ \A v \in 0 .. E.input - 1 : r.views[v + 1] = InputView(v)
         /\ \A i \in 1 .. Len(E.neurons) : r.views[E.input + i] = ListedView(E, i)
         /\ Len(E.synapses) \in Nat /\ Len(r.syn) = Len(E.synapses)
         /\ \A k \in 1 .. Len(E.synapses) :
              /\ E.synapses[k] \in ToSet(E.synapses)
              /\ r.syn[k] = [from |-> AtWire(E, E.synapses[k].from), to |-> AtWire(E, E.synapses[k].to),
                             role |-> E.synapses[k].role]
<1>1. Len(E.neurons) \in Nat /\ E.input \in Nat /\ E.output \in Nat BY LenProperties DEF IsExport
<1>2. /\ Len(r.views) = E.input + Len(E.neurons)
      /\ \A k \in 1 .. E.input : r.views[k] = InputView(k - 1)
      /\ \A i \in 1 .. Len(E.neurons) : r.views[E.input + i] = ListedView(E, i)
  BY ViewsAre DEF Asks, Declared
<1>3. ASSUME NEW v \in 0 .. E.input - 1 PROVE r.views[v + 1] = InputView(v)
  <2>1. v + 1 \in 1 .. E.input /\ (v + 1) - 1 = v BY <1>1
  <2> QED BY <1>2, <2>1
<1>4. E.synapses \in Seq(NamedSynapses) BY DEF IsExport, NamedSynapses
<1>5. Len(E.synapses) \in Nat /\ DOMAIN E.synapses = 1 .. Len(E.synapses) BY <1>4, LenProperties
<1>6. \A k \in 1 .. Len(E.synapses) : E.synapses[k] \in ToSet(E.synapses) BY <1>5 DEF ToSet
<1>7. /\ Len(r.syn) = Len(E.synapses)
      /\ \A k \in 1 .. Len(E.synapses) :
           r.syn[k] = [from |-> AtWire(E, E.synapses[k].from), to |-> AtWire(E, E.synapses[k].to),
                       role |-> E.synapses[k].role]
  BY <1>5 DEF Asks, Resolved
<1> QED BY <1>1, <1>2, <1>3, <1>5, <1>6, <1>7

\* What a view says of the neuron it stands for.
LEMMA ViewFields ==
  /\ \A v : /\ InputView(v).idKind = "integer" /\ InputView(v).id = v /\ InputView(v).kind = "input"
            /\ InputView(v).bias = "finite" /\ InputView(v).squash = "none"
  /\ \A E, i : LET w == ListedView(E, i)
                   n == E.neurons[i]
               IN /\ w.idKind = (IF ListedId(E, i) = NotAnId THEN "none" ELSE "integer")
                  /\ w.id = ListedId(E, i) /\ w.kind = KindOf(n.type) /\ w.bias = n.bias
                  /\ w.squash = n.squash /\ w.uuid = n.uuid
BY DEF InputView, ListedView

\* What the walk accepts is healthy.
LEMMA AcceptedIsHealthy ==
  ASSUME NEW E, IsExport(E), NEW r, NEW o, Asks(r, E, o), IsRequest(r), AllClear(r), E.output >= 1
  PROVE  Healthy(E, o)
<1> DEFINE N == Len(E.neurons)
           n == E.input
           T(i) == E.neurons[i].type
<1>1. /\ N \in Nat /\ n \in Nat /\ E.output \in Nat /\ Len(r.views) = n + N
      /\ \A v \in 0 .. n - 1 : r.views[v + 1] = InputView(v)
      /\ \A i \in 1 .. N : r.views[n + i] = ListedView(E, i)
      /\ Len(E.synapses) \in Nat /\ Len(r.syn) = Len(E.synapses)
      /\ \A k \in 1 .. Len(E.synapses) :
           /\ E.synapses[k] \in ToSet(E.synapses)
           /\ r.syn[k] = [from |-> AtWire(E, E.synapses[k].from), to |-> AtWire(E, E.synapses[k].to),
                          role |-> E.synapses[k].role]
  BY AskedViews
<1>2. n >= 1 /\ r.input = n /\ r.output = E.output /\ r.options = o BY DEF IsRequest, Asks
<1>3. Walked(r)
  <2>1. NeuronFaults(r) = {} /\ CountFault(r) = "ok" /\ SynapseFaults(r) = {} BY DEF AllClear
  <2> QED BY <2>1, ClearIsWalked
<1>4. ASSUME NEW v \in 0 .. n + N - 1 PROVE NeuronClear(r, Seen(r, v), v)
  <2>1. v \notin NeuronFaults(r) BY DEF AllClear
  <2>2. NeuronVerdict(r, Seen(r, v), v) = "ok" BY <1>1, <2>1 DEF NeuronFaults, NeuronFault
  <2> QED BY <2>2, NeuronClearIs
<1> HIDE DEF N, n
<1>5. ASSUME NEW i \in 1 .. N
      PROVE  /\ n + i - 1 \in 0 .. n + N - 1 /\ n + i - 1 + 1 = n + i
             /\ NeuronClear(r, Seen(r, n + i - 1), n + i - 1)
             /\ r.views[n + i - 1 + 1] = ListedView(E, i)
             /\ n + i - 1 >= Len(r.views) - r.output <=> i > N - E.output
  BY <1>1, <1>2, <1>4
<1>6. ASSUME NEW i \in 1 .. N
      PROVE  NeuronHealthy(E, i) /\ (T(i) = "output" <=> i > N - E.output)
  <2> DEFINE v == n + i - 1
             w == r.views[v + 1]
             x == E.neurons[i]
  <2>1. /\ v \in 0 .. n + N - 1 /\ NeuronClear(r, Seen(r, v), v) /\ w = ListedView(E, i) BY <1>5
  <2>2. /\ w.idKind = (IF ListedId(E, i) = NotAnId THEN "none" ELSE "integer") /\ w.id = ListedId(E, i)
        /\ w.kind = KindOf(x.type) /\ w.bias = x.bias /\ w.squash = x.squash
    BY <2>1, ViewFields
  <2>3. w.idKind # "none" /\ ~(w.idKind = "integer" /\ w.id > MaxNeuronId)
        /\ ~(w.kind # "input" /\ w.bias # "finite") /\ ~(w.kind = "constant" /\ w.squash # "none")
        /\ w.kind # "invalid"
    BY <2>1 DEF NeuronClear
  <2>4. w.kind = "output" <=> v >= Len(r.views) - r.output
    <3>1. v \in 0 .. Len(r.views) - 1 BY <1>1, <2>1
    <3>2. \A z \in 0 .. Len(r.views) - 1 : r.views[z + 1].kind = "output" <=> z >= Len(r.views) - r.output
      BY <1>3 DEF Walked, Placed
    <3> HIDE DEF v
    <3> QED BY <3>1, <3>2
  <2>5. x.type \in {"constant", "hidden", "output"} /\ w.kind = x.type BY <2>2, <2>3 DEF KindOf
  <2> HIDE DEF w
  <2>6. w.kind # "input" BY <2>5
  <2> HIDE DEF x
  <2>7. /\ x.type \in {"constant", "hidden", "output"} /\ x.bias = "finite"
        /\ x.type = "constant" => x.squash = "none"
        /\ ListedId(E, i) # NotAnId /\ ~(ListedId(E, i) > MaxNeuronId)
    BY <2>2, <2>3, <2>5, <2>6
  <2>8. v >= Len(r.views) - r.output <=> i > N - E.output BY <1>5
  <2> QED BY <2>4, <2>5, <2>7, <2>8 DEF NeuronHealthy, x
<1>7. E.output <= N /\ OutputsLast(E)
  <2>1. r.input + r.output <= Len(r.views) BY <1>3, InputsFit DEF Walked
  <2>2. E.output <= N BY <1>1, <1>2, <2>1
  <2> QED BY <1>6, <2>2 DEF OutputsLast, N
<1>8. NeuronsHealthy(E)
  <2>1. ASSUME NEW v \in 0 .. n - 1 PROVE ~(v > MaxNeuronId)
    <3>1. v \in 0 .. n + N - 1 BY <1>1
    <3>2. NeuronClear(r, Seen(r, v), v) /\ r.views[v + 1] = InputView(v) BY <1>1, <1>4, <3>1
    <3>3. r.views[v + 1].idKind = "integer" /\ r.views[v + 1].id = v BY <3>2, ViewFields
    <3> QED BY <3>2, <3>3 DEF NeuronClear
  <2> QED BY <1>2, <1>6, <2>1 DEF NeuronsHealthy, n, N
<1>9. ConstantsLead(E)
  <2> SUFFICES ASSUME NEW i \in 1 .. N, NEW j \in 1 .. N, i < j, T(j) = "constant", T(i) # "constant"
               PROVE  FALSE
    BY DEF ConstantsLead, N
  <2>1. T(i) \in {"constant", "hidden", "output"} BY <1>6 DEF NeuronHealthy
  <2>2. ~(j > N - E.output) BY <1>6
  <2>3. T(i) = "hidden"
    <3>1. ~(i > N - E.output) BY <1>1, <2>2
    <3> QED BY <1>6, <2>1, <3>1
  <2> DEFINE v == n + j - 1
             u == n + i - 1
             l == Len(r.views) - r.output
  <2>5. Len(r.views) > r.output /\ l = n + N - E.output
    <3>1. r.output = E.output /\ Len(r.views) = n + N /\ n >= 1 /\ E.output <= N BY <1>1, <1>2, <1>7
    <3> QED BY <1>1, <3>1
  <2>6. InSlice(r, v) /\ InSlice(r, u)
    <3>1. v >= r.input /\ u >= r.input /\ v < l /\ u < l BY <1>1, <1>2, <2>2, <2>5, SMTT(30)
    <3> QED BY <2>5, <3>1 DEF InSlice
  <2>7. r.views[v + 1].kind = "constant" /\ r.views[u + 1].kind = "hidden"
    <3>1. r.views[v + 1] = ListedView(E, j) /\ r.views[u + 1] = ListedView(E, i) BY <1>5
    <3>2. ListedView(E, j).kind = KindOf(T(j)) /\ ListedView(E, i).kind = KindOf(T(i)) BY ViewFields
    <3> QED BY <2>3, <3>1, <3>2 DEF KindOf
  <2>8. u \in OfKind(r, v, "hidden")
    <3>1. u \in 0 .. v - 1 BY <1>1
    <3> QED BY <2>7, <3>1 DEF OfKind
  <2>9. Seen(r, v).seenHidden = HiddenSeen(r, v) BY DEF Seen
  <2>10. HiddenSeen(r, v) BY <2>6, <2>8 DEF HiddenSeen
  <2>11. NeuronClear(r, Seen(r, v), v) BY <1>5
  <2> HIDE DEF u, v
  <2> QED BY <2>6, <2>7, <2>9, <2>10, <2>11 DEF NeuronClear
<1>10. ConstantsRead(E)
  <2> SUFFICES ASSUME NEW i \in 1 .. N, T(i) = "constant"
               PROVE  \E s \in ToSet(E.synapses) : AtWire(E, s.from) = n + i - 1
    BY DEF ConstantsRead, N, n
  <2> DEFINE v == n + i - 1
  <2>1. r.views[v + 1].kind = "constant"
    <3>1. r.views[v + 1] = ListedView(E, i) BY <1>5
    <3>2. ListedView(E, i).kind = KindOf(T(i)) BY ViewFields
    <3> QED BY <3>1, <3>2 DEF KindOf
  <2>2. NeuronClear(r, Seen(r, v), v) BY <1>5
  <2> HIDE DEF v
  <2>3. OutwardSynapses(r.syn, v) # {} BY <2>1, <2>2 DEF NeuronClear
  <2>4. PICK k \in 1 .. Len(r.syn) : r.syn[k].from = v BY <2>3 DEF OutwardSynapses
  <2>5. k \in 1 .. Len(E.synapses) BY <1>1, <2>4
  <2>6. /\ E.synapses[k] \in ToSet(E.synapses)
        /\ r.syn[k] = [from |-> AtWire(E, E.synapses[k].from), to |-> AtWire(E, E.synapses[k].to),
                       role |-> E.synapses[k].role]
    BY <1>1, <2>5
  <2>7. AtWire(E, E.synapses[k].from) = v BY <2>4, <2>6
  <2> QED BY <2>6, <2>7 DEF v
<1>11. LeadsOn(E, o)
  <2> SUFFICES ASSUME NEW s \in ToSet(E.synapses)
               PROVE  /\ RejectsRecursive(o) => AtWire(E, s.from) <= AtWire(E, s.to)
                      /\ o.forwardOnly => AtWire(E, s.from) < AtWire(E, s.to)
    BY DEF LeadsOn
  <2>1. PICK k \in 1 .. Len(E.synapses) : s = E.synapses[k]
    <3>1. E.synapses \in Seq(NamedSynapses) BY DEF IsExport, NamedSynapses
    <3>2. DOMAIN E.synapses = 1 .. Len(E.synapses) BY <3>1, LenProperties
    <3> QED BY <3>2 DEF ToSet
  <2>2. k \in 1 .. Len(r.syn) /\ r.syn[k].from = AtWire(E, s.from) /\ r.syn[k].to = AtWire(E, s.to)
    <3>1. r.syn[k] = [from |-> AtWire(E, s.from), to |-> AtWire(E, s.to), role |-> s.role] BY <1>1, <2>1
    <3>2. k \in 1 .. Len(r.syn) BY <1>1, <2>1
    <3> QED BY <3>1, <3>2
  <2>3. r.syn[k].from \in Int /\ r.syn[k].to \in Int BY <2>2 DEF IsRequest, Synapses
  <2>4. SynapseFine(r, k) BY <1>3, <2>2 DEF Walked
  <2>5. SynapseClear(r, LastOf(r, k), r.syn[k])
    <3>1. k \notin SynapseFaults(r) BY DEF AllClear
    <3>2. SynapseVerdict(r, LastOf(r, k), r.syn[k]) = "ok" BY <2>2, <3>1 DEF SynapseFaults, SynapseFault
    <3>3. r.options.forwardOnly \in BOOLEAN BY DEF IsRequest
    <3> QED BY <3>2, <3>3, SynapseClearIs
  <2>6. RejectsRecursive(o) => ~(r.syn[k].from > r.syn[k].to) BY <1>2, <2>5 DEF SynapseClear
  <2>7. o.forwardOnly => r.syn[k].from < r.syn[k].to BY <1>2, <2>4 DEF SynapseFine
  <2> QED BY <2>2, <2>3, <2>6, <2>7
<1> QED BY <1>7, <1>8, <1>9, <1>10, <1>11 DEF Healthy

\* A node that reads no output stands in front of the outputs.
LEMMA PlaceBeforeOutputs ==
  ASSUME NEW E, IsExport(E), OutputsLast(E), NEW plan, IsPlan(plan), ~ReadsOutput(E, plan)
  PROVE  Place(E, plan) <= Len(E.neurons) - E.output
<1> DEFINE N == Len(E.neurons)
           m == N - E.output
           A == {AtWire(E, plan.inbound[k].uuid) - E.input + 1 : k \in 1 .. Len(plan.inbound)}
           S == {0} \cup Constants(E) \cup A
<1>1. N \in Nat /\ E.input \in Nat /\ E.output \in Nat /\ E.output <= N /\ m \in Nat
  <2>1. N \in Nat /\ E.input \in Nat /\ E.output \in Nat BY LenProperties DEF IsExport
  <2>2. E.output <= N BY DEF OutputsLast
  <2> HIDE DEF N
  <2> QED BY <2>1, <2>2
<1>2. \A i \in 1 .. N : E.neurons[i].type = "output" <=> i > m BY DEF OutputsLast
<1> HIDE DEF N, m
<1>3. ASSUME NEW x \in Constants(E) PROVE x \in Int /\ x <= m
  <2>1. x \in 1 .. N /\ E.neurons[x].type = "constant" BY DEF Constants, N
  <2>2. ~(x > m) BY <1>2, <2>1
  <2> QED BY <1>1, <2>1, <2>2
<1>4. ASSUME NEW k \in 1 .. Len(plan.inbound)
      PROVE  LET x == AtWire(E, plan.inbound[k].uuid) - E.input + 1 IN x \in Int /\ x <= m
  <2> DEFINE u == plan.inbound[k].uuid
             at == AtWire(E, u)
             x == at - E.input + 1
  <2>1. /\ u \in Listed(E) => x \in 1 .. N /\ E.neurons[x].uuid = u
        /\ u \notin Listed(E) => at < E.input
    BY WireAt DEF N
  <2>2. at \in -1 .. E.input + N - 1 BY WireTyped DEF N
  <2>3. CASE u \in Listed(E)
    <3>1. x \in 1 .. N /\ E.neurons[x].uuid = u BY <2>1, <2>3
    <3>2. E.neurons[x].type # "output" BY <3>1 DEF ReadsOutput, N
    <3>3. ~(x > m) BY <1>2, <3>1, <3>2
    <3> QED BY <1>1, <3>1, <3>3
  <2>4. CASE u \notin Listed(E)
    <3>1. at < E.input BY <2>1, <2>4
    <3>2. x \in Int /\ x <= m
      <4> HIDE DEF at
      <4> QED BY <1>1, <2>2, <3>1
    <3> QED BY <3>2
  <2> QED BY <2>3, <2>4
<1>5. \A x \in S : x \in Int /\ x <= m
  <2>1. \A x \in A : x \in Int /\ x <= m BY <1>4
  <2> HIDE DEF A
  <2> QED BY <1>1, <1>3, <2>1
<1>6. 0 \in S OBVIOUS
<1> HIDE DEF S
<1>7. Max(S) \in S
  <2>1. m \in Int BY <1>1
  <2> QED BY <1>5, <1>6, <2>1, MaxIs
<1>8. Place(E, plan) = Max(S) BY DEF Place, Earliest, S, A
<1> QED BY <1>5, <1>7, <1>8 DEF m, N

\* The neurons of a grafted creature: what was there, a constant, or the node.
LEMMA NewNeuronIs ==
  ASSUME NEW u, NEW type, NEW bias, NEW squash
  PROVE  LET n == NewNeuron(u, type, bias, squash) IN
         /\ n.uuid = u /\ n.type = type /\ n.idKind = "none" /\ n.bias = bias /\ n.squash = squash
BY DEF NewNeuron

\* The outputs are last still, and known by the ids they had.
LEMMA OutputsStayLast ==
  ASSUME NEW E, IsExport(E), OutputsLast(E), NEW plan, IsPlan(plan), ~ReadsOutput(E, plan),
         NEW B, Grows(E, plan, B), B.output = E.output
  PROVE  /\ OutputsLast(B)
         /\ \A i \in 1 .. Len(E.neurons) : ListedId(B, Shifted(E, plan, i)) = ListedId(E, i)
<1> DEFINE N == Len(E.neurons)
           m == N - E.output
           c == Len(plan.constants)
           p == Place(E, plan)
           at == ConstantsAt(E, p)
           to(i) == Shifted(E, plan, i)
           M == Len(B.neurons)
<1>1. N \in Nat /\ E.output \in Nat /\ c \in Nat /\ M = N + c + 1 /\ IsExport(B)
  BY LenProperties DEF IsExport, IsPlan, Grows, Inserts
<1>2. E.output <= N /\ \A i \in 1 .. N : E.neurons[i].type = "output" <=> i > m BY DEF OutputsLast
<1>3. p \in 0 .. N /\ at \in 0 .. p /\ p <= m BY PlacedBetween, PlaceBeforeOutputs
<1>4. \A i \in 1 .. N : to(i) = IF i <= at THEN i ELSE IF i <= p THEN i + c ELSE i + c + 1 BY DEF Shifted
<1>5. NeuronsGrow(E, plan, B) BY GrownNeurons DEF Grows
<1>6. \A i \in 1 .. N : B.neurons[to(i)] = E.neurons[i] BY DEF Grows, Inserts
<1> HIDE DEF N, m, c, p, at, to, M
<1>7. m = N - E.output /\ m \in Nat BY <1>1, <1>2 DEF m
<1>8. ASSUME NEW i \in 1 .. N
      PROVE  to(i) \in 1 .. M /\ (i > m <=> to(i) > m + c + 1) /\ (i > m => to(i) = i + c + 1)
  <2>1. CASE i <= at BY <1>1, <1>3, <1>4, <1>7, <2>1
  <2>2. CASE ~(i <= at) /\ i <= p BY <1>1, <1>3, <1>4, <1>7, <2>2
  <2>3. CASE ~(i <= at) /\ ~(i <= p) BY <1>1, <1>3, <1>4, <1>7, <2>3
  <2> QED BY <2>1, <2>2, <2>3
<1>9. ASSUME NEW j \in 1 .. M PROVE B.neurons[j].type = "output" <=> j > m + c + 1
  <2>1. CASE \E i \in 1 .. N : j = to(i) /\ B.neurons[j] = E.neurons[i] BY <1>2, <1>8, <2>1
  <2>2. CASE \E k \in 1 .. c : j = at + k /\ B.neurons[j] = TheConstant(plan, k)
    <3>1. PICK k \in 1 .. c : j = at + k /\ B.neurons[j] = TheConstant(plan, k) BY <2>2
    <3>2. B.neurons[j].type = "constant" BY <3>1, NewNeuronIs DEF TheConstant
    <3>3. ~(j > m + c + 1) BY <1>1, <1>3, <1>7, <3>1
    <3> QED BY <3>2, <3>3
  <2>3. CASE j = p + c + 1 /\ B.neurons[j] = TheNode(plan)
    <3>1. B.neurons[j].type = "hidden" BY <2>3, NewNeuronIs DEF TheNode
    <3>2. ~(j > m + c + 1) BY <1>1, <1>3, <1>7, <2>3
    <3> QED BY <3>1, <3>2
  <2> QED BY <1>5, <2>1, <2>2, <2>3 DEF NeuronsGrow, M, N, c, p, at, to
<1>10. M - B.output = m + c + 1 /\ B.output <= M BY <1>1, <1>2, <1>7
<1>11. OutputsLast(B) BY <1>9, <1>10 DEF OutputsLast, M
<1>12. ASSUME NEW i \in 1 .. N PROVE ListedId(B, to(i)) = ListedId(E, i)
  <2>1. B.neurons[to(i)] = E.neurons[i] /\ to(i) \in 1 .. M BY <1>6, <1>8
  <2>2. /\ E.neurons[i].type = "output" => ListedId(E, i) = m - i
        /\ E.neurons[i].type # "output" =>
             ListedId(E, i) = IF E.neurons[i].idKind = "integer" THEN E.neurons[i].id
                              ELSE DerivedId[E.neurons[i].uuid]
    BY OutputIds DEF m, N
  <2>3. /\ B.neurons[to(i)].type = "output" => ListedId(B, to(i)) = M - B.output - to(i)
        /\ B.neurons[to(i)].type # "output" =>
             ListedId(B, to(i)) = IF B.neurons[to(i)].idKind = "integer" THEN B.neurons[to(i)].id
                                  ELSE DerivedId[B.neurons[to(i)].uuid]
    BY <1>1, <1>11, <2>1, OutputIds DEF M
  <2>4. CASE E.neurons[i].type = "output"
    <3>1. to(i) = i + c + 1 BY <1>2, <1>8, <2>4
    <3>2. ListedId(E, i) = m - i /\ ListedId(B, to(i)) = (m + c + 1) - to(i) BY <1>10, <2>1, <2>2, <2>3, <2>4
    <3> QED BY <1>1, <1>7, <3>1, <3>2
  <2>5. CASE E.neurons[i].type # "output" BY <2>1, <2>2, <2>3, <2>5
  <2> QED BY <2>4, <2>5
<1> QED BY <1>11, <1>12 DEF N, to

\* A plan that fits, reads what it declares and no output, and whose names have
\* ids, leaves a healthy creature healthy.
LEMMA HealthyStays ==
  ASSUME NEW E, IsExport(E), NEW plan, IsPlan(plan), Fits(E, plan), NEW B, Grows(E, plan, B),
         B.output = E.output, EndsKnown(E), NEW New, Introduced(plan) \subseteq New,
         ReadsAhead(B, New), ConstantsApart(B, New),
         \A u \in Introduced(plan) : DerivedId[u] \in 0 .. MaxNeuronId,
         ~HasUnusedConstant(plan), ~ReadsOutput(E, plan), NEW o, Healthy(E, o)
  PROVE  Healthy(B, o)
<1> DEFINE N == Len(E.neurons)
           c == Len(plan.constants)
           p == Place(E, plan)
           at == ConstantsAt(E, p)
           to(i) == Shifted(E, plan, i)
           M == Len(B.neurons)
<1>1. /\ N \in Nat /\ E.input \in Nat /\ c \in Nat /\ M = N + c + 1 /\ IsExport(B) /\ B.input = E.input
  BY LenProperties DEF IsExport, IsPlan, Grows, Inserts
<1>2. p \in 0 .. N /\ at \in 0 .. p BY PlacedBetween
<1>3. /\ OutputsLast(B) /\ \A i \in 1 .. N : ListedId(B, to(i)) = ListedId(E, i)
  BY OutputsStayLast DEF Healthy
<1>4. \A i \in 1 .. N : to(i) \in 1 .. M /\ B.neurons[to(i)] = E.neurons[i]
  <2>1. \A i \in 1 .. N : to(i) \in 1 .. N + c + 1 BY ShiftedIs
  <2> QED BY <1>1, <2>1 DEF Grows, Inserts
<1>5. \A i, j \in 1 .. N : i < j => to(i) < to(j) BY ShiftedIs
<1>6. NamesFit(E, plan) BY DEF Fits
<1>7. /\ plan.uuid \in Introduced(plan)
      /\ \A k \in 1 .. c : plan.constants[k].uuid \in Introduced(plan)
  BY <1>1, NamesAre
<1>8. WireGrows(E, plan, B) BY GrownWire
<1>9. ASSUME NEW j \in 1 .. M
      PROVE  \/ \E i \in 1 .. N : j = to(i) /\ B.neurons[j] = E.neurons[i]
             \/ \E k \in 1 .. c : j = at + k /\ B.neurons[j] = TheConstant(plan, k)
             \/ j = p + c + 1 /\ B.neurons[j] = TheNode(plan)
  <2>1. NeuronsGrow(E, plan, B) BY GrownNeurons DEF Grows
  <2> QED BY <2>1 DEF NeuronsGrow
<1> HIDE DEF N, c, p, at, to, M
<1>10. ASSUME NEW j \in 1 .. M, B.neurons[j].uuid \notin Introduced(plan)
       PROVE  \E i \in 1 .. N : j = to(i) /\ B.neurons[j] = E.neurons[i]
  <2>1. ASSUME NEW k \in 1 .. c, B.neurons[j] = TheConstant(plan, k) PROVE FALSE
    <3>1. B.neurons[j].uuid = plan.constants[k].uuid BY <2>1, NewNeuronIs DEF TheConstant
    <3> QED BY <1>7, <1>10, <3>1
  <2>2. ASSUME B.neurons[j] = TheNode(plan) PROVE FALSE
    <3>1. B.neurons[j].uuid = plan.uuid BY <2>2, NewNeuronIs DEF TheNode
    <3> QED BY <1>7, <1>10, <3>1
  <2> QED BY <1>9, <2>1, <2>2
<1>11. NeuronsHealthy(B)
  <2>1. NeuronsHealthy(E) BY DEF Healthy
  <2>2. ASSUME NEW j \in 1 .. M PROVE NeuronHealthy(B, j)
    <3>1. ASSUME NEW i \in 1 .. N, j = to(i), B.neurons[j] = E.neurons[i] PROVE NeuronHealthy(B, j)
      <4>1. NeuronHealthy(E, i) BY <2>1 DEF NeuronsHealthy, N
      <4>2. ListedId(B, j) = ListedId(E, i) BY <1>3, <3>1
      <4> QED BY <3>1, <4>1, <4>2 DEF NeuronHealthy
    <3>2. ASSUME NEW u \in Introduced(plan), NEW type \in {"constant", "hidden"},
                 B.neurons[j].uuid = u, B.neurons[j].type = type, B.neurons[j].idKind = "none",
                 B.neurons[j].bias = "finite", type = "constant" => B.neurons[j].squash = "none"
          PROVE  NeuronHealthy(B, j)
      <4>1. ListedId(B, j) = DerivedId[u]
        <5>1. B.neurons[j].type # "output" BY <3>2
        <5>2. ListedId(B, j) = IF B.neurons[j].idKind = "integer" THEN B.neurons[j].id
                               ELSE DerivedId[B.neurons[j].uuid]
          BY <1>1, <1>3, <5>1, OutputIds DEF M
        <5> QED BY <3>2, <5>2
      <4>2. DerivedId[u] \in 0 .. MaxNeuronId BY <3>2
      <4>3. DerivedId[u] # NotAnId /\ ~(DerivedId[u] > MaxNeuronId)
        BY <4>2, NeuronIdAssumption DEF NotAnId
      <4> QED BY <3>2, <4>1, <4>3 DEF NeuronHealthy
    <3>3. ASSUME NEW k \in 1 .. c, B.neurons[j] = TheConstant(plan, k) PROVE NeuronHealthy(B, j)
      <4>1. plan.constants[k].bias = "finite" BY <1>6 DEF NamesFit, c
      <4> DEFINE x == B.neurons[j]
      <4>2. /\ x.uuid = plan.constants[k].uuid /\ x.type = "constant" /\ x.idKind = "none"
            /\ x.bias = "finite" /\ x.squash = "none"
        BY <3>3, <4>1, NewNeuronIs DEF TheConstant
      <4>3. plan.constants[k].uuid \in Introduced(plan) BY <1>7
      <4> QED BY <3>2, <4>2, <4>3
    <3>4. ASSUME B.neurons[j] = TheNode(plan) PROVE NeuronHealthy(B, j)
      <4>1. plan.bias = "finite" BY <1>6 DEF NamesFit
      <4> DEFINE x == B.neurons[j]
      <4>2. x.uuid = plan.uuid /\ x.type = "hidden" /\ x.idKind = "none" /\ x.bias = "finite"
        BY <3>4, <4>1, NewNeuronIs DEF TheNode
      <4>3. plan.uuid \in Introduced(plan) BY <1>7
      <4> QED BY <3>2, <4>2, <4>3
    <3> QED BY <1>9, <3>1, <3>3, <3>4
  <2> QED BY <1>1, <2>1, <2>2 DEF NeuronsHealthy, M
<1>12. ConstantsLead(B)
  <2> SUFFICES ASSUME NEW i \in 1 .. M, NEW j \in 1 .. M, i < j, B.neurons[j].type = "constant",
                      B.neurons[i].type # "constant"
               PROVE  FALSE
    BY DEF ConstantsLead, M
  <2>1. {B.neurons[i].uuid, B.neurons[j].uuid} \cap New = {} BY DEF ConstantsApart, M
  <2>2. B.neurons[i].uuid \notin Introduced(plan) /\ B.neurons[j].uuid \notin Introduced(plan) BY <2>1
  <2>3. PICK a \in 1 .. N : i = to(a) /\ B.neurons[i] = E.neurons[a] BY <1>10, <2>2
  <2>4. PICK b \in 1 .. N : j = to(b) /\ B.neurons[j] = E.neurons[b] BY <1>10, <2>2
  <2>5. a < b
    <3>1. a < b \/ a = b \/ b < a BY <1>1
    <3>2. ~(a = b) BY <2>3, <2>4
    <3>3. b < a => to(b) < to(a) BY <1>5
    <3>4. i \in Int /\ j \in Int BY <1>1
    <3> QED BY <2>3, <2>4, <3>1, <3>2, <3>3, <3>4
  <2>6. ConstantsLead(E) BY DEF Healthy
  <2> QED BY <2>3, <2>4, <2>5, <2>6 DEF ConstantsLead, N
<1>13. ConstantsRead(B)
  <2> SUFFICES ASSUME NEW j \in 1 .. M, B.neurons[j].type = "constant"
               PROVE  \E s \in ToSet(B.synapses) : AtWire(B, s.from) = E.input + j - 1
    BY <1>1 DEF ConstantsRead, M
  <2>1. ToSet(B.synapses) = ToSet(E.synapses) \cup ToSet(Reads(plan)) \cup ToSet(Feeds(plan)) BY DEF Grows
  <2>2. ASSUME NEW i \in 1 .. N, j = to(i), B.neurons[j] = E.neurons[i]
        PROVE  \E s \in ToSet(B.synapses) : AtWire(B, s.from) = E.input + j - 1
    <3>1. ConstantsRead(E) BY DEF Healthy
    <3>2. PICK s \in ToSet(E.synapses) : AtWire(E, s.from) = E.input + i - 1
      BY <2>2, <3>1 DEF ConstantsRead, N
    <3>3. s.from \in DOMAIN Wire(E) BY DEF EndsKnown
    <3>4. AtWire(B, s.from) = IF AtWire(E, s.from) < E.input THEN AtWire(E, s.from)
                              ELSE E.input + to(AtWire(E, s.from) - E.input + 1) - 1
      BY <1>8, <3>3 DEF WireGrows, to
    <3>5. ~(AtWire(E, s.from) < E.input) /\ AtWire(E, s.from) - E.input + 1 = i BY <1>1, <3>2
    <3>6. AtWire(B, s.from) = E.input + j - 1 BY <2>2, <3>4, <3>5
    <3>7. s \in ToSet(B.synapses) BY <2>1
    <3> QED BY <3>6, <3>7
  <2>3. ASSUME NEW k \in 1 .. c, j = at + k, B.neurons[j] = TheConstant(plan, k)
        PROVE  \E s \in ToSet(B.synapses) : AtWire(B, s.from) = E.input + j - 1
    <3> DEFINE u == plan.constants[k].uuid
               i == AtWire(B, u) - E.input + 1
    <3>1. PICK q \in 1 .. Len(plan.inbound) : plan.inbound[q].uuid = u
      BY <2>3 DEF HasUnusedConstant, c
    <3> DEFINE s == Reads(plan)[q]
    <3>2. s.from = u BY <3>1 DEF Reads
    <3>3. s \in ToSet(Reads(plan))
      <4>1. q \in DOMAIN Reads(plan) BY DEF Reads
      <4> QED BY <4>1 DEF ToSet
    <3>4. s \in ToSet(B.synapses) BY <2>1, <3>3
    <3> HIDE DEF s
    <3>5. B.neurons[j].uuid = u BY <2>3, NewNeuronIs DEF TheConstant
    <3>6. u \in Listed(B) BY <3>5 DEF Listed, M
    <3>7. i \in 1 .. M /\ B.neurons[i].uuid = u BY <1>1, <3>6, WireAt DEF M
    <3>8. E.input + at <= AtWire(B, u) /\ AtWire(B, u) < E.input + at + c
      BY <1>8, <2>3 DEF WireGrows, c, at, p
    <3>9. AtWire(B, u) \in Int
      <4>1. AtWire(B, u) \in -1 .. B.input + Len(B.neurons) - 1 BY <1>1, WireTyped
      <4> HIDE DEF u
      <4> QED BY <1>1, <4>1 DEF M
    <3> DEFINE l == i - at
    <3> HIDE DEF u
    <3>10. l \in 1 .. c /\ i = at + l BY <1>1, <1>2, <3>8, <3>9, SMTT(30)
    <3> HIDE DEF l
    <3>11. B.neurons[i] = TheConstant(plan, l) BY <3>10 DEF Grows, Inserts, c, at, p
    <3>12. plan.constants[l].uuid = u BY <3>7, <3>11, NewNeuronIs DEF TheConstant
    <3>13. l = k
      <4>1. ~(l < k)
        <5>1. l < k => l \in 1 .. k - 1 BY <1>1, <3>10
        <5> QED BY <1>6, <2>3, <3>12, <5>1 DEF NamesFit, u, c
      <4>2. ~(k < l)
        <5>1. k < l => k \in 1 .. l - 1 BY <1>1, <3>10
        <5> QED BY <1>6, <3>10, <3>12, <5>1 DEF NamesFit, u, c
      <4> QED BY <1>1, <3>10, <4>1, <4>2
    <3>14. i = j BY <2>3, <3>10, <3>13
    <3>15. AtWire(B, s.from) = E.input + j - 1 BY <1>1, <1>2, <3>2, <3>9, <3>14
    <3> QED BY <3>4, <3>15
  <2>4. B.neurons[j] # TheNode(plan)
    <3>1. TheNode(plan).type = "hidden" BY NewNeuronIs DEF TheNode
    <3> QED BY <3>1
  <2> QED BY <1>9, <2>2, <2>3, <2>4
<1>14. LeadsOn(B, o)
  <2> SUFFICES ASSUME NEW s \in ToSet(B.synapses)
               PROVE  /\ RejectsRecursive(o) => AtWire(B, s.from) <= AtWire(B, s.to)
                      /\ o.forwardOnly => AtWire(B, s.from) < AtWire(B, s.to)
    BY DEF LeadsOn
  <2>1. AtWire(B, s.from) \in Int /\ AtWire(B, s.to) \in Int
    <3>1. \A u : AtWire(B, u) \in -1 .. B.input + Len(B.neurons) - 1 BY <1>1, WireTyped
    <3> QED BY <1>1, <3>1 DEF M
  <2>2. CASE {s.from, s.to} \cap New # {}
    <3>1. AtWire(B, s.from) < AtWire(B, s.to) BY <2>2 DEF ReadsAhead
    <3> QED BY <2>1, <3>1
  <2>3. CASE {s.from, s.to} \cap New = {}
    <3>1. plan.uuid \notin {s.from, s.to} BY <1>7, <2>3
    <3>2. s \in ToSet(E.synapses)
      <4>1. EdgesNamed(E, plan) BY EdgesAreNamed
      <4>2. s \notin ToSet(Reads(plan)) /\ s \notin ToSet(Feeds(plan)) BY <3>1, <4>1 DEF EdgesNamed
      <4> QED BY <4>2 DEF Grows
    <3>3. s.from \in DOMAIN Wire(E) /\ s.to \in DOMAIN Wire(E) BY <3>2 DEF EndsKnown
    <3>4. /\ RejectsRecursive(o) => AtWire(E, s.from) <= AtWire(E, s.to)
          /\ o.forwardOnly => AtWire(E, s.from) < AtWire(E, s.to)
      BY <3>2 DEF Healthy, LeadsOn
    <3>5. AtWire(E, s.from) < AtWire(E, s.to) => AtWire(B, s.from) < AtWire(B, s.to) BY <3>3, StaysAhead
    <3>6. AtWire(E, s.from) = AtWire(E, s.to) => AtWire(B, s.from) = AtWire(B, s.to)
      BY <1>8, <3>3 DEF WireGrows
    <3>7. AtWire(E, s.from) \in Int /\ AtWire(E, s.to) \in Int
      <4>1. \A u : AtWire(E, u) \in -1 .. E.input + Len(E.neurons) - 1 BY WireTyped
      <4> QED BY <1>1, <4>1 DEF N
    <3>8. AtWire(E, s.from) <= AtWire(E, s.to) => AtWire(B, s.from) <= AtWire(B, s.to)
      BY <2>1, <3>5, <3>6, <3>7
    <3> QED BY <3>4, <3>5, <3>8
  <2> QED BY <2>2, <2>3
<1> QED BY <1>3, <1>11, <1>12, <1>13, <1>14 DEF Healthy

-----------------------------------------------------------------------------
(* A healthy creature is accepted                                           *)

\* No pair of names repeats but in another role, into an IF neuron.
PairsApart(E) ==
  \A j, k \in 1 .. Len(E.synapses) :
    j < k /\ E.synapses[j].from = E.synapses[k].from /\ E.synapses[j].to = E.synapses[k].to =>
      E.synapses[j].role # E.synapses[k].role /\ IsIfTarget(E, E.synapses[k].to)

GatedEdges(E) == ByKey(Resolved(E), Resolved(E))

\* What the index gates and the gate on duplicates leave of a creature.
LEMMA LateRulesSay ==
  ASSUME NEW E, IsExport(E)
  PROVE  /\ FirstBroken(GateRules(E)) = "ok" =>
              StructurallySound(GatedEdges(E), FlatViews(E), E.input, E.output)
         /\ FirstBroken(DuplicateRules(E)) = "ok" => PairsApart(E)
<1> DEFINE N == LateNames
           R == N \X BOOLEAN
           m == Len(E.synapses)
           dup(k) == LET s == E.synapses[k]
                         pair == {j \in 1 .. k - 1 : E.synapses[j].from = s.from /\ E.synapses[j].to = s.to}
                     IN << <<"DuplicateSynapse", \E j \in pair : E.synapses[j].role = s.role>>,
                           <<"TypedDuplicateSynapse", pair # {} /\ ~IsIfTarget(E, s.to)>> >>
           dups == [k \in 1 .. m |-> dup(k)]
<1>1. "ok" \notin N /\ m \in Nat BY LenProperties DEF LateNames, IsExport
<1>2. FirstBroken(GateRules(E)) = "ok" =>
        StructurallySound(GatedEdges(E), FlatViews(E), E.input, E.output)
  <2> DEFINE P == E.forwardOnly /\ ~OrderedTyped(GatedEdges(E))
             Q == ~StructurallySound(GatedEdges(E), FlatViews(E), E.input, E.output)
             s == << <<"MalformedTopology", P>>, <<"MalformedStructure", Q>> >>
  <2>1. GateRules(E) = s /\ P \in BOOLEAN /\ Q \in BOOLEAN BY DEF GateRules, GatedEdges
  <2> HIDE DEF P, Q
  <2>2. <<"MalformedTopology", P>> \in R /\ <<"MalformedStructure", Q>> \in R BY <2>1 DEF LateNames
  <2> HIDE DEF R
  <2>3. s \in Seq(R) /\ Len(s) = 2 /\ (s[2][2] <=> Q) BY <2>2
  <2> HIDE DEF s, N
  <2>4. FirstBroken(s) = "ok" => \A i \in 1 .. Len(s) : ~s[i][2] BY <1>1, <2>3, FirstBrokenIs DEF R
  <2>5. FirstBroken(s) = "ok" => ~Q
    <3>1. 2 \in 1 .. 2 OBVIOUS
    <3> QED BY <2>3, <2>4, <3>1
  <2> QED BY <2>1, <2>5 DEF Q
<1>3. ASSUME FirstBroken(DuplicateRules(E)) = "ok" PROVE PairsApart(E)
  <2>1. ASSUME NEW k \in 1 .. m
        PROVE  /\ dup(k) \in Seq(R)
               /\ FirstBroken(dup(k)) = "ok" =>
                    \A j \in 1 .. k - 1 :
                      E.synapses[j].from = E.synapses[k].from /\ E.synapses[j].to = E.synapses[k].to =>
                        E.synapses[j].role # E.synapses[k].role /\ IsIfTarget(E, E.synapses[k].to)
    <3> DEFINE pair == {j \in 1 .. k - 1 : E.synapses[j].from = E.synapses[k].from
                                         /\ E.synapses[j].to = E.synapses[k].to}
               P == \E j \in pair : E.synapses[j].role = E.synapses[k].role
               Q == pair # {} /\ ~IsIfTarget(E, E.synapses[k].to)
               s == << <<"DuplicateSynapse", P>>, <<"TypedDuplicateSynapse", Q>> >>
    <3>1. dup(k) = s /\ P \in BOOLEAN /\ Q \in BOOLEAN OBVIOUS
    <3> HIDE DEF P, Q
    <3>2. <<"DuplicateSynapse", P>> \in R /\ <<"TypedDuplicateSynapse", Q>> \in R BY <3>1 DEF LateNames
    <3> HIDE DEF R, dup
    <3>3. s \in Seq(R) /\ Len(s) = 2 /\ (s[1][2] <=> P) /\ (s[2][2] <=> Q) BY <3>2
    <3> HIDE DEF s, N
    <3>4. FirstBroken(s) = "ok" => \A i \in 1 .. Len(s) : ~s[i][2] BY <1>1, <3>3, FirstBrokenIs DEF R
    <3>5. FirstBroken(s) = "ok" => ~P /\ ~Q
      <4>1. 1 \in 1 .. 2 /\ 2 \in 1 .. 2 OBVIOUS
      <4> QED BY <3>3, <3>4, <4>1
    <3>6. ASSUME ~P, ~Q, NEW j \in 1 .. k - 1, E.synapses[j].from = E.synapses[k].from,
                 E.synapses[j].to = E.synapses[k].to
          PROVE  E.synapses[j].role # E.synapses[k].role /\ IsIfTarget(E, E.synapses[k].to)
      <4>1. j \in pair BY <3>6
      <4> HIDE DEF pair
      <4> QED BY <3>6, <4>1 DEF P, Q
    <3> QED BY <3>1, <3>3, <3>5, <3>6
  <2>2. DuplicateRules(E) = FlattenSeq(dups) BY DEF DuplicateRules
  <2>3. \A k \in 1 .. m : dups[k] = dup(k) OBVIOUS
  <2> HIDE DEF dup, m
  <2>4. dups \in Seq(Seq(R)) /\ Len(dups) = m
    <3> HIDE DEF R
    <3> QED BY <1>1, <2>1
  <2> HIDE DEF dups
  <2>5. \A k \in 1 .. m : FirstBroken(dups[k]) = "ok"
    <3>1. FirstBroken(FlattenSeq(dups)) = "ok" BY <1>3, <2>2
    <3> HIDE DEF N
    <3> QED BY <1>1, <2>4, <3>1, FlatUnbroken
  <2> SUFFICES ASSUME NEW j \in 1 .. m, NEW k \in 1 .. m, j < k, E.synapses[j].from = E.synapses[k].from,
                      E.synapses[j].to = E.synapses[k].to
               PROVE  E.synapses[j].role # E.synapses[k].role /\ IsIfTarget(E, E.synapses[k].to)
    BY DEF PairsApart, m
  <2>6. FirstBroken(dup(k)) = "ok" BY <2>3, <2>5
  <2>7. j \in 1 .. k - 1 BY <1>1
  <2> QED BY <2>1, <2>6, <2>7
<1> QED BY <1>2, <1>3

\* What the gates leave of a creature.
LEMMA GateLeaves ==
  ASSUME NEW E, IsExport(E), Gate(E) = "ok"
  PROVE  EndsKnown(E) /\ PairsApart(E) /\ StructurallySound(GatedEdges(E), FlatViews(E), E.input, E.output)
<1> DEFINE early == WidthRules(E) \o CountRules(E) \o ReferenceRules(E)
           a == GateRules(E)
           b == DuplicateRules(E)
<1>1. Gate(E) = IF FirstBroken(early) # "ok" THEN FirstBroken(early) ELSE FirstBroken(a \o b) BY DEF Gate
<1>2. FirstBroken(early) = "ok" => EndsKnown(E) BY EarlyRules
<1> HIDE DEF early
<1>3. "ok" \notin LateNames BY DEF LateNames
<1>4. a \in Seq(LateNames \X BOOLEAN) /\ b \in Seq(LateNames \X BOOLEAN) BY LateRulesTyped
<1> HIDE DEF a, b
<1>5. FirstBroken(a \o b) = "ok" => FirstBroken(a) = "ok" /\ FirstBroken(b) = "ok"
  BY <1>3, <1>4, JoinedUnbroken
<1>6. FirstBroken(a) = "ok" /\ FirstBroken(b) = "ok" BY <1>1, <1>5
<1>7. EndsKnown(E) BY <1>1, <1>2
<1> QED BY <1>6, <1>7, LateRulesSay DEF a, b

\* What the index gate sees of each neuron.
LEMMA FlatViewsAre ==
  ASSUME NEW E, IsExport(E)
  PROVE  /\ Len(FlatViews(E)) = E.input + Len(E.neurons)
         /\ \A i \in 1 .. Len(E.neurons) :
              FlatViews(E)[E.input + i] = [constant |-> E.neurons[i].type = "constant",
                                           if |-> E.neurons[i].squash = "IF",
                                           finite |-> E.neurons[i].bias = "finite"]
         /\ \A v \in 1 .. E.input : FlatViews(E)[v] = [constant |-> FALSE, if |-> FALSE, finite |-> TRUE]
<1> DEFINE N == Len(E.neurons)
           n == E.input
           listed(i) == [constant |-> E.neurons[i].type = "constant", if |-> E.neurons[i].squash = "IF",
                         finite |-> E.neurons[i].bias = "finite"]
           implicit == [constant |-> FALSE, if |-> FALSE, finite |-> TRUE]
           f == [v \in 1 .. n + N |-> IF v <= n THEN implicit ELSE listed(v - n)]
<1>1. N \in Nat /\ n \in Nat /\ n + N \in Nat BY LenProperties DEF IsExport
<1>2. FlatViews(E) = f BY DEF FlatViews, DeclaredNodeCount
<1> HIDE DEF N, n, listed, implicit
<1>3. Len(f) = n + N BY <1>1
<1>4. ASSUME NEW i \in 1 .. N PROVE f[n + i] = listed(i)
  <2>1. n + i \in 1 .. n + N /\ ~(n + i <= n) /\ (n + i) - n = i BY <1>1
  <2> QED BY <2>1
<1>5. ASSUME NEW v \in 1 .. n PROVE f[v] = implicit
  <2>1. v \in 1 .. n + N /\ v <= n BY <1>1
  <2> QED BY <2>1
<1> HIDE DEF f
<1> QED BY <1>2, <1>3, <1>4, <1>5 DEF N, n, listed, implicit

\* What the structure gate says of a listed neuron.
LEMMA SoundNeuron ==
  ASSUME NEW E, IsExport(E), NEW syn, StructurallySound(syn, FlatViews(E), E.input, E.output),
         NEW i \in 1 .. Len(E.neurons)
  PROVE  LET v == E.input + i - 1 IN
         /\ E.neurons[i].type = "constant" => InwardSynapses(syn, v) = {}
         /\ E.neurons[i].type # "constant" /\ E.output <= Len(E.neurons) /\ ~(i > Len(E.neurons) - E.output)
              => InwardSynapses(syn, v) # {} /\ OutwardSynapses(syn, v) # {}
         /\ E.neurons[i].type # "constant" /\ E.neurons[i].squash = "IF" => IfFault(syn, v) = "none"
<1> DEFINE N == Len(E.neurons)
           n == E.input
           v == n + i - 1
           nv == FlatViews(E)
           out == E.output
<1>1. N \in Nat /\ n \in Nat /\ out \in Nat BY LenProperties DEF IsExport
<1>2. Len(nv) = n + N BY FlatViewsAre
<1>3. /\ nv[n + i].constant <=> E.neurons[i].type = "constant"
      /\ nv[n + i].if <=> E.neurons[i].squash = "IF"
  <2> DEFINE P == E.neurons[i].type = "constant"
             Q == E.neurons[i].squash = "IF"
             F == E.neurons[i].bias = "finite"
  <2>1. nv[n + i] = [constant |-> P, if |-> Q, finite |-> F] BY FlatViewsAre
  <2> HIDE DEF nv, F
  <2>2. nv[n + i].constant = P /\ nv[n + i].if = Q
    <3> HIDE DEF P, Q
    <3> QED BY <2>1
  <2> QED BY <2>2
<1>4. \A u \in n .. Len(nv) - 1 : NeuronStructureFault(syn, nv, out, u) = "none" BY DEF StructurallySound
<1> HIDE DEF N, n, nv, out
<1>5. v \in n .. Len(nv) - 1 /\ v + 1 = n + i BY <1>1, <1>2 DEF N
<1>6. NeuronStructureFault(syn, nv, out, v) = "none" BY <1>4, <1>5
<1>7. out <= N /\ ~(i > N - out) => v < Len(nv) - out BY <1>1, <1>2
<1> HIDE DEF v
<1>8. CASE E.neurons[i].type = "constant"
  <2>1. nv[v + 1].constant BY <1>3, <1>5, <1>8
  <2> QED BY <1>6, <1>8, <2>1 DEF NeuronStructureFault, v, n, N, out
<1>9. CASE E.neurons[i].type # "constant"
  <2>1. ~nv[v + 1].constant BY <1>3, <1>5, <1>9
  <2>2. nv[v + 1].finite BY <1>6, <2>1 DEF NeuronStructureFault
  <2>3. v < Len(nv) - out => HiddenWiringFault(syn, v) = "none"
    BY <1>6, <2>1, <2>2 DEF NeuronStructureFault
  <2>4. nv[v + 1].if => IfFault(syn, v) = "none"
    BY <1>6, <2>1, <2>2, <2>3 DEF NeuronStructureFault
  <2>5. HiddenWiringFault(syn, v) = "none" => InwardSynapses(syn, v) # {} /\ OutwardSynapses(syn, v) # {}
    BY DEF HiddenWiringFault
  <2> QED BY <1>3, <1>5, <1>7, <1>9, <2>3, <2>4, <2>5 DEF v, n, N, out
<1> QED BY <1>8, <1>9

\* A listed neuron in the request.
ListedIn(r, E, i) ==
  LET w == r.views[E.input + i]
      x == E.neurons[i]
  IN /\ w.idKind = "integer" /\ w.id = ListedId(E, i) /\ w.id # NotAnId /\ ~(w.id > MaxNeuronId)
     /\ w.kind = x.type /\ w.kind \in {"constant", "hidden", "output"} /\ w.bias = "finite"
     /\ w.squash = x.squash /\ (w.kind = "constant" => w.squash = "none") /\ w.uuid = x.uuid

\* What a request says of a healthy creature.
LEMMA HealthyViews ==
  ASSUME NEW E, IsExport(E), NEW r, NEW o, Asks(r, E, o), NeuronsHealthy(E), NEW i \in 1 .. Len(E.neurons)
  PROVE  ListedIn(r, E, i)
<1> DEFINE w == r.views[E.input + i]
           x == E.neurons[i]
<1>1. w = ListedView(E, i) BY AskedViews
<1>2. /\ w.idKind = (IF ListedId(E, i) = NotAnId THEN "none" ELSE "integer") /\ w.id = ListedId(E, i)
      /\ w.kind = KindOf(x.type) /\ w.bias = x.bias /\ w.squash = x.squash /\ w.uuid = x.uuid
  BY <1>1, ViewFields
<1>3. NeuronHealthy(E, i) BY DEF NeuronsHealthy
<1>4. /\ x.type \in {"constant", "hidden", "output"} /\ x.bias = "finite"
      /\ x.type = "constant" => x.squash = "none"
      /\ ListedId(E, i) # NotAnId /\ ~(ListedId(E, i) > MaxNeuronId)
  BY <1>3 DEF NeuronHealthy
<1>5. KindOf(x.type) = x.type BY <1>4 DEF KindOf
<1> HIDE DEF w, x
<1>6. /\ w.idKind = "integer" /\ w.id = ListedId(E, i) /\ w.id # NotAnId /\ ~(w.id > MaxNeuronId)
      /\ w.kind = x.type /\ w.kind \in {"constant", "hidden", "output"} /\ w.bias = "finite"
      /\ w.squash = x.squash /\ (w.kind = "constant" => w.squash = "none") /\ w.uuid = x.uuid
  BY <1>2, <1>4, <1>5
<1> QED BY <1>6 DEF ListedIn, w, x

\* A creature fit to be accepted: healthy, wired as the structure gate wants
\* it, and every neuron known by an id of its own.
FitAsAsked(r, E, o) ==
  /\ Asks(r, E, o) /\ IsRequest(r) /\ Healthy(E, o) /\ IdsAreOwn(E)
  /\ StructurallySound(r.syn, FlatViews(E), E.input, E.output)

\* No rule on neurons is broken.
LEMMA HealthyNeuronsPass ==
  ASSUME NEW E, IsExport(E), NEW r, NEW o, FitAsAsked(r, E, o)
  PROVE  NeuronFaults(r) = {}
<1> DEFINE N == Len(E.neurons)
           n == E.input
           out == E.output
           T(i) == E.neurons[i].type
<1>0. Asks(r, E, o) /\ IsRequest(r) /\ Healthy(E, o) /\ IdsAreOwn(E)
      /\ StructurallySound(r.syn, FlatViews(E), n, out)
  BY DEF FitAsAsked
<1>1. /\ N \in Nat /\ n \in Nat /\ out \in Nat /\ Len(r.views) = n + N
      /\ \A v \in 0 .. n - 1 : r.views[v + 1] = InputView(v)
      /\ Len(E.synapses) \in Nat /\ Len(r.syn) = Len(E.synapses)
      /\ \A k \in 1 .. Len(E.synapses) :
           /\ E.synapses[k] \in ToSet(E.synapses)
           /\ r.syn[k] = [from |-> AtWire(E, E.synapses[k].from), to |-> AtWire(E, E.synapses[k].to),
                          role |-> E.synapses[k].role]
  BY <1>0, AskedViews
<1>2. r.input = n /\ r.output = out /\ r.views = NeuronViews(E) BY <1>0 DEF Asks
<1>3. /\ out <= N /\ \A i \in 1 .. N : T(i) = "output" <=> i > N - out
  BY <1>0 DEF Healthy, OutputsLast
<1>4. NeuronsHealthy(E) BY <1>0 DEF Healthy
<1>5. \A i \in 1 .. N : ListedIn(r, E, i) BY <1>0, <1>4, HealthyViews
<1>6. \A v, w \in 0 .. n + N - 1 : v # w /\ r.views[v + 1].id = r.views[w + 1].id => r.views[v + 1].id = NotAnId
  <2>1. Declared(E) = n + N BY DEF Declared
  <2>2. \A v, w \in 0 .. Declared(E) - 1 :
          v # w /\ NeuronViews(E)[v + 1].id = NeuronViews(E)[w + 1].id => NeuronViews(E)[v + 1].id = NotAnId
    BY <1>0 DEF IdsAreOwn
  <2>3. r.views = NeuronViews(E) BY <1>2
  <2> DEFINE V == NeuronViews(E)
             d == Declared(E)
  <2>4. \A v, w \in 0 .. d - 1 : v # w /\ V[v + 1].id = V[w + 1].id => V[v + 1].id = NotAnId BY <2>2
  <2>5. d = n + N /\ r.views = V BY <2>1, <2>3
  <2> HIDE DEF V, d, n, N
  <2> QED BY <1>1, <2>4, <2>5
<1>7. ASSUME NEW v \in 0 .. n + N - 1, r.views[v + 1].id # NotAnId
      PROVE  r.views[v + 1].id \notin Seen(r, v).ids
  <2>1. Seen(r, v).ids = {r.views[i + 1].id : i \in 0 .. v - 1} BY DEF Seen
  <2> SUFFICES ASSUME NEW i \in 0 .. v - 1, r.views[i + 1].id = r.views[v + 1].id PROVE FALSE
    BY <2>1
  <2> HIDE DEF N, n
  <2>2. i \in 0 .. n + N - 1 /\ i # v BY <1>1, SMTT(30)
  <2> QED BY <1>6, <1>7, <2>2
<1>8. ASSUME NEW i \in 1 .. N
      PROVE  n + i - 1 \in 0 .. n + N - 1 /\ (n + i - 1) + 1 = n + i /\ r.views[(n + i - 1) + 1] = r.views[n + i]
  BY <1>1, SMTT(30)
<1>9. ASSUME NEW v \in 0 .. n + N - 1, ~(v < n)
      PROVE  LET i == v - n + 1 IN i \in 1 .. N /\ v = n + i - 1 /\ v + 1 = n + i
  <2> HIDE DEF n, N
  <2> QED BY <1>1, <1>9
<1>10. ASSUME NEW v \in 0 .. n + N - 1, NEW u \in 0 .. v - 1, r.views[u + 1].kind = "output"
       PROVE  r.views[v + 1].kind = "output"
  <2>1. u \in 0 .. n + N - 1
    <3> HIDE DEF n, N
    <3> QED BY <1>1
  <2>2. ~(u < n)
    <3>1. ASSUME u < n PROVE FALSE
      <4>1. u \in 0 .. n - 1
        <5> HIDE DEF n
        <5> QED BY <1>1, <3>1
      <4>2. r.views[u + 1] = InputView(u) BY <1>1, <4>1
      <4>3. r.views[u + 1].kind = "input" BY <4>2, ViewFields
      <4> QED BY <1>10, <4>3
    <3> QED BY <3>1
  <2>3. ~(v < n)
    <3> HIDE DEF n, N
    <3> QED BY <1>1, <2>2
  <2> DEFINE i == u - n + 1
             j == v - n + 1
  <2>4. /\ i \in 1 .. N /\ u + 1 = n + i /\ j \in 1 .. N /\ v + 1 = n + j BY <1>9, <2>1, <2>2, <2>3
  <2>5. i < j
    <3> HIDE DEF n, N
    <3> QED BY <1>1
  <2> HIDE DEF i, j
  <2>6. r.views[u + 1].kind = T(i) /\ r.views[v + 1].kind = T(j) BY <1>5, <2>4 DEF ListedIn
  <2>7. i > N - out BY <1>3, <1>10, <2>4, <2>6
  <2>8. j > N - out
    <3> HIDE DEF n, N, out
    <3> QED BY <1>1, <2>4, <2>5, <2>7
  <2> QED BY <1>3, <2>4, <2>6, <2>8
<1>11. ASSUME NEW v \in 0 .. n + N - 1, r.views[v + 1].kind # "output"
       PROVE  ~(Seen(r, v).outputs > 0)
  <2>1. OfKind(r, v, "output") = {} BY <1>10, <1>11 DEF OfKind
  <2>2. Seen(r, v).outputs = 0 BY <2>1, FS_EmptySet DEF Seen
  <2> QED BY <2>2
<1>12. ASSUME NEW v \in 0 .. n - 1 PROVE NeuronClear(r, Seen(r, v), v)
  <2> DEFINE w == r.views[v + 1]
  <2>1. v \in 0 .. n + N - 1
    <3> HIDE DEF n, N
    <3> QED BY <1>1
  <2>2. /\ w.idKind = "integer" /\ w.id = v /\ w.kind = "input" /\ w.bias = "finite" /\ w.squash = "none"
    <3>1. w = InputView(v) BY <1>1
    <3> HIDE DEF w
    <3> QED BY <3>1, ViewFields
  <2>3. ~(v > MaxNeuronId) BY <1>4 DEF NeuronsHealthy
  <2>4. v # NotAnId
    <3> HIDE DEF n
    <3> QED BY <1>1 DEF NotAnId
  <2>5. w.id \notin Seen(r, v).ids BY <1>7, <2>1, <2>2, <2>4
  <2>6. ~(Seen(r, v).outputs > 0) BY <1>11, <2>1, <2>2
  <2>7. ~(v > n)
    <3> HIDE DEF n
    <3> QED BY <1>1
  <2>8. ~BreaksIf(r, v) BY <2>2 DEF BreaksIf
  <2>9. InwardSynapses(r.syn, v) = {}
    <3>1. \A k \in 1 .. Len(r.syn) : r.syn[k].to >= n BY <1>0 DEF StructurallySound
    <3>2. ASSUME NEW k \in 1 .. Len(r.syn), r.syn[k].to = v PROVE FALSE
      <4>1. v >= n BY <3>1, <3>2
      <4> HIDE DEF n
      <4> QED BY <1>1, <4>1
    <3> QED BY <3>2 DEF InwardSynapses
  <2> HIDE DEF w, n
  <2> QED BY <1>2, <2>2, <2>3, <2>5, <2>6, <2>7, <2>8, <2>9 DEF NeuronClear, w
<1>13. ASSUME NEW i \in 1 .. N PROVE NeuronClear(r, Seen(r, n + i - 1), n + i - 1)
  <2> DEFINE v == n + i - 1
             w == r.views[v + 1]
  <2>1. v \in 0 .. n + N - 1 /\ v + 1 = n + i /\ w = r.views[n + i] BY <1>8
  <2>2. /\ w.idKind = "integer" /\ w.id # NotAnId /\ ~(w.id > MaxNeuronId)
        /\ w.kind = T(i) /\ w.kind \in {"constant", "hidden", "output"} /\ w.bias = "finite"
        /\ w.squash = E.neurons[i].squash /\ (w.kind = "constant" => w.squash = "none")
    BY <1>5, <2>1 DEF ListedIn
  <2>3. w.id \notin Seen(r, v).ids BY <1>7, <2>1, <2>2
  <2>4. w.kind # "output" => ~(Seen(r, v).outputs > 0) BY <1>11, <2>1
  <2>5. ASSUME w.kind = "constant" PROVE ~Seen(r, v).seenHidden
    <3>1. Seen(r, v).seenHidden = HiddenSeen(r, v) BY DEF Seen
    <3>2. ASSUME NEW u \in 0 .. v - 1, r.views[u + 1].kind = "hidden" PROVE FALSE
      <4> DEFINE j == u - n + 1
      <4>1. u \in 0 .. n + N - 1
        <5> HIDE DEF n, N
        <5> QED BY <1>1
      <4>2. ~(u < n)
        <5>1. ASSUME u < n PROVE FALSE
          <6>1. u \in 0 .. n - 1
            <7> HIDE DEF n
            <7> QED BY <1>1, <5>1
          <6>2. r.views[u + 1] = InputView(u) BY <1>1, <6>1
          <6>3. r.views[u + 1].kind = "input" BY <6>2, ViewFields
          <6> QED BY <3>2, <6>3
        <5> QED BY <5>1
      <4>3. j \in 1 .. N /\ u + 1 = n + j BY <1>9, <4>1, <4>2
      <4>4. j < i
        <5> HIDE DEF n, N
        <5> QED BY <1>1
      <4> HIDE DEF j
      <4>5. T(j) = "hidden" BY <1>5, <3>2, <4>3 DEF ListedIn
      <4>6. T(i) = "constant" BY <2>2, <2>5
      <4>7. ConstantsLead(E) BY <1>0 DEF Healthy
      <4>8. T(j) = "constant" BY <4>3, <4>4, <4>6, <4>7 DEF ConstantsLead
      <4> QED BY <4>5, <4>8
    <3>3. ~HiddenSeen(r, v) BY <3>2 DEF HiddenSeen, OfKind
    <3> QED BY <3>1, <3>3
  <2>6. /\ T(i) = "constant" => InwardSynapses(r.syn, v) = {}
        /\ T(i) # "constant" /\ ~(i > N - out) => InwardSynapses(r.syn, v) # {} /\ OutwardSynapses(r.syn, v) # {}
        /\ T(i) # "constant" /\ E.neurons[i].squash = "IF" => IfFault(r.syn, v) = "none"
    BY <1>0, <1>3, SoundNeuron
  <2>7. T(i) = "hidden" => InwardSynapses(r.syn, v) # {} /\ OutwardSynapses(r.syn, v) # {}
    <3>1. T(i) = "hidden" => ~(i > N - out) BY <1>3
    <3> HIDE DEF v, n, N, out
    <3> QED BY <2>6, <3>1
  <2>8. T(i) = "constant" => OutwardSynapses(r.syn, v) # {}
    <3> SUFFICES ASSUME T(i) = "constant" PROVE OutwardSynapses(r.syn, v) # {} OBVIOUS
    <3>1. ConstantsRead(E) BY <1>0 DEF Healthy
    <3>2. PICK s \in ToSet(E.synapses) : AtWire(E, s.from) = v BY <3>1 DEF ConstantsRead
    <3>3. PICK k \in 1 .. Len(E.synapses) : s = E.synapses[k]
      <4>1. E.synapses \in Seq(NamedSynapses) BY DEF IsExport, NamedSynapses
      <4>2. DOMAIN E.synapses = 1 .. Len(E.synapses) BY <4>1, LenProperties
      <4> QED BY <4>2 DEF ToSet
    <3>4. r.syn[k] = [from |-> AtWire(E, s.from), to |-> AtWire(E, s.to), role |-> s.role] BY <1>1, <3>3
    <3>5. k \in 1 .. Len(r.syn) /\ r.syn[k].from = v BY <1>1, <3>2, <3>3, <3>4
    <3> QED BY <3>5 DEF OutwardSynapses
  <2>9. ~BreaksIf(r, v)
    <3>1. ASSUME w.squash = "IF" PROVE IfFault(r.syn, v) = "none"
      <4>1. T(i) # "constant" BY <2>2, <3>1
      <4> QED BY <2>2, <2>6, <3>1, <4>1
    <3> QED BY <3>1 DEF BreaksIf
  <2>10. w.kind = "hidden" => HiddenWiringFault(r.syn, v) = "none" BY <2>2, <2>7 DEF HiddenWiringFault
  <2> HIDE DEF w, v
  <2> QED BY <2>2, <2>3, <2>4, <2>5, <2>6, <2>8, <2>9, <2>10 DEF NeuronClear, w, v
<1>14. ASSUME NEW v \in 0 .. n + N - 1 PROVE NeuronFault(r, v) = "ok"
  <2>1. NeuronClear(r, Seen(r, v), v)
    <3>1. CASE v < n
      <4>1. v \in 0 .. n - 1
        <5> HIDE DEF n
        <5> QED BY <1>1, <3>1
      <4> QED BY <1>12, <4>1
    <3>2. CASE ~(v < n)
      <4> DEFINE i == v - n + 1
      <4>1. i \in 1 .. N /\ v = n + i - 1 BY <1>9, <3>2
      <4> HIDE DEF i
      <4> QED BY <1>13, <4>1
    <3> QED BY <3>1, <3>2
  <2> QED BY <2>1, NeuronClearIs DEF NeuronFault
<1> HIDE DEF n, N
<1> QED BY <1>1, <1>14 DEF NeuronFaults

\* As many inputs and outputs are walked as are declared.
LEMMA HealthyCountsPass ==
  ASSUME NEW E, IsExport(E), NEW r, NEW o, FitAsAsked(r, E, o)
  PROVE  CountFault(r) = "ok"
<1> DEFINE N == Len(E.neurons)
           n == E.input
           out == E.output
           I == OfKind(r, Len(r.views), "input")
           O == OfKind(r, Len(r.views), "output")
<1>0. Asks(r, E, o) /\ IsRequest(r) /\ Healthy(E, o) BY DEF FitAsAsked
<1>1. /\ N \in Nat /\ n \in Nat /\ out \in Nat /\ Len(r.views) = n + N
      /\ \A v \in 0 .. n - 1 : r.views[v + 1] = InputView(v)
  BY <1>0, AskedViews
<1>2. r.input = n /\ r.output = out BY <1>0 DEF Asks
<1>3. /\ out <= N /\ \A i \in 1 .. N : E.neurons[i].type = "output" <=> i > N - out
  BY <1>0 DEF Healthy, OutputsLast
<1>4. NeuronsHealthy(E) BY <1>0 DEF Healthy
<1>5. \A i \in 1 .. N : r.views[n + i].kind = E.neurons[i].type /\ r.views[n + i].kind # "input"
  <2>1. \A i \in 1 .. N : ListedIn(r, E, i) BY <1>0, <1>4, HealthyViews
  <2> QED BY <2>1 DEF ListedIn
<1>6. \A v \in 0 .. n - 1 : r.views[v + 1].kind = "input" BY <1>1, ViewFields
<1> HIDE DEF n, N, out
<1>7. ASSUME NEW v \in 0 .. n + N - 1
      PROVE  /\ r.views[v + 1].kind = "input" <=> v < n
             /\ r.views[v + 1].kind = "output" <=> v >= n + N - out
  <2>1. CASE v < n
    <3>1. v \in 0 .. n - 1 BY <1>1, <2>1
    <3>2. r.views[v + 1].kind = "input" BY <1>6, <3>1
    <3>3. ~(v >= n + N - out) BY <1>1, <1>3, <2>1
    <3> QED BY <2>1, <3>2, <3>3
  <2>2. CASE ~(v < n)
    <3> DEFINE i == v - n + 1
    <3>1. i \in 1 .. N /\ v + 1 = n + i /\ (i > N - out <=> v >= n + N - out) BY <1>1, <2>2
    <3> HIDE DEF i
    <3>2. r.views[v + 1].kind = E.neurons[i].type /\ r.views[v + 1].kind # "input" BY <1>5, <3>1
    <3>3. E.neurons[i].type = "output" <=> i > N - out BY <1>3, <3>1
    <3> QED BY <2>2, <3>1, <3>2, <3>3
  <2> QED BY <2>1, <2>2
<1>8. I = 0 .. n - 1
  <2>1. \A v : v \in I <=> v \in 0 .. n + N - 1 /\ r.views[v + 1].kind = "input" BY <1>1 DEF OfKind
  <2> HIDE DEF I
  <2>2. \A v : v \in I <=> v \in 0 .. n + N - 1 /\ v < n BY <1>7, <2>1
  <2>3. \A v : v \in 0 .. n - 1 <=> v \in 0 .. n + N - 1 /\ v < n BY <1>1
  <2> QED BY <2>2, <2>3
<1>9. O = n + N - out .. n + N - 1
  <2>1. \A v : v \in O <=> v \in 0 .. n + N - 1 /\ r.views[v + 1].kind = "output" BY <1>1 DEF OfKind
  <2> HIDE DEF O
  <2>2. \A v : v \in O <=> v \in 0 .. n + N - 1 /\ v >= n + N - out BY <1>7, <2>1
  <2>3. \A v : v \in n + N - out .. n + N - 1 <=> v \in 0 .. n + N - 1 /\ v >= n + N - out BY <1>1, <1>3
  <2> QED BY <2>2, <2>3
<1>10. Cardinality(0 .. n - 1) = n
  <2>1. 0 \in Int /\ n - 1 \in Int BY <1>1
  <2>2. Cardinality(0 .. n - 1) = IF 0 > n - 1 THEN 0 ELSE (n - 1) - 0 + 1 BY <2>1, FS_Interval
  <2> QED BY <1>1, <2>2
<1>11. Cardinality(n + N - out .. n + N - 1) = out
  <2> DEFINE a == n + N - out
             b == n + N - 1
  <2>1. a \in Int /\ b \in Int /\ b - a + 1 = out /\ (a > b => out = 0) BY <1>1, <1>3
  <2> HIDE DEF a, b
  <2>2. Cardinality(a .. b) = IF a > b THEN 0 ELSE b - a + 1 BY <2>1, FS_Interval
  <2> QED BY <2>1, <2>2 DEF a, b
<1>12. Cardinality(I) = r.input /\ Cardinality(O) = r.output BY <1>2, <1>8, <1>9, <1>10, <1>11
<1> QED BY <1>12, CountsClear

\* An IF neuron some synapse leads to by name is the one its edges reach.
LEMMA IfTargetIsWired ==
  ASSUME NEW E, IsExport(E), NEW r, NEW o, FitAsAsked(r, E, o), NEW u, IsIfTarget(E, u)
  PROVE  r.views[AtWire(E, u) + 1].squash = "IF"
<1> DEFINE N == Len(E.neurons)
           n == E.input
<1>0. Asks(r, E, o) /\ IsRequest(r) /\ Healthy(E, o)
      /\ StructurallySound(r.syn, FlatViews(E), n, E.output)
  BY DEF FitAsAsked
<1>1. /\ N \in Nat /\ n \in Nat /\ Len(r.views) = n + N
      /\ Len(E.synapses) \in Nat /\ Len(r.syn) = Len(E.synapses)
      /\ \A k \in 1 .. Len(E.synapses) :
           r.syn[k] = [from |-> AtWire(E, E.synapses[k].from), to |-> AtWire(E, E.synapses[k].to),
                       role |-> E.synapses[k].role]
  BY <1>0, AskedViews
<1>2. r.views = NeuronViews(E) /\ Declared(E) = n + N BY <1>0 DEF Asks, Declared
<1>3. NeuronsHealthy(E) BY <1>0 DEF Healthy
<1>4. PICK i \in 1 .. N : E.neurons[i].uuid = u /\ E.neurons[i].squash = "IF" BY DEF IsIfTarget
<1> DEFINE v == n + i - 1
           w == r.views[n + i]
<1>5. v \in 0 .. n + N - 1 /\ v + 1 = n + i
  <2> HIDE DEF n, N
  <2> QED BY <1>1
<1>6. w.kind = E.neurons[i].type /\ w.squash = "IF" /\ w.uuid = u /\ (w.kind = "constant" => w.squash = "none")
  <2>1. ListedIn(r, E, i) BY <1>0, <1>3, HealthyViews
  <2> QED BY <1>4, <2>1 DEF ListedIn
<1>7. IfFault(r.syn, v) = "none"
  <2>1. E.neurons[i].type # "constant" BY <1>6
  <2> QED BY <1>0, <1>4, <2>1, SoundNeuron
<1>8. InwardSynapses(r.syn, v) # {}
  <2>1. ASSUME InwardSynapses(r.syn, v) = {} PROVE FALSE
    <3>1. Cardinality(InwardSynapses(r.syn, v)) = 0 BY <2>1, FS_EmptySet
    <3>2. Cardinality(InwardSynapses(r.syn, v)) < 3
      <4> HIDE DEF v
      <4> QED BY <3>1
    <3> QED BY <1>7, <3>2 DEF IfFault
  <2> QED BY <2>1
<1>9. PICK k \in 1 .. Len(r.syn) : r.syn[k].to = v BY <1>8 DEF InwardSynapses
<1> DEFINE t == E.synapses[k].to
<1>10. AtWire(E, t) = v
  <2>1. r.syn[k] = [from |-> AtWire(E, E.synapses[k].from), to |-> AtWire(E, t), role |-> E.synapses[k].role]
    BY <1>1
  <2>2. r.syn[k].to = AtWire(E, t) BY <2>1
  <2> QED BY <1>9, <2>2
<1>11. AtWire(E, t) # Nowhere
  <2> HIDE DEF v, n, N
  <2> QED BY <1>1, <1>5, <1>10 DEF Nowhere
<1>12. NeuronViews(E)[v + 1].uuid = t BY <1>10, <1>11, WireNames
<1>13. t = u BY <1>2, <1>5, <1>6, <1>12
<1> QED BY <1>5, <1>6, <1>10, <1>13

\* No rule on synapses is broken.
LEMMA HealthySynapsesPass ==
  ASSUME NEW E, IsExport(E), NEW r, NEW o, FitAsAsked(r, E, o), EndsKnown(E), PairsApart(E), InOrder(E)
  PROVE  SynapseFaults(r) = {}
<1> DEFINE N == Len(E.neurons)
           n == E.input
           m == Len(E.synapses)
           s(k) == E.synapses[k]
<1>0. Asks(r, E, o) /\ IsRequest(r) /\ Healthy(E, o)
      /\ StructurallySound(r.syn, FlatViews(E), n, E.output)
  BY DEF FitAsAsked
<1>1. /\ N \in Nat /\ n \in Nat /\ Len(r.views) = n + N
      /\ m \in Nat /\ Len(r.syn) = m
      /\ \A k \in 1 .. m :
           /\ s(k) \in ToSet(E.synapses)
           /\ r.syn[k] = [from |-> AtWire(E, s(k).from), to |-> AtWire(E, s(k).to), role |-> s(k).role]
  BY <1>0, AskedViews
<1>2. r.views = NeuronViews(E) /\ r.syn = Resolved(E) /\ r.options = o BY <1>0 DEF Asks
<1>3. NeuronsHealthy(E) BY <1>0 DEF Healthy
<1>4. ASSUME NEW k \in 1 .. m
      PROVE  /\ r.syn[k].from = AtWire(E, s(k).from) /\ r.syn[k].to = AtWire(E, s(k).to)
             /\ r.syn[k].role = s(k).role
             /\ r.syn[k].from \in 0 .. n + N - 1 /\ r.syn[k].to \in n .. n + N - 1 /\ r.syn[k].role \in 0 .. 3
  <2> DEFINE a == AtWire(E, s(k).from)
             b == AtWire(E, s(k).to)
             c == s(k).role
  <2>1. r.syn[k] = [from |-> a, to |-> b, role |-> c] BY <1>1
  <2>2. r.syn[k] \in Synapses /\ r.syn[k].from \in 0 .. Len(r.views) - 1 /\ r.syn[k].to \in 0 .. Len(r.views) - 1
    BY <1>0, <1>1 DEF IsRequest
  <2>3. r.syn[k].to >= n BY <1>0, <1>1 DEF StructurallySound
  <2> HIDE DEF a, b, c, n, N
  <2>4. r.syn[k].from = a /\ r.syn[k].to = b /\ r.syn[k].role = c BY <2>1
  <2>5. r.syn[k].to \in n .. n + N - 1 BY <1>1, <2>2, <2>3
  <2> QED BY <1>1, <2>2, <2>4, <2>5 DEF Synapses, a, b, c
<1>5. ASSUME NEW j \in 1 .. m, NEW k \in 1 .. m, j < k
      PROVE  /\ ~OutOfOrder(r.syn[j], r.syn[k])
             /\ SamePair(r.syn[j], r.syn[k]) =>
                  r.syn[j].role # r.syn[k].role /\ r.views[r.syn[k].to + 1].squash = "IF"
  <2>1. ~OutOfOrder(r.syn[j], r.syn[k])
    <3>1. ~Precedes(r.syn[k], r.syn[j]) BY <1>2, <1>5 DEF InOrder
    <3> HIDE DEF s, m, n, N
    <3>2. /\ r.syn[k].from \in Int /\ r.syn[k].to \in Int /\ r.syn[k].role \in Int
          /\ r.syn[j].from \in Int /\ r.syn[j].to \in Int /\ r.syn[j].role \in Int
      <4>1. \A x \in {j, k} : r.syn[x].from \in 0 .. n + N - 1 /\ r.syn[x].to \in n .. n + N - 1
                             /\ r.syn[x].role \in 0 .. 3
        BY <1>4
      <4>2. n + N \in Nat /\ n \in Nat BY <1>1
      <4> QED BY <4>1, <4>2
    <3> QED BY <3>1, <3>2 DEF Precedes, OutOfOrder, SamePair
  <2>2. ASSUME SamePair(r.syn[j], r.syn[k])
        PROVE  r.syn[j].role # r.syn[k].role /\ r.views[r.syn[k].to + 1].squash = "IF"
    <3>1. AtWire(E, s(j).from) = AtWire(E, s(k).from) /\ AtWire(E, s(j).to) = AtWire(E, s(k).to)
      <4>1. r.syn[k].from = r.syn[j].from /\ r.syn[k].to = r.syn[j].to BY <2>2 DEF SamePair
      <4> HIDE DEF s
      <4> QED BY <1>4, <4>1
    <3>2. \A u, w : AtWire(E, u) = AtWire(E, w) /\ AtWire(E, u) # Nowhere => u = w
      <4> TAKE u, w
      <4> HAVE AtWire(E, u) = AtWire(E, w) /\ AtWire(E, u) # Nowhere
      <4>1. NeuronViews(E)[AtWire(E, u) + 1].uuid = u BY WireNames
      <4>2. NeuronViews(E)[AtWire(E, w) + 1].uuid = w BY WireNames
      <4> QED BY <4>1, <4>2
    <3>3. AtWire(E, s(j).from) # Nowhere /\ AtWire(E, s(j).to) # Nowhere
      <4>1. s(j).from \in DOMAIN Wire(E) /\ s(j).to \in DOMAIN Wire(E) BY <1>1 DEF EndsKnown
      <4> QED BY <4>1, WireDomain
    <3>4. s(j).from = s(k).from /\ s(j).to = s(k).to BY <3>1, <3>2, <3>3
    <3>5. s(j).role # s(k).role /\ IsIfTarget(E, s(k).to) BY <1>5, <3>4 DEF PairsApart
    <3>6. r.views[AtWire(E, s(k).to) + 1].squash = "IF" BY <3>5, IfTargetIsWired
    <3>7. r.syn[j].role = s(j).role /\ r.syn[k].role = s(k).role /\ r.syn[k].to = AtWire(E, s(k).to) BY <1>4
    <3> QED BY <3>5, <3>6, <3>7
  <2> QED BY <2>1, <2>2
<1>6. ASSUME NEW k \in 1 .. m
      PROVE  LET l == LastOf(r, k) IN
             /\ ~OutOfOrder(l, r.syn[k])
             /\ ~(SamePair(l, r.syn[k]) /\ r.syn[k].role = l.role)
             /\ ~RepeatsIntoPlain(r, l, r.syn[k])
  <2>1. CASE k = 1
    <3>1. LastOf(r, k) = NoSynapse BY <2>1 DEF LastOf
    <3>2. NoSynapse.from = -1 BY DEF NoSynapse
    <3>3. r.syn[k].from \in Int /\ ~(r.syn[k].from < -1) /\ r.syn[k].from # -1
      <4>1. r.syn[k].from \in 0 .. n + N - 1 BY <1>4
      <4>2. n + N \in Nat BY <1>1
      <4> HIDE DEF n, N, m, s
      <4> QED BY <4>1, <4>2
    <3>4. ~OutOfOrder(NoSynapse, r.syn[k]) /\ ~SamePair(NoSynapse, r.syn[k])
      BY <3>2, <3>3 DEF OutOfOrder, SamePair
    <3> QED BY <3>1, <3>4 DEF RepeatsIntoPlain
  <2>2. CASE k # 1
    <3> DEFINE j == k - 1
    <3>1. j \in 1 .. m /\ j < k BY <1>1, <2>2
    <3>2. LastOf(r, k) = r.syn[j] BY <2>2 DEF LastOf
    <3> HIDE DEF j
    <3> QED BY <1>5, <3>1, <3>2 DEF RepeatsIntoPlain
  <2> QED BY <2>1, <2>2
<1>7. ASSUME NEW k \in 1 .. m PROVE SynapseFault(r, k) = "ok"
  <2> DEFINE e == r.syn[k]
  <2>1. r.views[e.to + 1].kind # "input"
    <3> DEFINE i == e.to - n + 1
    <3>1. i \in 1 .. N /\ e.to + 1 = n + i
      <4>1. e.to \in n .. n + N - 1 BY <1>4
      <4> HIDE DEF e, n, N
      <4> QED BY <1>1, <4>1
    <3> HIDE DEF i
    <3>2. ListedIn(r, E, i) BY <1>0, <1>3, <3>1, HealthyViews
    <3> QED BY <3>1, <3>2 DEF ListedIn
  <2>2. /\ RejectsRecursive(o) => e.from <= e.to
        /\ o.forwardOnly => e.from < e.to
    <3>1. LeadsOn(E, o) /\ s(k) \in ToSet(E.synapses) BY <1>0, <1>1 DEF Healthy
    <3> QED BY <1>4, <3>1 DEF LeadsOn
  <2>3. e.from \in Int /\ e.to \in Int
    <3> HIDE DEF n, N, m, s
    <3> QED BY <1>1, <1>4
  <2>4. SynapseClear(r, LastOf(r, k), e)
    <3> HIDE DEF e, n, N, m, s
    <3> QED BY <1>2, <1>6, <2>1, <2>2, <2>3 DEF SynapseClear, e
  <2>5. r.options.forwardOnly \in BOOLEAN BY <1>0 DEF IsRequest
  <2> QED BY <2>4, <2>5, SynapseClearIs DEF SynapseFault
<1> QED BY <1>1, <1>7 DEF SynapseFaults

\* The request hands the flat gates what the index gates were handed.
LEMMA SameFlatViews ==
  ASSUME NEW E, IsExport(E), NEW r, NEW o, Asks(r, E, o), NeuronsHealthy(E)
  PROVE  StructureViews(r) = FlatViews(E)
<1> DEFINE N == Len(E.neurons)
           n == E.input
           f(k) == [constant |-> r.views[k].kind = "constant", if |-> r.views[k].squash = "IF",
                    finite |-> r.views[k].bias \in {"finite", "none"}]
           g(v) == IF v <= n THEN [constant |-> FALSE, if |-> FALSE, finite |-> TRUE]
                   ELSE LET x == E.neurons[v - n] IN
                        [constant |-> x.type = "constant", if |-> x.squash = "IF", finite |-> x.bias = "finite"]
<1>1. /\ N \in Nat /\ n \in Nat /\ Len(r.views) = n + N
      /\ \A v \in 0 .. n - 1 : r.views[v + 1] = InputView(v)
  BY AskedViews
<1>2. StructureViews(r) = [k \in 1 .. n + N |-> f(k)]
  <2>1. StructureViews(r) = [k \in 1 .. Len(r.views) |-> f(k)] BY DEF StructureViews
  <2>2. Len(r.views) = n + N BY <1>1
  <2> HIDE DEF f, n, N
  <2> QED BY <2>1, <2>2
<1>3. FlatViews(E) = [v \in 1 .. n + N |-> g(v)] BY DEF FlatViews, DeclaredNodeCount
<1>4. ASSUME NEW k \in 1 .. n + N PROVE f(k) = g(k)
  <2>1. CASE k <= n
    <3>1. k - 1 \in 0 .. n - 1 /\ (k - 1) + 1 = k
      <4> HIDE DEF n, N
      <4> QED BY <1>1, <2>1
    <3>2. r.views[k] = InputView(k - 1) BY <1>1, <3>1
    <3>3. r.views[k].kind = "input" /\ r.views[k].squash = "none" /\ r.views[k].bias = "finite"
      BY <3>2, ViewFields
    <3> QED BY <2>1, <3>3
  <2>2. CASE ~(k <= n)
    <3> DEFINE i == k - n
    <3>1. i \in 1 .. N /\ k = n + i
      <4> HIDE DEF n, N
      <4> QED BY <1>1, <2>2
    <3>2. ListedIn(r, E, i) BY <3>1, HealthyViews
    <3>3. /\ r.views[k].kind = E.neurons[i].type /\ r.views[k].squash = E.neurons[i].squash
          /\ r.views[k].bias = "finite"
      BY <3>1, <3>2 DEF ListedIn
    <3>4. NeuronHealthy(E, i) BY <3>1 DEF NeuronsHealthy
    <3>5. E.neurons[i].bias = "finite" BY <3>4 DEF NeuronHealthy
    <3>6. g(k) = [constant |-> E.neurons[i].type = "constant", if |-> E.neurons[i].squash = "IF",
                  finite |-> E.neurons[i].bias = "finite"]
      BY <2>2
    <3> HIDE DEF i, g
    <3> QED BY <3>3, <3>5, <3>6
  <2> QED BY <2>1, <2>2
<1> HIDE DEF f, g
<1>5. [k \in 1 .. n + N |-> f(k)] = [v \in 1 .. n + N |-> g(v)] BY <1>4
<1> QED BY <1>2, <1>3, <1>5

\* A creature fit to be accepted, in order and past the gates, is clear of
\* every rule, when no total of connections is fixed.
LEMMA HealthyIsClear ==
  ASSUME NEW E, IsExport(E), NEW r, NEW o, FitAsAsked(r, E, o), EndsKnown(E), PairsApart(E), InOrder(E),
         ~ConnectionsExpected(o)
  PROVE  AllClear(r)
<1>1. NeuronFaults(r) = {} BY HealthyNeuronsPass
<1>2. CountFault(r) = "ok" BY HealthyCountsPass
<1>3. SynapseFaults(r) = {} BY HealthySynapsesPass
<1>4. FlatVerdict(r) = "ok"
  <2>1. /\ Asks(r, E, o) /\ IsRequest(r) /\ NeuronsHealthy(E)
        /\ StructurallySound(r.syn, FlatViews(E), E.input, E.output)
    BY DEF FitAsAsked, Healthy
  <2>2. Walked(r) BY <1>1, <1>2, <1>3, <2>1, ClearIsWalked
  <2>3. r.options = o /\ r.input = E.input /\ r.output = E.output BY <2>1 DEF Asks
  <2>4. CASE ~o.forwardOnly BY <2>3, <2>4 DEF FlatVerdict
  <2>5. CASE o.forwardOnly
    <3> DEFINE A == ~OrderedTyped(r.syn)
               B == ~StructurallySound(r.syn, StructureViews(r), r.input, r.output)
               C == Cyclic(r.syn, r.input .. Len(r.views) - 1)
               N == {"29", "30"}
               R == N \X BOOLEAN
               s == << <<"29", A>>, <<"30", B>>, <<"29", C>> >>
    <3>1. ~A BY <2>1, <2>2, <2>3, <2>5, WalkedInOrder
    <3>2. ~C BY <2>1, <2>2, <2>3, <2>5, WalkedAcyclic
    <3>3. ~B
      <4>1. StructureViews(r) = FlatViews(E) BY <2>1, SameFlatViews
      <4> QED BY <2>1, <2>3, <4>1
    <3>4. FlatVerdict(r) = FirstBroken(s) BY <2>3, <2>5 DEF FlatVerdict, ForwardRules
    <3>5. A \in BOOLEAN /\ B \in BOOLEAN /\ C \in BOOLEAN BY DEF Cyclic
    <3> HIDE DEF A, B, C
    <3>6. <<"29", A>> \in R /\ <<"30", B>> \in R /\ <<"29", C>> \in R BY <3>5
    <3> HIDE DEF R
    <3>7. s \in Seq(R) /\ Len(s) = 3 /\ \A i \in 1 .. 3 : ~s[i][2]
      <4>1. 1 .. 3 = {1, 2, 3} OBVIOUS
      <4> QED BY <3>1, <3>2, <3>3, <3>6, <4>1
    <3>8. "ok" \notin N OBVIOUS
    <3> HIDE DEF s, N
    <3>9. FirstBroken(s) = "ok" BY <3>7, <3>8, FirstBrokenIs DEF R
    <3> QED BY <3>4, <3>9
  <2> QED BY <2>4, <2>5
<1> QED BY <1>1, <1>2, <1>3, <1>4 DEF AllClear

\* What an accepted graft comes down to: a creature past the gates, healthy, in
\* order, without a record, of ids of its own, asked with no total fixed.
FitAsHeld(E, o) ==
  /\ Gate(E) = "ok" /\ Healthy(E, o) /\ InOrder(E) /\ E.memetic = NoMemetic /\ IdsAreOwn(E)
  /\ DeclaredNodeCount(E) <= MaxNodes /\ ~NeuronsExpected(o) /\ ~ConnectionsExpected(o)

\* The native entry point accepts such a creature.
LEMMA FitIsAccepted ==
  ASSUME IsHost(host), host.export, FitAsHeld(host.creature, host.options)
  PROVE  Told("native") = Accepted
<1> DEFINE E == host.creature
           o == host.options
           r == Request("native")
<1>1. IsExport(E) /\ InMemory = Loaded(E) BY DEF IsHost, InMemory
<1>2. /\ Gate(E) = "ok" /\ Healthy(E, o) /\ InOrder(E) /\ E.memetic = NoMemetic /\ IdsAreOwn(E)
      /\ DeclaredNodeCount(E) <= MaxNodes /\ ~NeuronsExpected(o) /\ ~ConnectionsExpected(o)
  BY DEF FitAsHeld
<1>3. EndsKnown(E) /\ PairsApart(E) /\ StructurallySound(GatedEdges(E), FlatViews(E), E.input, E.output)
  BY <1>1, <1>2, GateLeaves
<1>4. /\ InMemory.syn = Resolved(E) /\ InMemory.input = E.input /\ InMemory.output = E.output
  BY <1>1 DEF Loaded, Exported
<1>5. Len(E.neurons) \in Nat /\ E.input \in Nat /\ E.output \in Nat BY <1>1, LenProperties DEF IsExport
<1>6. /\ Len(InMemory.views) = Declared(E) /\ Declared(E) \in Nat /\ Declared(E) = E.input + Len(E.neurons)
  BY <1>1, <1>5, BeforeWalkIs DEF Declared
<1>7. Len(E.synapses) \in Nat /\ Len(Resolved(E)) = Len(E.synapses)
  <2>1. E.synapses \in Seq(NamedSynapses) BY <1>1 DEF IsExport, NamedSynapses
  <2>2. Len(E.synapses) \in Nat BY <2>1, LenProperties
  <2> QED BY <2>2 DEF Resolved
<1>8. ASSUME NEW k \in 1 .. Len(Resolved(E))
      PROVE  Resolved(E)[k].from \in 0 .. Declared(E) - 1 /\ Resolved(E)[k].to \in 0 .. Declared(E) - 1
  <2> DEFINE s == E.synapses[k]
             a == AtWire(E, s.from)
             b == AtWire(E, s.to)
  <2>1. s \in ToSet(E.synapses)
    <3>1. E.synapses \in Seq(NamedSynapses) BY <1>1 DEF IsExport, NamedSynapses
    <3>2. DOMAIN E.synapses = 1 .. Len(E.synapses) BY <3>1, LenProperties
    <3> QED BY <1>7, <3>2 DEF ToSet
  <2>2. s.from \in DOMAIN Wire(E) /\ s.to \in DOMAIN Wire(E) BY <1>3, <2>1 DEF EndsKnown
  <2>3. a # Nowhere /\ b # Nowhere BY <1>1, <2>2, WireDomain
  <2>4. a \in 0 .. Declared(E) - 1 /\ b \in 0 .. Declared(E) - 1 BY <1>1, <2>3, WireNames
  <2>5. Resolved(E)[k] = [from |-> a, to |-> b, role |-> s.role] BY <1>7 DEF Resolved
  <2> HIDE DEF a, b
  <2> QED BY <2>4, <2>5
<1>9. AskedFirst = Accepted
  <2>1. E.input >= 1 /\ E.output >= 1 BY <1>2 DEF Healthy, NeuronsHealthy
  <2>2. WidthVerdict(Len(InMemory.views), InMemory.input, InMemory.output) = "ok"
    BY <1>2, <1>4, <1>5, <2>1, WidthsSay
  <2>3. Dangling(InMemory.syn, Len(InMemory.views)) = {}
    <3>1. ASSUME NEW k \in 1 .. Len(Resolved(E))
          PROVE  {Resolved(E)[k].from, Resolved(E)[k].to} \ (0 .. Declared(E) - 1) = {}
      BY <1>8
    <3>2. Dangling(Resolved(E), Declared(E)) = {} BY <3>1 DEF Dangling
    <3> QED BY <1>4, <1>6, <3>2
  <2> QED BY <2>2, <2>3 DEF AskedFirst
<1>10. BeforeWalk("native") = Accepted
  <2>1. ~(Declared(E) > MaxNodes) BY <1>2, <1>6, CeilingAssumption DEF DeclaredNodeCount
  <2> QED BY <1>9, <2>1, BeforeWalkIs
<1>11. IsRequest(r) BY <1>10, RequestTyped
<1>12. Asks(r, E, o) /\ r.memetic = E.memetic BY RequestIs DEF Asks
<1>13. GatedEdges(E) = Resolved(E)
  <2>1. Resolved(E) \in Seq(Synapses)
    <3> DEFINE n == Len(E.synapses)
    <3>1. \A k \in 1 .. n : Resolved(E)[k] \in Synapses
      <4>1. IsHeld(Loaded(E)) BY <1>1, LoadedTyped
      <4>2. Loaded(E).syn = Resolved(E) BY <1>1, <1>4
      <4> QED BY <1>7, <4>1, <4>2 DEF IsHeld
    <3>2. Resolved(E) = [k \in 1 .. n |-> Resolved(E)[k]] BY DEF Resolved
    <3> DEFINE f == Resolved(E)
    <3> HIDE DEF n, f
    <3>3. n \in Nat /\ f = [k \in 1 .. n |-> f[k]] /\ \A k \in 1 .. n : f[k] \in Synapses
      BY <1>7, <3>1, <3>2 DEF n, f
    <3>4. [k \in 1 .. n |-> f[k]] \in Seq(Synapses) BY <3>3
    <3> QED BY <3>3, <3>4 DEF f
  <2>2. \A i, j \in 1 .. Len(Resolved(E)) : i < j => ~Precedes(Resolved(E)[j], Resolved(E)[i])
    BY <1>2, <1>7 DEF InOrder
  <2> QED BY <2>1, <2>2, SortedAlready DEF GatedEdges
<1>14. FitAsAsked(r, E, o)
  <2>1. r.syn = Resolved(E) BY <1>12 DEF Asks
  <2> QED BY <1>2, <1>3, <1>11, <1>12, <1>13, <2>1 DEF FitAsAsked
<1>15. AllClear(r)
  <2> HIDE DEF E, o, r
  <2> QED BY <1>1, <1>2, <1>3, <1>14, HealthyIsClear
<1>16. MemoryVerdict(r) = Accepted
  <2>1. r.memetic.form = "none" BY <1>2, <1>12 DEF NoMemetic
  <2> QED BY <2>1 DEF MemoryVerdict
<1>17. RulesSay(r) = MemoryVerdict(r)
  <2>1. NeuronFaults(r) = {} /\ CountFault(r) = "ok" /\ SynapseFaults(r) = {} /\ FlatVerdict(r) = "ok"
    BY <1>15 DEF AllClear
  <2> HIDE DEF r
  <2> QED BY <2>1 DEF RulesSay
<1> QED BY <1>10, <1>16, <1>17 DEF Told

-----------------------------------------------------------------------------
(* What a graft is told                                                     *)

\* What the plans grafted so far leave alone: they read all the constants they
\* declare and no output, and their neurons have ids.
PlansKeep(C, plans, uuids) ==
  /\ \A plan \in plans : ~HasUnusedConstant(plan) /\ ~ReadsOutput(C, plan)
  /\ \A u \in uuids : DerivedId[u] \in 0 .. MaxNeuronId

StaysHealthy(C, plans, uuids, answer, o) ==
  answer = Accepted /\ PlansKeep(C, plans, uuids) => Healthy(C, o)

\* The creature under assembly, and the one a host took.
UnderWay ==
  Assembled =>
    /\ StaysHealthy(current, Grafted, NewUuids, base.answer, host.options)
    /\ IF next = 0 THEN current = base.creature ELSE InOrder(current) /\ current.memetic = NoMemetic
    /\ outcome = "ok" \/ Doing.op # "nodes" => Gate(current) = "ok"

Taken ==
  outcome = "none" /\ job # 0 /\ host.creature # base.creature =>
    /\ StaysHealthy(host.creature, Grafted, NewUuids, base.answer, host.options)
    /\ InOrder(host.creature) /\ host.creature.memetic = NoMemetic /\ Gate(host.creature) = "ok"

GraftedInv == (outcome # "none" => host.creature = base.creature) /\ UnderWay /\ Taken

\* What is left alone stays as it was grafted.
LEMMA GraftedAsIs ==
  ASSUME GraftedInv, UNCHANGED <<host, job, next, current, base, outcome>>
  PROVE  GraftedInv'
<1>1. \A k : Plan(SpecAt(k))' = Plan(SpecAt(k)) BY DEF SpecAt, Doing, Jobs
<1>2. Grafted' = Grafted BY <1>1 DEF Grafted
<1>3. NewUuids' = NewUuids BY <1>2 DEF NewUuids
<1>4. Doing' = Doing BY DEF Doing, Jobs
<1>5. UnderWay' BY <1>2, <1>3, <1>4 DEF GraftedInv, UnderWay, Assembled
<1>6. Taken' BY <1>2, <1>3 DEF GraftedInv, Taken
<1> QED BY <1>5, <1>6 DEF GraftedInv

\* A base that is accepted is healthy.
LEMMA StartIsHealthy ==
  ASSUME CreatureInv, ToldInv, StartGraft
  PROVE  GraftedInv'
<1> DEFINE E == host.creature
           o == host.options
<1>1. /\ next' = 0 /\ current' = E /\ base'.creature = E /\ base'.answer = answers[1] /\ host' = host
      /\ outcome' = IF Gate(E) = "ok" THEN "assembling" ELSE Gate(E)
      /\ answers # <<>> /\ job < Len(Jobs)
  BY DEF StartGraft, vars
<1>2. Len(Jobs) \in Nat /\ job \in Nat BY DEF CreatureInv, HostInv, JobsFine, Jobs, JobInv
<1>3. Jobs # <<>>
  <2>1. Jobs = <<>> => Len(Jobs) = 0 OBVIOUS
  <2> QED BY <1>1, <1>2, <2>1
<1>4. host.export /\ IsExport(E) /\ IsHost(host) BY <1>3 DEF CreatureInv, HostInv, IsHost, JobsFine, Jobs
<1>5. Gate(E) \in GateNames \cup LateNames \cup {"ok"} BY <1>4, GateSpeaks
<1>6. Gate(E) \notin {"assembling", "none"} BY <1>5 DEF GateNames, LateNames
<1>7. answers[1] = Accepted => Healthy(E, o)
  <2> SUFFICES ASSUME answers[1] = Accepted PROVE Healthy(E, o) OBVIOUS
  <2> DEFINE r == Request("native")
  <2>1. Told("native") = Accepted
        /\ (Told("native") = Accepted => IsRequest(r) /\ AllClear(r) /\ AskedFirst = Accepted)
    BY <1>1, <1>4, NativeAccepts DEF ToldInv
  <2>2. InMemory.input = E.input /\ InMemory.output = E.output BY <1>4, HeldTyped
  <2>3. Asks(r, E, o) BY <1>4, RequestIs DEF Asks
  <2>4. E.output >= 1
    <3>1. WidthVerdict(Len(InMemory.views), InMemory.input, InMemory.output) = "ok"
      <4>1. \A x : x # "ok" => Refused(x, -1) # Accepted BY NotAcceptedAs
      <4> QED BY <2>1, <4>1 DEF AskedFirst
    <3>2. E.input \in Nat /\ E.output \in Nat BY <1>4 DEF IsExport
    <3> QED BY <2>2, <3>1, <3>2, WidthsSay
  <2> QED BY <1>4, <2>1, <2>3, <2>4, AcceptedIsHealthy
<1>8. UnderWay'
  <2> SUFFICES ASSUME Assembled'
               PROVE  /\ StaysHealthy(current', Grafted', NewUuids', base'.answer, host'.options)
                      /\ current' = base'.creature /\ next' = 0
                      /\ Gate(current') = "ok"
    BY DEF UnderWay
  <2>1. Gate(E) = "ok" BY <1>1, <1>6 DEF Assembled
  <2> QED BY <1>1, <1>7, <2>1 DEF StaysHealthy
<1>9. Taken' BY <1>1, <1>6 DEF Taken
<1> QED BY <1>1, <1>8, <1>9 DEF GraftedInv

\* An output stays one to read.
LEMMA OutputsStayRead ==
  ASSUME NEW E, IsExport(E), NEW plan, IsPlan(plan), NEW B, Inserts(E, plan, B),
         NEW any, ReadsOutput(E, any)
  PROVE  ReadsOutput(B, any)
<1> DEFINE to(i) == Shifted(E, plan, i)
           c == Len(plan.constants)
<1>1. PICK k \in 1 .. Len(any.inbound), i \in 1 .. Len(E.neurons) :
        E.neurons[i].type = "output" /\ E.neurons[i].uuid = any.inbound[k].uuid
  BY DEF ReadsOutput
<1>2. to(i) \in 1 .. Len(B.neurons)
  <2>1. to(i) \in 1 .. Len(E.neurons) + c + 1 BY ShiftedIs
  <2> QED BY <2>1 DEF Inserts
<1>3. B.neurons[to(i)] = E.neurons[i] BY DEF Inserts
<1> QED BY <1>1, <1>2, <1>3 DEF ReadsOutput

\* A node that passes its rules leaves the creature healthy.
LEMMA GraftIsHealthy ==
  ASSUME CreatureInv, FreshInv, GraftedInv, GraftOne
  PROVE  GraftedInv'
<1> DEFINE spec == SpecAt(next + 1)
           plan == Plan(spec)
           E == current
           B == Build(E, plan, Place(E, plan))
           o == host.options
           refusal == FirstBroken(PlanRules(spec) \o PlacementRules(E, plan, RequiresTargets(next + 1)))
<1>1. /\ outcome = "assembling" /\ next < Len(Doing.specs) /\ UNCHANGED <<vars, job, base>>
      /\ IF refusal # "ok" THEN outcome' = refusal /\ UNCHANGED <<current, next>>
         ELSE /\ current' = B /\ next' = next + 1
              /\ outcome' = IF Doing.op # "nodes" /\ Validated(B) # "ok" THEN Validated(B) ELSE "assembling"
  BY DEF GraftOne
<1>2. host' = host /\ base' = base /\ host.creature = base.creature /\ Assembled /\ UnderWay
  BY <1>1 DEF vars, GraftedInv, Assembled
<1>3. next \in Nat /\ job \in Nat /\ job # 0 /\ IsExport(E) /\ job <= Len(Jobs) /\ Len(Jobs) \in Nat
  BY <1>1 DEF CreatureInv, JobInv, HostInv, JobsFine, Jobs
<1>4. (\A k : Plan(SpecAt(k))' = Plan(SpecAt(k))) /\ Doing' = Doing
  BY <1>1, <1>2 DEF SpecAt, Doing, Jobs
<1>5. Taken' BY <1>2 DEF Taken
<1>6. UnderWay'
  <2>1. CASE refusal # "ok"
    <3>1. current' = current /\ next' = next BY <1>1, <2>1
    <3>2. Grafted' = Grafted BY <1>4, <3>1 DEF Grafted
    <3>3. NewUuids' = NewUuids BY <3>2 DEF NewUuids
    <3>4. refusal # "ok" /\ outcome' = refusal BY <1>1, <2>1
    <3> HIDE DEF refusal
    <3> QED BY <1>2, <1>4, <3>1, <3>2, <3>3, <3>4 DEF UnderWay
  <2>2. CASE refusal = "ok"
    <3>1. /\ current' = B /\ next' = next + 1
          /\ outcome' = IF Doing.op # "nodes" /\ Validated(B) # "ok" THEN Validated(B) ELSE "assembling"
      BY <1>1, <2>2
    <3>2. IsPlan(plan)
      <4>1. JobsFine(host) /\ job \in 1 .. Len(Jobs) BY <1>3 DEF CreatureInv, HostInv
      <4>2. Len(Doing.specs) \in Nat BY <4>1 DEF JobsFine, Doing, Jobs
      <4>3. next + 1 \in 1 .. Len(Doing.specs) BY <1>1, <1>3, <4>2
      <4> QED BY <4>1, <4>3, SpecTyped
    <3>3. RequiresTargets(next + 1) \in BOOLEAN BY DEF RequiresTargets
    <3>4. Grafted' = Grafted \cup {plan}
      <4>1. 1 .. next' = (1 .. next) \cup {next + 1} BY <1>3, <3>1
      <4>2. Grafted' = {Plan(SpecAt(k)) : k \in 1 .. next'} BY <1>4 DEF Grafted
      <4> QED BY <4>1, <4>2 DEF Grafted
    <3>5. FreshInv' BY GraftIsFresh
    <3> HIDE DEF plan, spec
    <3>6. NewUuids' = NewUuids \cup Introduced(plan) BY <3>4 DEF NewUuids
    <3>7. Fits(E, plan) BY <1>3, <2>2, <3>2, <3>3, PlacementFits
    <3>8. Grows(E, plan, B) BY <1>3, <3>2, BuildGrows
    <3>9. B.output = E.output /\ B.memetic = NoMemetic /\ (EndsKnown(B) => InOrder(B))
      BY <1>3, <3>2, BuildInOrder
    <3> DEFINE New == NewUuids'
               plans == Grafted'
    <3> HIDE DEF B, refusal
    <3> SUFFICES ASSUME Assembled'
                 PROVE  /\ StaysHealthy(B, plans, New, base.answer, o)
                        /\ next' # 0 /\ InOrder(B) /\ B.memetic = NoMemetic
                        /\ outcome' = "ok" \/ Doing.op # "nodes" => Gate(B) = "ok"
      BY <1>2, <1>4, <3>1 DEF UnderWay
    <3>10. Fresh(B, New, base.creature) BY <1>2, <3>1, <3>5 DEF FreshInv
    <3>11. EndsKnown(B) /\ ReadsAhead(B, New) /\ ConstantsApart(B, New) BY <3>10 DEF Fresh
    <3>12. EndsKnown(E) BY <1>2 DEF FreshInv, Fresh
    <3>13. ASSUME base.answer = Accepted, PlansKeep(B, plans, New)
           PROVE  Healthy(B, o)
      <4>1. \A any \in plans : ~ReadsOutput(E, any)
        <5>1. ASSUME NEW any \in plans, ReadsOutput(E, any) PROVE FALSE
          <6>1. Inserts(E, plan, B) BY <3>8 DEF Grows
          <6>2. ReadsOutput(B, any) BY <1>3, <3>2, <5>1, <6>1, OutputsStayRead
          <6> QED BY <3>13, <5>1, <6>2 DEF PlansKeep
        <5> QED BY <5>1
      <4>2. PlansKeep(E, Grafted, NewUuids) BY <3>4, <3>6, <3>13, <4>1 DEF PlansKeep
      <4>3. Healthy(E, o) BY <1>2, <3>13, <4>2 DEF UnderWay, StaysHealthy
      <4>4. Introduced(plan) \subseteq New /\ plan \in plans BY <3>4, <3>6
      <4>5. /\ ~HasUnusedConstant(plan) /\ ~ReadsOutput(E, plan)
            /\ \A u \in Introduced(plan) : DerivedId[u] \in 0 .. MaxNeuronId
        BY <3>13, <4>1, <4>4 DEF PlansKeep
      <4> HIDE DEF New, plans, E, o
      <4> QED BY <1>3, <3>2, <3>7, <3>8, <3>9, <3>11, <3>12, <4>3, <4>4, <4>5, HealthyStays
    <3>14. outcome' = "ok" \/ Doing.op # "nodes" => Gate(B) = "ok"
      <4>1. Gate(B) \in GateNames \cup LateNames \cup {"ok"}
        <5>1. IsExport(B) BY <3>8 DEF Grows
        <5> QED BY <5>1, GateSpeaks
      <4>2. Validated(B) # "assembling" /\ (Validated(B) = "ok" => Gate(B) = "ok")
        BY <4>1 DEF Validated, GateNames, LateNames
      <4> QED BY <3>1, <4>2 DEF Assembled
    <3>15. next' # 0 BY <1>3, <3>1
    <3> QED BY <3>9, <3>11, <3>13, <3>14, <3>15 DEF StaysHealthy
  <2> QED BY <2>1, <2>2
<1> QED BY <1>2, <1>5, <1>6 DEF GraftedInv

\* The end of a job, where a batch meets the gates.
LEMMA FinishKeepsHealth ==
  ASSUME CreatureInv, GraftedInv, FinishGraft
  PROVE  GraftedInv'
<1>1. /\ outcome = "assembling" /\ UNCHANGED <<host, job, next, current, base>>
      /\ outcome' = IF Doing.op = "nodes" /\ Validated(current) # "ok" THEN Validated(current) ELSE "ok"
  BY DEF FinishGraft, vars
<1>2. host.creature = base.creature /\ Assembled /\ UnderWay BY <1>1 DEF GraftedInv, Assembled
<1>3. (\A k : Plan(SpecAt(k))' = Plan(SpecAt(k))) /\ Doing' = Doing BY <1>1 DEF SpecAt, Doing, Jobs
<1>4. Grafted' = Grafted BY <1>1, <1>3 DEF Grafted
<1>5. NewUuids' = NewUuids BY <1>4 DEF NewUuids
<1>6. Doing.op = "nodes" /\ Validated(current) = "ok" => Gate(current) = "ok" BY DEF Validated
<1>7. Assembled' => Gate(current) = "ok"
  <2>1. CASE Doing.op # "nodes" BY <1>2, <2>1 DEF UnderWay
  <2>2. CASE Doing.op = "nodes" /\ Validated(current) # "ok"
    <3>1. outcome' = Validated(current) BY <1>1, <2>2
    <3>2. IsExport(current) BY <1>1 DEF CreatureInv, JobInv
    <3>3. Gate(current) \in GateNames \cup LateNames \cup {"ok"} BY <3>2, GateSpeaks
    <3>4. Validated(current) \notin {"assembling", "ok"} BY <2>2, <3>3 DEF Validated, GateNames, LateNames
    <3> QED BY <3>1, <3>4 DEF Assembled
  <2> QED BY <1>6, <2>1, <2>2
<1>8. UnderWay' BY <1>1, <1>2, <1>4, <1>5, <1>7 DEF UnderWay
<1>9. Taken' BY <1>1, <1>2 DEF Taken
<1> QED BY <1>1, <1>2, <1>8, <1>9 DEF GraftedInv

\* A host takes what was grafted.
LEMMA TakeKeepsHealth ==
  ASSUME CreatureInv, GraftedInv, TakeResult
  PROVE  GraftedInv'
<1>1. /\ outcome \notin {"none", "assembling"} /\ outcome' = "none"
      /\ job' = job /\ next' = next /\ current' = current /\ base' = base
      /\ outcome = "ok" => host' = [host EXCEPT !.creature = current]
      /\ outcome # "ok" => host' = host
  BY DEF TakeResult
<1>2. host.creature = base.creature /\ UnderWay BY <1>1 DEF GraftedInv
<1>3. Jobs # <<>> /\ IsExport(current) BY <1>1 DEF CreatureInv, JobInv
<1>4. HostInv /\ host.export BY <1>3 DEF CreatureInv, HostInv, JobsFine, Jobs
<1>5. UnderWay' BY <1>1 DEF UnderWay, Assembled
<1>6. Taken'
  <2>1. CASE outcome # "ok"
    <3>1. host'.creature = base'.creature BY <1>1, <1>2, <2>1
    <3> QED BY <3>1 DEF Taken
  <2>2. CASE outcome = "ok"
    <3>1. host'.creature = current /\ host'.options = host.options /\ Jobs' = Jobs
      BY <1>1, <1>3, <1>4, <2>2, HostTakes
    <3>2. \A k : Plan(SpecAt(k))' = Plan(SpecAt(k)) BY <1>1, <3>1 DEF SpecAt, Doing
    <3>3. Grafted' = Grafted BY <1>1, <3>2 DEF Grafted
    <3>4. NewUuids' = NewUuids BY <3>3 DEF NewUuids
    <3>5. /\ StaysHealthy(current, Grafted, NewUuids, base.answer, host.options)
          /\ IF next = 0 THEN current = base.creature ELSE InOrder(current) /\ current.memetic = NoMemetic
          /\ Gate(current) = "ok"
      BY <1>2, <2>2 DEF UnderWay, Assembled
    <3> QED BY <1>1, <3>1, <3>3, <3>4, <3>5 DEF Taken
  <2> QED BY <2>1, <2>2
<1> QED BY <1>1, <1>5, <1>6 DEF GraftedInv

\* What a session grafts is fit to be accepted, at every step of it.
LEMMA GraftedAlways == GraftSpec => []GraftedInv
<1>1. GraftInit => GraftedInv BY DEF GraftInit, GraftedInv, UnderWay, Taken, Assembled
<1>2. CreatureInv /\ ToldInv /\ FreshInv /\ GraftedInv /\ [GraftNext]_<<vars, gvars>> => GraftedInv'
  <2> SUFFICES ASSUME CreatureInv, ToldInv, FreshInv, GraftedInv, [GraftNext]_<<vars, gvars>>
               PROVE  GraftedInv'
    OBVIOUS
  <2>1. CASE UNCHANGED gvars /\ host' = host BY <2>1, GraftedAsIs DEF gvars
  <2>2. CASE AskAgain BY <2>1, <2>2 DEF AskAgain, Ask
  <2>3. CASE Validating /\ ~EditAndPrune BY <2>1, <2>3 DEF Validating, Rules, Memory, Answer
  <2>4. CASE Validating /\ EditAndPrune
    <3>1. UNCHANGED gvars /\ Len(answers) = Len(Entries) /\ host.export
      BY <2>4 DEF Validating, EditAndPrune
    <3>2. Len(answers) = 6 BY <3>1 DEF Entries
    <3>3. Jobs = <<>> BY <3>2 DEF CreatureInv, JobInv
    <3>4. outcome = "none" /\ job = 0
      <4>1. Len(Jobs) = 0 BY <3>3
      <4> QED BY <3>3, <4>1 DEF CreatureInv, JobInv
    <3>5. outcome' = "none" /\ job' = 0 BY <3>1, <3>4 DEF gvars
    <3> QED BY <3>5 DEF GraftedInv, UnderWay, Taken, Assembled
  <2>5. CASE StartGraft BY <2>5, StartIsHealthy
  <2>6. CASE GraftOne BY <2>6, GraftIsHealthy
  <2>7. CASE FinishGraft BY <2>7, FinishKeepsHealth
  <2>8. CASE TakeResult BY <2>8, TakeKeepsHealth
  <2>9. CASE UNCHANGED <<vars, gvars>> BY <2>1, <2>9 DEF vars
  <2> QED BY <2>2, <2>3, <2>4, <2>5, <2>6, <2>7, <2>8, <2>9 DEF GraftNext
<1> QED BY <1>1, <1>2, CreatureOrder, AnswersAreTold, FreshAlways, PTL DEF GraftSpec

\* A graft onto an accepted creature is accepted again, as long as it declares no
\* constant it does not read, reads no output, fits the node ceiling and brings
\* ids of its own, and the options fix no total: the gates, the canonical order
\* and the places of the new neurons leave no rule of the validator to break.
THEOREM GraftedAlwaysAccepted == GraftSpec => []GraftedIsAccepted
<1>1. CreatureInv /\ ToldInv /\ GraftedInv => GraftedIsAccepted
  <2> DEFINE E == host.creature
             o == host.options
  <2> SUFFICES ASSUME CreatureInv, ToldInv, GraftedInv, Regraft, base.answer = Accepted,
                      DeclaredNodeCount(E) <= MaxNodes, IdsHold(E), ~NeuronsExpected(o), ~ConnectionsExpected(o),
                      \A plan \in Grafted : ~HasUnusedConstant(plan) /\ ~ReadsOutput(E, plan)
               PROVE  answers[1] = Accepted
    BY DEF GraftedIsAccepted
  <2>1. job \in 0 .. Len(Jobs) /\ job # 0 /\ outcome = "none" /\ answers # <<>> /\ E # base.creature
    BY DEF Regraft, CreatureInv, JobInv
  <2>2. Jobs # <<>>
    <3>1. Jobs = <<>> => Len(Jobs) = 0 OBVIOUS
    <3> QED BY <2>1, <3>1
  <2>3. host.export /\ IsHost(host) BY <2>2 DEF CreatureInv, HostInv, JobsFine, Jobs
  <2>4. PlansKeep(E, Grafted, NewUuids) /\ IdsAreOwn(E) BY DEF PlansKeep, IdsHold
  <2>5. Healthy(E, o) /\ InOrder(E) /\ E.memetic = NoMemetic /\ Gate(E) = "ok"
    BY <2>1, <2>4 DEF GraftedInv, Taken, StaysHealthy
  <2>6. FitAsHeld(E, o) BY <2>4, <2>5 DEF FitAsHeld
  <2>7. Told("native") = Accepted BY <2>3, <2>6, FitIsAccepted
  <2> QED BY <2>1, <2>3, <2>7, NativeAccepts DEF ToldInv
<1> QED BY <1>1, CreatureOrder, AnswersAreTold, GraftedAlways, PTL
=============================================================================
