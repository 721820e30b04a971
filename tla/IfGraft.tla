------------------------------- MODULE IfGraft -------------------------------
(***************************************************************************)
(* Compiling a creature (neat-core/src/creature.rs), and grafting IF nodes  *)
(* and relays onto one (neat-core/src/if_graft.rs): graft_if_node,          *)
(* graft_relay_node, graft_if_correction, graft_if_tree and graft_if_nodes. *)
(* A host has its creature validated, grafts, takes the result and has that *)
(* validated; it may graft again.                                           *)
(*                                                                          *)
(* An IfNodeSpec is [kind, uuid, bias, constants, condition, positive,      *)
(* negative, targets], a RelaySpec [kind, uuid, bias, sources, targets]; an *)
(* edge is [uuid, weight, role].  A host has `jobs`, a sequence of           *)
(* [op, specs].                                                             *)
(***************************************************************************)
EXTENDS CreatureValidate

CONSTANTS
  SpanWidth,      \* num_synapses is a u16: counts wrap at 2^16
  IndexSpace,     \* u32::MAX
  ConstantNames   \* uuid -> the names of its three correction constants

\* What a host may ask to have grafted.
Edges == Seq([uuid : STRING, weight : {"finite", "bad"}, role : 0 .. 3])
IsNode(spec) ==
  /\ spec.uuid \in STRING /\ spec.bias \in {"finite", "bad"} /\ spec.targets \in Edges
  /\ IF spec.kind = "if"
       THEN /\ spec.constants \in Seq([uuid : STRING, bias : {"finite", "bad"}])
            /\ spec.condition \in Edges /\ spec.positive \in Edges /\ spec.negative \in Edges
       ELSE spec.sources \in Edges
IsCorrection(c) ==
  /\ {c.uuid, c.feature, c.target} \subseteq STRING
  /\ {c.threshold, c.positive, c.negative, c.weight} \subseteq {"finite", "bad"}
  /\ \A k \in 1 .. 3 : ConstantNames[c.uuid][k] \in STRING

\* Jobs are asked of exports.
ASSUME JobsAssumption ==
  \A h \in Hosts :
    /\ "jobs" \in DOMAIN h /\ Len(h.jobs) \in Nat
    /\ h.jobs # <<>> => h.export /\ Len(h.jobs) > 0
    /\ \A j \in 1 .. Len(h.jobs) :
         /\ Len(h.jobs[j].specs) \in Nat
         /\ \A k \in 1 .. Len(h.jobs[j].specs) :
              IF h.jobs[j].op = "correction" THEN IsCorrection(h.jobs[j].specs[k])
              ELSE IsNode(h.jobs[j].specs[k])

ASSUME SpanAssumption == SpanWidth \in Nat \ {0}

VARIABLES
  job,       \* jobs of the host taken so far
  next,      \* specs of this job grafted so far
  current,   \* the creature under assembly
  outcome,   \* "none", "assembling", "ok" or the GraftError
  base       \* [creature, answer] this job started from

gvars == <<job, next, current, outcome, base>>
-----------------------------------------------------------------------------
(* compile_creature (creature.rs) and the gates in front of it, which every  *)
(* other consumer of an export asks too.  Compilation groups the synapses by *)
(* the UUID of their target and gives every listed neuron a span of the one  *)
(* synapse table.                                                            *)

\* parse_squash_name: the canonical names of the activations the models of this
\* project tell apart, and the second spellings some have.
Squashes == {"IDENTITY", "RELU", "LOGISTIC", "TANH", "HARD_TANH", "SINE", "COMPLEMENT", "ABSOLUTE",
             "MINIMUM", "MAXIMUM", "MEAN", "HYPOT", "HYPOTv2", "IF"}
SecondNames ==
  [n \in {"ReLU", "SOFTMAX", "CLIPPED", "SINUSOID", "INVERSE"} |->
     CASE n = "ReLU" -> "RELU" [] n = "SOFTMAX" -> "LOGISTIC" [] n = "CLIPPED" -> "HARD_TANH"
       [] n = "SINUSOID" -> "SINE" [] OTHER -> "COMPLEMENT"]

Listed(E) == {E.neurons[i].uuid : i \in 1 .. Len(E.neurons)}
DeclaredNodeCount(E) == E.input + Len(E.neurons)

IsKnownSquash(n) == n.squash \in {"none"} \cup Squashes \cup DOMAIN SecondNames
IsIfTarget(E, u) == \E i \in 1 .. Len(E.neurons) :
                      E.neurons[i].uuid = u /\ E.neurons[i].squash = "IF"

\* validate_creature_width.
WidthRules(E) ==
  << <<"InvalidInputCount", E.input < 1>>,
     <<"TooManyNodes", E.input > MaxNodes>>,
     <<"InvalidOutputCount", E.output < 1>> >>

\* Mutant: a pair may not repeat, in whatever role.
DuplicateRulesByPair(E) ==
  [k \in 1 .. Len(E.synapses) |->
     <<"DuplicateSynapse", \E j \in 1 .. k - 1 : E.synapses[j].from = E.synapses[k].from
                                                /\ E.synapses[j].to = E.synapses[k].to>>]

\* validate_no_duplicate_synapses, in declaration order.
DuplicateRules(E) ==
  FlattenSeq([k \in 1 .. Len(E.synapses) |->
    LET s == E.synapses[k]
        pair == {j \in 1 .. k - 1 : E.synapses[j].from = s.from /\ E.synapses[j].to = s.to}
    IN << <<"DuplicateSynapse", \E j \in pair : E.synapses[j].role = s.role>>,
          <<"TypedDuplicateSynapse", pair # {} /\ ~IsIfTarget(E, s.to)>> >>])

OutputCountMismatch(E) ==
  Cardinality({i \in 1 .. Len(E.neurons) : E.neurons[i].type = "output"}) # E.output

\* Synapses of a listed neuron, by target UUID, as [from, role].
Inward(E, i) ==
  LET mine == KeptOf(E.synapses, {k \in 1 .. Len(E.synapses) : E.synapses[k].to = E.neurons[i].uuid})
  IN [k \in 1 .. Len(mine) |-> [from |-> AtWire(E, mine[k].from), role |-> mine[k].role]]

NeuronRules(E, i) ==
  << <<"UnknownSquash", ~IsKnownSquash(E.neurons[i])>> >>
    \o [k \in 1 .. Len(Inward(E, i)) |->
          <<"UnknownSourceUuid", Inward(E, i)[k].from = Nowhere>>]

CompileRules(E) ==
  WidthRules(E) \o DuplicateRules(E)
    \o << <<"OutputCountMismatch", OutputCountMismatch(E)>>,
          <<"TooManyNodes", DeclaredNodeCount(E) > MaxNodes>> >>
    \o [k \in 1 .. Len(E.synapses) |->
          <<"UnknownTargetUuid", E.synapses[k].to \notin Listed(E)>>]
    \o FlattenSeq([i \in 1 .. Len(E.neurons) |-> NeuronRules(E, i)])

CompileFault(E) == FirstBroken(CompileRules(E))

\* The spans of the synapse table, neuron by neuron.
Span(E, i) == [synapses |-> Inward(E, i), count |-> Len(Inward(E, i)) % SpanWidth]
Compiled(E) == [i \in 1 .. Len(E.neurons) |-> Span(E, i)]

-----------------------------------------------------------------------------
(* validate_creature_topology *)

\* bounded_counts: output and node count; input is bounded by its width.
CountRules(E) ==
  << <<"CountNotRepresentable", E.output > IndexSpace>>,
     <<"CountNotRepresentable", DeclaredNodeCount(E) > IndexSpace>> >>

ReferenceRules(E) ==
  [i \in 1 .. Len(E.neurons) |-> <<"UnknownSquash", ~IsKnownSquash(E.neurons[i])>>]
    \o FlattenSeq([k \in 1 .. Len(E.synapses) |->
         << <<"UnknownSourceUuid", AtWire(E, E.synapses[k].from) = Nowhere>>,
            <<"UnknownTargetUuid", AtWire(E, E.synapses[k].to) = Nowhere>> >>])

Precedes(a, b) ==
  \/ a.from < b.from
  \/ a.from = b.from /\ a.to < b.to
  \/ a.from = b.from /\ a.to = b.to /\ a.role < b.role

\* s in the order of its keys, equal ones as they stand.
ByKey(s, key) ==
  LET n == Len(s)
      before(k) == {j \in 1 .. n : Precedes(key[j], key[k]) \/ (key[j] = key[k] /\ j < k)}
      rank == [k \in 1 .. n |-> Cardinality(before(k)) + 1]
  IN [i \in 1 .. n |-> s[CHOOSE k \in 1 .. n : rank[k] = i]]

FlatViews(E) ==
  [v \in 1 .. DeclaredNodeCount(E) |->
     IF v <= E.input THEN [constant |-> FALSE, if |-> FALSE, finite |-> TRUE]
     ELSE LET n == E.neurons[v - E.input] IN
          [constant |-> n.type = "constant", if |-> n.squash = "IF", finite |-> n.bias = "finite"]]

\* The index gates read the edges sorted.
GateRules(E) ==
  LET edges == ByKey(Resolved(E), Resolved(E)) IN
  << <<"MalformedTopology", E.forwardOnly /\ ~OrderedTyped(edges)>>,
     <<"MalformedStructure", ~StructurallySound(edges, FlatViews(E), E.input, E.output)>> >>

Gate(E) ==
  LET declared == FirstBroken(WidthRules(E) \o CountRules(E) \o ReferenceRules(E)) IN
  IF declared # "ok" THEN declared
  ELSE FirstBroken(GateRules(E) \o DuplicateRules(E))

-----------------------------------------------------------------------------
(* Specifications *)

Edge(u, w) == [uuid |-> u, weight |-> w, role |-> Standard]

\* An inbound edge takes its role from the list it stands in.
Branch(edges, role) ==
  [k \in 1 .. Len(edges) |-> [uuid |-> edges[k].uuid, weight |-> edges[k].weight,
                              role |-> edges[k].role, branch |-> role]]

IfPlan(spec) ==
  [squash |-> "IF", uuid |-> spec.uuid, bias |-> spec.bias, constants |-> spec.constants,
   inbound |-> Branch(spec.condition, Condition) \o Branch(spec.positive, Positive)
                 \o Branch(spec.negative, Negative),
   targets |-> spec.targets]

RelayPlan(spec) ==
  [squash |-> "IDENTITY", uuid |-> spec.uuid, bias |-> spec.bias, constants |-> <<>>,
   inbound |-> Branch(spec.sources, Standard), targets |-> spec.targets]

Plan(spec) == IF spec.kind = "if" THEN IfPlan(spec) ELSE RelayPlan(spec)

\* What if_plan asks; a relay has no rule of its own.
PlanRules(spec) ==
  IF spec.kind # "if" THEN <<>>
  ELSE << <<"MissingConditionSynapse", spec.condition = <<>> >>,
          <<"MissingPositiveSynapse", spec.positive = <<>> >>,
          <<"MissingNegativeSynapse", spec.negative = <<>> >> >>

\* IfCorrectionSpec::to_node_spec: feature > threshold ? positive : negative.
ToNodeSpec(c) ==
  LET one == ConstantNames[c.uuid] IN
  [kind |-> "if", uuid |-> c.uuid, bias |-> "finite",
   constants |-> [k \in 1 .. 3 |-> [uuid |-> one[k], bias |-> "finite"]],
   condition |-> <<Edge(c.feature, "finite"), Edge(one[1], c.threshold)>>,
   positive |-> <<Edge(one[2], c.positive)>>,
   negative |-> <<Edge(one[3], c.negative)>>,
   targets |-> <<Edge(c.target, c.weight)>>]

-----------------------------------------------------------------------------
(* place_and_build *)

NewNames(plan) == <<plan.uuid>> \o [k \in 1 .. Len(plan.constants) |-> plan.constants[k].uuid]
Introduced(plan) == ToSet(NewNames(plan))

NameRules(E, plan) ==
  [k \in 1 .. Len(NewNames(plan)) |->
     <<"DuplicateUuid", \/ NewNames(plan)[k] \in DOMAIN Wire(E)
                        \/ \E j \in 1 .. k - 1 : NewNames(plan)[j] = NewNames(plan)[k]>>]
    \o << <<"NonFiniteBias", plan.bias # "finite">>,
          <<"NonFiniteBias", \E k \in 1 .. Len(plan.constants) : plan.constants[k].bias # "finite">> >>

InboundRules(E, plan, k) ==
  LET e == plan.inbound[k]
      same == {j \in 1 .. k - 1 : plan.inbound[j].uuid = e.uuid}
  IN << <<"InboundEdgeHasRole", e.role # Standard>>,
        <<"SelfEdge", e.uuid = plan.uuid>>,
        <<"NonFiniteWeight", e.weight # "finite">>,
        <<"DuplicateEdge", \E j \in same : plan.inbound[j].branch = e.branch>>,
        <<"TypedDuplicateEdge", same # {} /\ plan.squash # "IF">>,
        <<"UnknownSourceUuid", e.uuid \notin Introduced(plan) \cup DOMAIN Wire(E)>> >>

\* The listed neuron a UUID names.
NeuronAt(E, u) == E.neurons[AtWire(E, u) - E.input + 1]

TargetRules(E, plan, k) ==
  LET e == plan.targets[k]
      same == {j \in 1 .. k - 1 : plan.targets[j].uuid = e.uuid}
      listed == AtWire(E, e.uuid) >= E.input
  IN << <<"SelfEdge", e.uuid = plan.uuid>>,
        <<"NonFiniteWeight", e.weight # "finite">>,
        <<"DuplicateEdge", \E j \in same : plan.targets[j].role = e.role>>,
        <<"TargetIsConstant", e.uuid \in Introduced(plan)>>,
        <<"UnknownTargetUuid", AtWire(E, e.uuid) = Nowhere>>,
        <<"TargetIsInput", ~listed>>,
        <<"TargetIsConstant", listed /\ NeuronAt(E, e.uuid).type = "constant">>,
        <<"TypedDuplicateEdge", same # {} /\ listed /\ NeuronAt(E, e.uuid).squash # "IF">> >>

Constants(E) == {i \in 1 .. Len(E.neurons) : E.neurons[i].type = "constant"}

\* Listed neurons the new one must stand behind: its sources and every constant.
Earliest(E, plan) ==
  Max({0} \cup Constants(E)
        \cup {AtWire(E, plan.inbound[k].uuid) - E.input + 1 : k \in 1 .. Len(plan.inbound)})

\* Listed neurons that may stand in front of its first target.
Latest(E, plan) ==
  Min({Len(E.neurons)}
        \cup {AtWire(E, plan.targets[k].uuid) - E.input : k \in 1 .. Len(plan.targets)})

\* Mutant: only the constants hold the node back, not the sources it reads.
PlaceBehindConstants(E, plan) == Max({0} \cup Constants(E))

Place(E, plan) == Earliest(E, plan)

PlacementRules(E, plan, requireTargets) ==
  LET checked ==
        NameRules(E, plan)
          \o << <<"NoSources", plan.inbound = <<>> >>,
                <<"NoTargets", requireTargets /\ plan.targets = <<>> >> >>
          \o FlattenSeq([k \in 1 .. Len(plan.inbound) |-> InboundRules(E, plan, k)])
          \o FlattenSeq([k \in 1 .. Len(plan.targets) |-> TargetRules(E, plan, k)])
  IN IF FirstBroken(checked) # "ok" THEN checked
     ELSE << <<"ConstantAfterPosition",
               Constants(E) # {} /\ Max(Constants(E)) > Latest(E, plan)>>,
             <<"ForwardOrderViolation", Earliest(E, plan) > Latest(E, plan)>> >>

NewNeuron(u, type, bias, squash) ==
  [uuid |-> u, type |-> type, idKind |-> "none", id |-> 0, bias |-> bias, squash |-> squash]

\* sort_synapses_canonically: stable, an endpoint that names no neuron last.
Canonical(E) ==
  LET at(u) == IF AtWire(E, u) = Nowhere THEN DeclaredNodeCount(E) ELSE AtWire(E, u)
      key == [k \in 1 .. Len(E.synapses) |->
                [from |-> at(E.synapses[k].from), to |-> at(E.synapses[k].to),
                 role |-> E.synapses[k].role]]
  IN [E EXCEPT !.synapses = ByKey(@, key)]

\* Mutant: the constants stand beside the node.
ConstantsBeside(E, position) == position

\* The constants go in front of every neuron that is none.
ConstantsAt(E, position) ==
  Min({position, Len(E.neurons)} \cup {i - 1 : i \in (1 .. Len(E.neurons)) \ Constants(E)})

\* build_grafted.
Build(E, plan, position) ==
  LET at == ConstantsAt(E, position)
      constants == [k \in 1 .. Len(plan.constants) |->
                      NewNeuron(plan.constants[k].uuid, "constant", plan.constants[k].bias, "none")]
      reads == [k \in 1 .. Len(plan.inbound) |->
                  [from |-> plan.inbound[k].uuid, to |-> plan.uuid, role |-> plan.inbound[k].branch]]
      feeds == [k \in 1 .. Len(plan.targets) |->
                  [from |-> plan.uuid, to |-> plan.targets[k].uuid, role |-> plan.targets[k].role]]
  IN Canonical([E EXCEPT
       !.memetic = NoMemetic,
       !.neurons = SubSeq(@, 1, at) \o constants \o SubSeq(@, at + 1, position)
                     \o <<NewNeuron(plan.uuid, "hidden", plan.bias, plan.squash)>>
                     \o SubSeq(@, position + 1, Len(@)),
       !.synapses = @ \o reads \o feeds])

-----------------------------------------------------------------------------
(* Sessions *)

GraftInit ==
  /\ Init
  /\ job = 0 /\ next = 0 /\ outcome = "none"
  /\ current = host.creature
  /\ base = [creature |-> host.creature, answer |-> NoVerdict]

Jobs == host.jobs
Doing == Jobs[job]
SpecAt(k) == IF Doing.op = "correction" THEN ToNodeSpec(Doing.specs[k]) ELSE Doing.specs[k]

\* A host with nothing to graft asks every entry point; one that grafts asks
\* the native one.
AskAgain == (Jobs # <<>> => answers = <<>>) /\ Ask /\ UNCHANGED gvars
Validating == (Rules \/ Memory \/ Answer \/ EditAndPrune) /\ UNCHANGED gvars

\* The base passes the gates before anything else.
StartGraft ==
  /\ entry = "none" /\ answers # <<>> /\ outcome = "none"
  /\ job < Len(Jobs)
  /\ job' = job + 1 /\ next' = 0
  /\ current' = host.creature
  /\ base' = [creature |-> host.creature, answer |-> answers[1]]
  /\ outcome' = IF Gate(host.creature) = "ok" THEN "assembling" ELSE Gate(host.creature)
  /\ UNCHANGED vars

\* graft_if_nodes: a node a later spec reads may leave its targets to it.
RequiresTargets(k) ==
  Doing.op = "nodes" =>
    ~\E j \in k + 1 .. Len(Doing.specs) :
       \E e \in ToSet(Plan(SpecAt(j)).inbound) : e.uuid = SpecAt(k).uuid

\* validated: a fault of the gates in a result is MalformedResult.
Validated(E) ==
  IF Gate(E) \in {"MalformedTopology", "MalformedStructure"} THEN "MalformedResult" ELSE Gate(E)

\* One node; everything but a batch gates each result.
GraftOne ==
  /\ outcome = "assembling" /\ next < Len(Doing.specs)
  /\ LET spec == SpecAt(next + 1)
         refusal == FirstBroken(PlanRules(spec)
                      \o PlacementRules(current, Plan(spec), RequiresTargets(next + 1)))
         built == Build(current, Plan(spec), Place(current, Plan(spec)))
     IN IF refusal # "ok"
          THEN outcome' = refusal /\ UNCHANGED <<current, next>>
          ELSE /\ current' = built /\ next' = next + 1
               /\ outcome' = IF Doing.op # "nodes" /\ Validated(built) # "ok"
                               THEN Validated(built) ELSE "assembling"
  /\ UNCHANGED <<vars, job, base>>

\* A batch is gated once, whole.
FinishGraft ==
  /\ outcome = "assembling" /\ next = Len(Doing.specs)
  /\ outcome' = IF Doing.op = "nodes" /\ Validated(current) # "ok" THEN Validated(current) ELSE "ok"
  /\ UNCHANGED <<vars, job, next, current, base>>

\* The host takes what came back; a refusal leaves it its creature.
TakeResult ==
  /\ outcome \notin {"none", "assembling"}
  /\ outcome = "ok" => host' = [host EXCEPT !.creature = current] /\ answers' = <<>>
  /\ outcome # "ok" => UNCHANGED <<host, answers>>
  /\ outcome' = "none"
  /\ UNCHANGED <<rvars, entry, edited, unpruned, job, next, current, base>>

GraftNext == AskAgain \/ Validating \/ StartGraft \/ GraftOne \/ FinishGraft \/ TakeResult

GraftSpec == GraftInit /\ [][GraftNext]_<<vars, gvars>>

-----------------------------------------------------------------------------
Assembled == outcome \in {"assembling", "ok"}

\* The specs grafted so far in this job.
Grafted == {Plan(SpecAt(k)) : k \in 1 .. next}
NewUuids == UNION {Introduced(plan) : plan \in Grafted}

\* After every node of a job, batch or tree, forward-only or recurrent: each
\* grafted node stands behind all it reads and in front of all it feeds, no
\* constant stands behind another neuron unless one did before, and taking the
\* new neurons out again leaves the base in its order with all its synapses.
GraftsReadFresh ==
  Assembled =>
    /\ \A k \in 1 .. Len(current.synapses) :
         {current.synapses[k].from, current.synapses[k].to} \cap NewUuids # {} =>
           AtWire(current, current.synapses[k].from) < AtWire(current, current.synapses[k].to)
    /\ \A i, j \in 1 .. Len(current.neurons) :
         i < j /\ current.neurons[j].type = "constant" /\ current.neurons[i].type # "constant" =>
           {current.neurons[i].uuid, current.neurons[j].uuid} \cap NewUuids = {}
    /\ KeptOf(current.neurons, {i \in 1 .. Len(current.neurons) : current.neurons[i].uuid \notin NewUuids})
         = base.creature.neurons
    /\ {s \in ToSet(current.synapses) : {s.from, s.to} \cap NewUuids = {}}
         = ToSet(base.creature.synapses)

HasUnusedConstant(plan) ==
  \E c \in 1 .. Len(plan.constants) :
    \A k \in 1 .. Len(plan.inbound) : plan.inbound[k].uuid # plan.constants[c].uuid

ReadsOutput(E, plan) ==
  \E k \in 1 .. Len(plan.inbound), i \in 1 .. Len(E.neurons) :
    E.neurons[i].type = "output" /\ E.neurons[i].uuid = plan.inbound[k].uuid

Regraft == job > 0 /\ outcome = "none" /\ answers # <<>> /\ host.creature # base.creature

\* Every neuron is known by an id of its own: no graft has the empty UUID, which
\* derives none, or one that derives the id of another neuron.
IdsHold(E) == IdsAreOwn(E) /\ \A u \in NewUuids : DerivedId[u] \in 0 .. MaxNeuronId

\* A graft onto an accepted creature is accepted again, as long as it declares
\* no constant it does not read, reads no output, fits the node ceiling and
\* brings ids of its own, and the options fix no total that it exceeds.
GraftedIsAccepted ==
  Regraft /\ base.answer = Accepted
    /\ DeclaredNodeCount(host.creature) <= MaxNodes /\ IdsHold(host.creature)
    /\ ~NeuronsExpected(host.options) /\ ~ConnectionsExpected(host.options)
    /\ (\A plan \in Grafted : ~HasUnusedConstant(plan) /\ ~ReadsOutput(host.creature, plan))
    => answers[1] = Accepted

\* A creature the native entry point accepts compiles, every squash being
\* known, and runs on the synapses that were validated: each listed neuron has
\* the inward synapses the walk resolved for it, as long as its UUID is its
\* own and their number fits the span.
AcceptedCompiles ==
  LET E == host.creature IN
  host.export /\ answers # <<>> /\ answers[1] = Accepted
    /\ (\A i \in 1 .. Len(E.neurons) : IsKnownSquash(E.neurons[i]))
    => /\ CompileFault(E) = "ok"
       /\ \A i \in 1 .. Len(E.neurons) :
            (\A j \in 1 .. Len(E.neurons) : j # i => E.neurons[j].uuid # E.neurons[i].uuid) =>
              LET in == InwardSynapses(Resolved(E), E.input + i - 1) IN
              Cardinality(in) < SpanWidth =>
                /\ Compiled(E)[i].count = Cardinality(in)
                /\ ToSet(Compiled(E)[i].synapses)
                     = {[from |-> Resolved(E)[k].from, role |-> Resolved(E)[k].role] : k \in in}
=============================================================================
