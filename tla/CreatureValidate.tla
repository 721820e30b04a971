-------------------------- MODULE CreatureValidate --------------------------
(***************************************************************************)
(* The entry points of creature validation: creature_validate on the export *)
(* form, creature_validate_json, creature_validate_runtime and              *)
(* creature_validate_packed, all over CreatureRules, and the prune of the   *)
(* memetic record that a structural edit owes (prune_memetic).  A host asks *)
(* every entry point about the same creature in turn, may then remove a     *)
(* neuron or a synapse from it, prune the record and ask again.             *)
(*                                                                         *)
(* An export is [input, output, neurons, synapses, memetic], a neuron       *)
(* [uuid, type, idKind, id, bias, squash], a synapse [from, to, role] with  *)
(* UUIDs.  In memory every neuron is a view and synapses hold positions.    *)
(***************************************************************************)
EXTENDS CreatureRules

CONSTANTS
  MaxNodes,     \* MAX_REQUEST_NEURONS
  Word,         \* values of a usize where the bundle runs
  Hosts,        \* [export : BOOLEAN, creature, options, buffer]
  DerivedId,    \* derived_neuron_id: uuid -> id
  InputNames    \* n -> the text "input-n"

\* A memetic record: keys by id or by UUID, in the map form or in rows.
Keys == [text : STRING, id : Int]
IsMemetic(m) ==
  /\ m.biases \in Seq(Keys)
  /\ CASE m.form = "none" -> m.biases = <<>> /\ m.weights = <<>>
       [] m.form = "map" ->
            m.weights \in Seq([key : Keys, list : BOOLEAN,
                               entries : Seq([toId : Int, weight : BOOLEAN])])
       [] m.form = "rows" -> m.weights \in Seq([from : Keys, to : Keys, weight : BOOLEAN])
       [] OTHER -> FALSE

\* What an export and a creature in memory are, as far as the rules rely on it.
IsExport(E) ==
  /\ {"input", "output", "neurons", "synapses", "memetic"} \subseteq DOMAIN E
  /\ E.input \in Nat /\ E.output \in Nat
  /\ E.neurons \in Seq(ToSet(E.neurons))
  /\ E.synapses \in Seq([from : STRING, to : STRING, role : 0 .. 3])
  /\ IsMemetic(E.memetic)

IsMemory(R) ==
  /\ R.input \in Nat /\ R.output \in Nat
  /\ R.views \in Seq([idKind : {"none", "fraction", "integer"}, id : Int,
                      kind : {"input", "constant", "hidden", "output", "invalid"},
                      bias : {"none", "finite", "bad"}, squash : STRING, uuid : STRING])
  /\ R.syn \in Seq([from : Int, to : Int, role : 0 .. 3])

\* A header is words of 32 bits.
IsHost(h) ==
  /\ {"export", "creature", "options", "buffer"} \subseteq DOMAIN h
  /\ h.export \in BOOLEAN
  /\ IF h.export THEN IsExport(h.creature) ELSE IsMemory(h.creature)
  /\ h.options.forwardOnly \in BOOLEAN
  /\ h.buffer.bytes \in Nat /\ h.buffer.neurons \in Nat /\ h.buffer.synapses \in Nat

ASSUME HostsAssumption == \A h \in Hosts : IsHost(h)
ASSUME CeilingAssumption == MaxNodes \in Nat

NoMemetic == [form |-> "none", biases |-> <<>>, weights |-> <<>>]

VARIABLES
  host,         \* the creature the host holds
  entry,        \* entry point being asked, "none" between two
  answers,      \* entry point -> verdict
  edited,       \* structure has been removed, and the record pruned
  unpruned      \* the record before the prune

vars == <<rvars, host, entry, answers, edited, unpruned>>

-----------------------------------------------------------------------------
(* The export form *)

OutputsBefore(E, i) == Cardinality({j \in 1 .. i - 1 : E.neurons[j].type = "output"})

\* listed_neuron_ids: outputs by place, the others as exported or derived.
ListedId(E, i) ==
  LET n == E.neurons[i] IN
  IF n.type = "output" THEN -(OutputsBefore(E, i) + 1)
  ELSE IF n.idKind = "integer" THEN n.id
  ELSE DerivedId[n.uuid]

InputView(i) ==
  [idKind |-> "integer", id |-> i, kind |-> "input", bias |-> "finite",
   squash |-> "none", uuid |-> InputNames[i]]

KindOf(type) == IF type \in {"constant", "hidden", "output"} THEN type ELSE "invalid"

ListedView(E, i) ==
  LET n == E.neurons[i] IN
  [idKind |-> IF ListedId(E, i) = NotAnId THEN "none" ELSE "integer", id |-> ListedId(E, i),
   kind |-> KindOf(n.type), bias |-> n.bias, squash |-> n.squash, uuid |-> n.uuid]

\* neuron_views: the declared inputs, then the listed neurons.
NeuronViews(E) ==
  [i \in 1 .. E.input |-> InputView(i - 1)]
    \o [i \in 1 .. Len(E.neurons) |-> ListedView(E, i)]

Declared(E) == E.input + Len(E.neurons)

\* WireIndex: the last neuron listed under a UUID, else the implicit input.
Wire(E) ==
  LET named(u) == {i \in 1 .. Len(E.neurons) : E.neurons[i].uuid = u}
      uuids == {E.neurons[i].uuid : i \in 1 .. Len(E.neurons)}
      inputs == {InputNames[i] : i \in 0 .. E.input - 1}
  IN [u \in uuids \cup inputs |->
        IF u \in uuids THEN E.input + Max(named(u)) - 1
        ELSE CHOOSE i \in 0 .. E.input - 1 : InputNames[i] = u]

AtWire(E, u) == IF u \in DOMAIN Wire(E) THEN Wire(E)[u] ELSE Nowhere

Resolved(E) ==
  [k \in 1 .. Len(E.synapses) |->
     [from |-> AtWire(E, E.synapses[k].from), to |-> AtWire(E, E.synapses[k].to),
      role |-> E.synapses[k].role]]

\* NeuronIdIndex::build, and the wire vocabulary with it.
ExportVocabulary(E) ==
  LET ids == {ListedId(E, i) : i \in 1 .. Len(E.neurons)} \ {NotAnId} IN
  [listed |-> [id \in ids |->
                 E.input + Max({i \in 1 .. Len(E.neurons) : ListedId(E, i) = id}) - 1],
   input |-> E.input, wire |-> Wire(E), wired |-> TRUE]

\* NeuronIdIndex::from_views: inputs are views like any other.
ViewVocabulary(views, wire, wired) ==
  LET ids == {views[k].id : k \in {j \in 1 .. Len(views) : views[j].idKind = "integer"}} IN
  [listed |-> [id \in ids |->
                 Max({k \in 1 .. Len(views) : views[k].idKind = "integer" /\ views[k].id = id}) - 1],
   input |-> 0, wire |-> wire, wired |-> wired]

\* What the rules are handed of an export.
Exported(E) ==
  [input |-> E.input, output |-> E.output, views |-> NeuronViews(E),
   syn |-> Resolved(E), memetic |-> E.memetic]

\* from_declared_runtime: whoever lists every neuron may list one as an input,
\* which from_declared (KindOf) takes for no kind.
KindInMemory(type) == IF type = "input" THEN "input" ELSE KindOf(type)

MemoryViews(E) ==
  [v \in 1 .. Declared(E) |->
     IF v <= E.input THEN NeuronViews(E)[v]
     ELSE [NeuronViews(E)[v] EXCEPT !.kind = KindInMemory(E.neurons[v - E.input].type)]]

\* What the host holds in memory of an export it has loaded.
Loaded(E) == [Exported(E) EXCEPT !.views = MemoryViews(E)]

InMemory == IF host.export THEN Loaded(host.creature) ELSE host.creature

\* The creature as an entry point reads it.
ReadBy(e) ==
  IF host.export /\ e \in {"native", "json"} THEN Exported(host.creature) ELSE InMemory

-----------------------------------------------------------------------------
(* The packed request (neat-core/src/creature_validate_packed.rs): a buffer  *)
(* is [bytes, magic, version, neurons, synapses, memetic], its length and    *)
(* the words of its header.                                                  *)

HeaderBytes == 48
RoundUp4(b) == ((b + 3) \div 4) * 4
SynapsesAt(n) == RoundUp4(HeaderBytes + n * 19)

\* packed_request_len, as the host computes it.
PackedLen(n, s) == SynapsesAt(n) + s * 9

\* Mutant: the length is computed in the width of a pointer.
LenInPointers(n, s) == (SynapsesAt(n) + s * 9) % Word

\* packed_request_len_wide: in 64 bits.
LenWide(n, s) == SynapsesAt(n) + s * 9

\* The sections decode reads, in order: [at, size].
Sections(n, s) ==
  LET section(at, size) == [at |-> at, size |-> size] IN
  << section(0, HeaderBytes),
     section(HeaderBytes, n * 8), section(HeaderBytes + n * 8, n * 8),
     section(HeaderBytes + n * 16, n), section(HeaderBytes + n * 17, n),
     section(HeaderBytes + n * 18, n),
     section(SynapsesAt(n), s * 4), section(SynapsesAt(n) + s * 4, s * 4),
     section(SynapsesAt(n) + s * 8, s) >>

\* PackedRequest::decode refuses the buffer.
DecodeFails(b) ==
  \/ b.bytes < HeaderBytes
  \/ ~b.magic \/ ~b.version
  \/ b.neurons > MaxNodes
  \/ b.bytes # LenWide(b.neurons, b.synapses)

\* Nothing decode reads lies outside the buffer or in two sections.
ReadsStayInside(b) ==
  LET S == Sections(b.neurons, b.synapses) IN
  /\ \A i \in 1 .. Len(S) : S[i].at + S[i].size <= b.bytes
  /\ \A i \in 1 .. Len(S) - 1 : S[i].at + S[i].size <= S[i + 1].at
  /\ S[7].at % 4 = 0

-----------------------------------------------------------------------------
(* The entry points *)

Dangling(syn, n) == {k \in 1 .. Len(syn) : {syn[k].from, syn[k].to} \ (0 .. n - 1) # {}}

\* validate_declared_widths, rules 1 - 3; a width that is no integer reads 0.
WidthVerdict(total, input, output) ==
  FirstBroken(<< <<"1", NeuronsExpected(host.options) /\ total # host.options.neurons>>,
                 <<"2", input < 1>>, <<"3", output < 1>> >>)

\* What an entry point says before rule 4, "ok" when the walk may start.
BeforeWalk(e) ==
  LET E == host.creature
      R == ReadBy(e)
      widths == IF e \in {"native", "json"} THEN WidthVerdict(Declared(E), E.input, E.output)
                ELSE WidthVerdict(Len(R.views), R.input, R.output)
      lost == Dangling(R.syn, Len(R.views))
  IN CASE e = "json" /\ Declared(E) > MaxNodes -> Refused("malformed", -1)
       [] e = "runtime" /\ Len(R.views) > MaxNodes -> Refused("malformed", -1)
       [] e \in {"both", "neither"} -> Refused("malformed", -1)
       [] e = "packed" /\ (DecodeFails(host.buffer) \/ ~host.buffer.memetic) ->
            Refused("malformed", -1)
       [] OTHER ->
            IF widths # "ok" THEN Refused(widths, -1)
            ELSE IF e = "native" /\ Declared(E) > MaxNodes THEN Refused("oversize", -1)
            ELSE IF lost # {} THEN Refused("ref", Min(lost) - 1)
            ELSE Accepted

\* Order the host asks in; the export form is asked only where there is one.
Entries ==
  IF host.export THEN <<"native", "json", "runtime", "packed", "both", "neither">>
  ELSE <<"runtime", "packed">>

Init ==
  /\ host \in Hosts
  /\ entry = "none" /\ answers = <<>>
  /\ edited = FALSE /\ unpruned = NoMemetic
  /\ stage = "idle" /\ place = 0 /\ walk = FreshWalk /\ verdict = NoVerdict
  /\ req = [views |-> <<>>, syn |-> <<>>, input |-> 0, output |-> 0,
            options |-> host.options, memetic |-> NoMemetic, wired |-> FALSE]

\* What the walk is handed: only the export form brings the wire UUIDs.
Request(e) ==
  [views |-> ReadBy(e).views, syn |-> ReadBy(e).syn, input |-> ReadBy(e).input,
   output |-> ReadBy(e).output, options |-> host.options,
   memetic |-> ReadBy(e).memetic, wired |-> e \in {"native", "json"}]

Ask ==
  /\ entry = "none" /\ Len(answers) < Len(Entries)
  /\ LET e == Entries[Len(answers) + 1]
     IN /\ entry' = e
        /\ place' = 0 /\ walk' = FreshWalk
        /\ \/ /\ BeforeWalk(e) = Accepted
              /\ req' = Request(e)
              /\ stage' = "neurons"
              /\ UNCHANGED verdict
           \/ /\ BeforeWalk(e) # Accepted
              /\ verdict' = BeforeWalk(e)
              /\ UNCHANGED <<stage, req>>
  /\ UNCHANGED <<host, answers, edited, unpruned>>

Rules ==
  /\ WalkNeuron \/ CountNeurons \/ WalkSynapse \/ FinishSynapses
  /\ UNCHANGED <<host, entry, answers, edited, unpruned>>

Vocabulary(r) ==
  ViewVocabulary(r.views, IF r.wired THEN Wire(host.creature) ELSE <<>>, r.wired)

\* Rule 31, when there is a record.
MemoryVerdict(r) ==
  IF r.memetic.form = "none" \/ MemeticSound(Vocabulary(r), r.syn, r.memetic)
    THEN Accepted ELSE Refused("31", -1)

Memory ==
  /\ stage = "memetic"
  /\ verdict' = MemoryVerdict(req)
  /\ stage' = "idle"
  /\ UNCHANGED <<req, place, walk, host, entry, answers, edited, unpruned>>

\* The packed entry point answers healthy, malformed, or that the JSON shape
\* must be asked for the detail.
Wording(e, v) ==
  IF e = "packed" /\ v.rule \notin {"ok", "malformed"} THEN Refused("detail", -1) ELSE v

Answer ==
  /\ entry # "none" /\ stage = "idle"
  /\ answers' = Append(answers, Wording(entry, verdict))
  /\ entry' = "none" /\ verdict' = NoVerdict
  /\ UNCHANGED <<req, stage, place, walk, host, edited, unpruned>>

\* The host removes one synapse, or one hidden neuron with its synapses, and
\* prunes the record (CreatureExport::prune_memetic).
Edits(E) ==
  {[E EXCEPT !.synapses = RemoveAt(@, k)] : k \in 1 .. Len(E.synapses)}
    \cup {[E EXCEPT !.neurons = RemoveAt(@, i),
                    !.synapses = KeptOf(@, {k \in 1 .. Len(@) :
                                              E.neurons[i].uuid \notin {@[k].from, @[k].to}})] :
            i \in {j \in 1 .. Len(E.neurons) : E.neurons[j].type = "hidden"}}

Pruned(E) ==
  [E EXCEPT !.memetic = PruneTo(ExportVocabulary(E), Resolved(E), @)]

EditAndPrune ==
  /\ entry = "none" /\ Len(answers) = Len(Entries)
  /\ host.export /\ ~edited
  /\ host.creature.memetic.form # "none"
  /\ \E E \in Edits(host.creature) : host' = [host EXCEPT !.creature = Pruned(E)]
  /\ unpruned' = host.creature.memetic
  /\ edited' = TRUE /\ answers' = <<>>
  /\ UNCHANGED <<rvars, entry>>

Next == Ask \/ Rules \/ Memory \/ Answer \/ EditAndPrune

Spec == Init /\ [][Next]_vars

-----------------------------------------------------------------------------
AnswerOf(e) == answers[CHOOSE i \in 1 .. Len(Entries) : Entries[i] = e]
Answered == Len(answers) = Len(Entries)

\* Keys only the wire vocabulary can name: no neuron has the id, one the UUID.
OnlyWired(E, key) ==
  /\ key.id = NotAnId \/ IndexOfId(ExportVocabulary(E), key.id) = Nowhere
  /\ AtWire(E, key.text) # Nowhere

WireKeyed(E, m) ==
  \/ \E i \in 1 .. Len(m.biases) : OnlyWired(E, m.biases[i])
  \/ \E i \in 1 .. Len(m.weights) : OnlyWired(E, m.weights[i].key)

\* Places of the neurons an export lists as inputs, which the form does not permit.
ListedInputs(E) == {E.input + i - 1 : i \in {j \in 1 .. Len(E.neurons) : E.neurons[j].type = "input"}}

\* Every entry point judges a creature alike: the export form says the same
\* natively and over JSON, the packed form accepts what the runtime form
\* accepts, and the runtime form says what the export form says, at the same
\* place, unless that place is a neuron listed as an input: the runtime form goes
\* on with it as one, and still refuses the creature.  (Past the ceiling each
\* refuses in its own words; a wire-keyed memetic record exists only in exports.)
ShapesAgree ==
  Answered =>
    LET memory == AnswerOf("runtime") IN
    /\ AnswerOf("packed").rule # "malformed" /\ memory.rule # "malformed" =>
         (AnswerOf("packed") = Accepted <=> memory = Accepted)
    /\ host.export =>
         /\ AnswerOf("json").rule # "malformed" => AnswerOf("json") = AnswerOf("native")
         /\ AnswerOf("json").rule = "malformed" => AnswerOf("native") # Accepted
         /\ /\ host.creature.memetic.form = "none" \/ (host.creature.memetic.form = "map"
                 /\ ~WireKeyed(host.creature, host.creature.memetic))
            /\ memory.rule # "malformed"
            => \/ memory = AnswerOf("native")
               \/ memory # Accepted /\ AnswerOf("native").at \in ListedInputs(host.creature)

\* The memory form of the creature is fit to run forward: wired in, every
\* triple once, in order, acyclic, and every IF neuron able to decide.
ForwardSound(R) ==
  /\ \A i, j \in 1 .. Len(R.syn) :
       i < j => \/ R.syn[i].from < R.syn[j].from
                \/ R.syn[i].from = R.syn[j].from /\ R.syn[i].to < R.syn[j].to
                \/ /\ R.syn[i].from = R.syn[j].from /\ R.syn[i].to = R.syn[j].to
                   /\ R.syn[i].role < R.syn[j].role
                   /\ R.views[R.syn[i].to + 1].squash = "IF"
  /\ \A k \in 1 .. Len(R.syn) : R.syn[k].from < R.syn[k].to
  /\ \A v \in 1 .. Len(R.views) :
       LET in == {k \in 1 .. Len(R.syn) : R.syn[k].to = v - 1}
           out == {k \in 1 .. Len(R.syn) : R.syn[k].from = v - 1}
       IN /\ R.views[v].kind = "input" <=> v <= R.input
          /\ R.views[v].kind = "output" <=> v > Len(R.views) - R.output
          /\ R.views[v].kind \in {"input", "constant"} => in = {}
          /\ R.views[v].kind = "hidden" => in # {} /\ out # {}
          /\ R.views[v].squash = "IF" /\ R.views[v].kind # "input" =>
               \A roles \in {{Condition}, {Negative}, {Positive, Standard}} :
                 \E k \in in : R.syn[k].role \in roles

\* A creature accepted as forward-only is fit to run forward, by whichever
\* entry point it came.
AcceptedRuns ==
  \A i \in 1 .. Len(answers) :
    answers[i] = Accepted /\ host.options.forwardOnly => ForwardSound(InMemory)

\* The flat gates never overrule the walks: rule 29 is never what is reported,
\* and rule 30 only for an IF neuron the walk lets off (place 1 or 2), or for
\* an input listed behind another neuron.
GatesAgree ==
  /\ verdict.rule # "29"
  /\ verdict.rule = "30" =>
       \/ \E v \in 1 .. 2 : v < Len(req.views) /\ req.views[v + 1].squash = "IF"
       \/ \E v \in 0 .. Len(req.views) - 1 : req.views[v + 1].kind = "input" /\ v >= req.input

\* The places an id names, and those a key names: by its id, or when there are
\* none by its UUID.
NamedById(E, id) ==
  {v \in 0 .. Declared(E) - 1 : id # NotAnId /\ NeuronViews(E)[v + 1].id = id}
Names(E, key) ==
  IF NamedById(E, key.id) # {} THEN NamedById(E, key.id)
  ELSE {v \in 0 .. Declared(E) - 1 : NeuronViews(E)[v + 1].uuid = key.text}

\* The weights of a record that name a synapse of the creature.
LiveWeights(E, m) ==
  LET wired(F, T) == \E k \in 1 .. Len(E.synapses) :
                       Resolved(E)[k].from \in F /\ Resolved(E)[k].to \in T
  IN IF m.form = "rows"
       THEN {m.weights[i] : i \in {j \in 1 .. Len(m.weights) :
               wired(Names(E, m.weights[j].from), Names(E, m.weights[j].to))}}
       ELSE UNION {{<<w.key, w.entries[j]>> : j \in {j \in 1 .. Len(w.entries) :
               wired(Names(E, w.key), NamedById(E, w.entries[j].toId))}} :
               w \in ToSet(m.weights)}

\* What rule 6 asks: an id names one place.
IdsAreOwn(E) ==
  \A v, w \in 0 .. Declared(E) - 1 :
    v # w /\ NeuronViews(E)[v + 1].id = NeuronViews(E)[w + 1].id =>
      NeuronViews(E)[v + 1].id = NotAnId

\* After an edit and its prune, rule 31 refuses the creature only for what the
\* host itself wrote badly; every bias that names a neuron still there is still
\* in the record, and every weight that names a synapse still there, as long as
\* an id names one place.
PruneFitsTheRule ==
  edited =>
    LET E == host.creature IN
    /\ \A i \in 1 .. Len(answers) :
         answers[i].rule = "31" /\ Entries[i] = "native" => MemeticMalformed(E.memetic)
    /\ \A i \in 1 .. Len(unpruned.biases) :
         Names(E, unpruned.biases[i]) # {} =>
           \E j \in 1 .. Len(E.memetic.biases) : E.memetic.biases[j] = unpruned.biases[i]
    /\ IdsAreOwn(E) => LiveWeights(E, unpruned) \subseteq LiveWeights(E, E.memetic)

\* Whatever counts a packed header declares, decode reads inside the buffer.
PackedReadsInside ==
  entry = "packed" /\ ~DecodeFails(host.buffer) => ReadsStayInside(host.buffer)
=============================================================================
