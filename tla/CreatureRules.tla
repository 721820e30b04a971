--------------------------- MODULE CreatureRules ---------------------------
(***************************************************************************)
(* validate_prepared (neat-core/src/creature_validate.rs): rules 4 - 31 over *)
(* neuron views, the seam the export, runtime and packed shapes meet at.    *)
(* A step looks at one neuron or one synapse, or runs one of the checks     *)
(* behind the walks; the first broken rule ends the walk.                   *)
(*                                                                         *)
(* A view is [idKind, id, kind, bias, squash]; a synapse is [from, to,      *)
(* role] in walk positions.  The widths, the options and the memetic view   *)
(* come with the request.                                                   *)
(***************************************************************************)
EXTENDS Wiring, SequencesExt

CONSTANT MaxNeuronId     \* MAX_NEURON_ID

ASSUME NeuronIdAssumption == MaxNeuronId \in Nat

VARIABLES
  req,       \* [views, syn, input, output, options, memetic, wire]
  stage,     \* "idle", "neurons", "counts", "synapses", "after" or "memetic"
  place,     \* the neuron or synapse the walk is at
  walk,      \* neuron_ids, outputs_seen, computational_seen_hidden, stats, last_*
  verdict    \* [rule, at]

rvars == <<req, stage, place, walk, verdict>>

FreshWalk ==
  [ids |-> {}, outputs |-> 0, seenHidden |-> FALSE, last |-> NoSynapse,
   stats |-> [input |-> 0, constant |-> 0, hidden |-> 0, output |-> 0, connections |-> 0]]

Accepted == [rule |-> "ok", at |-> -1]
NoVerdict == [rule |-> "none", at |-> -1]
Refused(rule, at) == [rule |-> rule, at |-> at]

\* The members of s at the places `keep`, in their order.
KeptOf(s, keep) ==
  LET upTo[k \in 0 .. Len(s)] ==
        IF k = 0 THEN <<>> ELSE IF k \in keep THEN Append(upTo[k - 1], s[k]) ELSE upTo[k - 1]
  IN upTo[Len(s)]

\* The first rule of a list <<rule, broken>> that is broken.
FirstBroken(rules) ==
  IF \E i \in 1 .. Len(rules) : rules[i][2]
    THEN rules[CHOOSE i \in 1 .. Len(rules) :
                 rules[i][2] /\ \A j \in 1 .. i - 1 : ~rules[j][2]][1]
    ELSE "ok"

-----------------------------------------------------------------------------
(* ValidateOptions *)

ResolvedFeedback(o) == IF o.forwardOnly THEN "no" ELSE o.feedback
RejectsRecursive(o) == ResolvedFeedback(o) = "no"

\* `if (options && options.neurons)`: 0 is not checked; connections is.
NeuronsExpected(o) == o.neurons > 0
ConnectionsExpected(o) == o.connections >= 0

-----------------------------------------------------------------------------
(* Rules 4 - 20: one neuron, of request r behind walk w *)

\* The computational slice; saturating_sub makes it empty when more outputs are
\* declared than there are neurons.
InSlice(r, i) ==
  i >= r.input /\ i < (IF Len(r.views) > r.output THEN Len(r.views) - r.output ELSE 0)

\* Mutant: rule 12 leaves out the role check.
BreaksIfAnyRole(r, i) ==
  r.views[i + 1].squash = "IF" /\ i > 2 /\ IfFault(r.syn, i) = "TOO_FEW_INWARD"

BreaksIf(r, i) == r.views[i + 1].squash = "IF" /\ i > 2 /\ IfFault(r.syn, i) # "none"

IdRules(w, v, i) ==
  << <<"4", v.idKind = "none">>,
     <<"5", v.idKind = "fraction" \/ (v.idKind = "integer" /\ v.id > MaxNeuronId)>>,
     <<"6", v.idKind = "integer" /\ v.id \in w.ids>>,
     <<"7", v.kind = "input" /\ v.id # i>>,
     <<"8", v.kind # "input" /\ v.bias # "finite">> >>

OrderRules(r, w, v, i) ==
  << <<"9", v.kind # "output" /\ w.outputs > 0>>,
     <<"10", v.kind = "input" /\ i > r.input>>,
     <<"11", InSlice(r, i) /\ v.kind = "constant" /\ w.seenHidden>>,
     <<"12", BreaksIf(r, i)>> >>

\* Rule 19 stands behind rule 8 and is never reached.
KindRules(r, v, i) ==
  << <<"13", v.kind = "input" /\ InwardSynapses(r.syn, i) # {}>>,
     <<"14", v.kind = "constant" /\ InwardSynapses(r.syn, i) # {}>>,
     <<"15", v.kind = "constant" /\ v.squash # "none">>,
     <<"16", v.kind = "constant" /\ OutwardSynapses(r.syn, i) = {}>>,
     <<"17", v.kind = "hidden" /\ HiddenWiringFault(r.syn, i) = "NO_INWARD">>,
     <<"18", v.kind = "hidden" /\ HiddenWiringFault(r.syn, i) = "NO_OUTWARD">>,
     <<"19", v.kind = "hidden" /\ v.bias # "finite">>,
     <<"20", v.kind = "invalid">> >>

NeuronVerdict(r, w, i) ==
  LET v == r.views[i + 1] IN
  FirstBroken(IdRules(w, v, i) \o OrderRules(r, w, v, i) \o KindRules(r, v, i))

Counted(stats, kind) == [stats EXCEPT ![kind] = @ + 1]

\* What the walk has seen once neuron i is behind it.
Passed(r, w, i) ==
  LET v == r.views[i + 1] IN
  [w EXCEPT !.ids = @ \cup {v.id},
            !.outputs = IF v.kind = "output" THEN @ + 1 ELSE @,
            !.seenHidden = @ \/ (InSlice(r, i) /\ v.kind = "hidden"),
            !.stats = Counted(@, v.kind)]

WalkNeuron ==
  /\ stage = "neurons" /\ place < Len(req.views)
  /\ \/ /\ NeuronVerdict(req, walk, place) = "ok"
        /\ place' = place + 1 /\ walk' = Passed(req, walk, place)
        /\ UNCHANGED <<stage, verdict>>
     \/ /\ NeuronVerdict(req, walk, place) # "ok"
        /\ verdict' = Refused(NeuronVerdict(req, walk, place), place)
        /\ stage' = "idle"
        /\ UNCHANGED <<place, walk>>
  /\ UNCHANGED req

\* Rules 21 and 22.
WidthFault(r, w) == FirstBroken(<< <<"21", w.stats.input # r.input>>,
                                   <<"22", w.stats.output # r.output>> >>)

StartSynapses == stage' = "synapses" /\ place' = 0 /\ UNCHANGED verdict

CountNeurons ==
  /\ stage = "neurons" /\ place = Len(req.views)
  /\ IF WidthFault(req, walk) = "ok"
       THEN StartSynapses
       ELSE stage' = "idle" /\ verdict' = Refused(WidthFault(req, walk), -1) /\ UNCHANGED place
  /\ UNCHANGED <<req, walk>>

-----------------------------------------------------------------------------
(* Rules 23 - 27: one synapse s, behind l *)

SamePair(l, s) == s.from = l.from /\ s.to = l.to

OutOfOrder(l, s) ==
  \/ s.from < l.from
  \/ s.from = l.from /\ s.to < l.to
  \/ SamePair(l, s) /\ s.role < l.role

\* Mutant: a pair may repeat in another role whatever its target.
RepeatsIntoPlainNever(r, l, s) == FALSE

RepeatsIntoPlain(r, l, s) == SamePair(l, s) /\ r.views[s.to + 1].squash # "IF"

SynapseVerdict(r, l, s) ==
  FirstBroken(
    << <<"23", r.views[s.to + 1].kind = "input">>,
       <<"24", r.options.forwardOnly /\ s.from = s.to>>,
       <<"25", OutOfOrder(l, s)>>,
       <<"26", SamePair(l, s) /\ s.role = l.role>>,
       <<"26b", RepeatsIntoPlain(r, l, s)>>,
       <<"27", s.from > s.to /\ RejectsRecursive(r.options)>> >>)

\* The tally is bumped before the rules are tried.
WalkSynapse ==
  /\ stage = "synapses" /\ place < Len(req.syn)
  /\ LET s == req.syn[place + 1]
         tallied == [walk EXCEPT !.stats = Counted(@, "connections")]
     IN \/ /\ SynapseVerdict(req, walk.last, s) = "ok"
           /\ place' = place + 1
           /\ walk' = [tallied EXCEPT !.last = s]
           /\ UNCHANGED <<stage, verdict>>
        \/ /\ SynapseVerdict(req, walk.last, s) # "ok"
           /\ verdict' = Refused(SynapseVerdict(req, walk.last, s), place)
           /\ stage' = "idle" /\ walk' = tallied
           /\ UNCHANGED place
  /\ UNCHANGED req

-----------------------------------------------------------------------------
(* Rules 28 - 30 *)

\* What the flat gates are handed: kinds, activations and biases by position.
StructureViews(r) ==
  [k \in 1 .. Len(r.views) |->
     [constant |-> r.views[k].kind = "constant", if |-> r.views[k].squash = "IF",
      finite |-> r.views[k].bias \in {"finite", "none"}]]

\* forward_only_rules: three gates over the same buffers.
ForwardRules(r) ==
  << <<"29", ~OrderedTyped(r.syn)>>,
     <<"30", ~StructurallySound(r.syn, StructureViews(r), r.input, r.output)>>,
     <<"29", Cyclic(r.syn, r.input .. Len(r.views) - 1)>> >>

\* Rules 28 - 30, behind the last synapse.
FlatVerdict(r) ==
  IF ConnectionsExpected(r.options) /\ Len(r.syn) # r.options.connections THEN "28"
  ELSE IF r.options.forwardOnly THEN FirstBroken(ForwardRules(r))
  ELSE "ok"

FinishSynapses ==
  /\ stage = "synapses" /\ place = Len(req.syn)
  /\ IF FlatVerdict(req) = "ok"
       THEN stage' = "memetic" /\ UNCHANGED verdict
       ELSE stage' = "idle" /\ verdict' = Refused(FlatVerdict(req), -1)
  /\ UNCHANGED <<req, place, walk>>

-----------------------------------------------------------------------------
(* Rule 31, over the memetic record, with its inverse, the prune that every *)
(* structural removal owes the record.  A record is [form, biases, weights]:*)
(* `biases` a sequence of keys; `weights` a sequence of [key, list,         *)
(* entries] (the map form; `list` is FALSE for a value that is not an       *)
(* array) or of [from, to, weight] (the row form).  A key is [text, id]:    *)
(* the text of an id, with the number it parses to (NotAnId otherwise).  An *)
(* entry is [toId, weight].  A vocabulary is [listed, input, wire, wired]:  *)
(* id -> index of the listed neurons, the implicit input width of the ids,  *)
(* uuid -> index, and whether wire UUIDs are known at all.                  *)

NotAnId == -99      \* the key is no number, or the entry carries no toId
Nowhere == -1       \* names no neuron
Missing == ""       \* a row field that is absent

\* NeuronIdIndex::index_of_id.
IndexOfId(vocab, id) ==
  IF id \in DOMAIN vocab.listed THEN vocab.listed[id]
  ELSE IF id \in 0 .. vocab.input - 1 THEN id
  ELSE Nowhere

\* WireIndex::resolve.
IndexOfWire(vocab, text) ==
  IF vocab.wired /\ text \in DOMAIN vocab.wire THEN vocab.wire[text] ELSE Nowhere

\* Mutant: the wire vocabulary is tried first.
ResolveWireFirst(vocab, key) ==
  IF IndexOfWire(vocab, key.text) # Nowhere THEN IndexOfWire(vocab, key.text)
  ELSE IndexOfId(vocab, key.id)

\* resolve_memetic_reference: by id, then by wire UUID.
Resolve(vocab, key) ==
  IF key.id # NotAnId /\ IndexOfId(vocab, key.id) # Nowhere
    THEN IndexOfId(vocab, key.id)
    ELSE IndexOfWire(vocab, key.text)

\* The wired pairs; a synapse with an endpoint that names no neuron has none.
Pairs(syn) ==
  {<<syn[k].from, syn[k].to>> :
     k \in {j \in 1 .. Len(syn) : Nowhere \notin {syn[j].from, syn[j].to}}}

\* Faults of one entry of the map form, and of one row.
EntryBad(vocab, pairs, from, e) ==
  \/ e.toId = NotAnId \/ ~e.weight
  \/ IndexOfId(vocab, e.toId) = Nowhere
  \/ <<from, IndexOfId(vocab, e.toId)>> \notin pairs

RowMalformed(row) == row.from.text = Missing \/ row.to.text = Missing

RowBad(vocab, pairs, row) ==
  \/ RowMalformed(row) \/ ~row.weight
  \/ Resolve(vocab, row.from) = Nowhere \/ Resolve(vocab, row.to) = Nowhere
  \/ <<Resolve(vocab, row.from), Resolve(vocab, row.to)>> \notin pairs

\* memetic_rules: rule 31 holds of the record.
MemeticSound(vocab, syn, m) ==
  /\ \A i \in 1 .. Len(m.biases) : Resolve(vocab, m.biases[i]) # Nowhere
  /\ IF m.form = "rows"
       THEN \A i \in 1 .. Len(m.weights) : ~RowBad(vocab, Pairs(syn), m.weights[i])
       ELSE \A i \in 1 .. Len(m.weights) :
              /\ Resolve(vocab, m.weights[i].key) # Nowhere
              /\ m.weights[i].list
              /\ \A j \in 1 .. Len(m.weights[i].entries) :
                   ~EntryBad(vocab, Pairs(syn), Resolve(vocab, m.weights[i].key),
                             m.weights[i].entries[j])

\* prune_to drops what dangles and keeps what is malformed.
KeepRow(vocab, pairs, row) ==
  \/ RowMalformed(row)
  \/ <<Resolve(vocab, row.from), Resolve(vocab, row.to)>> \in pairs

\* Mutant: an entry is kept while its target neuron is listed.
KeepEntryByNeuron(vocab, pairs, from, e) ==
  e.toId = NotAnId \/ IndexOfId(vocab, e.toId) # Nowhere

KeepEntry(vocab, pairs, from, e) ==
  e.toId = NotAnId \/ <<from, IndexOfId(vocab, e.toId)>> \in pairs

PruneEntries(vocab, pairs, w) ==
  [w EXCEPT !.entries =
     KeptOf(@, {j \in 1 .. Len(@) : KeepEntry(vocab, pairs, Resolve(vocab, w.key), @[j])})]

PruneTo(vocab, syn, m) ==
  [form |-> m.form,
   biases |-> KeptOf(m.biases, {i \in 1 .. Len(m.biases) : Resolve(vocab, m.biases[i]) # Nowhere}),
   weights |->
     IF m.form = "rows"
       THEN KeptOf(m.weights, {i \in 1 .. Len(m.weights) : KeepRow(vocab, Pairs(syn), m.weights[i])})
       ELSE LET named == KeptOf(m.weights, {i \in 1 .. Len(m.weights) :
                                              Resolve(vocab, m.weights[i].key) # Nowhere})
            IN [i \in 1 .. Len(named) |-> PruneEntries(vocab, Pairs(syn), named[i])]]

\* The record carries a row or an entry the host wrote badly.
MemeticMalformed(m) ==
  \E i \in 1 .. Len(m.weights) :
    IF m.form = "rows"
      THEN RowMalformed(m.weights[i]) \/ ~m.weights[i].weight
      ELSE \/ ~m.weights[i].list
           \/ \E j \in 1 .. Len(m.weights[i].entries) :
                LET e == m.weights[i].entries[j] IN e.toId = NotAnId \/ ~e.weight
=========================================================================
