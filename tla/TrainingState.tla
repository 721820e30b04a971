--------------------------- MODULE TrainingState ---------------------------
(***************************************************************************)
(* The persistent accumulators of an epoch (neat-core/src/training_state.rs)*)
(* : one flat buffer of values for the synapses, seven to a record, and one *)
(* for the neurons, three to a record.  Indices come from the host; a usize *)
(* holds Word values.  A panic leaves the buffers as they are at that point *)
(* (the thread-local state outlives it).                                    *)
(***************************************************************************)
EXTENDS WeightUpdate

CONSTANTS
  Word,          \* values of a usize
  Sizes,         \* record counts a host asks for
  Indices,       \* record indices a host passes
  SynapseItems,  \* [current, target, act]
  NeuronItems,   \* [target, pre, current]
  Ways,          \* how many records a call covers
  MaxHeard,      \* bound: items reported for one record between two resets
  Updates        \* [current, config] a weight or bias is calculated with

ASSUME TrainingStateAssumption ==
  /\ Word \in Nat \ {0} /\ Ways \in Nat /\ Sizes \subseteq Nat /\ Indices \subseteq Nat
  /\ SynapseItems \subseteq [current : Int, target : Int, act : Int]
  /\ NeuronItems \subseteq [target : Int, pre : Int, current : Int]
  /\ Updates \subseteq
       [current : Int,
        config : [generations : Nat, rate : Int, maxStep : Nat, limit : Nat, l1 : Int, l2 : Int]]

VARIABLES
  synapses, neurons,     \* SYNAPSE_STATE, NEURON_STATE
  heardS, heardN         \* history: index -> items reported since it was zeroed

tvars == <<synapses, neurons, heardS, heardN>>

SynapseFields == <<"count", "posAct", "negAct", "pos", "neg", "posAdj", "negAdj">>
NeuronFields == <<"count", "bias", "adjusted">>

NoRecord == -1

\* Mutant: the product wraps as a release build does.
RecordStartWrapping(index, fields, len) ==
  LET base == (index * fields) % Word IN IF base + fields <= len THEN base ELSE NoRecord

\* record_start.
RecordStart(index, fields, len) ==
  IF index * fields + fields < Word /\ index * fields + fields <= len THEN index * fields ELSE NoRecord

Fits(count, fields) == count * fields < Word
Zeroes(n) == [i \in 1 .. n |-> 0]
NoneHeard(n) == [i \in 0 .. n - 1 |-> <<>>]

TrainingInit ==
  /\ synapses = <<>> /\ neurons = <<>>
  /\ heardS = <<>> /\ heardN = <<>>

\* init_training_state; a neuron count that does not fit panics when the
\* synapses are already those of the new epoch.
InitState(ns, nn) ==
  /\ IF Fits(ns, 7)
       THEN synapses' = Zeroes(ns * 7) /\ heardS' = NoneHeard(ns)
       ELSE UNCHANGED <<synapses, heardS>>
  /\ IF Fits(ns, 7) /\ Fits(nn, 3)
       THEN neurons' = Zeroes(nn * 3) /\ heardN' = NoneHeard(nn)
       ELSE UNCHANGED <<neurons, heardN>>

ResetState ==
  /\ synapses' = Zeroes(Len(synapses)) /\ neurons' = Zeroes(Len(neurons))
  /\ heardS' = [i \in DOMAIN heardS |-> <<>>] /\ heardN' = [i \in DOMAIN heardN |-> <<>>]

FreeState ==
  /\ synapses' = <<>> /\ neurons' = <<>>
  /\ heardS' = <<>> /\ heardN' = <<>>

\* The buffer with a delta added to its record, when the record is in it.
AddedAt(buffer, index, fields, delta) ==
  LET base == RecordStart(index, Len(fields), Len(buffer)) IN
  IF delta.count = 0 \/ base = NoRecord \/ index >= Word THEN buffer
  ELSE [i \in DOMAIN buffer |->
          IF i \in base + 1 .. base + Len(fields) THEN buffer[i] + delta[fields[i - base]] ELSE buffer[i]]

\* The items of one call, in order; a slice too short panics where it ends,
\* behind what it did hold.
SynapseDeltas(items) == [i \in DOMAIN items |-> WeightDelta(items[i].current, items[i].target, items[i].act)]
NeuronDeltas(items) == [i \in DOMAIN items |-> BiasDelta(items[i].target, items[i].pre, items[i].current)]

Accumulated(buffer, start, fields, deltas) ==
  LET after[k \in 0 .. Len(deltas)] ==
        IF k = 0 THEN buffer ELSE AddedAt(after[k - 1], start + k - 1, fields, deltas[k])
  IN after[Len(deltas)]

Heard(heard, start, items) ==
  [x \in DOMAIN heard |->
     IF x - start + 1 \in DOMAIN items THEN Append(heard[x], items[x - start + 1]) ELSE heard[x]]

WithinBound(heard) == \A x \in DOMAIN heard : Len(heard[x]) <= MaxHeard

AccumulateWeights(start, items) ==
  /\ synapses' = Accumulated(synapses, start, SynapseFields, SynapseDeltas(items))
  /\ heardS' = Heard(heardS, start, items)
  /\ WithinBound(heardS')
  /\ UNCHANGED <<neurons, heardN>>

AccumulateBiases(start, items) ==
  /\ neurons' = Accumulated(neurons, start, NeuronFields, NeuronDeltas(items))
  /\ heardN' = Heard(heardN, start, items)
  /\ WithinBound(heardN')
  /\ UNCHANGED <<synapses, heardS>>

ReadRecord(buffer, index, fields) ==
  LET base == RecordStart(index, Len(fields), Len(buffer)) IN
  [f \in ToSet(fields) |->
     IF base = NoRecord THEN 0 ELSE buffer[base + (CHOOSE i \in DOMAIN fields : fields[i] = f)]]

\* get_synapse_accumulators and get_neuron_accumulators: a reading, whatever
\* the index.
ReadSynapse(index) == ReadRecord(synapses, index, SynapseFields)
ReadNeuron(index) == ReadRecord(neurons, index, NeuronFields)

Slices(Items) == UNION {[1 .. n -> Items] : n \in 1 .. Ways}

TrainingNext(SItems, NItems) ==
  \/ \E ns, nn \in Sizes : InitState(ns, nn)
  \/ ResetState
  \/ FreeState
  \/ \E start \in Indices, items \in Slices(SItems) : AccumulateWeights(start, items)
  \/ \E start \in Indices, items \in Slices(NItems) : AccumulateBiases(start, items)

-----------------------------------------------------------------------------
\* Each record holds what was reported of its own synapse or neuron since it
\* was zeroed, and a read answers its own record, whatever index a host sends.
RecordsAreTheirOwn ==
  /\ \A x \in Indices \cup DOMAIN heardS :
       ReadSynapse(x) = IF x \in DOMAIN heardS
                          THEN TotalOf(SynapseZero, SynapseDeltas(heardS[x]))
                          ELSE SynapseZero
  /\ \A x \in Indices \cup DOMAIN heardN :
       ReadNeuron(x) = IF x \in DOMAIN heardN
                         THEN TotalOf(NeuronZero, NeuronDeltas(heardN[x]))
                         ELSE NeuronZero

\* An activation below the plank says nothing about the weight, nor does an item
\* with a number that is not finite.
Telling(items) ==
  {i \in DOMAIN items : /\ NotFinite \notin {items[i].current, items[i].target, items[i].act}
                        /\ Magnitude(items[i].act) > Plank}

\* The calculated weight lies between the current one and those the reported
\* targets ask for; decay and limit aside.
AverageBetween(x, u) ==
  LET asked == {Over(Lifted(heardS[x][i].target), heardS[x][i].act) : i \in Telling(heardS[x])}
  IN Telling(heardS[x]) # {} =>
       \E low, high \in asked \cup {u.current} :
         Average(ReadSynapse(x), u.current, u.config) \in low .. high

Undecayed(c) == [c EXCEPT !.l1 = 0, !.l2 = 0]

\* What an epoch has heard is learnt within bounds: the weight asked for is one
\* between the current and the reported ones, the weight taken is limited, and a
\* bias moves at most a step and never further out than the limit - one already
\* out there is let be.  A target too small to tell from zero snaps to it.
LearningIsBounded ==
  \A u \in Updates :
    /\ \A x \in DOMAIN heardS :
         LET w == CalculateWeight(ReadSynapse(x), u.current, Undecayed(u.config)) IN
         /\ AverageBetween(x, u)
         /\ w \in {0, u.current} \/ Magnitude(w) <= u.config.limit
    /\ \A x \in DOMAIN heardN :
         LET b == CalculateBias(ReadNeuron(x), u.current, FALSE, Undecayed(u.config)) IN
         b # 0 => /\ Magnitude(b - u.current) <= u.config.maxStep
                  /\ \/ Magnitude(b) <= u.config.limit
                     \/ Magnitude(b) <= Magnitude(u.current)
=============================================================================
