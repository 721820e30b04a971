------------------------------- MODULE Wiring -------------------------------
(***************************************************************************)
(* What the validators of neat-core ask of a wired topology: the questions  *)
(* of topology_invariants.rs, the ordering rule of topology_scan and        *)
(* validate_structural_integrity (topology_ops.rs).  A synapse is           *)
(* [from, to, role]; neurons are numbered from 0.                           *)
(***************************************************************************)
EXTENDS Integers, Sequences, FiniteSets

\* SynapseType: Standard 0, Condition 1, Negative 2, Positive 3.
Standard == 0
Condition == 1
Negative == 2
Positive == 3

\* ConnectionIndex: an endpoint that names no neuron is ignored.
InwardSynapses(syn, v) == {k \in 1 .. Len(syn) : syn[k].to = v}
OutwardSynapses(syn, v) == {k \in 1 .. Len(syn) : syn[k].from = v}

HiddenWiringFault(syn, v) ==
  IF InwardSynapses(syn, v) = {} THEN "NO_INWARD"
  ELSE IF OutwardSynapses(syn, v) = {} THEN "NO_OUTWARD"
  ELSE "none"

RolesInto(syn, v) == {syn[k].role : k \in InwardSynapses(syn, v)}

\* if_neuron_fault over IfRoles::tally.
IfFault(syn, v) ==
  IF Cardinality(InwardSynapses(syn, v)) < 3 THEN "TOO_FEW_INWARD"
  ELSE IF Condition \notin RolesInto(syn, v) THEN "MISSING_CONDITION"
  ELSE IF RolesInto(syn, v) \cap {Positive, Standard} = {} THEN "MISSING_POSITIVE"
  ELSE IF Negative \notin RolesInto(syn, v) THEN "MISSING_NEGATIVE"
  ELSE "none"

\* last_from, last_to, last_type before the first synapse.
NoSynapse == [from |-> -1, to |-> -1, role |-> 0]

\* Mutant: last_to survives into the next source.
OrderFaultKeepingTo(last, s) ==
  IF s.from = s.to THEN "SELF_CONNECTION"
  ELSE IF s.from > s.to THEN "BACKWARD_CONNECTION"
  ELSE IF s.from < last.from THEN "SORT_ERROR_FROM"
  ELSE IF s.to < last.to THEN "SORT_ERROR_TO"
  ELSE IF s.from > last.from \/ s.to > last.to THEN "VALID"
  ELSE IF s.role < last.role THEN "SORT_ERROR_TYPE"
  ELSE IF s.role = last.role THEN "DUPLICATE_CONNECTION"
  ELSE "VALID"

\* What topology_scan says of a synapse that follows `last`.
OrderFault(last, s) ==
  IF s.from = s.to THEN "SELF_CONNECTION"
  ELSE IF s.from > s.to THEN "BACKWARD_CONNECTION"
  ELSE IF s.from < last.from THEN "SORT_ERROR_FROM"
  ELSE IF s.from > last.from THEN "VALID"
  ELSE IF s.to < last.to THEN "SORT_ERROR_TO"
  ELSE IF s.to > last.to THEN "VALID"
  ELSE IF s.role < last.role THEN "SORT_ERROR_TYPE"
  ELSE IF s.role = last.role THEN "DUPLICATE_CONNECTION"
  ELSE "VALID"

\* validate_topology_typed, whole: the scan stops at the first fault, so each
\* synapse is judged behind a clean one.
OrderedTyped(syn) ==
  \A k \in 1 .. Len(syn) :
    OrderFault(IF k = 1 THEN NoSynapse ELSE syn[k - 1], syn[k]) = "VALID"

\* The structural faults of neuron v of a topology of neurons nv[1 .. n]
\* ([constant, if, finite]); outputs are the last `outputs` places.
NeuronStructureFault(syn, nv, outputs, v) ==
  IF nv[v + 1].constant
    THEN IF InwardSynapses(syn, v) # {} THEN "CONSTANT_HAS_INWARD" ELSE "none"
  ELSE IF ~nv[v + 1].finite THEN "BIAS_NOT_FINITE"
  ELSE IF v < Len(nv) - outputs /\ HiddenWiringFault(syn, v) # "none"
    THEN HiddenWiringFault(syn, v)
  ELSE IF nv[v + 1].if THEN IfFault(syn, v)
  ELSE "none"

StructureMalformed(nv, inputs, outputs) == inputs + outputs > Len(nv)

\* validate_structural_integrity accepts.
StructurallySound(syn, nv, inputs, outputs) ==
  /\ ~StructureMalformed(nv, inputs, outputs)
  /\ \A k \in 1 .. Len(syn) : syn[k].to >= inputs
  /\ \A v \in inputs .. Len(nv) - 1 : NeuronStructureFault(syn, nv, outputs, v) = "none"

\* What detect_cycles answers (CycleDetection.VerdictIsTrue).
Cyclic(syn, vs) ==
  \E S \in SUBSET vs :
    S # {} /\ \A v \in S : \E k \in 1 .. Len(syn) : syn[k].to = v /\ syn[k].from \in S
=============================================================================
