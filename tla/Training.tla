------------------------------ MODULE Training ------------------------------
(***************************************************************************)
(* The training side of neat-core: the backpropagation loop over one call,  *)
(* the persistent accumulators of an epoch, the safe zones the loop asks    *)
(* and the buffer a call arrives in.  `task` says which of them a behaviour *)
(* is of.                                                                   *)
(***************************************************************************)
EXTENDS TopologicalBackprop, TrainingState

CONSTANTS
  Calls,     \* backpropagation inputs
  Zones,     \* [squash, raw, error, weight] asked of the safe zones
  Buffers    \* packed requests

CONSTANT CodecWord     \* values of a usize where the bundle runs

ASSUME TrainingAssumption ==
  /\ \A c \in Calls : IsCall(c)
  /\ Zones \subseteq [squash : Squashes, raw : Int, error : Int, weight : Int]
  /\ Buffers \subseteq [bytes : Nat, neurons : Nat, synapses : Nat, inward : Nat, order : Nat, outputs : Nat]

VARIABLES task, probe

vars == <<bvars, tvars, task, probe>>

Init ==
  /\ task \in {"backprop", "synapses", "neurons", "zone", "decode"}
  /\ \/ task = "zone" /\ probe \in Zones
     \/ task = "decode" /\ probe \in Buffers
     \/ task \in {"backprop", "synapses", "neurons"} /\ probe = <<>>
  /\ BackpropInit /\ TrainingInit

Next ==
  /\ UNCHANGED <<task, probe>>
  /\ \/ task = "backprop" /\ UNCHANGED tvars
        /\ ((outcome = <<>> /\ \E c \in Calls : StartCall(c)) \/ BackpropNext)
     \/ task = "synapses" /\ TrainingNext(SynapseItems, {}) /\ UNCHANGED bvars
     \/ task = "neurons" /\ TrainingNext({}, NeuronItems) /\ UNCHANGED bvars

Spec == Init /\ [][Next]_vars

-----------------------------------------------------------------------------
(* The packed request (neat-core/src/propagate_codec.rs): its length and the *)
(* counts its header declares, [bytes, neurons, synapses, inward, order,     *)
(* outputs].                                                                 *)

PropagateHeader == 36
Strides(b) == <<b.neurons * 24, b.synapses * 20, b.neurons * 8, b.inward * 4, b.order * 4, b.outputs * 4>>

EndOf(b, i) ==
  LET s == Strides(b) at[k \in 0 .. 6] == IF k = 0 THEN PropagateHeader ELSE at[k - 1] + s[k] IN at[i]

\* Mutant: the total is summed in the width of a pointer.
ExpectedSizeNarrow(b) == EndOf(b, 6) % CodecWord

\* expected_size_wide.
ExpectedSize(b) == EndOf(b, 6)

DecodeRefuses(b) == b.bytes < PropagateHeader \/ b.bytes < ExpectedSize(b)

\* Every section decode walks ends inside a buffer it accepts.
DecodeStaysInside(b) == ~DecodeRefuses(b) => \A i \in 0 .. 6 : EndOf(b, i) <= b.bytes

-----------------------------------------------------------------------------
\* A safe-zone factor is a share, 0 .. One, and a band lets no error push a
\* neuron further out of it (bounded_safe_zone).
ZonesAreShares ==
  task = "zone" =>
    LET f == SafeFactor(probe.squash, probe.raw, probe.error, probe.weight) IN
    /\ f \in 0 .. One
    /\ probe.squash = "SOFTPLUS" /\ probe.raw * probe.error > 0 =>
         f = 0 \/ probe.raw \in Profile("SOFTPLUS").min .. Profile("SOFTPLUS").max

\* Whatever counts a header declares, decode reads inside the buffer.
CodecReadsInside == task = "decode" => DecodeStaysInside(probe)
=============================================================================
