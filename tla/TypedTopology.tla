---------------------------- MODULE TypedTopology ----------------------------
(***************************************************************************)
(* The flat buffers the topology operations of neat-core read               *)
(* (topology_ops.rs): neurons are 0 .. n-1, the first `inputs` of them      *)
(* inputs; synapse k runs from[k] -> to[k]; `constants` are the neurons of   *)
(* is_constant.  The host fills the buffers, so lengths may differ and an   *)
(* index may name no neuron.                                                *)
(***************************************************************************)
EXTENDS Integers, Sequences, FiniteSets

CONSTANT Topologies    \* the topologies a host may ask about

ASSUME TopologiesAssumption ==
  Topologies \subseteq
    [from : Seq(Nat), to : Seq(Nat), n : Nat, inputs : Nat, constants : SUBSET Nat]

VARIABLE topo

Edges == 1 .. Len(topo.from)
Neurons == 0 .. topo.n - 1
NonInput == topo.inputs .. topo.n - 1

Malformed == Len(topo.from) # Len(topo.to) \/ topo.inputs > topo.n

\* The neurons of a set in ascending order, as a loop over the neurons pushes
\* them.
Ordered(S) ==
  LET upTo[v \in Nat] ==
        IF v = 0 THEN <<>>
        ELSE IF v - 1 \in S THEN Append(upTo[v - 1], v - 1) ELSE upTo[v - 1]
  IN upTo[topo.n]

\* Neurons each fed by another (or itself) of the same set: there is a cycle
\* among the non-input neurons just where such a set exists.
IsLoop(S) ==
  /\ S # {}
  /\ \A v \in S : \E k \in Edges : topo.to[k] = v /\ topo.from[k] \in S

HasCycle == \E S \in SUBSET NonInput : IsLoop(S)
=============================================================================
