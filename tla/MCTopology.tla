----------------------------- MODULE MCTopology -----------------------------
(***************************************************************************)
(* Small topologies: up to 4 neurons and 3 synapses (4 in ascending order), *)
(* indices 0 .. 3, so that with n = 3 an index may name no neuron; every    *)
(* order of two synapses, ascending and descending lists of three, buffers  *)
(* of different lengths, more inputs than neurons, no neuron at all.        *)
(***************************************************************************)
EXTENDS Topology

Pairs == (0 .. 3) \X (0 .. 3)
PairLess(p, q) == p[1] < q[1] \/ (p[1] = q[1] /\ p[2] < q[2])
Lists ==
  {<<>>} \cup [1 .. 1 -> Pairs] \cup [1 .. 2 -> Pairs]
    \cup {SetToSortSeq(S, PairLess) : S \in kSubset(3, Pairs)}
    \cup {Reverse(SetToSortSeq(S, PairLess)) : S \in kSubset(3, Pairs)}
Forward == {p \in Pairs : p[1] < p[2]}
LongLists == {SetToSortSeq(S, PairLess) : S \in kSubset(4, (1 .. 3) \X (1 .. 3))}

Topo(l, n, i, c) ==
  [from |-> [k \in 1 .. Len(l) |-> l[k][1]], to |-> [k \in 1 .. Len(l) |-> l[k][2]],
   n |-> n, inputs |-> i, constants |-> c]

MCTopologies ==
  {Topo(l, n, i, {}) : l \in Lists, n \in {3, 4}, i \in {0, 1}}
    \cup {Topo(l, 4, 1, {}) : l \in LongLists}
    \cup {Topo(<<<<1, 2>>>>, n, i, {}) : n \in 0 .. 2, i \in 2 .. 4}
    \cup {[Topo(l, 4, 1, {}) EXCEPT !.to = Tail(@)] : l \in [1 .. 2 -> Forward]}
    \cup {Topo(l, 4, i, c) : l \in [1 .. 2 -> Pairs] \cup [1 .. 3 -> Forward],
                             i \in 0 .. 2, c \in {{2}, {0, 3}}}

Roles == {0, 1}
RoledPairs == {<<0, 1>>, <<0, 2>>, <<0, 3>>, <<1, 2>>, <<2, 2>>, <<2, 1>>}
Batch(l, roles, typed, lengths) ==
  [from |-> [k \in 1 .. Len(l) |-> l[k][1]], to |-> [k \in 1 .. Len(l) |-> l[k][2]],
   role |-> roles, typed |-> typed, lengths |-> lengths]

MCBatches ==
  {Batch(l, r, TRUE, <<3>>) : l \in [1 .. 3 -> RoledPairs], r \in [1 .. 3 -> Roles]}
    \cup {Batch(l, <<>>, FALSE, c) :
            l \in [1 .. 3 -> RoledPairs], c \in {<<3>>, <<1, 2>>, <<2, 1>>, <<2, 2, 0>>, <<0, 2>>}}
    \cup {Batch(l, <<0>>, TRUE, <<2>>) : l \in [1 .. 2 -> RoledPairs]}
    \cup {[Batch(l, <<>>, FALSE, c) EXCEPT !.to = Tail(@)] :
            l \in [1 .. 2 -> RoledPairs], c \in {<<2>>, <<1, 1>>}}
=============================================================================
