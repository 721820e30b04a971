---------------------------- MODULE ReverseOrder ----------------------------
(***************************************************************************)
(* compute_reverse_topological_order (neat-core/src/topology_ops.rs):       *)
(* Kahn's algorithm from the outputs backwards.  Neurons that are never     *)
(* ready are appended at the end.  A step looks at one inward synapse.      *)
(***************************************************************************)
EXTENDS TypedTopology

VARIABLES
  opc,        \* "start", "walk" or "done"
  outDegree,  \* out_degree, per neuron
  oqueue,     \* queue
  oat,        \* head
  inEdge,     \* place in the run of inward edges of the neuron being expanded
  result,     \* result
  walked      \* length of result when the walk ended

ovars == <<opc, outDegree, oqueue, oat, inEdge, result, walked>>

OrderInit ==
  /\ opc = "start"
  /\ outDegree = [v \in Neurons |-> 0]
  /\ oqueue = <<>> /\ oat = 0 /\ inEdge = 0
  /\ result = <<>> /\ walked = 0

RefuseToOrder ==
  /\ opc = "start" /\ Malformed
  /\ opc' = "done"
  /\ UNCHANGED <<outDegree, oqueue, oat, inEdge, result, walked>>

\* The synapses that are kept: no self-loop, both endpoints name a neuron.
Kept ==
  {k \in Edges : topo.from[k] # topo.to[k] /\ topo.from[k] < topo.n /\ topo.to[k] < topo.n}

OutDegrees ==
  [v \in Neurons |->
     IF v < topo.inputs THEN 0 ELSE Cardinality({k \in Kept : topo.from[k] = v})]

Sinks(degree) == Ordered({v \in NonInput : degree[v] = 0})

StartOrder ==
  /\ opc = "start" /\ ~Malformed
  /\ outDegree' = OutDegrees
  /\ oqueue' = Sinks(OutDegrees)
  /\ opc' = "walk"
  /\ UNCHANGED <<oat, inEdge, result, walked>>

InRange(s, a, b) == {s[i] : i \in a .. b}
Visited == InRange(result, 1, Len(result))

\* The inward edges left to look at of the neuron dequeued last.
LeftInward ==
  IF oat = 0 THEN {} ELSE {k \in Kept : k > inEdge /\ topo.to[k] = oqueue[oat]}

\* A neuron found visited is dropped.
Expand ==
  /\ opc = "walk" /\ LeftInward = {}
  /\ oat < Len(oqueue)
  /\ oat' = oat + 1
  /\ LET v == oqueue[oat + 1] IN
     IF v \in Visited
       THEN inEdge' = Len(topo.from) /\ UNCHANGED result
       ELSE inEdge' = 0 /\ result' = Append(result, v)
  /\ UNCHANGED <<opc, outDegree, oqueue, walked>>

\* The source is an input, or has been visited.
PassOver(k) ==
  /\ topo.from[k] < topo.inputs \/ topo.from[k] \in Visited
  /\ UNCHANGED <<outDegree, oqueue>>

\* Mutant: a source is ready when one of its targets has been visited.
ReleaseFirst(k) ==
  /\ topo.from[k] >= topo.inputs /\ topo.from[k] \notin Visited
  /\ outDegree' = [outDegree EXCEPT ![topo.from[k]] = @ - 1]
  /\ oqueue' = IF topo.from[k] \in InRange(oqueue, 1, Len(oqueue))
                 THEN oqueue ELSE Append(oqueue, topo.from[k])

Release(k) ==
  /\ topo.from[k] >= topo.inputs /\ topo.from[k] \notin Visited
  /\ outDegree' = [outDegree EXCEPT ![topo.from[k]] = @ - 1]
  /\ oqueue' = IF outDegree[topo.from[k]] <= 1 THEN Append(oqueue, topo.from[k]) ELSE oqueue

LookInward ==
  /\ opc = "walk"
  /\ \E k \in LeftInward :
       /\ \A j \in LeftInward : k <= j
       /\ inEdge' = k
       /\ PassOver(k) \/ Release(k)
  /\ UNCHANGED <<opc, oat, result, walked>>

\* Neurons left over are appended in ascending order.
FinishOrder ==
  /\ opc = "walk" /\ LeftInward = {}
  /\ oat = Len(oqueue)
  /\ result' = result \o Ordered(NonInput \ Visited)
  /\ walked' = Len(result)
  /\ opc' = "done"
  /\ UNCHANGED <<outDegree, oqueue, oat, inEdge>>

OrderNext ==
  RefuseToOrder \/ StartOrder \/ Expand \/ LookInward \/ FinishOrder

-----------------------------------------------------------------------------
\* Where the walk stands: all of result so far, then the part before leftovers.
WalkEnd == IF opc = "done" THEN walked ELSE Len(result)

\* A neuron is emitted by the walk only behind every neuron it feeds, and one
\* that feeds an input never is.
ConsumersFirst ==
  \A i \in 1 .. WalkEnd : \A k \in Kept :
     topo.from[k] = result[i] => \E j \in 1 .. i - 1 : result[j] = topo.to[k]

\* The order backpropagation follows: consumers first, every non-input neuron
\* once, and nothing left over by the walk that does not still feed an input or
\* another neuron left over.
OrderIsBackward ==
  /\ ConsumersFirst
  /\ opc = "done" /\ ~Malformed =>
       /\ Len(result) = topo.n - topo.inputs
       /\ Visited = NonInput
       /\ \A i \in walked + 1 .. Len(result) :
            \E k \in Kept :
              topo.from[k] = result[i] /\ topo.to[k] \notin InRange(result, 1, walked)
=============================================================================
