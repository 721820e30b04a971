--------------------------- MODULE CycleDetection ---------------------------
(***************************************************************************)
(* detect_cycles (neat-core/src/topology_ops.rs): Kahn's algorithm over     *)
(* the non-input neurons.  A step relaxes one synapse; `edge` is the last   *)
(* synapse of the dequeued neuron that was looked at.                       *)
(***************************************************************************)
EXTENDS TypedTopology

VARIABLES
  cpc,        \* "start", "walk" or "done"
  inDegree,   \* in_degree, per neuron
  cqueue,     \* queue
  cat,        \* head: neurons dequeued so far
  edge,       \* place in the run of the neuron being relaxed
  verdict     \* what is returned

cvars == <<cpc, inDegree, cqueue, cat, edge, verdict>>

CycleInit ==
  /\ cpc = "start"
  /\ inDegree = [v \in Neurons |-> 0]
  /\ cqueue = <<>> /\ cat = 0 /\ edge = 0
  /\ verdict = 0

CycleReturns(r) ==
  /\ cpc' = "done" /\ verdict' = r
  /\ UNCHANGED <<inDegree, cqueue, cat, edge>>

RefuseBuffers == cpc = "start" /\ Malformed /\ CycleReturns(0)

SelfLoops == {k \in Edges : topo.from[k] = topo.to[k] /\ topo.from[k] >= topo.inputs}

FindSelfLoop ==
  /\ cpc = "start" /\ ~Malformed
  /\ SelfLoops # {}
  /\ CycleReturns(1)

\* Mutant: an edge from an input neuron counts.
CountedAll ==
  {k \in Edges : topo.from[k] # topo.to[k] /\ topo.to[k] \in NonInput}

\* The edges that count: not from an input, and into a non-input neuron.
Counted ==
  {k \in Edges :
     topo.from[k] # topo.to[k] /\ topo.from[k] >= topo.inputs /\ topo.to[k] \in NonInput}

InDegrees == [v \in Neurons |-> Cardinality({k \in Counted : topo.to[k] = v})]

\* The neurons of degree zero, in ascending order.
Sources(degree) == Ordered({v \in NonInput : degree[v] = 0})

StartCycles ==
  /\ cpc = "start" /\ ~Malformed
  /\ SelfLoops = {}
  /\ inDegree' = InDegrees
  /\ cqueue' = Sources(InDegrees)
  /\ cpc' = "walk"
  /\ UNCHANGED <<cat, edge, verdict>>

\* The synapses left to relax in the run of the neuron dequeued last.
LeftInRun ==
  IF cat = 0 THEN {} ELSE {k \in Edges : k > edge /\ topo.from[k] = cqueue[cat]}

Dequeue ==
  /\ cpc = "walk" /\ LeftInRun = {}
  /\ cat < Len(cqueue)
  /\ cat' = cat + 1 /\ edge' = 0
  /\ UNCHANGED <<cpc, inDegree, cqueue, verdict>>

\* An edge back into an input, or to an index that names no neuron, is skipped.
SkipEdge(k) ==
  /\ topo.to[k] \notin NonInput
  /\ UNCHANGED <<inDegree, cqueue>>

RelaxEdge(k) ==
  /\ topo.to[k] \in NonInput
  /\ inDegree' = [inDegree EXCEPT ![topo.to[k]] = @ - 1]
  /\ cqueue' = IF inDegree[topo.to[k]] = 1 THEN Append(cqueue, topo.to[k]) ELSE cqueue

LookAtEdge ==
  /\ cpc = "walk"
  /\ \E k \in LeftInRun :
       /\ \A j \in LeftInRun : k <= j
       /\ edge' = k
       /\ SkipEdge(k) \/ RelaxEdge(k)
  /\ UNCHANGED <<cpc, cat, verdict>>

FinishCycles ==
  /\ cpc = "walk" /\ LeftInRun = {}
  /\ cat = Len(cqueue)
  /\ CycleReturns(IF cat < topo.n - topo.inputs THEN 1 ELSE 0)

CycleNext ==
  \/ RefuseBuffers \/ FindSelfLoop \/ StartCycles
  \/ Dequeue \/ LookAtEdge \/ FinishCycles

-----------------------------------------------------------------------------
\* A source index that names no neuron is never dequeued.
NoStaleSource == \A k \in Edges : topo.from[k] < topo.n

\* detect_cycles answers 1 just where the non-input neurons hold a cycle, on
\* every well-formed topology none of whose sources is out of range.  (With a
\* stale source it may also answer 1 on an acyclic topology.)
VerdictIsTrue ==
  cpc = "done" /\ ~Malformed /\ NoStaleSource => (verdict = 1 <=> HasCycle)
=============================================================================
