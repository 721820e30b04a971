------------------------------ MODULE FreeSlots ------------------------------
(***************************************************************************)
(* scan_available_connections (neat-core/src/topology_ops.rs): the forward  *)
(* pairs that hold no synapse.  The number of slots is counted first, from  *)
(* prefix sums, and sizes the vector; the walk then merges, for each        *)
(* source, the candidate targets with the sorted run of existing ones.  A   *)
(* step looks at one candidate.                                             *)
(***************************************************************************)
EXTENDS TypedTopology, SequencesExt

VARIABLES
  spc,       \* "start", "walk" or "done"
  source,    \* from_idx
  slot,      \* to_idx
  place,     \* p, within the run of the source
  capacity,  \* slots counted before the walk
  available  \* the pairs emitted

svars == <<spc, source, slot, place, capacity, available>>

SlotsInit ==
  /\ spc = "start" /\ source = 0 /\ slot = 0 /\ place = 1
  /\ capacity = 0 /\ available = <<>>

\* n = 0, or buffers of different lengths; more inputs than neurons is fine.
RefuseScan ==
  /\ spc = "start"
  /\ Len(topo.from) # Len(topo.to) \/ topo.n = 0
  /\ spc' = "done"
  /\ UNCHANGED <<source, slot, place, capacity, available>>

IsConstant(v) == v \in topo.constants

\* First target considered for a source: forward, and never an input.
ScanStart(f) == IF f + 1 > topo.inputs THEN f + 1 ELSE topo.inputs

\* The synapses that can block a slot.
Blocking(f) ==
  {k \in Edges : /\ topo.from[k] = f /\ f < topo.n
                 /\ topo.to[k] \in f + 1 .. topo.n - 1
                 /\ topo.to[k] >= topo.inputs}

\* Where synapse k stands in its run: by target, the earlier of equals first.
Rank(f, k) ==
  Cardinality({j \in Blocking(f) : \/ topo.to[j] < topo.to[k]
                                   \/ topo.to[j] = topo.to[k] /\ j < k}) + 1

Placed(f, i) == CHOOSE k \in Blocking(f) : Rank(f, k) = i

\* targets[starts[f] .. starts[f + 1]]: ascending, duplicates kept.
Run(f) == [i \in 1 .. Cardinality(Blocking(f)) |-> topo.to[Placed(f, i)]]

\* Mutant: a duplicate edge blocks its slot twice.
BlockedEach(f) == Cardinality({i \in 1 .. Len(Run(f)) : ~IsConstant(Run(f)[i])})

\* Distinct targets of the run that are not constant.
Blocked(f) ==
  Cardinality({i \in 1 .. Len(Run(f)) :
                 (i = 1 \/ Run(f)[i - 1] # Run(f)[i]) /\ ~IsConstant(Run(f)[i])})

SlotsOf(f) ==
  IF ScanStart(f) >= topo.n THEN 0
  ELSE (topo.n - ScanStart(f))
         - Cardinality({v \in ScanStart(f) .. topo.n - 1 : IsConstant(v)})
         - Blocked(f)

\* total_pairs before the source f is counted.
SlotsBefore[f \in Nat] == IF f = 0 THEN 0 ELSE SlotsBefore[f - 1] + SlotsOf(f - 1)
CountSlots == SlotsBefore[topo.n]

StartScan ==
  /\ spc = "start"
  /\ Len(topo.from) = Len(topo.to) /\ topo.n > 0
  /\ capacity' = CountSlots
  /\ spc' = "walk" /\ slot' = ScanStart(0)
  /\ UNCHANGED <<source, place, available>>

NextSource ==
  /\ spc = "walk" /\ slot >= topo.n
  /\ source + 1 < topo.n
  /\ source' = source + 1 /\ slot' = ScanStart(source + 1) /\ place' = 1
  /\ UNCHANGED <<spc, capacity, available>>

\* The place in the run after moving past the targets below the candidate.
Advanced ==
  CHOOSE q \in place .. Len(Run(source)) + 1 :
    /\ \A i \in place .. q - 1 : Run(source)[i] < slot
    /\ q <= Len(Run(source)) => Run(source)[q] >= slot

Candidate ==
  /\ spc = "walk" /\ slot < topo.n
  /\ slot' = slot + 1
  /\ \/ IsConstant(slot) /\ UNCHANGED <<place, available>>
     \/ /\ ~IsConstant(slot)
        /\ place' = Advanced
        /\ available' = IF Advanced <= Len(Run(source)) /\ Run(source)[Advanced] = slot
                          THEN available
                          ELSE Append(available, <<source, slot>>)
  /\ UNCHANGED <<spc, source, capacity>>

FinishScan ==
  /\ spc = "walk" /\ slot >= topo.n
  /\ source + 1 >= topo.n
  /\ spc' = "done"
  /\ UNCHANGED <<source, slot, place, capacity, available>>

SlotsNext == RefuseScan \/ StartScan \/ NextSource \/ Candidate \/ FinishScan

-----------------------------------------------------------------------------
\* The count taken before the walk is the number of pairs the walk emits, and
\* the pairs are exactly the forward pairs into a variable non-input neuron
\* that no synapse joins, in ascending order.
SlotsAreFree ==
  spc = "done" /\ Len(topo.from) = Len(topo.to) =>
    /\ Len(available) = capacity
    /\ ToSet(available) =
         {p \in Neurons \X NonInput :
            /\ p[1] < p[2] /\ ~IsConstant(p[2])
            /\ \A k \in Edges : <<topo.from[k], topo.to[k]>> # p}
    /\ \A i, j \in 1 .. Len(available) :
         i < j => \/ available[i][1] < available[j][1]
                  \/ available[i][1] = available[j][1] /\ available[i][2] < available[j][2]
=============================================================================
