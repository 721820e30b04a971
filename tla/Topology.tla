------------------------------ MODULE Topology ------------------------------
(***************************************************************************)
(* The topology operations of neat-core, each run on the buffers a host     *)
(* hands it: `task` says which one this behaviour is of.                    *)
(***************************************************************************)
EXTENDS CycleDetection, ReverseOrder, FreeSlots, TopologyScan

VARIABLE task

vars == <<topo, task, cvars, ovars, svars, scanvars>>

NoTopology == [from |-> <<>>, to |-> <<>>, n |-> 0, inputs |-> 0, constants |-> {}]
NoBatch == [from |-> <<>>, to |-> <<>>, role |-> <<>>, typed |-> FALSE, lengths |-> <<>>]

\* A task is given its own buffers only.
Init ==
  /\ \/ /\ task = "scan"
        /\ batch \in Batches
        /\ topo = NoTopology
     \/ /\ task \in {"cycles", "order", "slots"}
        /\ topo \in Topologies
        /\ task \in {"cycles", "order"} => topo.constants = {}
        /\ batch = NoBatch
  /\ CycleInit /\ OrderInit /\ SlotsInit /\ ScanInit

Next ==
  /\ UNCHANGED <<topo, task>>
  /\ \/ task = "cycles" /\ CycleNext /\ UNCHANGED <<ovars, svars, scanvars>>
     \/ task = "order" /\ OrderNext /\ UNCHANGED <<cvars, svars, scanvars>>
     \/ task = "slots" /\ SlotsNext /\ UNCHANGED <<cvars, ovars, scanvars>>
     \/ task = "scan" /\ ScanNext /\ UNCHANGED <<cvars, ovars, svars>>

Spec == Init /\ [][Next]_vars
=============================================================================
