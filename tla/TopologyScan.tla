---------------------------- MODULE TopologyScan ----------------------------
(***************************************************************************)
(* The ordering gate of the topology buffers (neat-core/src/                *)
(* topology_ops.rs): validate_topology, validate_topology_typed and         *)
(* validate_topology_batch over one topology_scan.  A batch is concatenated *)
(* buffers cut by `lengths`; the plain and the typed gate are the batch of  *)
(* one, whose length is that of the buffers.  A step looks at one synapse.  *)
(***************************************************************************)
EXTENDS Wiring

CONSTANT Batches   \* the buffers a host may pass

\* Only the plain gate takes batches: the typed one reads its buffers whole.
ASSUME BatchesAssumption ==
  /\ Batches \subseteq [from : Seq(Nat), to : Seq(Nat), role : Seq(Nat), typed : BOOLEAN,
                        lengths : Seq(Nat)]
  /\ \A b \in Batches : b.typed => b.lengths = <<Len(b.from)>>

VARIABLES
  batch,
  vpc,       \* "next" (topology), "scan" or "done"
  at,        \* i, the synapses of this topology looked at
  offset,    \* where this topology starts
  last,      \* last_from, last_to, last_type
  verdicts   \* [code, index] per topology

scanvars == <<batch, vpc, at, offset, last, verdicts>>

ScanInit ==
  /\ vpc = "next" /\ at = 0 /\ offset = 0
  /\ last = NoSynapse /\ verdicts = <<>>

Current == Len(verdicts) + 1
End == offset + batch.lengths[Current]
Synapse(k) ==
  [from |-> batch.from[k], to |-> batch.to[k],
   role |-> IF batch.typed THEN batch.role[k] ELSE 0]

\* validate_topology_typed and topology_scan compare the buffers' lengths;
\* the batch compares the end of the cut with them.
Alone == Len(batch.lengths) = 1 /\ batch.lengths[1] = Len(batch.from)
LengthsDiffer ==
  \/ Len(batch.from) # Len(batch.to)
  \/ batch.typed /\ Len(batch.role) # Len(batch.from)

Report(code, i) ==
  /\ verdicts' = Append(verdicts, [code |-> code, index |-> i])
  /\ offset' = End
  /\ vpc' = "next" /\ at' = 0 /\ last' = NoSynapse
  /\ UNCHANGED batch

Mismatch ==
  /\ vpc = "next" /\ Current <= Len(batch.lengths)
  /\ Alone /\ LengthsDiffer
  /\ Report("MALFORMED_BUFFER", 0)

ShortBuffer ==
  /\ vpc = "next" /\ Current <= Len(batch.lengths)
  /\ ~(Alone /\ LengthsDiffer)
  /\ End > Len(batch.from) \/ End > Len(batch.to)
  /\ Report("SORT_ERROR_FROM", 0)

OpenTopology ==
  /\ vpc = "next" /\ Current <= Len(batch.lengths)
  /\ ~(Alone /\ LengthsDiffer)
  /\ End <= Len(batch.from) /\ End <= Len(batch.to)
  /\ vpc' = "scan"
  /\ UNCHANGED <<batch, at, offset, last, verdicts>>

ScanSynapse ==
  /\ vpc = "scan" /\ offset + at < End
  /\ LET s == Synapse(offset + at + 1) IN
     \/ /\ OrderFault(last, s) = "VALID"
        /\ at' = at + 1 /\ last' = s
        /\ UNCHANGED <<batch, vpc, offset, verdicts>>
     \/ /\ OrderFault(last, s) # "VALID"
        /\ Report(OrderFault(last, s), at)

CloseTopology ==
  /\ vpc = "scan" /\ offset + at = End
  /\ Report("VALID", 0)

FinishBatch ==
  /\ vpc = "next" /\ Current > Len(batch.lengths)
  /\ vpc' = "done"
  /\ UNCHANGED <<batch, at, offset, last, verdicts>>

ScanNext ==
  Mismatch \/ ShortBuffer \/ OpenTopology \/ ScanSynapse \/ CloseTopology \/ FinishBatch

-----------------------------------------------------------------------------
StartOf[t \in 1 .. Len(batch.lengths) + 1] ==
  IF t = 1 THEN 0 ELSE StartOf[t - 1] + batch.lengths[t - 1]

Before(r, s) ==
  \/ r.from < s.from
  \/ r.from = s.from /\ r.to < s.to
  \/ r.from = s.from /\ r.to = s.to /\ r.role < s.role

\* A sorted, forward-only list without repeats.
Clean(a, b) ==
  /\ \A k \in a .. b : batch.from[k] < batch.to[k]
  /\ \A j, k \in a .. b : j < k => Before(Synapse(j), Synapse(k))

\* Whatever precedes a topology in the batch, its verdict is that of the plain
\* gate on its own slice: VALID just where the slice is clean, and otherwise
\* the index of the first synapse that spoils it.
VerdictsAreLocal ==
  \A t \in 1 .. Len(verdicts) :
    LET a == StartOf[t] + 1
        b == StartOf[t] + batch.lengths[t]
    IN IF Alone /\ LengthsDiffer THEN verdicts[t].code = "MALFORMED_BUFFER"
       ELSE IF b > Len(batch.from) \/ b > Len(batch.to)
         THEN verdicts[t] = [code |-> "SORT_ERROR_FROM", index |-> 0]
       ELSE IF verdicts[t].code = "VALID" THEN Clean(a, b)
       ELSE Clean(a, a + verdicts[t].index - 1) /\ ~Clean(a, a + verdicts[t].index)
=============================================================================
