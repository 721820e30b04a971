---------------------------- MODULE BatchKernels ----------------------------
(***************************************************************************)
(* Many records through one network: the kernels of record scoring          *)
(* (neat-core/src/batch_scoring.rs) and of the fused losses (loss.rs).  All  *)
(* cut the records into tiers of groups, the widest first, and keep their   *)
(* buffers from group to group.                                             *)
(*                                                                         *)
(* An interleaved buffer is flat: lane l of neuron i at (i - 1) * R + l for  *)
(* a group of R records.                                                    *)
(***************************************************************************)
EXTENDS ForwardPass

CONSTANTS
  Quad,       \* records of a small group (4)
  Lanes,      \* records of a full group, SCORING_LANES (8)
  TileLanes   \* records of a loss tile, MSE_TILE_LANES (32)

ASSUME WidthsAssumption ==
  /\ Quad \in Nat \ {0} /\ Lanes = 2 * Quad
  /\ TileLanes \in Nat \ {0} /\ TileLanes % Lanes = 0

Done(spans) == IF spans = <<>> THEN 0 ELSE Last(spans).base + Last(spans).width

\* Groups of n records, tier after tier.
Tier(s, n, w) ==
  s \o [k \in 1 .. ((n - Done(s)) \div w) |-> [base |-> Done(s) + (k - 1) * w, width |-> w]]

Spans(n, widths) ==
  LET tiers[t \in 0 .. Len(widths)] ==
        IF t = 0 THEN <<>> ELSE LET s == tiers[t - 1] IN Tier(s, n, widths[t])
  IN tiers[Len(widths)]

Group(records, span) == SubSeq(records, span.base + 1, span.base + span.width)

\* The first lanes of `acts`, a record each.
Across(net, acts, group) ==
  [l \in 1 .. Len(acts) |->
     IF l <= Len(group) THEN Pass(net, Load(net, acts[l], group[l])) ELSE acts[l]]

\* The lanes of an interleaved buffer for a group of R, and putting them back
\* in: what lies behind them stays.
LaneOf(net, inter, R, l) == [i \in 1 .. NodeCount(net) |-> inter[(i - 1) * R + l]]
PutLanes(inter, lanes) ==
  LET R == Len(lanes) IN
  [p \in 1 .. Len(inter) |->
     IF p <= R * Len(lanes[1]) THEN lanes[((p - 1) % R) + 1][((p - 1) \div R) + 1] ELSE inter[p]]

\* run_interleaved_forward, over transposed records: sums only, no aggregate.
SumsPass(net, act) ==
  LET after[i \in 0 .. Len(net.neurons)] ==
        IF i = 0 THEN act
        ELSE LET a == after[i - 1] IN Put(a, net.inputs + i, Standard(a, net.neurons[i]))
  IN after[Len(net.neurons)]

RunInterleaved(net, inter, group) ==
  [l \in 1 .. Len(group) |->
     SumsPass(net, Load(net, LaneOf(net, inter, Len(group), l), group[l]))]

-----------------------------------------------------------------------------
(* Record scoring: a scratch is [acts, inter], a result [scratch, out] *)

BatchScratch(net) ==
  [acts |-> [l \in 1 .. Lanes |-> Zeros(net)], inter |-> [p \in 1 .. NodeCount(net) * Lanes |-> 0]]

\* score_batch_per_lane, one group.
PerLaneGroup(net, state, group) ==
  LET acts == Across(net, state.scratch.acts, group) IN
  [scratch |-> [state.scratch EXCEPT !.acts = acts],
   out |-> state.out \o [l \in 1 .. Len(group) |-> Outputs(net, acts[l])]]

\* score_batch_interleaved, one group or a record of its tail.
InterleavedGroup(net, state, group) ==
  IF Len(group) < Lanes THEN PerLaneGroup(net, state, group)
  ELSE LET lanes == RunInterleaved(net, state.scratch.inter, group) IN
       [scratch |-> [state.scratch EXCEPT !.inter = PutLanes(@, lanes)],
        out |-> state.out \o [l \in 1 .. Lanes |-> Outputs(net, lanes[l])]]

ScorePerLane(net, scratch, records) ==
  LET spans == Spans(Len(records), <<Lanes, Quad, 1>>)
      after[j \in 0 .. Len(spans)] ==
        IF j = 0 THEN [scratch |-> scratch, out |-> <<>>]
        ELSE LET state == after[j - 1] IN PerLaneGroup(net, state, Group(records, spans[j]))
  IN after[Len(spans)]

ScoreInterleaved(net, scratch, records) ==
  LET spans == Spans(Len(records), <<Lanes, 1>>)
      after[j \in 0 .. Len(spans)] ==
        IF j = 0 THEN [scratch |-> scratch, out |-> <<>>]
        ELSE LET state == after[j - 1] IN InterleavedGroup(net, state, Group(records, spans[j]))
  IN after[Len(spans)]

ScoreBatchInto(net, scratch, records) ==
  IF HasAggregateSquash(net) THEN ScorePerLane(net, scratch, records)
  ELSE ScoreInterleaved(net, scratch, records)

-----------------------------------------------------------------------------
(* Fused losses.  A record is [in, target]; a loss is the sequence of its   *)
(* terms in the order they are added, a term the [target, output] it is a   *)
(* function of.  The buffers a network keeps are [act, quads, inter].       *)

Reads(records) == [k \in 1 .. Len(records) |-> records[k].in]
LossTerms(records, outputs) ==
  [k \in 1 .. Len(records) |-> [target |-> records[k].target, output |-> outputs[k]]]

\* packed_record_scan: one record after the other through the single buffer,
\* which is reset before each unless the caller says forward only.
ResetState(net, act) == [i \in 1 .. Len(act) |-> IF i > net.inputs THEN 0 ELSE act[i]]

Scanned(net, s, record, start) ==
  LET done == Pass(net, Load(net, start, record.in))
  IN [act |-> done, out |-> Append(s.out, Outputs(net, done))]

\* Mutant: the reset is left to the caller.
RecordScanUnreset(net, act, records, forwardOnly) ==
  LET after[k \in 0 .. Len(records)] ==
        IF k = 0 THEN [act |-> act, out |-> <<>>]
        ELSE LET s == after[k - 1] IN Scanned(net, s, records[k], s.act)
  IN after[Len(records)]

RecordScan(net, act, records, forwardOnly) ==
  LET after[k \in 0 .. Len(records)] ==
        IF k = 0 THEN [act |-> act, out |-> <<>>]
        ELSE LET s == after[k - 1]
             IN Scanned(net, s, records[k], IF forwardOnly THEN s.act ELSE ResetState(net, s.act))
  IN after[Len(records)]

\* batch_8way_activation!: fresh lanes, and a tail that zeroes what it reuses.
ScatteredGroup(net, state, group) ==
  LET start == IF Len(group) = 1 THEN [state.acts EXCEPT ![1] = ResetState(net, @)] ELSE state.acts
      acts == Across(net, start, group)
  IN [acts |-> acts, out |-> state.out \o [l \in 1 .. Len(group) |-> Outputs(net, acts[l])]]

Scattered(net, records) ==
  LET spans == Spans(Len(records), <<Lanes, Quad, 1>>)
      after[j \in 0 .. Len(spans)] ==
        IF j = 0 THEN [acts |-> BatchScratch(net).acts, out |-> <<>>]
        ELSE LET state == after[j - 1]
             IN ScatteredGroup(net, state, Group(Reads(records), spans[j]))
  IN after[Len(spans)].out

\* mse_sum_batch_interleaved: tiles and full groups through the buffer the
\* network keeps, the rest through its batch buffers.
TileGroup(net, state, group) ==
  IF Len(group) >= Lanes
    THEN LET lanes == RunInterleaved(net, state.inter, group) IN
         [state EXCEPT !.inter = PutLanes(@, lanes),
                       !.out = @ \o [l \in 1 .. Len(group) |-> Outputs(net, lanes[l])]]
    ELSE LET start == IF Len(group) = 1 THEN [state.quads EXCEPT ![1] = ResetState(net, @)]
                      ELSE state.quads
             quads == Across(net, start, group)
         IN [state EXCEPT !.quads = quads,
                          !.out = @ \o [l \in 1 .. Len(group) |-> Outputs(net, quads[l])]]

InterleavedLoss(net, quads, inter, records) ==
  LET spans == Spans(Len(records), <<TileLanes, Lanes, Quad, 1>>)
      after[j \in 0 .. Len(spans)] ==
        IF j = 0 THEN [quads |-> quads, inter |-> inter, out |-> <<>>]
        ELSE LET state == after[j - 1] IN TileGroup(net, state, Group(Reads(records), spans[j]))
  IN after[Len(spans)]

\* Which way a sum goes: only the squared error takes tiles, and only it takes
\* the lanes for fewer records than a full group.
LossPath(net, kind, n, forwardOnly) ==
  IF kind = "categorical" \/ ~forwardOnly THEN "scan"
  ELSE IF n >= Lanes /\ kind = "mse" /\ ~HasAggregateSquash(net) THEN "tiles"
  ELSE IF n >= Lanes \/ (n >= Quad /\ kind = "mse") THEN "lanes" ELSE "scan"
=============================================================================
