------------------------------ MODULE Scoring ------------------------------
(***************************************************************************)
(* A compiled network in use: a caller activates it record by record, traced *)
(* or not, four records at a time, sums losses over packed records, and     *)
(* scores batches on one thread or across a pool (network.rs,               *)
(* parallel_scoring.rs, loss.rs).  The network keeps its buffers from call  *)
(* to call; whatever they hold, the answers are those of a fresh network.   *)
(* Beside it a creature's magnitudes are scanned (ScoreScan).               *)
(***************************************************************************)
EXTENDS BatchKernels, ScoreScan

CONSTANTS
  Networks,    \* networks, [inputs, outputs, neurons]
  Inputs,      \* input vectors a caller hands over, of any length
  Stock,       \* records of the batches, [in, target], read round and round
  Kinds,       \* losses: "mse", "categorical", and the ones like "mae"
  Sizes,       \* records in a batch
  Strides,     \* values of a batch record the caller hands over
  ChunkRecords,\* PARALLEL_CHUNK_RECORDS (64)
  Workers,     \* jobs a parallel call may be split into
  MaxCalls     \* bound: calls on one network

ASSUME ChunkAssumption == ChunkRecords \in Nat \ {0} /\ ChunkRecords % Lanes = 0

ASSUME ScoringAssumption ==
  /\ Networks # {} /\ \A n \in Networks : IsNetwork(n)
  /\ Inputs \subseteq Seq(Int)
  /\ Stock \in Seq([in : Seq(Int), target : Seq(Int)]) \ {<<>>}
  /\ Sizes \subseteq Nat /\ Strides \subseteq Nat \ {0} /\ Workers \in Nat /\ MaxCalls \in Nat

VARIABLES
  network,  \* the network
  buffers,  \* [act, quads, inter]: activations, batch_activations, mse_inter
  calls,    \* calls made
  fresh,    \* no record has gone through `act` since it was zeroed
  reply,    \* the last call: [op, records, answer, clean], clean what `fresh` was
  batch     \* the batch call under way

svars == <<network, buffers, calls, fresh, reply, batch>>

NoReply == [op |-> "none", records |-> <<>>, answer |-> <<>>, clean |-> TRUE]
NoBatch == [state |-> "none", records |-> <<>>, out |-> <<>>, jobs |-> <<>>, scratch |-> <<>>]

\* assemble: every buffer zeroed.
NewBuffers(n) ==
  [act |-> Zeros(n), quads |-> [r \in 1 .. Quad |-> Zeros(n)],
   inter |-> [p \in 1 .. NodeCount(n) * TileLanes |-> 0]]

ScoringInit ==
  /\ network \in Networks
  /\ buffers = NewBuffers(network)
  /\ calls = 0 /\ fresh = TRUE /\ reply = NoReply /\ batch = NoBatch

\* n records from the stock, inputs cut or left to `stride`.
Take(n, stride) ==
  [k \in 1 .. n |->
     LET r == Stock[((k - 1) % Len(Stock)) + 1] IN
     [r EXCEPT !.in = SubSeq(@, 1, IF stride < Len(@) THEN stride ELSE Len(@))]]

Answered(op, records, answer) ==
  /\ calls < MaxCalls /\ batch.state = "none"
  /\ calls' = calls + 1
  /\ reply' = [op |-> op, records |-> records, answer |-> answer, clean |-> fresh]
  /\ UNCHANGED <<network, batch>>

-----------------------------------------------------------------------------
(* One network, one caller *)

\* activate, activate_view.
Activate ==
  \E x \in Inputs :
    LET act == Pass(network, Load(network, buffers.act, x)) IN
    /\ Answered("activate", <<x>>, Outputs(network, act))
    /\ buffers' = [buffers EXCEPT !.act = act] /\ fresh' = FALSE

\* activate_into the caller's buffer, whose length is the number of outputs.
ActivateInto ==
  \E x \in Inputs :
    LET act == Pass(network, Load(network, buffers.act, x)) IN
    /\ Answered("activate", <<x>>, Outputs(network, act))
    /\ buffers' = [buffers EXCEPT !.act = act] /\ fresh' = FALSE

ActivateAndTrace ==
  \E x \in Inputs :
    LET t == TracePass(network, Load(network, buffers.act, x)) IN
    /\ Answered("trace", <<x>>, TraceReply(network, t))
    /\ buffers' = [buffers EXCEPT !.act = t.act] /\ fresh' = FALSE

\* activate_and_trace_batch_4way.
TraceQuad ==
  \E xs \in [1 .. Quad -> Inputs] :
    LET lanes == TracePass4(network, xs) IN
    /\ \A r \in 1 .. Quad : Len(xs[r]) = Len(xs[1])
    /\ Answered("quad", xs, [r \in 1 .. Quad |-> TraceReply(network, lanes[r])])
    /\ buffers' = [buffers EXCEPT !.quads = [r \in 1 .. Quad |-> lanes[r].act]]
    /\ UNCHANGED fresh

Reset ==
  /\ calls < MaxCalls /\ batch.state = "none" /\ ~fresh
  /\ buffers' = [buffers EXCEPT !.act = ResetState(network, @)]
  /\ fresh' = TRUE
  /\ UNCHANGED <<network, calls, reply, batch>>

\* The packed sums.  A caller says forward only of a network that is.
SumLoss ==
  \E kind \in Kinds, n \in Sizes, stride \in Strides, forwardOnly \in {ForwardOnly(network), FALSE} :
    LET records == Take(n, stride)
        path == LossPath(network, kind, n, forwardOnly)
        scan == RecordScan(network, buffers.act, records, forwardOnly)
        tiles == InterleavedLoss(network, buffers.quads, buffers.inter, records)
        out == CASE path = "scan" -> scan.out [] path = "tiles" -> tiles.out
                 [] path = "lanes" -> Scattered(network, records)
    IN /\ Answered(IF forwardOnly THEN "loss" ELSE "recurrent loss", records, LossTerms(records, out))
       /\ buffers' = [act |-> IF path = "scan" THEN scan.act ELSE buffers.act,
                      quads |-> IF path = "tiles" THEN tiles.quads ELSE buffers.quads,
                      inter |-> IF path = "tiles" THEN tiles.inter ELSE buffers.inter]
       /\ fresh' = (fresh /\ path # "scan")

-----------------------------------------------------------------------------
(* Batches: &self, so nothing of the network changes while one is scored    *)
(* and a batch need not follow another call.                                *)

NothingWritten(n) == [k \in 1 .. n |-> <<>>]

\* score_records_flat and score_records_flat_into: one scratch, one job.
ScoreFlat ==
  /\ calls = 0 /\ batch.state = "none"
  /\ \E n \in Sizes, stride \in Strides :
       batch' = [state |-> "done", records |-> Reads(Take(n, stride)),
                 out |-> ScoreBatchInto(network, BatchScratch(network), Reads(Take(n, stride))).out,
                 jobs |-> <<>>, scratch |-> <<>>]
  /\ calls' = MaxCalls
  /\ UNCHANGED <<network, buffers, fresh, reply>>

ChunkCount(n) == (n + ChunkRecords - 1) \div ChunkRecords
Chunk(records, c) ==
  SubSeq(records, (c - 1) * ChunkRecords + 1,
         IF c * ChunkRecords < Len(records) THEN c * ChunkRecords ELSE Len(records))

\* The ways rayon may cut the chunks into jobs: consecutive ranges, in order.
Splits(count) ==
  {cut \in [1 .. count -> 1 .. Workers] :
     cut[1] = 1 /\ \A c \in 2 .. count : cut[c] \in {cut[c - 1], cut[c - 1] + 1}}

\* score_records_parallel_flat: a job is the chunks it has left, and starts
\* from a scratch of its own.
ScoreParallel ==
  /\ calls = 0 /\ batch.state = "none"
  /\ \E n \in Sizes \ {0}, stride \in Strides : \E cut \in Splits(ChunkCount(n)) :
       batch' = [state |-> "scoring", records |-> Reads(Take(n, stride)), out |-> NothingWritten(n),
                 jobs |-> [w \in 1 .. Workers |-> {c \in 1 .. ChunkCount(n) : cut[c] = w}],
                 scratch |-> [w \in 1 .. Workers |-> BatchScratch(network)]]
  /\ calls' = MaxCalls
  /\ UNCHANGED <<network, buffers, fresh, reply>>

\* Mutant: a chunk is written where the first one goes.
WriteFirst(out, c, rows) ==
  [k \in 1 .. Len(out) |-> IF k <= Len(rows) THEN rows[k] ELSE out[k]]

\* par_chunks_mut: a chunk's outputs go where its records stand.
Write(out, c, rows) ==
  [k \in 1 .. Len(out) |->
     LET at == k - (c - 1) * ChunkRecords IN IF at \in 1 .. Len(rows) THEN rows[at] ELSE out[k]]

\* A job scores its next chunk.
ScoreChunk(w) ==
  /\ batch.state = "scoring"
  /\ \E c \in batch.jobs[w] :
       LET done == ScoreBatchInto(network, batch.scratch[w], Chunk(batch.records, c)) IN
       /\ \A d \in batch.jobs[w] : c <= d
       /\ batch' = [batch EXCEPT !.jobs[w] = @ \ {c}, !.scratch[w] = done.scratch,
                                 !.out = Write(@, c, done.out)]
  /\ UNCHANGED <<network, buffers, calls, fresh, reply>>

\* for_each_init returns when every job has: the caller gets the outputs.
Join ==
  /\ batch.state = "scoring" /\ \A w \in 1 .. Workers : batch.jobs[w] = {}
  /\ batch' = [batch EXCEPT !.state = "done", !.jobs = <<>>, !.scratch = <<>>]
  /\ UNCHANGED <<network, buffers, calls, fresh, reply>>

ScoringNext ==
  \/ Activate \/ ActivateInto \/ ActivateAndTrace \/ TraceQuad \/ Reset \/ SumLoss
  \/ ScoreFlat \/ ScoreParallel \/ (\E w \in 1 .. Workers : ScoreChunk(w)) \/ Join

\* A behaviour is of a network or of a series of scans; the other rests.
ScoringRests ==
  /\ network = (CHOOSE n \in Networks : TRUE) /\ buffers = NewBuffers(network) /\ calls = MaxCalls
  /\ fresh = TRUE /\ reply = NoReply /\ batch = NoBatch

Init == (ScoringInit /\ ScanRests) \/ (ScoringRests /\ ScanInit)

Next == (ScoringNext /\ UNCHANGED scanVars) \/ (ScanNext /\ UNCHANGED svars)

Spec == Init /\ [][Next]_<<svars, scanVars>>

-----------------------------------------------------------------------------
FreshTrace(x) == TraceReply(network, TracePass(network, Load(network, Zeros(network), x)))

\* Whatever went through the buffers before - shorter or longer records, traced
\* or not, losses that left them in the middle of a tile - a call answers what
\* a fresh network answers: always when the network is forward-only, after a
\* reset_state (and for the four-record trace, which zeroes) on any network.
AnswersForgetHistory ==
  /\ reply.op = "activate" /\ (ForwardOnly(network) \/ reply.clean) =>
       reply.answer = Lone(network, reply.records[1])
  /\ reply.op = "trace" /\ (ForwardOnly(network) \/ reply.clean) =>
       reply.answer = FreshTrace(reply.records[1])
  /\ reply.op = "quad" =>
       \A r \in 1 .. Quad : reply.answer[r] = FreshTrace(reply.records[r])

\* A loss adds, in the order of the records, one term for each, of its target
\* and what a fresh network answers it: down every path, at every count of
\* records, and on a network of any kind when the caller does not say forward
\* only.
LossTakesEachRecord ==
  reply.op \in {"loss", "recurrent loss"} =>
    reply.answer = [k \in 1 .. Len(reply.records) |->
                      [target |-> reply.records[k].target,
                       output |-> Lone(network, reply.records[k].in)]]

\* The activations a traced reply would have to be explained with.
Explained(x, t) ==
  LET full == SubSeq(Load(network, Zeros(network), x), 1, network.inputs) \o t.acts
      All == 1 .. Len(network.neurons)
      listed(i) == ~network.neurons[i].constant /\ network.neurons[i].squash \in Aggregates
      nth(i) == Cardinality({k \in 1 .. i : listed(k)})
  IN /\ t.outputs = Outputs(network, full)
     /\ Len(t.trace) = 2 * nth(Len(network.neurons)) + 1 /\ t.trace[Len(t.trace)] = -1
     /\ \A i \in All :
          LET n == network.neurons[i]
              mark == t.trace[2 * nth(i)]
              terms == Terms(full, n)
          IN listed(i) =>
               /\ t.trace[2 * nth(i) - 1] = i - 1
               /\ t.hints[i] = t.acts[i]
               /\ n.squash \in {"MINIMUM", "MAXIMUM"} =>
                    t.acts[i] = Limited(n.squash,
                                  n.bias + (IF n.in = <<>> THEN 0 ELSE terms[mark + 1]))
               /\ n.squash = "IF" =>
                    t.acts[i] = Limited(n.squash, n.bias +
                                  Arm(full, n, IF mark = 1 THEN {"positive", "standard"} ELSE {"negative"}))
     /\ \A i \in All :
          LET n == network.neurons[i] IN
          ~n.constant /\ ~listed(i) => t.acts[i] = Limited(n.squash, Squash(n.squash, t.hints[i]))

\* Backpropagation reads the trace in place of the pass: on a forward-only
\* network the winner, the branch and the hint told there give the activation
\* told beside them, one pair for each aggregate in order, one record or four.
TraceExplains ==
  ForwardOnly(network) =>
    /\ reply.op = "trace" => Explained(reply.records[1], reply.answer)
    /\ reply.op = "quad" => \A r \in 1 .. Quad : Explained(reply.records[r], reply.answer[r])

\* Every record of a batch gets, in its own place, what a fresh network answers
\* it alone: in a full group, a small one or the tail, interleaved or lane by
\* lane, and in parallel whichever job takes its chunk and in whatever order.
ScoresAreRecordwise ==
  ForwardOnly(network) =>
    \A k \in 1 .. Len(batch.out) :
      (batch.state = "done" \/ batch.out[k] # <<>>) => batch.out[k] = Lone(network, batch.records[k])

\* "Results are identical to the sequential path regardless of thread count"
\* (parallel_scoring.rs).
ParallelIsSequential ==
  batch.state = "done" =>
    batch.out = ScoreBatchInto(network, BatchScratch(network), batch.records).out
=============================================================================
