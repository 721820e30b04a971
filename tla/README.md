# A verification project for NEAT-AI-core

TLA+ models of the parts of NEAT-AI-core whose correctness is a matter of order,
state and structure rather than of floating-point formulas; TLC configurations that
check them on small instances; and theorems the TLA+ proof system checks for every
value of the constants.

    tlc -workers 2 -config RunlibInstall_forward.cfg RunlibInstall
    tlapm RunlibInstallProofs.tla

`PROJECT.json` lists the components, the runs, which source lines every definition
stands for, a plausible bug each property rules out, the hazards, the findings and the
theorems.

## 1. The system

NEAT-AI-core is the Rust crate (`neat-core/src`) that neuro-evolution clients in
TypeScript and Rust share, natively and as WebAssembly, with the shell scripts that
build, release and install it.

| Part | State it keeps | Operations | Talks to | What is hard | What makes it correct |
|---|---|---|---|---|---|
| Corpus streaming (`training_bin_stream.rs`) | file cursor, two buffers, two bounded channels, a shutdown gate, a result slot | read, forward, deliver, return a buffer, shut down, join | callback of loss and scoring; file system | two threads, back-pressure, an error or a panic on either side | every byte once and in order; truthful result; nobody left behind |
| Pruning cleanup (`prune_cleanup.rs`) | one creature, a report, a pass counter | repair IF, sweep, rescale, cap, fold, canonicalise, splice | validators; both pruning entry points | six rewrites that undo and enable each other, to a fixed point | the function computed never changes; it ends, valid and canonical |
| Pruning requests (`prune_neuron.rs`, `prune_synapse.rs`, `prune_rewrite.rs`) | the cut creature, what each target is owed | refuse, cut, compensate, convert, clean up, grade | cleanup; forward pass | structure read before the cut, used after | `Exact` is only said when it is true |
| Forward pass (`network.rs`, `range.rs`) | the network, its activation and batch buffers | activate, activate into a buffer, trace, trace four records, reset | scoring, loss, training | the buffers outlive a call; the pass is written four times | the answers of a fresh network; the trace explains its activations |
| Loading (`creature.rs`) | none | check an export, compile it | validators, network | two sets of rules for one creature | what the validator accepts compiles, onto the same wiring |
| Validators (`creature_validate*.rs`, `topology_invariants.rs`) | none | 4 entry points over 31 rules; decode; prune the memetic record | everything that builds a creature | four shapes of one creature; rules checked twice | the same verdict on the same creature; an accepted creature runs |
| Topology (`topology_ops.rs`) | none (queues and degrees while it runs) | detect cycles, order for backpropagation, scan free slots, ordering gate, structural gate | mutation operators, training | stale indices, duplicate edges, host-filled buffers | equal to the graph-theoretic definitions |
| IF graft (`if_graft.rs`) | a creature under assembly | graft an IF node, a relay, a correction, a tree, a batch | validators, loading | placement between what is read and what is fed; a batch is gated once | a grafted creature reads fresh values and is accepted again |
| Training (`training_state.rs`, `accumulate.rs`, `topological_backprop.rs`, `elastic_distribution.rs`, `fused_error.rs`, `safe_zone.rs`) | accumulators per neuron and synapse, kept from call to call | init, reset, free, accumulate, read, calculate, propagate | host; topology order | credit in order, rounding, host indices | all error for a neuron before its turn; shares that sum up; records of their own |
| Directory score (`loss.rs`) | a record left pending, records done, the cap | score a directory | corpus stream, network | records across chunks and files, a cap inside a chunk | every record scored once and in order, or an error |
| Loss and batch scoring (`loss.rs`, `batch_scoring.rs`, `parallel_scoring.rs`, `score_scan.rs`) | scratch buffers, jobs, two largest magnitudes | sum a loss, score flat or in parallel, scan, rescan | network | tiers and tails, jobs in any order, scratch kept by a job | each record gets its own answer, in its place |
| Data readers (`training_data.rs`) | files passed, the open file, records remaining | list, iterate, seek | file system | calls after an error, empty and misfit files | the files it opened, whole; the same records as the score |
| Propagate codec (`propagate_codec.rs`) | none | decode a request | training | counts the caller declares | no read outside the buffer |
| Wire formats (`prune_json.rs`, `wasm_exports.rs`), kernels (`squash*.rs`, `simd*`, `unsquash.rs`, `derivative.rs`), decision tree | none | convert, formulas | host | rounding, layout | out of scope |
| Installer (`scripts/runlib.sh`) | artefacts and stamps under CARGO_HOME, staged copies, a backup, `target/` | skip, build, stage, commit, stamp, clean | cargo, rustup, other runs | kill, signal, failure at any step, other runs, hand edits | "already installed" is never a lie |
| Release scripts (`bump-deps.sh`, `family-pins.sh`, ...) | manifests, pins | bump, check | git, crates | partial updates | consistent pins |

## 2. What is modelled, and how it corresponds to the code

### 2.1 Streaming: `Corpus`, `ChunkDelivery`, `TrainingBinStream`

`Corpus` holds the files (`NFiles`, `FileLen`) and the arithmetic of chunks: a byte is
a position, a chunk the range it covers. `ChunkDelivery` is the contract a caller relies
on: chunks that follow each other, then exactly one outcome, `Ok` only at the end.
`TrainingBinStream` is `for_each_read_chunk_with_mode`:

* `StartPipelined`, the reader's `R...` actions and the caller's `C...` actions are the
  double-buffered mode. One action is one blocking operation: open, take a buffer from
  the pool, one read (which may be short), a send, a receive, a call back, the return of
  a buffer, the shutdown gate, join. The three places a channel end is dropped are
  actions of their own, because the other side can run between them.
* `StartSequential` and the `S...` actions are the one-thread loop.
* an open, a read or a callback may fail at any time, and a callback may panic.

`MCTrainingBinStream` gives five files of 0, 3, 0, 2 and 0 bytes and buffers of 0 (the
call is refused), 1 or 2 bytes. Three bytes through two one-byte buffers are the least
that fill the pool and come back to the first buffer, a 2-byte buffer meets files that are
and are not a multiple of it, and an empty file is the case `read == 0` at once: before,
between and after the others.

Fairness (`FairSpec`, run `stream`): weak fairness of the reader and of the caller.
Both are threads of one process the scheduler keeps running; every step they are weakly
fair over is a system call or a channel operation the code does not give up on, and a
callback is assumed to return or to panic.

### 2.2 Records: `RecordIterator`, `RecordScoring`, `Records`

Both readers share the directory, which holds the first `listed` files of the corpus, and
the width of a record; `RecordIterator` declares them and `RecordScoring` extends it. A byte
is the pair of its file and its offset in it.

`RecordScoring` is `mse_mean_streaming`. The stream below it is a parameter of the
environment: chunks of any length up to `MaxChunk` that satisfy the promise of
`ChunkDelivery` (`Corpus!Follows`), until the stream fails or ends, which is what
`TrainingBinStream` is shown to implement. One action is one call of the callback, told
apart by what it does: ignore the chunk (`IgnoreChunk`), only add to `pending`
(`CarryChunk`), or score (`ScoreChunk`). `pending`, `done`, `capped` are the variables of
the code; `scored` holds the bytes behind the error sum in the order they were summed,
`delivered` the bytes delivered before the cap.

`RecordIterator` is `TrainingDataIterator`: `new`, and `next_record` as often as the
caller likes, also after an error. Each iteration of `open_next_file` is an action, and so
is every way a call fails. `index`, `remaining` are the code's; the reader is a file and
a position in it, which a failed read leaves anywhere inside the record. Files do not
change between being sized and being read.

`Records` puts both on the same directory. Neither writes, so their order is of no
consequence and the iterator follows a scan that met no I/O error. What the code does
after a cap and nothing states otherwise: the rest of the last file is still read, and an
I/O error there fails a scan that had all its records (`StreamFails` after `capped`).

### 2.3 Pruning: `Creature`, `PruneCleanup`, `Prune`

`Creature` is the data: a creature is a list of neurons (constants, hidden, outputs) and
a list of rows (synapses) with a role, as in `CreatureExport`, and what it computes:
`Activations` runs a stream of records through it as `CompiledNetwork::activate` does,
each record over the activations the one before left behind, so that a recurrent edge
reads one record late. It also holds what the rewrites know about an edge
(`MergeRule`, `FixedActivation`, `StaticConditionBranch`) and the validators' rules.

`PruneCleanup` is `cleanup_creature_with`: one action per rewrite a sub-pass makes (one
IF repaired, one layer of dead structure, one constant merged, one fold, one relay
spliced), `changed` and `passes` as in the loop, every error as a value of `pc`. The
creature can be looked at between any two rewrites; that is where
`ExactOnEveryRecord` looks.

`Prune` puts `prune_neuron` and `prune_synapse` in front of it: the refusals, the cut,
one action per target compensated, the conversion of aggregates, cleanup, the grade.

| Abstraction | Why it is enough |
|---|---|
| weights, biases, activations are integers; MEAN divides with `\div`, HYPOT takes the integer root | the rewrites move whole terms; the documentation itself promises equality up to `f32` rounding only |
| five aggregates, IF and three point-wise squashes stand for all | every other squash is treated by the code as one of these: it sums, then applies a function |
| `F32Max`, `F64Max` | the bounds at which a splice is refused and a weight becomes an error; small, so that both happen |
| `MaxSupportConstants = 1` (code: 3), `MaxNetNew = 0` (code: 9) | the limits are reached by creatures of four neurons |
| `SupportNames`: two names | a constant is minted only where the creature holds none, so one is alive at a time; the second name is for a creature that uses the first |
| range clamps of `apply_limit_range`, non-finite input, the memetic record, `residual_variance`, `dropped_mean` and the order inside the report's lists are left out | the first two bound numbers, not structure; the others are written and never read back |

`MCPrune` hands the cleanup wreckage (`MCRequests`): relays with and without bias, IFs
that lost any subset of their rows, more constants than the budget, constants of any
value, unread and unfed neurons, duplicated rows, dangling references, weights close to
the bounds. It hands the pruning entry points (`MCPrunings`) the valid creatures over
pools of rows, with every neuron and every readable key requested, and no statistic, a
mean, a proxy with and without an edge into the target, or statistics that make no sense.

There is no fairness: cleanup is a sequential function, and that it ends is the safety
property that the pass cap is never met (`notStable` never happens), part of
`WreckageIsRepaired`.

### 2.4 Installing: `RunlibInstall`

The life of one `CARGO_HOME`: `bin`, `lib` and their stamps hold version numbers, 0 for
"no such file". A process runs `runlib_install` step by step: the fast check reads the
binary and its stamp, then the library and its stamp; again after the toolchain; build;
stage; back up; commit; commit; reap; stamp; stamp; remove `target/`. Any step can fail
as its `||` or `set -e` makes it fail. `Interrupt` is INT or TERM once the trap is armed:
bash runs the handler, which removes the temporaries, and goes on. `Kill` ends a run
anywhere, and `RemoveByHand` deletes any artefacts and stamps between runs, as the
script's documentation invites to.

Abstracted: the toolchain's bootstrap and gate are one step; a build directory outside
the checkout (kept, not removed) and the macOS signing of the staged library (one more
way for staging to fail) are not told apart; what a temporary left by a kill does to
disk space. `Overlap`, `Rollback` and the set `Mishaps` choose the environment of a run.

### 2.5 Topology: `TypedTopology`, `CycleDetection`, `ReverseOrder`, `FreeSlots`, `TopologyScan`, `Wiring`, `Topology`

`TypedTopology` is the flat buffers a host fills, with whatever indices and lengths.
Over them `CycleDetection` (`detect_cycles`), `ReverseOrder`
(`compute_reverse_topological_order`) and `FreeSlots` (`scan_available_connections`) are
step machines: a step relaxes one synapse, looks at one inward synapse or one candidate
slot, with the degrees, queues and heads of the code as variables. `TopologyScan` is
`topology_scan` under its three entry points, one synapse a step over a concatenated
batch, and `Wiring` the questions the validators ask of a wired topology
(`topology_invariants.rs`, the structural gate) as operators. `Topology` gives each
behaviour one of the four tasks. Reference definitions are independent of the walks:
`VerdictIsTrue` asks for a cycle in the sense of reachability, `SlotsAreFree` for the set
of free forward pairs, `VerdictsAreLocal` for the verdict on each topology of a batch by
itself.

`VerdictIsTrue` speaks of topologies whose synapses all leave a neuron that exists. With a
stale source `detect_cycles` may answer 1 on an acyclic list: the edge counts in the
degree of its target and is never relaxed.

### 2.6 Validation: `CreatureRules`, `CreatureValidate`

`CreatureRules` is `validate_prepared`: the neuron walk, the widths, the synapse walk, the
flat gates and rule 31 in the code's order, one neuron, synapse or check per step; the
first broken rule ends the walk and is named with its place. With rule 31 stands its
inverse, the prune of the record that a structural edit owes. `CreatureValidate` builds the
walk's input four times, as `creature_validate`, its JSON form, its in-memory form and its
packed form do, with the vocabularies a memetic key is resolved in and the layout of the
packed buffer. `ReadBy` says what each of them reads: the export (`Exported`), whose inputs are
implicit, or the creature in memory (`Loaded`), where every neuron is listed. The kinds differ
at one point: a neuron listed as an input is of no kind in an export and an input in memory
(`KindOf`, `KindInMemory`). A host asks all four about one creature, then removes a neuron or a synapse,
prunes the record and asks again. `ShapesAgree` is what the four answers have in common; the
documents promise more (section 5). Wording and class of a message are left out; an id,
a UUID, a bias or a squash is a member of a small set that keeps every distinction a rule
makes (absent, duplicate, malformed, derived from the UUID).

### 2.7 Training: `FixedPoint`, `ErrorShares`, `WeightUpdate`, `TopologicalBackprop`, `TrainingState`, `Training`

Values are whole numbers of which `One` make a unit; products and quotients round as
`FixedPoint` says, so that shares do have a remainder. `TopologicalBackprop` is
`propagate_topological_loop`: one step seeds the outputs, begins a neuron, hands one link
its share or ends the neuron. `ErrorShares` is the elastic and the fused distribution
and the safe zone, the factor that limits an error, by the squash's profile; SINE, COSINE and
TAN, which judge by their slope, are left out. `TrainingState` is the thread-local buffers, with
indices up to the width of a `usize` (`Word`) and the panic that leaves `init` half done;
`heardS` and `heardN` are history variables, what was reported for each record since it
was zeroed. `Training` composes them - a behaviour is of one task - and holds the length
check of the packed request (`propagate_codec.rs`).

`CompleteError` is an action property of the loop: when a neuron begins, no consumer of it
is still to come in the order, as long as the order itself puts consumers first - which is
what `OrderIsBackward` says of `ReverseOrder`.

### 2.8 Loading and grafting: `IfGraft`

`IfGraft` holds `compile_creature` with the gates every consumer of an export asks (rules in
order, then the spans of the synapse table), and adds the five grafting entry points to the host of `CreatureValidate`: the host has a base validated, grafts one job
after another (nodes, relays, a correction, a tree, a batch that is gated once), takes what
came back or keeps its creature, and has the result validated. A step grafts one node of
the job; every refusal of the code is an outcome.

### 2.9 Scoring: `ForwardPass`, `BatchKernels`, `Scoring`, `ScoreScan`

`ForwardPass` is the pass over the activation buffer in its versions - alone, traced, four
records at a time - with `SIMD` groups as lanes. `BatchKernels` cuts a batch into tiers of
groups as the interleaved, per-lane and scattered kernels and the loss tiles do, with the
scratch they keep from group to group. `Scoring` is a network in use: calls in any order
over the same buffers, and a parallel batch as jobs that take chunks in any order, each
with a scratch of its own (`Chunk`, `Splits`, `Write`). `ScoreScan` is the two
largest magnitudes, computed once and rescanned after each change; a behaviour is of a
network or of a scan. Group sizes are
constants (2, 4, 8, 4 for the code's 4, 8, 32, 64); values are integers, so sums are exact
and the order in which a kernel adds does not show.

## 3. The runs

| Run | Shows | Bounds |
|---|---|---|
| `stream` | whatever fails and however the threads interleave: buffers conserved, truthful results, `ChunkDelivery` implemented; every call ends, with the reader gone unless the callback panicked | 5 files, 5 bytes, buffers 0-2, panics; 4,051 states |
| `stream_panic` (violation) | after a panic in the callback the reader can wait for ever | as above |
| `records` | every record is scored once and in order or an error says why not; the iterator yields what it opened and never passes a misfit file; both readers agree | 5 files of 8, 0, 16, 7, 8 bytes, or the first 0 to 5 of them; records of 0, 4, 8, 12, 16 bytes; caps 0-4, 6, none; chunks up to 20 bytes; 161,050 states |
| `prune` | no rewrite changes an output; wreckage always becomes a valid creature; what goes is reported; `Exact` is true; folds are worth what the statistics say | creatures of 4 or 5 neurons, 3 records; 220,507 states |
| `runlib_forward` | skips honest, failed updates undone | 3 versions, 4 runs, 3 mishaps of any kind |
| `runlib_overlap` | two runs of one version at once: skips honest, installs whole | 2 processes, 3 runs, 2 kills, signals or removals; 560,408 states |
| `runlib_interrupted` (violation) | a signal between the commits leaves a mixed pair that a rollback takes for installed | 2 runs, 1 signal |
| `topology` | cycle verdicts, backward order, free slots and batch verdicts against their definitions | up to 4 neurons; every list of up to 2 synapses, ordered lists of 3 and 4, indices that name nothing, buffers of unequal length; 169,015 states |
| `creatures` | one verdict from every entry point; accepted creatures run and compile; the gates agree with the walks; the prune fits rule 31; grafts read fresh and are accepted again | creatures of 1-3 inputs and up to 4 listed neurons, every list of up to 2 synapses, roles into an IF, both memetic forms, packed headers that lie; every graft of one node, pairs as tree and batch, two jobs in a row; creatures that list an input; 193,494 states |
| `training` | shares add up; deltas follow outcomes; credit is complete when a neuron's turn comes; records are their own; learning is bounded; safe zones are shares; decode stays inside | 1,536 creatures of 6 neurons; epochs of up to `MaxHeard` = 2 reports per record over `Sizes`, `Indices`; grids of zones and buffers; 47,012 states |
| `scoring` | answers forget history; each record reaches the sum once; a trace explains its activations; batch outputs are recordwise; the scan stays true | 8 networks, `MaxCalls` = 2 calls, batches of 0, 1, 3, 6, 10, 15 records, `Workers` = 3 jobs, `MaxChanges` = 3 changes; 8,462 states |
| `scoring_parallel` (violation) | a recurrent network scores differently in parallel | one recurrent network |

Deadlock is not checked by TLC's own test, because every system here may stop: after a
panic the reader really waits for ever, a pruning call returns once, a score is computed
once, an iterator that was not built takes no calls, a topology task ends with its verdict,
a host has a finite list of jobs, and runs of the installer, calls, changes and reports are
counted by `MaxRuns`, `MaxMishaps`, `MaxCalls`, `MaxChanges` and `MaxHeard`. That a stream
cannot block is what `EveryCallEnds` says instead.

Why the bounds are enough. Three bytes through two one-byte buffers fill the pool and come
back to the first. In `records` a chunk of 20 bytes is longer than any file and an 8-byte
file holds half a record, two thirds of one, one, or two: records end inside, at the end of
and behind a chunk and a file, an empty file lies in the middle of one, and the cap of 6 is
beyond some directories and inside others. Four installer runs with three mishaps allow an
install, two spoilt attempts that build on each other's leftovers, and a run that looks at
the result. Three synapses are a cycle of length two beside an edge out of it, four on
neurons 1 to 3 a cycle of three with a chord; three in a run are the least at which two sort
keys of one source are followed by another source. Fifteen records are a tile, a wide group, a
narrow one and a tail; two calls are one that leaves the buffers dirty and one that reads
them; a chunk of 4 with 15 records gives four chunks to three jobs, so one job keeps its
scratch. A word of 256 is passed by products the grids hold on both sides.

Where the statements are conditional, the condition is the code's:
`ShapesAgree` asks no common rule of creatures past the ceiling, of records only the wire can
name, and of a neuron listed as an input, at which the in-memory form may go on and has only to
refuse the creature in the end; `ExactOnEveryRecord` leaves out `IfRepair::Downgrade` (documented as inexact) and creatures
with back edges; `FailedUpdateIsUndone` needs a binary to restore and nobody interrupting;
`GraftedIsAccepted` needs specs that read the constants they declare and no output neuron,
UUIDs that have ids of their own, options that fix no totals, and a result under the node
ceiling; `AcceptedCompiles` known squashes and counts that fit
the 16-bit span; `AnswersForgetHistory`, `ScoresAreRecordwise` forward-only networks, unless
the call or the caller resets. Section 5 says what happens otherwise.

## 4. What is proved

Every theorem holds for every value of the constants its assumptions allow: any number of
files, neurons, synapses, records, versions or jobs. Assumptions are named `ASSUME`s, stand
in the module of the constants they are about and are evaluated by every run. The provers
cannot instantiate the library's induction theorems, which take an operator;
`Iteration` proves induction, recursion and ranking once more about sets and functions, and
everything below that counts, sums or folds rests on it.

**Streaming** (`CorpusProofs`; `CorpusAssumption`: lengths are naturals). With or
without panics:

* `Invariance`: `IInv` is inductive. The safety properties are not: that the callback
  gets byte *n+1* after byte *n* needs to know where all the bytes between the file
  cursor and the callback are. `Line` says it: what is in the callback, the chunk in
  the fill channel, the chunk in the reader's hand and the cursor follow each other
  without a gap. `Control` ties program counters to channel ends, `AtEnd` says what is
  known once the reader has said `Done`, `Blame` that an error was caused by a failure,
  `Count` where the two buffers are, `Prefix` what precedes a reported fault. One lemma
  per conjunct, one case per action.
* `TypeCorrect`, `BufferConservation`, `TruthfulOutcome`, `PrefixBeforeFault` follow.
* `Refinement`: every step of either mode is a step of `ChunkDelivery` or a stutter.

**Records** (`CorpusProofs`; `ShapesAssumption`, `MaximaAssumption`). For every directory,
record shape and cap, and every division into chunks:

* `ScoringInvariance`: types, `LineOfBytes`, `CapBound` and what holds before and during the
  scan (`ScoringPhases`). The chunk that completes a pending record is the hard case: cutting
  it at the bytes that were missing and at its last whole record neither loses nor moves a
  byte (`Carving`). `EveryByteOnce` and `CapNeverPassed` follow.
* `ResultCorrect`: what is returned is of the whole directory. `CorpusInv` says where in the
  joined files the bytes delivered so far end; the files' bytes are a recursive function,
  related to the listing by induction over files (`FirstFilesBytes`, `UpToGrows`).
* `FilesYieldedWhole`: the iterator yields the files it opened. `IteratorInv`: the bytes of
  the opened files are what was yielded followed by the `Rest`, the part of the open file the
  reader has not passed. `ReadersReadTheSame` puts both together.

**Installer** (`RunlibInstallProofs`). For any set of versions, any number of runs and mishaps:

* `TypeCorrect`, without conditions;
* `Invariance`: for runs one at a time that never go back to an older checkout,
  `IInv`. An honest skip is not inductive: it needs that a stamp is never ahead of its
  artefact (`StampsFollow`), which a restore of the old binary keeps only because no
  stamp is written before both commits (`Progress`) and because the backup is at least
  as new as the old stamp; undoing needs to know what has not moved yet (`Undoable`).
  `SkipHonesty`, `WholeInstall`, `UndoneUpdate` follow. Both assumptions are needed:
  `runlib_interrupted` is the counterexample once checkouts may go back.
* `OverlapInvariance`: for any number of overlapping runs of one version, killed, interrupted
  and tampered with, `OverlapInv`: what one run has established no other takes back. The
  only step that takes anything back is a restore, and a run comes to one without a failing
  step only after an interrupt that took its backup too. `OverlapSkipHonesty` and
  `OverlapWholeInstall` follow. Without `"step" \notin Mishaps` they are false (section 5).

**Topology** (`TopologyProofs`; `TopologiesAssumption`, `BatchesAssumption`: buffers are
sequences of numbers, and the typed entry point takes one topology). For buffers of any size,
length and content:

* `CyclesAreFound`: the invariant is Kahn's (`Kahn`, shared with the next one: the degree of
  a neuron is the number of edges into it still to be relaxed, and it is queued once that is
  0). At the end, the neurons never queued are closed under having a predecessor among
  themselves, which is a loop; and a loop is never queued (`RestIsLoop`, `AllQueuedNoLoop`).
* `ConsumersComeFirst`: the backward order holds each neuron once and behind all it feeds.
* `GateIsLocal`: the verdict on each topology of a batch is that of its slice; the invariant
  is that `last_to` and `last_type` are those of the slice's last synapse.
* `SlotsAreAlwaysFree`: a run of targets ascends because it is placed by rank; the blocked
  ones counted are as many as the distinct targets (a bijection), so the count beforehand is
  the number of open pairs of each source; `Emitted` says the list so far is the open pairs
  passed, in order, and the merge never skips a target (`MergeFinds`).

**Training** (`TrainingProofs`; `FixedPointAssumption`, `TrainingAssumption`,
`TrainingStateAssumption`). A call satisfies `IsCall`, what the documentation of the
backpropagation input asks of a host: lists that name synapses into the neuron, and an order
with consumers first, which is what `ConsumersComeFirst` proves of the order the code computes.

* `LoopInvariance`, from which `ErrorIsShared`, `DeltasGoWithOutcomes` and `ErrorComesComplete`
  (an action property): `TurnInOrder` places the neuron in hand, `OutcomesBehind` and
  `DeltasHanded` say what the loop has left behind it, `Silence` that a neuron still to come
  has told nothing. That shares sum to the error rests on sums as recursive functions
  (`SumStep`, `SumUpdated`) and on the corrections the distribution makes for its remainder.
* `RecordsAreKept`: each accumulator holds the total of what was reported for its record since
  it was zeroed, and nobody else's (`Kept`, for synapses and for neurons), with indices as
  large as a word.
* `LearningStaysBounded`: a learnt weight lies between the old weight and the weights asked
  for, or within one step and the limit. The mediant argument: totals of the two signs stay
  between bounds that each report adds to (`Side`, `SideQuotient`, `Blend`).
* `ZonesScaleDown`, `DecodeNeverOverruns`.

**Validation and grafting** (`CreatureProofs`, and `GraftProofs` for what grafts build;
`HostsAssumption`, `JobsAssumption`: creatures and specifications are records of the right
shape, every field arbitrary; `CeilingAssumption`, `SpanAssumption`, `NeuronIdAssumption`: the
node ceiling, the width of a span and the largest id are numbers). Hosts that ask, edit,
prune and graft in any order:

* `CreatureOrder`: `CreatureInv`. The request is what the host holds (`Mirrors`), what the
  walk has passed is fit (`NeuronsWalked`, `SynapsesWalked`, `Walked`), and no job is under
  way beside a question; a host's creature keeps its shape through edits, prunes and grafts,
  for which canonical sorting must be shown to be a permutation (`RanksTaken`).
* `AcceptedAlwaysRuns`: an accepted forward-only creature is fit to run. Strict order of
  neighbours gives order of all pairs (`FollowsOn`), and that every edge leads forward gives
  that there is no cycle (`WalkedAcyclic`).
* `GatesAlwaysAgree`: what the walk has passed the flat gates pass (`SoundAlready`).
* `PackedAlwaysReadsInside`.
* `AnswersAreTold`: `ToldInv`, the verdict as a closed form. The invariant follows the walk:
  no rule it has passed refuses (`ClearInv`), so where it stops is the first place any does.
* `ShapesAlwaysAgree`: the closed form reads a creature through its views and its vocabulary
  only. The two indices give an id the same place (`VocabulariesAgree`): an id either index
  knows is the last view to bear it. Where a key could be resolved by its UUID alone they
  differ, which is what `WireKeyed` leaves out. The views are the same unless a neuron is
  listed as an input (`ReadAlike`); then the export form stops at the first such neuron or in
  front of it (`InvalidIsFault`), where the views are still the same (`FaultBefore`), and the
  in-memory form has more inputs than the creature declares, which the count of kinds refuses
  if no rule before it has (`TooManyInputs`, `ListedJudged`).
* `PruneAlwaysFits`: `PruneInv`. What the prune keeps resolves in the edited creature, and what
  rule 31 asks is that it resolves; conversely a key that names a neuron still there is kept,
  since removing another neuron moves places and never names (`SameResolution`).
* `AcceptedAlwaysCompiles`: each rule of the compiler is implied by rules of the validator.
  The duplicates are the hard part: the validator compares neighbours in order, the compiler
  any two synapses by name; and that the span of a neuron holds exactly its synapses needs
  that `KeptOf` keeps what it is told to and nothing twice (`KeptMembers`, `InwardIs`).
* `GraftsAlwaysReadFresh`: `FreshInv`: the ends of all synapses are known, what touches a new
  neuron leads ahead, constants are apart, and the base is left when the new neurons are taken
  out. `PlacementFits` reads from the refusals what a plan that met none is like; `ShiftedIs`
  says where each neuron of the old creature stands in the new one, in the same order
  (`NeuronsGrow`), and `GrownWire` what the names resolve to, so that an edge ahead stays ahead
  (`StaysAhead`) through every further graft.
* `GraftedAlwaysAccepted`: `GraftedInv`. A creature that met no rule is `Healthy`: outputs last,
  every neuron known by an id, constants in front and read, edges that lead on
  (`AcceptedIsHealthy`); no graft takes that away (`HealthyStays`, `OutputsStayLast`). The
  remaining rules are about the wiring as a whole, and for them the result answers for
  itself: it passed the gates, so no synapse repeats and every IF is wired, and it was put in
  canonical order, so neighbours are in order and the gates read the list the walk reads
  (`BuildInOrder`, `SortedAlready`). `FitIsAccepted` goes through every rule from there. The
  conditions of the property are the ones this argument cannot do without.

**Scoring** (`ScoringProofs`; `ScoringAssumption`, `ChunkAssumption`, `WidthsAssumption`,
`ScanAssumption`). `IsNetwork` is what `from_parts` lets pass, with at least one output and
no more than the network has places. For all networks, records, batch sizes and splits:

* `ScoringInvHolds`, from which `AnswersAlwaysForget`, `LossAlwaysTakesEach`: in a forward-only
  network a pass overwrites a place before anything reads it (`Passes`, `PassForgets`), so
  the buffers' past cannot show; the groups of every kernel, of whatever width and with
  whatever tail, cover the batch once and in order (`TierAdjacent`, `SpansCover`,
  `GroupsCover`); lanes of a group do not meet (`RunInterleavedIs`, `Traced4Is`).
* `ScoresAlwaysRecordwise`: jobs that take chunks in any order write every record's answer in
  its place (`UnderWay`); `ParallelAlwaysSequential` is the statement `scoring_parallel`
  refutes, proved for forward-only networks.
* `TraceAlwaysExplains`: the traced pass tells the pair that won (`Shows`), the one of four
  lanes the same.
* `ScanAlwaysTrue`: what the scan knows are the two largest magnitudes and where they stand
  (`Known`), through every change it answers without looking again.

Only model-checked, and why:

* `EveryCallEnds`: liveness under fairness, which the provers do not do.
* Pruning: `ExactOnEveryRecord`, `WreckageIsRepaired`, `NothingGoesUnreported`,
  `ExactGradeIsTrue`, `FoldsKeepTheMean`. They compare the outputs of two creatures over a
  stream of records across rewrites that renumber neurons, through `SelectSeq` and `SortSeq`,
  which the provers do not know; the third is about what a whole cleanup, a fixed point,
  leaves.

## 5. Findings

Each with a run that shows it:

1. `stream_panic`: a comment expects a failed receive to tell the reader of the
   consumer's end; the reader holds a sender of the same channel, so it never fails.
2. `runlib_interrupted`: the interrupt handler removes the backup and the script goes on.
3. `scoring_parallel`: on a recurrent network parallel results depend on how the chunks are
   cut into jobs, against the module's documentation; nothing keeps such a network out.

Met while modelling, and the reason some properties carry a condition:

* the fold of an unfed neuron is exact in feed-forward creatures only: in a recurrent one,
  a neuron listed before the folded one reads its value a record early, and the prune is
  still graded `Exact` (`prune_cleanup.rs:1116`; `splice_identity` is guarded at 1331);
* a creature that lists a neuron of type `input` is judged differently in memory than as an
  export: `from_declared` reads that neuron as invalid, which is rule 20 unless it breaks an
  earlier one, `from_declared_runtime` as an input, which breaks another rule there (7, 10 or
  13, say) or further on, at the latest the count of inputs (21). Both refuse it. `creature_validate.rs:927-930` and
  the table at `creature_validate_runtime.rs:14-19` tell of the difference; 58-60 ("a creature
  cannot be judged differently depending on how it was described", and so
  `creature_validate_packed.rs:15-18`) does not allow for it;
* output neurons do get rewritten, in bias by a splice and in squash by the IF repair
  (`prune_cleanup.rs:1543`, against 106-107);
* two overlapping installs of one version, one of which cannot commit its library: the restore
  puts the old binary under the stamps the other has just written, which then read as
  installed (`runlib.sh:1013`, no lock is taken);
* a first install whose library cannot be committed leaves its binary behind
  (`runlib.sh:1219`, against 27-30);
* a spec whose constant no branch reads is grafted, and the validator refuses the result
  under rule 16 (`if_graft.rs:1133`, against 1123); so it does a graft that reads an output,
  one whose UUID is empty, which has no id (rule 4, `creature_validate.rs:1006`), one whose
  UUID hashes to an id in use (rule 6), and any graft when the options ask for an exact number
  of neurons or connections (rules 1 and 28);
* a neuron with `update_needed` false caches the squash of its bias alone
  (`topological_backprop.rs:575`, against 196);
* a neuron of 65,536 inward synapses wraps its 16-bit count at compilation
  (`creature.rs:968`); no rule refuses it;
* after a cap the rest of the last file is still read, and an I/O error there fails a scan
  that had all its records (`loss.rs:1601`); a read that fails part way leaves the iterator
  inside a record, with the record still counted (`training_data.rs:382`).

## 6. Not modelled

`PROJECT.json` lists every component with its status. Left out, and why:

* *Numerical kernels* (`squash*.rs`, `simd*`, `unsquash.rs`, `derivative.rs`), the loss of a
  single term, the slopes that drive SINE, COSINE and TAN: element-wise floating-point
  formulas. A model over integers would state nothing the code could break.
* *Wire formats* (`prune_json.rs`, `wasm_exports.rs`) and `topology_export.rs`: conversion
  around calls that are modelled. The two length checks that guard raw memory are modelled.
* *Decision tree ABI*: a pure walk over arrays, exact in floating-point comparison.
* *Release scripts*: each step belongs to git, GitHub, cargo or npm.
* In modelled components: `read_file`, `read_dir`, `count_records` and the seeking reader
  of `training_data.rs` (loops over the same checks, no state between calls); residual
  variance and dropped mean of a prune (reported, never read back); the choice of a
  toolchain and its E0658 retry beyond one failed build followed by one more; two installs of
  *different* versions at once; the binary loader of a compiled network.

What would come next: theorems about the rewrites of pruning, and the seeking reader beside the
iterator.
