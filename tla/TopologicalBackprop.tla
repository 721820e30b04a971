------------------------ MODULE TopologicalBackprop ------------------------
(***************************************************************************)
(* propagate_topological_loop (neat-core/src/topological_backprop.rs): the  *)
(* outputs are seeded with their errors, then every neuron of the reverse   *)
(* topological order turns the error gathered for it into errors for its    *)
(* inward links and into deltas for their accumulators.  A step begins a    *)
(* neuron, hands one link its share or ends the neuron.                     *)
(*                                                                         *)
(* A call is [neurons, syn, inward, order, expected, inputs, outputs,       *)
(* normalise]: `neurons` over 0 .. n - 1, `inward` a list of places in      *)
(* `syn` for each of them.                                                  *)
(***************************************************************************)
EXTENDS ErrorShares, WeightUpdate

VARIABLES
  call,      \* the input, NoCall between two
  pos,       \* place in reverse_topo_order
  link,      \* place in the inward list
  sum,       \* target_delta_sum
  paths,     \* target_delta_count
  outcome,   \* neurons_out
  given,     \* synapses_out
  turn       \* the neuron being processed, NoTurn between two

bvars == <<call, pos, link, sum, paths, outcome, given, turn>>

NoCall == [neurons |-> <<>>, syn |-> <<>>, inward |-> <<>>, order |-> <<>>, expected |-> <<>>,
           inputs |-> 0, outputs |-> 0, normalise |-> FALSE]
NoTurn == [at |-> -1, target |-> 0, raw |-> 0, links |-> <<>>, safe |-> <<>>, shares |-> <<>>,
           error |-> 0, improved |-> 0]
Skipped == [kind |-> "skipped", value |-> 0, frozen |-> FALSE, bias |-> NeuronZero]

Special == {"IF", "MAXIMUM", "MINIMUM"}
Terminal(n) == n.type \in {"input", "constant"}

\* NeuronInput, SynapseInput and PropagateInput.
NeuronInputs ==
  [type : {"input", "hidden", "output", "constant"}, squash : Squashes, propagate : BOOLEAN,
   update : BOOLEAN, act : Int, hint : Int, bias : Int, low : Int, high : Int]

CallTyped(c) ==
  LET n == Cardinality(DOMAIN c.neurons) IN
  /\ IsFiniteSet(DOMAIN c.neurons)
  /\ c.neurons \in [0 .. n - 1 -> NeuronInputs]
  /\ c.syn \in Seq([from : 0 .. n - 1, to : 0 .. n - 1, weight : Int, original : Int, self : BOOLEAN])
  /\ c.inward \in [0 .. n - 1 -> Seq(Nat)]
  /\ c.order \in Seq(Nat) /\ c.expected \in Seq(Int)
  /\ c.inputs \in Nat /\ c.outputs \in 0 .. n /\ c.normalise \in BOOLEAN

\* A neuron's inward list has its own synapses, each once, and no output is an
\* input or a constant.
Wired(c) ==
  /\ \A v \in DOMAIN c.neurons :
       /\ IsInjective(c.inward[v])
       /\ \A i \in DOMAIN c.inward[v] : c.inward[v][i] \in DOMAIN c.syn => c.syn[c.inward[v][i]].to = v
       /\ v >= Cardinality(DOMAIN c.neurons) - c.outputs => ~Terminal(c.neurons[v])

\* reverse_topo_order: every neuron once, its consumers before it.
ConsumersFirst(c) ==
  /\ IsInjective(c.order)
  /\ \A p \in DOMAIN c.order : c.order[p] \in DOMAIN c.neurons =>
       \A i \in DOMAIN c.inward[c.order[p]] :
         LET k == c.inward[c.order[p]][i] IN
         k \in DOMAIN c.syn /\ ~c.syn[k].self => \A q \in 1 .. p : c.order[q] # c.syn[k].from

IsCall(c) == CallTyped(c) /\ Wired(c) /\ ConsumersFirst(c)

BackpropInit ==
  /\ call = NoCall /\ pos = 0 /\ link = 0
  /\ sum = <<>> /\ paths = <<>> /\ outcome = <<>> /\ given = <<>> /\ turn = NoTurn

\* The outputs are the last neurons; an output without an expected value gets 0.
Seeded(c) ==
  LET first == Cardinality(DOMAIN c.neurons) - c.outputs IN
  {v \in DOMAIN c.neurons : v >= first /\ c.neurons[v].propagate}

Seed(c, v) ==
  LET i == v - (Cardinality(DOMAIN c.neurons) - c.outputs) + 1
  IN (IF i <= Len(c.expected) THEN c.expected[i] ELSE 0) - c.neurons[v].act

StartCall(c) ==
  /\ call = NoCall
  /\ call' = c /\ pos' = 1 /\ link' = 0 /\ turn' = NoTurn
  /\ sum' = [v \in DOMAIN c.neurons |-> IF v \in Seeded(c) THEN Seed(c, v) ELSE 0]
  /\ paths' = [v \in DOMAIN c.neurons |-> IF v \in Seeded(c) THEN 1 ELSE 0]
  /\ outcome' = [v \in DOMAIN c.neurons |-> Skipped]
  /\ given' = [k \in DOMAIN c.syn |-> SynapseZero]

-----------------------------------------------------------------------------
(* One neuron *)

\* The activation the neuron is asked for, within its range.
Target(v) ==
  LET n == call.neurons[v]
      wanted == IF call.normalise /\ paths[v] > 1 THEN OverRoot(sum[v], paths[v]) ELSE sum[v]
  IN Clamped(n.act + wanted, n.low, n.high)

\* A self-loop, or a place that is no synapse, is a link of nothing.
Blocked(k) == k \in DOMAIN call.syn => call.syn[k].self

LinkOf(k) ==
  IF Blocked(k) THEN [squash |-> "IDENTITY", hint |-> 0, act |-> 0, weight |-> 0]
  ELSE LET n == call.neurons[call.syn[k].from] IN
       [squash |-> IF Terminal(n) \/ ~n.propagate THEN "IDENTITY" ELSE n.squash,
        hint |-> IF Terminal(n) \/ ~n.propagate THEN 0 ELSE n.hint,
        act |-> n.act, weight |-> call.syn[k].weight]

\* Fused distribution; where no link is safe the elastic one, every link safe.
TurnOf(v) ==
  LET n == call.neurons[v]
      list == call.inward[v]
      links == [i \in 1 .. Len(list) |-> LinkOf(list[i])]
      fused == Fused(n.squash, n.act, Target(v), n.hint, links)
      safe == [i \in 1 .. Len(list) |-> IF Blocked(list[i]) THEN 0 ELSE fused.safe[i]]
      usable == \E i \in 1 .. Len(list) : safe[i] > Plank
  IN [NoTurn EXCEPT
        !.at = v, !.target = Target(v), !.raw = Magnitude(Target(v) - n.act),
        !.links = links, !.improved = n.bias,
        !.error = IF list = <<>> THEN 0 ELSE fused.error,
        !.safe = IF list = <<>> THEN <<>> ELSE safe,
        !.shares = IF list = <<>> THEN <<>>
                   ELSE IF usable THEN fused.shares
                   ELSE Elastic(fused.error, [i \in 1 .. Len(list) |-> links[i].act],
                                [i \in 1 .. Len(list) |-> One],
                                [i \in 1 .. Len(list) |-> links[i].weight])]

NextNeuron == pos' = pos + 1 /\ UNCHANGED <<call, link, sum, paths, given, turn>>

\* Nobody to process, no error heard, or left out by the sparse configuration.
PassNeuron ==
  /\ call # NoCall /\ turn = NoTurn /\ pos <= Len(call.order)
  /\ \/ call.order[pos] \notin DOMAIN call.neurons
     \/ /\ call.order[pos] \in DOMAIN call.neurons
        /\ \/ paths[call.order[pos]] = 0
           \/ ~call.neurons[call.order[pos]].propagate
  /\ NextNeuron /\ UNCHANGED outcome

Due ==
  /\ call # NoCall /\ turn = NoTurn /\ pos <= Len(call.order)
  /\ call.order[pos] \in DOMAIN call.neurons
  /\ paths[call.order[pos]] > 0
  /\ call.neurons[call.order[pos]].propagate

TooSmall(v) == Magnitude(Target(v) - call.neurons[v].act) < Plank

LeaveNeuron ==
  /\ Due
  /\ LET v == call.order[pos]
         n == call.neurons[v]
     IN \/ /\ TooSmall(v)
           /\ outcome' = [outcome EXCEPT ![v] = [Skipped EXCEPT !.kind = "noChange", !.value = n.act]]
        \/ /\ ~TooSmall(v) /\ n.squash \in Special
           /\ outcome' = [outcome EXCEPT ![v] = [Skipped EXCEPT !.kind = "special", !.value = Target(v)]]
  /\ NextNeuron

BeginNeuron ==
  /\ Due
  /\ LET v == call.order[pos] IN
     /\ ~TooSmall(v) /\ call.neurons[v].squash \notin Special
     /\ turn' = TurnOf(v)
  /\ link' = 1
  /\ UNCHANGED <<call, pos, sum, paths, outcome, given>>

-----------------------------------------------------------------------------
(* One link *)

\* The source's own activation that would carry the link's share, a weight at
\* the plank or below counted as the plank.
SourceTarget(l, share) ==
  Over(Times(l.weight, l.act) + share,
       IF Magnitude(l.weight) > Plank THEN l.weight ELSE IF l.weight < 0 THEN -Plank ELSE Plank)

IsCredited(s, i) ==
  /\ ~Terminal(call.neurons[s.from]) /\ call.neurons[s.from].propagate
  /\ Magnitude(turn.shares[i]) > Plank
  /\ turn.safe[i] > 0
  /\ s.from >= call.inputs

\* What the source is credited with: its target, within its range.
Credit(s, i) ==
  LET n == call.neurons[s.from] IN
  Clamped(SourceTarget(turn.links[i], turn.shares[i]), n.low, n.high) - turn.links[i].act

\* Mutant: the neuron being processed hears of it again.
CreditedAtTarget(s) == turn.at

Credited(s) == s.from

\* Mutant: a frozen neuron's synapses learn too.
LearnsAlways(l) == Magnitude(l.act) > Plank

Learns(l) == call.neurons[turn.at].update /\ Magnitude(l.act) > Plank

HandLink ==
  /\ turn # NoTurn /\ link <= Len(turn.links)
  /\ LET k == call.inward[turn.at][link]
         l == turn.links[link]
     IN \/ Blocked(k) /\ UNCHANGED <<sum, paths, given, turn>>
        \/ /\ ~Blocked(k)
           /\ LET s == call.syn[k]
                  u == Credited(s)
              IN IF IsCredited(s, link)
                   THEN /\ sum' = [sum EXCEPT ![u] = @ + Credit(s, link)]
                        /\ paths' = [paths EXCEPT ![u] = @ + 1]
                   ELSE UNCHANGED <<sum, paths>>
           /\ IF Learns(l)
                THEN /\ given' = [given EXCEPT ![k] =
                          Plus(@, WeightDelta(call.syn[k].original,
                                              Times(l.weight, l.act) + turn.shares[link], l.act))]
                     /\ turn' = [turn EXCEPT !.improved = @ + Times(l.act, l.weight)]
                ELSE UNCHANGED <<given, turn>>
  /\ link' = link + 1
  /\ UNCHANGED <<call, pos, outcome>>

\* apply_squash and apply_unsquash, of the squashes processed here.
Squash(q, x) == IF q = "RELU" /\ x < 0 THEN 0 ELSE x
Unsquash(q, a, hint) == IF q = "RELU" /\ a <= 0 THEN hint ELSE a

EndNeuron ==
  /\ turn # NoTurn /\ link > Len(turn.links)
  /\ LET n == call.neurons[turn.at] IN
     outcome' = [outcome EXCEPT ![turn.at] =
       [kind |-> "standard", value |-> Squash(n.squash, turn.improved), frozen |-> ~n.update,
        bias |-> IF n.update
                   THEN BiasDelta(Unsquash(n.squash, turn.target, n.hint), turn.improved, n.bias)
                   ELSE NeuronZero]]
  /\ turn' = NoTurn /\ pos' = pos + 1 /\ link' = 0
  /\ UNCHANGED <<call, sum, paths, given>>

EndCall ==
  /\ call # NoCall /\ turn = NoTurn /\ pos > Len(call.order)
  /\ call' = NoCall /\ pos' = 0
  /\ UNCHANGED <<link, sum, paths, outcome, given, turn>>

BackpropNext == PassNeuron \/ LeaveNeuron \/ BeginNeuron \/ HandLink \/ EndNeuron \/ EndCall

-----------------------------------------------------------------------------
\* A neuron whose turn has begun is never handed more error: what it was asked
\* for and passed on was everything (reverse_topo_order, consumers first).
Past == IF call = NoCall THEN {}
        ELSE ToSet(SubSeq(call.order, 1, IF turn = NoTurn THEN pos - 1 ELSE pos))

CompleteError ==
  [][call' = call /\ call # NoCall =>
       \A v \in Past \cap DOMAIN call.neurons : sum'[v] = sum[v] /\ paths'[v] = paths[v]]_bvars

\* The shares of a neuron's error sum to it, and a link that is blocked has
\* one only when neither activations nor weights can tell the links apart.
SharesSumToError ==
  turn # NoTurn /\ turn.links # <<>> =>
    LET even == \A i, j \in 1 .. Len(turn.shares) : turn.shares[i] = turn.shares[j]
        left == Magnitude(turn.error - SumOf(turn.shares))
    IN /\ left <= Plank \/ (even /\ left <= Len(turn.links))
       /\ \A i \in 1 .. Len(turn.links) :
            Blocked(call.inward[turn.at][i]) => turn.shares[i] = 0 \/ even

\* A synapse learns once, and only into a neuron that was processed to its end
\* and is not frozen; a neuron left out is credited with nothing.
DeltasFollowOutcomes ==
  call # NoCall =>
    /\ \A k \in DOMAIN call.syn :
         /\ given[k].count <= 1
         /\ given[k].count = 1 =>
              \/ turn.at = call.syn[k].to
              \/ outcome[call.syn[k].to].kind = "standard" /\ ~outcome[call.syn[k].to].frozen
    /\ \A v \in DOMAIN call.neurons :
         Terminal(call.neurons[v]) \/ ~call.neurons[v].propagate => paths[v] = 0 /\ sum[v] = 0

=============================================================================
