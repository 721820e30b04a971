---------------------------- MODULE ForwardPass ----------------------------
(***************************************************************************)
(* The forward pass of a compiled network over activation buffers           *)
(* (neat-core/src/network.rs and batch_scoring.rs).  A network is [inputs,   *)
(* outputs, neurons]; its neurons, [squash, bias, constant, in], are those   *)
(* behind the inputs in evaluation order, and `in` lists their synapses,     *)
(* [from, weight, role], `from` an index into the buffer.  Values are        *)
(* integers: what is checked is which values reach which sum.               *)
(***************************************************************************)
EXTENDS Integers, Sequences, FiniteSets, SequencesExt

CONSTANT Large     \* F32_LARGE

ASSUME LargeAssumption == Large \in Nat \ {0}

Aggregates == {"MINIMUM", "MAXIMUM", "IF", "MEAN", "HYPOT", "HYPOTv2"}
Roles == {"standard", "condition", "positive", "negative"}

NodeCount(net) == net.inputs + Len(net.neurons)
Zeros(net) == [i \in 1 .. NodeCount(net) |-> 0]
Indices(s) == [k \in 1 .. Len(s) |-> k]

\* What from_parts lets pass: every source names a place of the buffer.  A
\* caller asks for an output at least - a parallel call panics on none, a loss
\* is 0 unread - and for no more than the buffer holds: the slice panics.
IsNetwork(net) ==
  /\ net.inputs \in Nat /\ net.outputs \in 1 .. NodeCount(net)
  /\ net.neurons \in Seq([squash : STRING, bias : Int, constant : BOOLEAN,
                          in : Seq([from : 1 .. NodeCount(net), weight : Int, role : Roles])])

\* No synapse reads at or behind its own neuron.
ForwardOnly(net) ==
  \A i \in 1 .. Len(net.neurons) : \A s \in ToSet(net.neurons[i].in) : s.from < net.inputs + i

HasAggregateSquash(net) ==
  \E i \in 1 .. Len(net.neurons) : ~net.neurons[i].constant /\ net.neurons[i].squash \in Aggregates

-----------------------------------------------------------------------------
(* Single values *)

Low(squash) == IF squash \in {"RELU", "ABSOLUTE", "HYPOTv2"} THEN 0 ELSE -Large

\* apply_limit_range over the range of the squash.
Limited(squash, x) == IF x > Large THEN Large ELSE IF x < Low(squash) THEN Low(squash) ELSE x

Squash(squash, x) ==
  CASE squash = "RELU" -> IF x > 0 THEN x ELSE 0
    [] squash = "ABSOLUTE" -> IF x < 0 THEN -x ELSE x
    [] OTHER -> x

Root(x) == CHOOSE r \in 0 .. x : r * r <= x /\ x < (r + 1) * (r + 1)
Total(s) ==
  LET upTo[k \in 0 .. Len(s)] == IF k = 0 THEN 0 ELSE upTo[k - 1] + s[k] IN upTo[Len(s)]
Terms(act, n) == [k \in 1 .. Len(n.in) |-> act[n.in[k].from] * n.in[k].weight]
Least(s) == CHOOSE x \in ToSet(s) : \A y \in ToSet(s) : x <= y
Greatest(s) == CHOOSE x \in ToSet(s) : \A y \in ToSet(s) : x >= y

\* What a branch of an IF neuron sums up.
Arm(act, n, roles) ==
  Total([k \in 1 .. Len(n.in) |-> IF n.in[k].role \in roles THEN Terms(act, n)[k] ELSE 0])
TakesPositive(act, n) == Arm(act, n, {"condition"}) > 0
Taken(act, n) ==
  Arm(act, n, IF TakesPositive(act, n) THEN {"positive", "standard"} ELSE {"negative"})

Squares(act, n, shift) ==
  Total([k \in 1 .. Len(n.in) |-> (shift + Terms(act, n)[k]) * (shift + Terms(act, n)[k])])

Aggregate(act, n) ==
  CASE n.squash = "IF" -> n.bias + Taken(act, n)
    [] n.squash = "HYPOT" -> n.bias + Root(Squares(act, n, 0))
    [] n.squash = "HYPOTv2" -> Root(Squares(act, n, n.bias))
    [] n.squash = "MINIMUM" -> n.bias + (IF n.in = <<>> THEN 0 ELSE Least(Terms(act, n)))
    [] n.squash = "MAXIMUM" -> n.bias + (IF n.in = <<>> THEN 0 ELSE Greatest(Terms(act, n)))
    [] n.squash = "MEAN" -> n.bias + (IF n.in = <<>> THEN 0 ELSE Total(Terms(act, n)) \div Len(n.in))

WeightedSum(act, n) == n.bias + Total(Terms(act, n))

\* The kernels of a full group, which know sums only.
Standard(act, n) ==
  IF n.constant THEN Limited("IDENTITY", n.bias)
  ELSE Limited(n.squash, Squash(n.squash, WeightedSum(act, n)))

\* neuron_activation_scalar.
Scalar(act, n) ==
  IF ~n.constant /\ n.squash \in Aggregates THEN Limited(n.squash, Aggregate(act, n))
  ELSE Standard(act, n)

-----------------------------------------------------------------------------
(* A record through a buffer *)

\* Mutant: slots the record does not cover keep what they hold.
LoadCovered(net, act, record) ==
  [i \in 1 .. Len(act) |-> IF i <= net.inputs /\ i <= Len(record) THEN record[i] ELSE act[i]]

\* load_record: what the record does not cover is zeroed, what is left over of
\* it is not read.
Load(net, act, record) ==
  [i \in 1 .. Len(act) |->
     IF i > net.inputs THEN act[i] ELSE IF i <= Len(record) THEN record[i] ELSE 0]

Put(s, at, x) == [k \in 1 .. Len(s) |-> IF k = at THEN x ELSE s[k]]

\* The neurons in order, each over what the buffer holds by then.
Pass(net, act) ==
  LET after[i \in 0 .. Len(net.neurons)] ==
        IF i = 0 THEN act
        ELSE LET a == after[i - 1] IN Put(a, net.inputs + i, Scalar(a, net.neurons[i]))
  IN after[Len(net.neurons)]

\* `count` outputs, from the end of the buffer.
Outputs(net, act) == SubSeq(act, Len(act) - net.outputs + 1, Len(act))

\* What a fresh network answers a record.
Lone(net, record) == Outputs(net, Pass(net, Load(net, Zeros(net), record)))

-----------------------------------------------------------------------------
(* The traced pass: [act, hints, trace] *)

\* Place, from 0, of the first term that is least (sign 1) or greatest (-1).
Winner(s, sign) ==
  IF s = <<>> THEN 0
  ELSE (CHOOSE k \in 1 .. Len(s) : /\ \A j \in 1 .. Len(s) : sign * s[k] <= sign * s[j]
                                   /\ \A j \in 1 .. k - 1 : s[j] # s[k]) - 1

\* Mutant: a condition of zero is told as the positive branch.
MarkZeroTaken(act, n) ==
  CASE n.squash = "MINIMUM" -> Winner(Terms(act, n), 1)
    [] n.squash = "MAXIMUM" -> Winner(Terms(act, n), -1)
    [] n.squash = "IF" -> IF Arm(act, n, {"condition"}) >= 0 THEN 1 ELSE 0
    [] OTHER -> 0

\* What the trace says of an aggregate.
Mark(act, n) ==
  CASE n.squash = "MINIMUM" -> Winner(Terms(act, n), 1)
    [] n.squash = "MAXIMUM" -> Winner(Terms(act, n), -1)
    [] n.squash = "IF" -> IF TakesPositive(act, n) THEN 1 ELSE 0
    [] OTHER -> 0

\* What neuron i leaves: its value, its hint and its pair of the trace.
Told(net, t, i, value, hint, pair) ==
  [act |-> Put(t.act, net.inputs + i, value), hints |-> Put(t.hints, i, hint),
   trace |-> t.trace \o pair]

\* A constant is not limited here; an aggregate's hint is its activation.
Traced(net, t, i) ==
  LET n == net.neurons[i] IN
  IF n.constant THEN Told(net, t, i, n.bias, n.bias, <<>>)
  ELSE IF n.squash \in Aggregates
         THEN Told(net, t, i, Scalar(t.act, n), Scalar(t.act, n), <<i - 1, Mark(t.act, n)>>)
  ELSE Told(net, t, i, Scalar(t.act, n), WeightedSum(t.act, n), <<>>)

Untold(net, act) == [act |-> act, hints |-> [i \in 1 .. Len(net.neurons) |-> 0], trace |-> <<>>]
Ended(t) == [t EXCEPT !.trace = Append(@, -1)]

TracePass(net, act) ==
  LET after[i \in 0 .. Len(net.neurons)] ==
        IF i = 0 THEN Untold(net, act) ELSE LET t == after[i - 1] IN Traced(net, t, i)
  IN Ended(after[Len(net.neurons)])

\* What activate_and_trace hands back.
TraceReply(net, t) ==
  [outputs |-> Outputs(net, t.act), acts |-> SubSeq(t.act, net.inputs + 1, Len(t.act)),
   hints |-> t.hints, trace |-> t.trace]

-----------------------------------------------------------------------------
(* The traced pass over a group of records, neuron by neuron.  The kernels   *)
(* return the [value, mark] of a lane.                                      *)

\* process_minimum_4way, process_maximum_4way: the first term to be less (sign
\* 1) or greater (-1) than those before it.
Extreme4(act, n, sign) ==
  LET best[k \in 0 .. Len(n.in)] ==
        IF k = 0 THEN [seen |-> FALSE, value |-> 0, at |-> 0]
        ELSE LET b == best[k - 1]
                 v == Terms(act, n)[k]
             IN IF ~b.seen \/ sign * v < sign * b.value
                  THEN [seen |-> TRUE, value |-> v, at |-> k - 1] ELSE b
  IN [value |-> n.bias + best[Len(n.in)].value, mark |-> best[Len(n.in)].at]

Minimum4(act, n) == Extreme4(act, n, 1)
Maximum4(act, n) == Extreme4(act, n, -1)

If4(act, n) ==
  IF Arm(act, n, {"condition"}) > 0
    THEN [value |-> n.bias + Arm(act, n, {"positive", "standard"}), mark |-> 1]
  ELSE [value |-> n.bias + Arm(act, n, {"negative"}), mark |-> 0]

Hypotenuse4(act, n) == [value |-> n.bias + Root(Squares(act, n, 0)), mark |-> 0]
HypotenuseV24(act, n) == [value |-> Root(Squares(act, n, n.bias)), mark |-> 0]

Mean4(act, n) ==
  [value |-> n.bias + (IF n.in = <<>> THEN 0 ELSE Total(Terms(act, n)) \div Len(n.in)),
   mark |-> 0]

Aggregate4(act, n) ==
  CASE n.squash = "MINIMUM" -> Minimum4(act, n)
    [] n.squash = "MAXIMUM" -> Maximum4(act, n)
    [] n.squash = "IF" -> If4(act, n)
    [] n.squash = "HYPOT" -> Hypotenuse4(act, n)
    [] n.squash = "HYPOTv2" -> HypotenuseV24(act, n)
    [] n.squash = "MEAN" -> Mean4(act, n)

\* One neuron of every lane.
Traced4(net, lanes, i) ==
  LET n == net.neurons[i]
      lane(t) ==
        IF ~n.constant /\ n.squash \in Aggregates
          THEN LET got == Aggregate4(t.act, n)
                   value == Limited(n.squash, got.value)
               IN Told(net, t, i, value, value, <<i - 1, got.mark>>)
        ELSE IF n.constant THEN Told(net, t, i, n.bias, n.bias, <<>>)
        ELSE Told(net, t, i, Standard(t.act, n), WeightedSum(t.act, n), <<>>)
  IN [r \in 1 .. Len(lanes) |-> lane(lanes[r])]

\* activate_and_trace_batch_4way: every buffer zeroed, then loaded.
TracePass4(net, records) ==
  LET after[i \in 0 .. Len(net.neurons)] ==
        IF i = 0 THEN [r \in 1 .. Len(records) |-> Untold(net, Load(net, Zeros(net), records[r]))]
        ELSE LET lanes == after[i - 1] IN Traced4(net, lanes, i)
  IN [r \in 1 .. Len(records) |-> Ended(after[Len(net.neurons)][r])]
=============================================================================
