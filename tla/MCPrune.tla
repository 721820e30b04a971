------------------------------- MODULE MCPrune -------------------------------
(***************************************************************************)
(* Small creatures and requests for Prune: a constant, two hidden neurons   *)
(* and an output; every squash at the neuron a cut lands on, every cut, and *)
(* statistics that are missing, right for some record, or wrong.            *)
(***************************************************************************)
EXTENDS Prune

MCInputs == <<"i">>
MCStream == << [i |-> -2], [i |-> 0], [i |-> 3] >>
MCSupportNames == <<"s0", "s1">>

Plainly(from, to, w) == Row(from, to, "standard", w)
Chosen(pool, S) ==
  LET held == SelectSeq([i \in DOMAIN pool |-> i], LAMBDA i : i \in S)
  IN [k \in DOMAIN held |-> pool[held[k]]]

\* Rows in the order a valid creature lists them (inputs, then neurons).
PlainPool == <<Plainly("i", "h", 2), Plainly("i", "g", -1), Plainly("c", "h", 3),
               Plainly("c", "g", 1), Plainly("c", "o", 2), Plainly("h", "g", -2),
               Plainly("h", "o", -1), Plainly("g", "o", 3)>>
TypedPool == <<Plainly("i", "h", 2), Row("i", "g", "condition", 1),
               Row("c", "g", "condition", 1), Row("c", "g", "negative", -1),
               Plainly("c", "o", 2), Row("h", "g", "negative", 2),
               Row("h", "g", "positive", 3), Plainly("g", "o", 3)>>

Build(sh, sg, bg, rows) ==
  [neurons |-> << Neuron("c", "constant", NoSquash, 1), Neuron("h", "hidden", sh, 1),
                  Neuron("g", "hidden", sg, bg), Neuron("o", "output", "IDENTITY", 1) >>,
   synapses |-> rows, forwardOnly |-> TRUE]

\* A hidden neuron without a feed is not valid, but cutters are handed some.
Acceptable(c) == Valid([c EXCEPT !.synapses =
  IF Inward(c, "h") = <<>> THEN <<Plainly("i", "h", 1)>> \o @ ELSE @])

Creatures ==
  {c \in {Build("IDENTITY", sg, 1, Chosen(PlainPool, S \cup {5, 8})) :
            sg \in (Aggregates \cup {"RELU"}) \ {"IF"}, S \in SUBSET {1, 2, 3, 4, 6, 7}}
         \cup {Build("RELU", "HYPOT", 0, Chosen(PlainPool, S \cup {1, 5, 8})) : S \in SUBSET {2, 6}}
         \cup {Build("RELU", "IF", 1, Chosen(TypedPool, S \cup {5, 8})) :
                 S \in SUBSET {1, 2, 3, 4, 6, 7}} : Acceptable(c)}

\* What the caller may know of the source: nothing, its mean, how it follows i.
Facts == { {}, {[mean |-> 1, variance |-> {}, proxy |-> {}]},
           {[mean |-> 1, variance |-> {36},
             proxy |-> {[uuid |-> "i", mean |-> 0, variance |-> 2, covariance |-> 4]}]} }
\* A negative variance, a proxy that does not vary or varies too little, a
\* proxy nobody knows.
Proxied(v, uuid) == [mean |-> 1, variance |-> {1},
                     proxy |-> {[uuid |-> uuid, mean |-> 0, variance |-> v, covariance |-> 4]}]
Nonsense == { {[mean |-> 1, variance |-> {-1}, proxy |-> {}]},
              {Proxied(0, "i")}, {Proxied(1, "i")}, {Proxied(20, "x")} }

Keys(c) == RowsOf(c) \cup {Plainly("i", "x", 0), Plainly("g", "h", 0)}
Cuts(c) == [creature : {c}, neuron : {"h", "g"}, stats : Facts]
             \cup [creature : {c}, key : Keys(c), stats : Facts]
             \cup [creature : {c}, neuron : {"c", "o", "x"}, stats : {{}}]
Sample == CHOOSE c \in Creatures : Inward(c, "g") # <<>> /\ Outward(c, "h") # <<>>
MCPrunings == UNION {Cuts(c) : c \in Creatures} \cup [creature : {Sample}, neuron : {"h"}, stats : Nonsense]

-----------------------------------------------------------------------------
(* Creatures handed to the cleanup as they are: two constants, two hidden     *)
(* neurons and an output, every choice of rows, every squash between them.    *)

WreckPool == <<Plainly("i", "h", 2), Plainly("c1", "h", 3), Plainly("i", "g", 1),
               Plainly("c2", "g", 2), Plainly("h", "g", 2), Plainly("h", "o", 1),
               Plainly("c2", "o", -1), Plainly("c1", "o", 4)>>
\* Rows of which some share a pair, some even a readable key of an IF.
IfWreckPool == <<Plainly("i", "h", 2), Row("i", "g", "condition", 1),
               Row("c1", "g", "condition", -1), Row("h", "g", "positive", 2),
               Row("c2", "g", "standard", 1), Row("h", "g", "negative", 3),
               Row("c2", "g", "positive", 5), Plainly("c1", "o", 2)>>
Rewriting == [ifRepair |-> "rewrite", splice |-> TRUE]
Parity == [ifRepair |-> "downgrade", splice |-> FALSE]

Wreck(sg, so, bh, rows) ==
  [neurons |-> << Neuron("c1", "constant", NoSquash, 1), Neuron("c2", "constant", NoSquash, -2),
                  Neuron("h", "hidden", "IDENTITY", bh), Neuron("g", "hidden", sg, 1),
                  Neuron("o", "output", so, 0) >>,
   synapses |-> Append(rows, Plainly("g", "o", 3)),
   forwardOnly |-> TRUE]

PlainWrecks ==
  {Wreck(sg, so[1], so[2], Chosen(WreckPool, S \cup {8})) :
     sg \in (Aggregates \ {"IF"}) \cup PointWise,
     so \in {<<"IDENTITY", 2>>, <<"MAXIMUM", 0>>, <<"MEAN", 2>>}, S \in SUBSET (1 .. 7)}
IfWrecks ==
  {Wreck("IF", "MINIMUM", bh, Chosen(IfWreckPool, S)) : bh \in {0, 2}, S \in SUBSET (DOMAIN IfWreckPool)}

\* No constant at all, so that a restored role has to mint one.
Unsupported ==
  {[neurons |-> << Neuron("h", "hidden", "RELU", b), Neuron("g", "output", "IF", 0) >>,
    synapses |-> <<Row("i", "h", "standard", 1), Row("i", "g", "condition", 1), Row("h", "g", role, 2)>>,
    forwardOnly |-> TRUE] : b \in {0, 1}, role \in {"positive", "negative", "condition"}}

\* What no cut leaves: an edge that points backwards, one into an input, one
\* from nowhere, two rows on one key, weights at the end of the range.
Unsound ==
  {[neurons |-> << Neuron("h", "hidden", "RELU", b), Neuron("g", "hidden", "RELU", 1),
                   Neuron("c", "constant", "IDENTITY", 3000), Neuron("o", "output", "IDENTITY", 0) >>,
    synapses |-> <<Plainly("i", "h", 1), Plainly("h", "o", w), Plainly("c", "o", w), Plainly("g", "o", 1), row>>,
    forwardOnly |-> TRUE] :
     b \in {1, 2500}, w \in {1, 2}, row \in {Plainly("g", "h", 3), Plainly("o", "g", 1), Plainly("g", "i", 1), Plainly("x", "h", 1)}}
Doubled ==
  {[neurons |-> << Neuron("c", "constant", NoSquash, 1), Neuron("o", "output", squash, 0) >>,
    synapses |-> <<Plainly(from, "o", 1), Plainly(from, "o", 2)>>, forwardOnly |-> TRUE] :
     from \in {"i", "c"}, squash \in {"MINIMUM", "MEAN", "RELU"}}
Saturated ==
  {[neurons |-> << Neuron("h", "hidden", "IDENTITY", b), Neuron("o", "output", "IDENTITY", 0) >>,
    synapses |-> rows, forwardOnly |-> TRUE] :
     b \in {1, 3000}, rows \in {<<Plainly("h", "o", 2)>>, <<Plainly("i", "h", 2), Plainly("h", "o", 1000)>>}}

MCRequests ==
  [creature : PlainWrecks \cup IfWrecks \cup Unsupported \cup Unsound \cup Doubled \cup Saturated,
   options : {Rewriting}]
  \cup [creature : IfWrecks \cup Unsupported, options : {Parity}]
=============================================================================
