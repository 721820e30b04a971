----------------------------- MODULE MCTraining -----------------------------
(***************************************************************************)
(* One unit of 1/4 with the plank at one of them.  Backpropagation over a   *)
(* creature of an input 0, a constant 1, hidden 2 and 3 and outputs 4 and 5 *)
(* (2 feeds 3 and 4, 3 feeds 4 and 5), with a self-loop on 3 and a place in *)
(* its inward list that is no synapse.                                      *)
(***************************************************************************)
EXTENDS Training

Neuron(t, q, p, u, a) ==
  [type |-> t, squash |-> q, propagate |-> p, update |-> u, act |-> a, hint |-> a,
   bias |-> 1, low |-> IF q = "RELU" THEN 0 ELSE -8, high |-> 8]
Syn(f, t, w) == [from |-> f, to |-> t, weight |-> w, original |-> w, self |-> f = t]

Wires(w1, w2, w3) ==
  << Syn(0, 2, w1), Syn(1, 3, 4), Syn(2, 3, w2), Syn(2, 4, w3), Syn(3, 3, 4), Syn(3, 4, w1), Syn(3, 5, w3) >>
Inward == [v \in 0 .. 5 |->
  CASE v = 2 -> <<1>> [] v = 3 -> <<2, 3, 5, 99>> [] v = 4 -> <<4, 6>> [] v = 5 -> <<7>> [] OTHER -> <<>>]

Call(h2, h3, o4, w1, w2, w3, order, expected, norm) ==
  [neurons |-> [v \in 0 .. 5 |->
     CASE v = 0 -> Neuron("input", "IDENTITY", TRUE, TRUE, 4)
       [] v = 1 -> Neuron("constant", "IDENTITY", TRUE, TRUE, 2)
       [] v = 2 -> h2 [] v = 3 -> h3 [] v = 4 -> o4
       [] v = 5 -> Neuron("output", "IDENTITY", TRUE, TRUE, 1)],
   syn |-> Wires(w1, w2, w3), inward |-> Inward, order |-> order, expected |-> expected,
   inputs |-> 1, outputs |-> 2, normalise |-> norm]

Hidden == {Neuron("hidden", q, TRUE, TRUE, a) : q \in {"IDENTITY", "RELU"}, a \in {0, 4}}
            \cup {Neuron("hidden", "BIPOLAR", TRUE, TRUE, 4), Neuron("hidden", "MAXIMUM", TRUE, TRUE, 4),
                  Neuron("hidden", "IDENTITY", FALSE, TRUE, 4), Neuron("hidden", "IDENTITY", TRUE, FALSE, -4)}
MCCalls ==
  {Call(h2, h3, Neuron("output", "IDENTITY", TRUE, u, 0), w1, -3, w3,
        IF norm THEN <<5, 4, 3, 2>> ELSE <<4, 5, 9, 3, 2>>, expected, norm) :
     h2 \in Hidden, h3 \in Hidden, u \in {TRUE, FALSE}, w1 \in {0, 4}, w3 \in {1, 6},
     expected \in {<<8, -20>>, <<1>>, <<-6, 3>>}, norm \in BOOLEAN}

MCZones ==
  [squash : {"SOFTPLUS", "TANH", "CUBE", "COMPLEMENT", "BIPOLAR", "IDENTITY", "RELU", "RELU6",
             "ArcTan", "STEP", "ABSOLUTE", "SQRT"},
   raw : {4 * k - 1 : k \in -25 .. 32} \cup {0, 8, 24, 80}, error : {-3, 3}, weight : {-50, 0, 4}]

MCBuffers ==
  [bytes : {20, 36, 60, 80, 200}, neurons : {0, 1, 5, 7, 8}, synapses : {0, 1, 6, 11, 12},
   inward : {0, 1, 60}, order : {0, 59}, outputs : {0, 1}]

Item(c, t, a) == [current |-> c, target |-> t, act |-> a]
MCSynapseItems == {Item(4, 9, 2), Item(4, -6, -3), Item(4, 5, 1), Item(4, NotFinite, 2)}
Bias(t, p, c) == [target |-> t, pre |-> p, current |-> c]
MCNeuronItems == {Bias(40, 2, 3), Bias(-9, 2, 3), Bias(-60, 0, 0), Bias(NotFinite, 2, 3)}
MCUpdates ==
  {[current |-> c,
    config |-> [generations |-> g, rate |-> 2, maxStep |-> 5, limit |-> 12, l1 |-> 1, l2 |-> 1]] :
     c \in {-20, 6}, g \in {0, 10}}
=============================================================================
