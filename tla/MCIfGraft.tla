------------------------------ MODULE MCIfGraft ------------------------------
(***************************************************************************)
(* Small creatures with nothing to graft, in families: every synapse list   *)
(* of up to two over one input and two neurons; sorted lists of up to four  *)
(* with roles into an IF neuron; every order of three neuron types; ids,    *)
(* biases and widths as only the memory form can carry them; memetic        *)
(* records of both forms; packed buffers whose header lies.                 *)
(*                                                                         *)
(* And small bases (a constant, a hidden neuron or an IF neuron between two *)
(* inputs and one or two outputs; recurrent, misordered and malformed ones) *)
(* with every way to graft: single nodes over all short edge lists, relays, *)
(* corrections, and two nodes as a tree or a batch.                         *)
(***************************************************************************)
EXTENDS IfGraft

MCInputNames == [i \in 0 .. 9 |-> <<"input-0", "input-1", "input-2", "input-3", "input-4",
                                    "input-5", "input-6", "input-7", "input-8", "input-9">>[i + 1]]
\* "k" hashes to the id "h" has, and the empty UUID to none.
MCDerivedId == [u \in {"h", "g", "k", "c", "out", "100", ""} |->
                 CASE u = "h" -> 100 [] u = "g" -> 101 [] u = "k" -> 100
                   [] u = "c" -> 102 [] u = "out" -> 103 [] u = "100" -> 104 [] OTHER -> NotAnId]

Neuron(u, t, q) ==
  [uuid |-> u, type |-> t, idKind |-> "none", id |-> 0, bias |-> "finite", squash |-> q]
Syn(f, t, r) == [from |-> f, to |-> t, role |-> r]
Options(n, c, fw, fb) == [neurons |-> n, connections |-> c, forwardOnly |-> fw, feedback |-> fb]
Plain == Options(-1, -1, FALSE, "none")
Forward == Options(-1, -1, TRUE, "yes")
NoLoops == Options(0, -1, FALSE, "no")

Buffer(n, s) ==
  [bytes |-> PackedLen(n, s), magic |-> TRUE, version |-> TRUE, neurons |-> n,
   synapses |-> s, memetic |-> TRUE]
\* The buffer of a packed creature of n neurons and s synapses, damaged.
Damaged(n, s) ==
  {[Buffer(n, s) EXCEPT !.magic = FALSE], [Buffer(n, s) EXCEPT !.version = FALSE],
   [Buffer(n, s) EXCEPT !.bytes = 20], [Buffer(n, s) EXCEPT !.memetic = FALSE]}
    \cup {[Buffer(n, s) EXCEPT !.synapses = z] : z \in 0 .. 300}
    \cup {[Buffer(n, s) EXCEPT !.neurons = z] : z \in 0 .. 7}

ExportHost(E, o) ==
  [export |-> TRUE, creature |-> E, options |-> o,
   buffer |-> Buffer(E.input + Len(E.neurons), Len(E.synapses))]
MemoryHost(R, o) ==
  [export |-> FALSE, creature |-> R, options |-> o, buffer |-> Buffer(Len(R.views), Len(R.syn))]

Export(i, o, ns, ss, m) ==
  [input |-> i, output |-> o, neurons |-> ns, synapses |-> ss, memetic |-> m]

UpTo(S, n) == UNION {[1 .. k -> S] : k \in 0 .. n}

\* Wiring: one input, a hidden neuron and an output.
Ends == {"input-0", "h", "out"}
Wirings ==
  {ExportHost(Export(1, 1, <<Neuron("h", "hidden", "TANH"), Neuron("out", "output", "TANH")>>,
                     ss, NoMemetic), o) :
     ss \in UpTo({Syn(f, t, 0) : f \in Ends, t \in Ends}, 2), o \in {Plain, Forward, NoLoops}}
    \cup
  {ExportHost(Export(1, 1, <<Neuron("h", "hidden", "TANH"), Neuron("out", "output", "TANH")>>,
                     <<Syn("input-0", "h", 0), s, t>>, NoMemetic), o) :
     s \in {Syn("input-0", "out", 0), Syn("h", "out", 0), Syn("h", "gone", 0), Syn("h", "h", 0)},
     t \in {Syn("h", "out", 0), Syn("h", "out", 2), Syn("out", "h", 0), Syn("out", "out", 0)},
     o \in {Plain, Forward, NoLoops}}

\* IF neurons at places 2 and 3 of a creature with two or three inputs.
RoleLists(u) ==
  {SetToSortSeq(S, LAMBDA a, b : (a.from = "input-0" /\ b.from = "input-1")
                                   \/ (a.from = b.from /\ a.role < b.role)) :
     S \in UNION {kSubset(k, {Syn(f, u, r) : f \in {"input-0", "input-1"}, r \in {0, 1, 2}}) :
                    k \in 0 .. 4}}
IfNeurons ==
  {ExportHost(Export(i, 1, <<Neuron("h", "hidden", q), Neuron("out", "output", "TANH")>>,
                     ss \o <<Syn("h", "out", 0)>>, NoMemetic), o) :
     i \in {2, 3}, q \in {"IF", "TANH"}, ss \in RoleLists("h"), o \in {Plain, Forward}}

\* Types in every order; the lists wire what can be wired.
Types == {"constant", "hidden", "output", "input"}
Layouts ==
  {ExportHost(Export(i, o, <<Neuron("c", t[1], "none"), Neuron("h", t[2], q), Neuron("out", t[3], "TANH")>>,
                     ss, NoMemetic), opt) :
     t \in [1 .. 3 -> Types], q \in {"none", "TANH"}, i \in {0, 1}, o \in {1, 9},
     ss \in {<<Syn("input-0", "h", 0), Syn("c", "out", 0), Syn("h", "out", 0)>>,
             <<Syn("input-0", "out", 0), Syn("c", "h", 0), Syn("c", "out", 0), Syn("h", "out", 0)>>},
     opt \in {Plain, Forward}}

\* A listed input, by its own place or not, read or not, in front of or behind
\* the place inputs end at, with a fault in front of it or none.
ListingInputs ==
  {ExportHost(Export(i, 1, <<[Neuron("c", t, q) EXCEPT !.bias = b],
                             [Neuron("h", "input", "TANH") EXCEPT !.idKind = "integer", !.id = n],
                             Neuron("out", "output", "TANH")>>,
                     ss, NoMemetic), opt) :
     t \in {"constant", "hidden", "output", "input"}, q \in {"none", "TANH"}, b \in {"finite", "bad"},
     i \in {1, 2}, n \in 1 .. 4,
     ss \in {<<Syn("input-0", "c", 0), Syn("h", "out", 0)>>, <<Syn("c", "out", 0), Syn("h", "out", 0)>>,
             <<Syn("input-0", "c", 0), Syn("input-0", "h", 0), Syn("c", "out", 0)>>},
     opt \in {Plain, Forward}}
    \cup
  {ExportHost(Export(1, 1, <<[Neuron("h", "input", q) EXCEPT !.idKind = "integer", !.id = n, !.bias = b],
                             Neuron("out", "output", "TANH")>>,
                     ss, NoMemetic), opt) :
     q \in {"none", "TANH"}, n \in {0, 1, 2}, b \in {"finite", "bad"},
     ss \in {<<Syn("input-0", "out", 0), Syn("h", "out", 0)>>, <<Syn("input-0", "h", 0)>>},
     opt \in {Plain, Forward}}

\* Ids: exported, derived, colliding, too large, or inside the input range.
Ids ==
  {ExportHost(Export(1, 1, <<[Neuron(u, "hidden", "TANH") EXCEPT !.idKind = k, !.id = n],
                             [Neuron("k", "hidden", "TANH") EXCEPT !.bias = b],
                             Neuron("out", "output", "TANH")>>,
                     <<Syn("input-0", u, 0), Syn("input-0", "k", 0), Syn(u, "out", 0),
                       Syn("k", "out", 0)>>, NoMemetic), o) :
     u \in {"h", "g", "k", ""}, k \in {"none", "integer"}, n \in {0, 7, 9999},
     b \in {"finite", "bad"},
     o \in {Plain, Options(4, 4, FALSE, "none"), Options(3, -1, FALSE, "none"),
            Options(-1, 0, FALSE, "none")}}

View(k, idk, id, b) ==
  [idKind |-> idk, id |-> id, kind |-> k, bias |-> b, squash |-> "none", uuid |-> "x"]
MemoryOf(i, o, first, second, ss) ==
  [input |-> i, output |-> o,
   views |-> <<first, second, View("output", "integer", -1, "finite")>>,
   syn |-> ss, memetic |-> NoMemetic]
MemoryWirings ==
  {<<Syn(0, 1, 0), Syn(1, 2, 0)>>, <<Syn(0, 2, 0), Syn(1, 2, 0)>>, <<Syn(0, 2, 0), Syn(1, 0, 0)>>,
   <<Syn(0, 7, 0)>>, <<Syn(0, Nowhere, 0)>>}
\* Creatures only memory can hold: widths that do not fit the kinds, then ids,
\* kinds and biases no export carries.
Memories ==
  {MemoryHost(MemoryOf(i, o, View(k1, "integer", id1, "finite"), View("hidden", "integer", 1, "finite"), ss), opt) :
     i \in {0, 1, 2}, o \in {0, 1}, k1 \in {"input", "hidden", "constant"}, id1 \in {0, 5},
     ss \in MemoryWirings, opt \in {Plain, Forward}}
    \cup
  {MemoryHost(MemoryOf(i, 1, View("input", "integer", 0, "finite"), View(k2, idk, 1, b), ss), opt) :
     i \in {1, 2}, k2 \in {"input", "hidden", "invalid"}, idk \in {"none", "fraction", "integer"},
     b \in {"none", "finite", "bad"}, ss \in MemoryWirings, opt \in {Plain, Forward}}

Key(t, n) == [text |-> t, id |-> n]
KH == Key("h", NotAnId)
KId == Key("100", 100)
K0 == Key("0", 0)
KIn == Key("input-0", NotAnId)
KGone == Key("gone", NotAnId)
K9 == Key("9", 9)
KNone == Key(Missing, NotAnId)
BiasLists == {<<>>, <<KH>>, <<KId, K0>>, <<KIn, KGone>>, <<K9>>}
Row(f, t, w) == [from |-> f, to |-> t, weight |-> w]
RowLists ==
  UpTo({Row(KIn, KH, TRUE), Row(KH, Key("out", NotAnId), TRUE), Row(KH, KH, TRUE),
        Row(KIn, KGone, TRUE), Row(KIn, KNone, TRUE), Row(KH, KH, FALSE)}, 2)
EntryOf(n, w) == [toId |-> n, weight |-> w]
MapLists ==
  {<<[key |-> k, list |-> l, entries |-> es]>> :
     k \in {KH, KId, K0, KGone}, l \in {TRUE},
     es \in UpTo({EntryOf(100, TRUE), EntryOf(-1, TRUE), EntryOf(9, TRUE),
                  EntryOf(NotAnId, TRUE), EntryOf(-1, FALSE)}, 2)}
   \cup {<<[key |-> KId, list |-> FALSE, entries |-> <<>>]>>}
Records ==
  {[form |-> "rows", biases |-> b, weights |-> w] : b \in {<<>>, <<KH>>}, w \in RowLists}
    \cup {[form |-> "map", biases |-> b, weights |-> w] : b \in {<<>>, <<KIn, KGone>>}, w \in MapLists}
    \cup {[form |-> "map", biases |-> b, weights |-> <<>>] : b \in BiasLists}
Memetics ==
  {ExportHost(Export(1, 1, <<Neuron("h", "hidden", "TANH"), Neuron("out", "output", "TANH")>>,
                     <<Syn("input-0", "h", 0), Syn("input-0", "out", 0), Syn("h", "out", 0)>>, m), Plain) :
     m \in Records}
    \cup
  {ExportHost(Export(1, 1, <<Neuron("h", "hidden", "TANH"), Neuron("100", "hidden", "TANH"),
                             Neuron("out", "output", "TANH")>>,
                     <<Syn("input-0", "h", 0), Syn("h", "100", 0), Syn("100", "out", 0)>>,
                     [form |-> "map", biases |-> b,
                      weights |-> <<[key |-> KId, list |-> TRUE, entries |-> <<EntryOf(n, TRUE)>>]>>]), Plain) :
     b \in {<<>>, <<KId>>}, n \in {100, 104, -1}}

\* Widths past the ceiling, and packed headers that lie.
Oversized ==
  {ExportHost(Export(i, 1, <<Neuron("out", "output", "TANH")>>, <<Syn("input-0", "out", 0)>>, NoMemetic), o) :
     i \in 6 .. 9, o \in {Plain, Options(2, -1, FALSE, "none")}}
Lies ==
  {[MemoryHost([input |-> 1, output |-> 1,
                views |-> <<View("input", "integer", 0, "finite"), View("output", "integer", -1, "finite")>>,
                syn |-> <<Syn(0, 1, 0)>>, memetic |-> NoMemetic], Plain) EXCEPT !.buffer = b] :
     b \in Damaged(2, 1)}

MCHosts == Wirings \cup IfNeurons \cup Layouts \cup Ids \cup Memories \cup Memetics \cup Oversized \cup Lies \cup ListingInputs

-----------------------------------------------------------------------------
(* Grafts *)

MCConstantNames == [u \in {"n"} |-> <<"n1", "n2", "n3">>]
MCGraftIds ==
  [u \in {"h", "g", "k", "c", "out", "100", "", "n", "m", "n1", "n2", "n3", "w", "out2", "d", "q"} |->
     CASE u = "n" -> 110 [] u = "m" -> 111 [] u = "n1" -> 112 [] u = "n2" -> 113 [] u = "n3" -> 114
       [] u = "out2" -> 115 [] u = "d" -> 116 [] u = "q" -> 117 [] u = "w" -> 118 [] OTHER -> MCDerivedId[u]]

Idle(H) == [export |-> H.export, creature |-> H.creature, options |-> H.options,
            buffer |-> H.buffer, jobs |-> <<>>]

\* Bases.
Base(i, o, fw, ns, ss) ==
  [input |-> i, output |-> o, neurons |-> ns, synapses |-> ss, memetic |-> NoMemetic,
   forwardOnly |-> fw]
Hid(u) == Neuron(u, "hidden", "TANH")
Con(u) == Neuron(u, "constant", "none")
Out(u) == Neuron(u, "output", "TANH")
Plainest(fw) ==
  Base(1, 1, fw, <<Con("c"), Hid("h"), Out("out")>>,
       <<Syn("input-0", "h", 0), Syn("c", "out", 0), Syn("h", "out", 0)>>)
Looped ==
  Base(1, 1, FALSE, <<Hid("h"), Hid("g"), Out("out")>>,
       <<Syn("input-0", "h", 0), Syn("h", "g", 0), Syn("g", "h", 0), Syn("g", "out", 0),
         Syn("out", "out", 0)>>)
TwoOutputs ==
  Base(1, 2, TRUE, <<Hid("h"), Out("out"), Out("out2")>>,
       <<Syn("input-0", "h", 0), Syn("h", "out", 0), Syn("h", "out2", 0)>>)
WithIf ==
  Base(1, 1, TRUE, <<Hid("h"), Neuron("q", "hidden", "IF"), Out("out")>>,
       <<Syn("input-0", "h", 0), Syn("input-0", "q", 1), Syn("input-0", "q", 3), Syn("h", "q", 2),
         Syn("q", "out", 0)>>)
Late ==    \* a constant behind a hidden neuron: the gates take it, rule 11 not
  Base(1, 1, TRUE, <<Hid("h"), Con("c"), Out("out")>>,
       <<Syn("input-0", "h", 0), Syn("h", "out", 0), Syn("c", "out", 0)>>)
Malformeds ==
  {[Plainest(TRUE) EXCEPT !.input = 0], [Plainest(TRUE) EXCEPT !.input = 9],
   [Plainest(TRUE) EXCEPT !.output = 0], [Plainest(TRUE) EXCEPT !.output = 2],
   [Plainest(TRUE) EXCEPT !.output = 300],
   [Plainest(TRUE) EXCEPT !.neurons[2].squash = "WAVELET"],
   [Plainest(TRUE) EXCEPT !.neurons[2].squash = "SOFTMAX"],
   [Plainest(TRUE) EXCEPT !.neurons[2].bias = "bad"],
   [Plainest(TRUE) EXCEPT !.synapses[1].from = "gone"],
   [Plainest(TRUE) EXCEPT !.synapses[2].to = "gone"],
   [Plainest(TRUE) EXCEPT !.synapses[2].to = "input-0"],
   [Plainest(TRUE) EXCEPT !.synapses = @ \o <<Syn("h", "out", 2)>>],
   [Plainest(FALSE) EXCEPT !.synapses = @ \o <<Syn("h", "out", 0)>>],
   [Plainest(TRUE) EXCEPT !.synapses = @ \o <<Syn("out", "h", 0)>>],
   [Plainest(TRUE) EXCEPT !.neurons = @ \o <<Out("out2")>>]}

\* Specifications.
Fine(u) == Edge(u, "finite")
Aim(u, r) == [uuid |-> u, weight |-> "finite", role |-> r]
IfSpec(u, cs, a, b, d, ts) ==
  [kind |-> "if", uuid |-> u, bias |-> "finite", constants |-> cs, condition |-> <<Fine(a)>>,
   positive |-> <<Fine(b)>>, negative |-> <<Fine(d)>>, targets |-> ts]
KConst == [uuid |-> "w", bias |-> "finite"]

IfSpecs ==
  {IfSpec("n", cs, a, b, d, ts) :
     cs \in {<<>>, <<KConst>>}, a \in {"input-0", "h", "w"}, b \in {"h", "c"}, d \in {"w", "out", "input-0"},
     ts \in {<<Aim("out", 0)>>, <<Aim("h", 0)>>, <<Aim("q", 1), Aim("q", 2)>>,
             <<Aim("out", 0), Aim("out", 2)>>, <<Aim("out2", 0)>>}}
Relays ==
  {[kind |-> "relay", uuid |-> "n", bias |-> "finite", sources |-> [i \in 1 .. Len(us) |-> Fine(us[i])],
    targets |-> ts] :
     us \in UpTo({"input-0", "h", "c", "out"}, 2),
     ts \in {<<>>, <<Aim("out", 0)>>, <<Aim("q", 3), Aim("out", 0)>>, <<Aim("c", 0)>>}}
Whole == IfSpec("n", <<KConst>>, "input-0", "w", "w", <<Aim("out", 0)>>)
Flawed ==
  {[Whole EXCEPT !.uuid = u] : u \in {"h", "input-0", "w", "k", ""}}
    \cup {[Whole EXCEPT !.bias = "bad"], [Whole EXCEPT !.constants[1].bias = "bad"],
          [Whole EXCEPT !.condition[1].role = 2], [Whole EXCEPT !.condition[1].weight = "bad"],
          [Whole EXCEPT !.targets[1].weight = "bad"],
          [Whole EXCEPT !.condition = <<>>], [Whole EXCEPT !.positive = <<>>],
          [Whole EXCEPT !.negative = <<>>]}
    \cup {[Whole EXCEPT !.condition[1].uuid = u] : u \in {"n", "gone"}}
    \cup {[Whole EXCEPT !.negative = @ \o <<Fine(u)>>] : u \in {"w", "input-0"}}
    \cup {[Whole EXCEPT !.targets = @ \o <<Aim(u, 0)>>] : u \in {"n", "w", "gone", "input-0", "out"}}
Corrections ==
  {[uuid |-> "n", feature |-> f, threshold |-> w, positive |-> "finite", negative |-> "finite",
    target |-> t, weight |-> "finite"] :
     f \in {"input-0", "h", "c"}, w \in {"finite", "bad"}, t \in {"out", "h", "q"}}

\* Two nodes: the first may leave its targets to the second.
Children == {[Whole EXCEPT !.targets = ts] : ts \in {<<>>, <<Aim("out", 0)>>, <<Aim("h", 0)>>}}
Parents ==
  {IfSpec("m", <<[uuid |-> "d", bias |-> "finite"]>>, "input-0", a, "d", <<Aim(t, 0)>>) :
     a \in {"n", "w", "input-0", "h"}, t \in {"out", "n", "h"}}

Job(op, specs) == [op |-> op, specs |-> specs]
OneNode == {Job("node", <<s>>) : s \in IfSpecs \cup Flawed}
             \cup {Job("relay", <<s>>) : s \in Relays} \cup {Job("correction", <<c>>) : c \in Corrections}
TwoNodes == {Job(op, <<a, b>>) : op \in {"tree", "nodes"}, a \in Children, b \in Parents}
              \cup {Job(op, <<>>) : op \in {"tree", "nodes"}}

Grafting(E, jobs) ==
  [export |-> TRUE, creature |-> E, options |-> Options(-1, -1, E.forwardOnly, "none"),
   buffer |-> Buffer(1, 1), jobs |-> jobs]

GraftHosts ==
  {Grafting(E, <<j>>) : E \in {Plainest(TRUE), Looped, TwoOutputs, WithIf, Late}, j \in OneNode}
    \cup {Grafting(E, <<j>>) : E \in {Plainest(TRUE), Plainest(FALSE), Looped}, j \in TwoNodes}
    \cup {Grafting(E, <<Job("node", <<Whole>>)>>) : E \in Malformeds}
    \cup {Grafting(Plainest(TRUE), <<Job("node", <<Whole>>), Job("node", <<b>>)>>) : b \in Parents}
    \cup {[Grafting(Plainest(TRUE), <<Job("node", <<Whole>>)>>) EXCEPT !.options = o] :
             o \in {Options(4, 3, TRUE, "none"), Options(4, -1, TRUE, "none"), Options(-1, 3, TRUE, "none")}}

MCAllHosts == {Idle(H) : H \in MCHosts} \cup GraftHosts
=============================================================================
