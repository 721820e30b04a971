----------------------------- MODULE MCScoring -----------------------------
(***************************************************************************)
(* Networks of two inputs and up to three neurons: plain, with a constant,   *)
(* with each aggregate, and recurrent.  Groups are 2 and 4 for 4 and 8, a    *)
(* tile 8 for 32, a chunk 4 for 64.                                         *)
(***************************************************************************)
EXTENDS Scoring

S(f, w, r) == [from |-> f, weight |-> w, role |-> r]
N(q, b, in) == [squash |-> q, bias |-> b, constant |-> FALSE, in |-> in]
C(b) == [squash |-> "IDENTITY", bias |-> b, constant |-> TRUE, in |-> <<>>]
Net(ns) == [inputs |-> 2, outputs |-> 1, neurons |-> ns]

Plain == Net(<<N("RELU", 1, <<S(1, 1, "standard"), S(2, -1, "standard")>>),
               N("IDENTITY", 0, <<S(1, 1, "standard"), S(3, 2, "standard")>>)>>)
WithConstant == [Net(<<C(40), N("ABSOLUTE", -1, <<S(2, 1, "standard"), S(3, 1, "standard")>>),
                       N("IDENTITY", 1, <<S(4, 1, "standard"), S(1, -1, "standard")>>)>>)
                  EXCEPT !.outputs = 2]
WithExtremes == Net(<<N("MAXIMUM", 1, <<S(1, 1, "standard"), S(2, 2, "standard")>>),
                      N("MINIMUM", 0, <<S(1, 1, "standard"), S(3, 1, "standard"), S(2, 1, "standard")>>)>>)
WithIf == Net(<<N("IF", 1, <<S(1, 1, "condition"), S(2, -1, "condition"), S(1, 3, "positive"),
                             S(2, 1, "negative"), S(2, 2, "standard")>>),
                N("RELU", 0, <<S(3, 1, "standard")>>)>>)
WithMeans == Net(<<N("MEAN", 1, <<S(1, 1, "standard"), S(2, 2, "standard")>>),
                   N("HYPOT", -1, <<S(1, 1, "standard"), S(3, 1, "standard")>>),
                   N("HYPOTv2", 1, <<S(2, 1, "standard"), S(4, 1, "standard")>>)>>)
\* Aggregates that nothing feeds.
Unfed == Net(<<N("MINIMUM", 3, <<>>), N("MEAN", 1, <<>>), N("IF", 2, <<S(3, 1, "condition")>>)>>)
\* The first neuron reads the second's last value.
Recurrent == Net(<<N("RELU", 1, <<S(1, 1, "standard"), S(4, 1, "standard")>>),
                   N("IDENTITY", 0, <<S(2, 1, "standard"), S(3, 1, "standard")>>)>>)
RecurrentIf == Net(<<N("IF", 0, <<S(4, 1, "condition"), S(1, 1, "positive"), S(2, 1, "negative")>>),
                     N("IDENTITY", 1, <<S(3, 1, "standard"), S(2, 1, "standard")>>)>>)

AllNets == {Plain, WithConstant, WithExtremes, WithIf, WithMeans, Unfed, Recurrent, RecurrentIf}
RecurrentNets == {Recurrent}

\* Too short, exact, too long; a condition of zero over terms that differ.
MCInputs == {<<>>, <<1>>, <<2, 1>>, <<1, 1>>, <<-1, 3, 5>>}
MCStock == [k \in 1 .. 7 |->
  [in |-> <<((k * 5) % 7) - 3, ((k * 3) % 5) - 2, k>>, target |-> <<k % 3>>]]

MCValues == {-3, 0, 1, 3}

=============================================================================
