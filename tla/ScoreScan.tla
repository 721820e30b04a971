----------------------------- MODULE ScoreScan -----------------------------
(***************************************************************************)
(* The magnitudes a score is penalised by (neat-core/src/score_scan.rs):    *)
(* the largest and the second largest, computed whole once and              *)
(* scanned for again when one weight or bias changes.                       *)
(***************************************************************************)
EXTENDS Integers, Sequences

CONSTANTS
  Values,       \* weights and biases
  MaxChanges    \* bound: changes of one creature

ASSUME ScanAssumption == Values \subseteq Int /\ MaxChanges \in Nat

VARIABLES
  weights, biases,
  known,        \* [max, second] as last computed or scanned
  changes

scanVars == <<weights, biases, known, changes>>

Magnitude(x) == IF x < 0 THEN -x ELSE x

\* Mutant: the one that is overtaken is forgotten.
ObserveForgets(s, x) ==
  LET a == Magnitude(x) IN
  IF a > s.max THEN [s EXCEPT !.max = a]
  ELSE IF a > s.second THEN [s EXCEPT !.second = a] ELSE s

Observe(s, x) ==
  LET a == Magnitude(x) IN
  IF a > s.max THEN [s EXCEPT !.max = a, !.second = s.max]
  ELSE IF a > s.second THEN [s EXCEPT !.second = a] ELSE s

\* One value after the other.
Observed(s, values) ==
  LET after[k \in 0 .. Len(values)] ==
        IF k = 0 THEN s ELSE LET before == after[k - 1] IN Observe(before, values[k])
  IN after[Len(values)]

\* accumulate_abs_stats over the weights, then the biases.
ScoreComponents(ws, bs) == Observed(Observed([max |-> 0, second |-> 0], ws), bs)

Without(s, i) == SubSeq(s, 1, i - 1) \o SubSeq(s, i + 1, Len(s))

\* The replacement counts first, the one it replaces not at all.
ScanMaxWeight(ws, bs, i, new) ==
  Observed([max |-> Magnitude(new), second |-> 0], Without(ws, i) \o bs)
ScanMaxBias(ws, bs, i, new) ==
  Observed([max |-> Magnitude(new), second |-> 0], ws \o Without(bs, i))

ScanInit ==
  /\ weights \in [1 .. 2 -> Values] /\ biases \in UNION {[1 .. n -> Values] : n \in 0 .. 1}
  /\ known = ScoreComponents(weights, biases)
  /\ changes = 0

\* No scan is made: a creature of one weight, zero.
ScanRests ==
  /\ weights = <<0>> /\ biases = <<>> /\ known = [max |-> 0, second |-> 0]
  /\ changes = MaxChanges

ChangeWeight ==
  \E i \in 1 .. Len(weights), new \in Values :
    /\ weights' = [weights EXCEPT ![i] = new]
    /\ known' = ScanMaxWeight(weights, biases, i, new)
    /\ UNCHANGED biases

ChangeBias ==
  \E i \in 1 .. Len(biases), new \in Values :
    /\ biases' = [biases EXCEPT ![i] = new]
    /\ known' = ScanMaxBias(weights, biases, i, new)
    /\ UNCHANGED weights

ScanNext == changes < MaxChanges /\ changes' = changes + 1 /\ (ChangeWeight \/ ChangeBias)

-----------------------------------------------------------------------------
\* After any series of changes the scanned pair is the two largest magnitudes
\* of the creature as it stands, ties kept: what a whole computation gives.
ScanStaysTrue ==
  LET all == weights \o biases
      top == CHOOSE k \in 1 .. Len(all) :
               \A j \in 1 .. Len(all) : Magnitude(all[j]) <= Magnitude(all[k])
      rest == Without(all, top)
  IN /\ known.max = Magnitude(all[top])
     /\ \A j \in 1 .. Len(rest) : Magnitude(rest[j]) <= known.second
     /\ rest # <<>> => \E j \in 1 .. Len(rest) : Magnitude(rest[j]) = known.second
=============================================================================
