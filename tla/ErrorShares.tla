---------------------------- MODULE ErrorShares ----------------------------
(***************************************************************************)
(* How a neuron's error is split over its inward links: the safe zones      *)
(* (safe_zone.rs), the elastic distribution (elastic_distribution.rs) and   *)
(* the fused one that takes the safe zones first (fused_error.rs).  A link   *)
(* is [squash, hint, act, weight].  Every number is finite here.            *)
(***************************************************************************)
EXTENDS FixedPoint

-----------------------------------------------------------------------------
(* apply_safe_zone_adjustment: how much of an error may flow into a neuron  *)
(* whose input before squashing is `raw`: 0 (saturated) to One.  The rule is *)
(* the one squash_profile.rs names for the neuron's squash.  SINE, COSINE   *)
(* and TAN are left out: they judge by the slope, a numerical function.     *)

CONSTANTS TinyWeight, HugeWeight   \* MIN_WEIGHT and MAX_WEIGHT

WeightIsRecovering(w, e) ==
  \/ Magnitude(w) < TinyWeight /\ w * e > 0
  \/ Magnitude(w) > HugeWeight /\ w * e < 0

Band(min, max, fade) == [rule |-> "band", min |-> min * One, max |-> max * One, fade |-> fade * One]

\* The rules of squash_profile a model needs the data of.
Profile(squash) ==
  CASE squash = "SOFTPLUS" -> Band(-10, 20, 10)
    [] squash = "TANH" -> [rule |-> "saturating", safe |-> 2 * One, fade |-> 6 * One,
                           recovery |-> 2 * One, factor |-> One \div 5]
    [] squash = "CUBE" -> [rule |-> "symmetric", safe |-> 5 * One, fade |-> 10 * One,
                           recovery |-> One \div 5]
    [] squash = "COMPLEMENT" -> [rule |-> "constant", factor |-> One]
    [] squash \in {"BIPOLAR", "MINIMUM", "MAXIMUM", "IF", "MEAN"} -> [rule |-> "constant", factor |-> 0]
    [] OTHER -> [rule |-> squash]

\* Mutant: the fade below the band is measured from its other end.
BoundedBelowWrong(raw, e, w, b) ==
  IF raw \in b.min .. b.max
    THEN IF WeightIsRecovering(w, e) THEN 0 ELSE One
  ELSE IF (raw < b.min /\ e < 0) \/ (raw > b.max /\ e > 0) THEN 0
  ELSE IF raw > b.max /\ raw <= b.max + b.fade THEN One - Over(raw - b.max, b.fade)
  ELSE IF raw < b.min /\ raw >= b.min - b.fade THEN One - Over(b.max - raw, b.fade)
  ELSE 0

Bounded(raw, e, w, b) ==
  IF raw \in b.min .. b.max
    THEN IF WeightIsRecovering(w, e) THEN 0 ELSE One
  ELSE IF (raw < b.min /\ e < 0) \/ (raw > b.max /\ e > 0) THEN 0
  ELSE IF raw > b.max /\ raw <= b.max + b.fade THEN One - Over(raw - b.max, b.fade)
  ELSE IF raw < b.min /\ raw >= b.min - b.fade THEN One - Over(b.min - raw, b.fade)
  ELSE 0

Saturating(raw, e, b) ==
  IF Magnitude(raw) <= b.safe THEN One
  ELSE IF (raw <= -b.recovery /\ e > 0) \/ (raw >= b.recovery /\ e < 0) THEN b.factor
  ELSE IF raw > b.safe /\ raw <= b.fade THEN One - Over(raw - b.safe, b.fade - b.safe)
  ELSE IF raw < -b.safe /\ raw >= -b.fade THEN Over(raw + b.fade, b.fade - b.safe)
  ELSE 0

Symmetric(raw, e, b) ==
  IF Magnitude(raw) <= b.safe THEN One
  ELSE IF raw * e < 0 THEN b.recovery
  ELSE IF Magnitude(raw) <= b.fade THEN One - Over(Magnitude(raw) - b.safe, b.fade - b.safe)
  ELSE 0

\* x -> [-2, 2] full, recovery 0.3 and fade to 4, nothing behind.
ArcTan(raw, e) ==
  IF Magnitude(raw) <= 2 * One THEN One
  ELSE IF Magnitude(raw) > 4 * One THEN 0
  ELSE IF raw * e < 0 THEN (3 * One) \div 10
  ELSE One - (Magnitude(raw) - 2 * One) \div 2

Relu6(raw, e) ==
  IF \/ raw > 0 /\ raw < 6 * One
     \/ raw <= 0 /\ e > 0
     \/ raw >= 6 * One /\ e < 0
    THEN One ELSE 0

Sqrt(raw, e) ==
  IF raw < 0 /\ e < 0 THEN 0
  ELSE IF raw \in 1 .. 10 * One THEN One
  ELSE IF raw < 1 /\ e > 0 THEN (3 * One) \div 10
  ELSE IF raw > 10 * One /\ raw <= 20 * One THEN One - (raw - 10 * One) \div 10
  ELSE 0

\* The squashes SafeFactor judges.
Squashes ==
  {"SOFTPLUS", "TANH", "CUBE", "COMPLEMENT", "BIPOLAR", "MINIMUM", "MAXIMUM", "IF", "MEAN",
   "IDENTITY", "RELU", "RELU6", "ArcTan", "STEP", "ABSOLUTE", "SQRT"}

SafeFactor(squash, raw, e, w) ==
  LET p == Profile(squash) IN
  CASE p.rule = "band" -> Bounded(raw, e, w, p)
    [] p.rule = "saturating" -> Saturating(raw, e, p)
    [] p.rule = "symmetric" -> Symmetric(raw, e, p)
    [] p.rule = "constant" -> p.factor
    [] p.rule = "IDENTITY" -> IF Magnitude(raw) > HugeWeight /\ Magnitude(w) < TinyWeight THEN 0 ELSE One
    [] p.rule = "RELU" -> IF raw > 0 \/ e > 0 THEN One ELSE 0
    [] p.rule = "RELU6" -> Relu6(raw, e)
    [] p.rule = "ArcTan" -> ArcTan(raw, e)
    [] p.rule = "STEP" -> IF (raw > 0) # (e > 0) THEN One ELSE One \div 5
    [] p.rule = "ABSOLUTE" -> IF Magnitude(raw) > HugeWeight /\ Magnitude(w) < TinyWeight THEN 0 ELSE One
    [] p.rule = "SQRT" -> Sqrt(raw, e)

-----------------------------------------------------------------------------
(* The distributions *)

CONSTANT Epsilon     \* ERROR_EPSILON

\* Mutant: what rounding left over is given to nobody.
ProportionallyRounded(error, scores) ==
  LET denom == SumOf(scores) IN
  [i \in 1 .. Len(scores) |-> Times(error, Over(scores[i], denom))]

\* In proportion to the scores, the residue to the best of them.
Proportionally(error, scores) ==
  LET denom == SumOf(scores)
      shares == [i \in 1 .. Len(scores) |-> Times(error, Over(scores[i], denom))]
      residue == error - SumOf(shares)
  IN IF Magnitude(residue) > Plank
       THEN [shares EXCEPT ![FirstLargest(scores)] = @ + residue]
       ELSE shares

\* By activation and safety, else by weight, else evenly.
SplitBy(error, acts, safe, weights) ==
  LET scores == [i \in 1 .. Len(acts) |-> Times(Times(acts[i], acts[i]), Clamped(safe[i], 0, One))]
      squares == [i \in 1 .. Len(weights) |-> Times(weights[i], weights[i])]
  IN IF SumOf(scores) > Plank THEN Proportionally(error, scores)
     ELSE IF SumOf(squares) > Plank THEN Proportionally(error, squares)
     ELSE [i \in 1 .. Len(acts) |-> error \div Len(acts)]

\* apply_distribute_elastic_error; too short a list of factors or weights is
\* refused with an empty answer.
Elastic(error, acts, safe, weights) ==
  IF Len(safe) < Len(acts) \/ Len(weights) < Len(acts) THEN <<>>
  ELSE SplitBy(error, acts, safe, weights)

\* apply_calculate_error, of the squashes the links here have: the difference
\* itself, in value space for a RELU at rest.
MaxError == 100 * One
NeuronError(squash, act, target, hint) ==
  IF Magnitude(target - act) < Epsilon THEN 0
  ELSE IF squash = "RELU" /\ hint <= 0
    THEN Clamped((IF target > 0 THEN target ELSE hint) - hint, -MaxError, MaxError)
  ELSE Clamped(target - act, -MaxError, MaxError)

\* apply_fused_error_distribution: [error, safe, shares].
Fused(squash, act, target, hint, links) ==
  LET error == NeuronError(squash, act, target, hint)
      n == Len(links)
      safe == [i \in 1 .. n |-> SafeFactor(links[i].squash, links[i].hint,
                                           error \div n, links[i].weight)]
  IN IF error = 0
       THEN [error |-> 0, safe |-> [i \in 1 .. n |-> One], shares |-> [i \in 1 .. n |-> 0]]
       ELSE [error |-> error, safe |-> safe,
             shares |-> SplitBy(error, [i \in 1 .. n |-> links[i].act], safe,
                                [i \in 1 .. n |-> links[i].weight])]
=============================================================================
