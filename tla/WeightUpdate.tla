---------------------------- MODULE WeightUpdate ----------------------------
(***************************************************************************)
(* What one record adds to a synapse's and a neuron's accumulators, and the *)
(* weight and bias they come to (neat-core/src/accumulate.rs).  A number    *)
(* that is not finite is NotFinite; config is [generations, rate, maxStep,  *)
(* limit, l1, l2].                                                          *)
(***************************************************************************)
EXTENDS FixedPoint

NotFinite == 999999

SynapseZero == [count |-> 0, posAct |-> 0, negAct |-> 0, pos |-> 0, neg |-> 0, posAdj |-> 0, negAdj |-> 0]
NeuronZero == [count |-> 0, bias |-> 0, adjusted |-> 0]

Plus(a, b) == [f \in DOMAIN a |-> a[f] + b[f]]

\* What deltas, added one after the other, come to.
TotalOf(zero, deltas) ==
  LET upTo[k \in 0 .. Len(deltas)] == IF k = 0 THEN zero ELSE Plus(upTo[k - 1], deltas[k])
  IN upTo[Len(deltas)]

\* The target value, lifted to the plank when it is smaller.
Lifted(v) == IF Magnitude(v) > Plank THEN v ELSE Plank * Sign(v)

\* accumulate_weight_single.  Above the plank the weight times the activation
\* it was divided by is the target value itself.
WeightDelta(current, target, act) ==
  IF NotFinite \in {current, target, act} THEN SynapseZero
  ELSE IF act > Plank
         THEN [SynapseZero EXCEPT !.count = 1, !.posAct = act, !.pos = 1, !.posAdj = Lifted(target)]
  ELSE IF act < -Plank
         THEN [SynapseZero EXCEPT !.count = 1, !.negAct = -act, !.neg = 1, !.negAdj = Lifted(target)]
  ELSE [SynapseZero EXCEPT !.count = 1]

\* accumulate_bias_single.
BiasDelta(target, pre, current) ==
  IF NotFinite \in {target, pre, current} THEN NeuronZero
  ELSE [count |-> 1, bias |-> current + target - pre, adjusted |-> current + target - pre]

-----------------------------------------------------------------------------
\* apply_weight_regularisation and apply_bias_regularisation.
Regularised(w, c) ==
  LET shrunk == IF c.l2 > 0 THEN Times(w, One - Times(c.rate, c.l2)) ELSE w
      penalty == Times(c.rate, c.l1)
  IN IF c.l1 > 0 /\ shrunk # 0
       THEN IF penalty >= Magnitude(shrunk) THEN 0 ELSE shrunk - penalty * Sign(shrunk)
       ELSE shrunk

\* The learnt step, no longer than maxStep.
Step(target, current, c) == Clamped(Times(c.rate, target - current), -c.maxStep, c.maxStep)

LimitWeight(target, current, c) ==
  Regularised(
    IF Magnitude(target) < Plank THEN 0
    ELSE IF Magnitude(target - current) < Plank THEN current
    ELSE Clamped(current + Step(target, current, c), -c.limit, c.limit), c)

\* Mutant: a bias past the limit is brought back to it in one step.
LimitBiasHard(target, current, c) ==
  Regularised(
    IF Magnitude(target) < Plank THEN 0
    ELSE IF target = current THEN current
    ELSE Clamped(current + Step(target, current, c), -c.limit, c.limit), c)

\* A bias already past the limit is never pushed further, nor pulled back.
LimitBias(target, current, c) ==
  LET learnt == current + Step(target, current, c)
  IN Regularised(
       IF Magnitude(target) < Plank THEN 0
       ELSE IF target = current THEN current
       ELSE IF learnt >= c.limit /\ learnt > current
              THEN IF current > c.limit THEN current ELSE c.limit
       ELSE IF learnt <= -c.limit /\ learnt < current
              THEN IF current < -c.limit THEN current ELSE -c.limit
       ELSE learnt, c)

\* calculate_weight: the positive and the negative weight and the current one,
\* blended by count and by (capped) generations.
Average(s, current, c) ==
  LET positive == IF s.posAct > Plank THEN Over(s.posAdj, s.posAct) ELSE 0
      negative == IF s.negAct > Plank THEN Over(s.negAdj, -s.negAct) ELSE 0
      active == s.pos + s.neg
      raw == c.generations + s.count - active
      capped == IF raw < 2 * active THEN raw ELSE 2 * active
  IN (positive * s.pos + negative * s.neg + current * capped) \div (active + capped)

CalculateWeight(s, current, c) ==
  IF s.count <= 0 \/ (s.posAct <= Plank /\ s.negAct <= Plank) \/ s.pos + s.neg <= 0
    THEN current
    ELSE LimitWeight(Average(s, current, c), current, c)

CalculateBias(n, current, noChange, c) ==
  IF noChange \/ n.count <= 0 THEN current
  ELSE LET capped == IF c.generations < 2 * n.count THEN c.generations ELSE 2 * n.count
       IN LimitBias((n.adjusted + current * capped) \div (n.count + capped), current, c)
=============================================================================
