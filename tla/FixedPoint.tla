----------------------------- MODULE FixedPoint -----------------------------
(***************************************************************************)
(* Numbers of the training code: multiples of one unit, One of them to 1.0, *)
(* every product and quotient rounded down.  Rounding is kept because the   *)
(* code compensates for it.                                                 *)
(***************************************************************************)
EXTENDS Integers, SequencesExt

CONSTANTS
  One,      \* units in 1.0
  Plank     \* plank_constant, in units

\* The plank is no less than a unit: it is positive, and a multiple of units.
ASSUME FixedPointAssumption == One \in Nat \ {0} /\ Plank \in Nat \ {0}

Magnitude(a) == IF a < 0 THEN -a ELSE a
Sign(a) == IF a > 0 THEN 1 ELSE IF a < 0 THEN -1 ELSE 0
Clamped(a, low, high) == IF a < low THEN low ELSE IF a > high THEN high ELSE a

Times(a, b) == (a * b) \div One
Over(a, b) == IF b > 0 THEN (a * One) \div b ELSE ((-a) * One) \div (-b)

SumOf(s) == LET upTo[k \in 0 .. Len(s)] == IF k = 0 THEN 0 ELSE upTo[k - 1] + s[k] IN upTo[Len(s)]

\* The first place of the largest member.
FirstLargest(s) ==
  CHOOSE i \in 1 .. Len(s) :
    /\ \A j \in 1 .. Len(s) : s[j] <= s[i]
    /\ \A j \in 1 .. i - 1 : s[j] < s[i]

\* x / sqrt(n), towards zero.
OverRoot(x, n) ==
  Sign(x) * CHOOSE r \in 0 .. Magnitude(x) : r * r * n <= x * x /\ (r + 1) * (r + 1) * n > x * x
=============================================================================
