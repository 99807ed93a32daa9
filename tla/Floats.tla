------------------------------- MODULE Floats -------------------------------
(***************************************************************************)
(* f32 in little: a sign and a magnitude in units of 1 / Unit, rounded to  *)
(* nearest, ties to even.  The magnitudes a step apart are the step's      *)
(* multiples by less than Significands.  A magnitude above MaxMag is       *)
(* infinite; one of -1 is NaN.  There are two zeros, which are equal and   *)
(* which a division tells apart.                                           *)
(***************************************************************************)
EXTENDS Integers

CONSTANTS Unit, Significands, MaxMag,
          Steps    \* between neighbours: 1, 2, 4, ... units

ASSUME FloatsAssumption == {Unit, Significands, MaxMag} \cup Steps \subseteq Nat \ {0}

Huge == MaxMag + 1
NaN  == [neg |-> FALSE, mag |-> -1]

Float32 == [neg : BOOLEAN, mag : 0 .. Huge] \cup {NaN}

Infinity(neg) == [neg |-> neg, mag |-> Huge]
Zero(neg)     == [neg |-> neg, mag |-> 0]

\* The float nearest to num / den units.
Round(neg, num, den) ==
    LET wide == {s \in Steps : num < Significands * s * den}
        step == CHOOSE s \in wide : \A r \in wide : s <= r
        ulp  == step * den
        q    == num \div ulp
        rest == num % ulp
        mag  == step * (q + IF 2 * rest > ulp \/ (2 * rest = ulp /\ q % 2 = 1) THEN 1 ELSE 0)
    IN  IF wide = {} \/ mag > MaxMag THEN Infinity(neg) ELSE [neg |-> neg, mag |-> mag]

\* `i as f32'.
FromInt(i) == IF i < 0 THEN Round(TRUE, - i * Unit, 1) ELSE Round(FALSE, i * Unit, 1)

Signed(x) == IF x.neg THEN - x.mag ELSE x.mag

Numeric(x, y) == NaN \notin {x, y}

Equals(x, y) == Numeric(x, y) /\ Signed(x) = Signed(y)
Above(x, y)  == Numeric(x, y) /\ Signed(x) > Signed(y)

Negated(x) == IF x = NaN THEN NaN ELSE [x EXCEPT !.neg = ~ @]

Plus(x, y) ==
    LET sum == Signed(x) + Signed(y)
    IN  IF ~ Numeric(x, y) \/ (x.mag = Huge /\ y = Negated(x)) THEN NaN
        ELSE IF x.mag = Huge THEN x
        ELSE IF y.mag = Huge THEN y
        ELSE IF sum = 0 THEN Zero(x.neg /\ y.neg)
        ELSE IF sum < 0 THEN Round(TRUE, - sum, 1)
        ELSE Round(FALSE, sum, 1)

Minus(x, y) == Plus(x, Negated(y))

Times(x, y) ==
    LET neg == x.neg # y.neg
    IN  IF ~ Numeric(x, y) \/ {x.mag, y.mag} = {0, Huge} THEN NaN
        ELSE IF Huge \in {x.mag, y.mag} THEN Infinity(neg)
        ELSE Round(neg, x.mag * y.mag, Unit)

Quotient(x, y) ==
    LET neg == x.neg # y.neg
    IN  IF ~ Numeric(x, y) \/ (x.mag = y.mag /\ x.mag \in {0, Huge}) THEN NaN
        ELSE IF x.mag = Huge \/ y.mag = 0 THEN Infinity(neg)
        ELSE IF y.mag = Huge THEN Zero(neg)
        ELSE Round(neg, x.mag * Unit, y.mag)
=============================================================================
