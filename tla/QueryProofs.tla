----------------------------- MODULE QueryProofs -----------------------------
(***************************************************************************)
(* Proofs about Query for any statements, any tables and rows, numbers of  *)
(* any width and expressions of any depth.                                 *)
(*                                                                         *)
(* Trees first: the recursive functions over them are shown to exist, and  *)
(* to be what they are of the parts; then what operators make of values,   *)
(* the type of an expression, and the laws of comparisons and connectives  *)
(* on one row.  The invariant adds that the plan is still what the binder  *)
(* makes of the statement, and how far a scan has come.                    *)
(***************************************************************************)
EXTENDS Query, FiniteSetTheorems, WellFoundedInduction, TLAPS

-----------------------------------------------------------------------------
(* Numbers                                                                 *)

\* A set of numbers that has a member has a least one.
LEMMA LeastExists ==
    ASSUME NEW T \in SUBSET Nat, T # {}
    PROVE  \E x \in T : \A y \in T : x <= y
<1>1. PICK x \in T : \A y \in T : ~ (<<y, x>> \in OpToRel(<, Nat))
  BY NatLessThanWellFounded, WFMin, Zenon
<1>2. \A y \in T : ~ (y < x)
  BY <1>1, Zenon DEF OpToRel
<1> QED BY <1>2

LEMMA NumberInduction ==
    ASSUME NEW T, 0 \in T, \A k \in Nat : k \in T => k + 1 \in T
    PROVE  \A n \in Nat : n \in T
<1> DEFINE U == {n \in Nat : n \notin T}
<1> SUFFICES ASSUME U # {} PROVE FALSE
  OBVIOUS
<1>1. PICK x \in U : \A y \in U : x <= y
  BY LeastExists
<1>2. x \in Nat /\ x \notin T /\ x # 0
  OBVIOUS
<1>3. x - 1 \in Nat /\ x - 1 \notin U
  BY <1>1, <1>2
<1>4. x - 1 \in T
  BY <1>3
<1>5. (x - 1) + 1 \in T
  BY <1>3, <1>4
<1> QED BY <1>2, <1>5

-----------------------------------------------------------------------------
(* The trees *)

LEMMA Bounds ==
    /\ MaxInt \in Nat /\ MaxInt >= 1 /\ MaxNesting \in Nat /\ 2 * MaxNesting \in Nat
    /\ MinInt \in Int /\ MinInt = - MaxInt - 1
    /\ MaxNesting >= 2
BY ExprAssumption, StatementsAssumption DEF MinInt

\* The expressions nested n deep, one function for all n.
LEMMA NestedExists ==
    /\ Nested[0] = Leaves
    /\ \A n \in 1 .. 2 * MaxNesting : Nested[n] = Leaves \cup Applications(Nested[n - 1])
<1> DEFINE N == 2 * MaxNesting
           Step(g, n) == Leaves \cup (IF n = 0 THEN {} ELSE Applications(g[n - 1]))
           T == {n \in Nat : \E g : g = [m \in 0 .. n |-> Step(g, m)]}
<1>1. 0 \in T
  <2> DEFINE g == [m \in 0 .. 0 |-> Leaves]
  <2>1. g = [m \in 0 .. 0 |-> Step(g, m)]
    <3>1. \A m \in 0 .. 0 : Step(g, m) = Leaves
      OBVIOUS
    <3> QED BY <3>1
  <2> QED BY <2>1
<1>2. ASSUME NEW n \in Nat, n \in T PROVE n + 1 \in T
  <2>1. PICK g : g = [m \in 0 .. n |-> Step(g, m)]
    BY <1>2
  <2> DEFINE h == [m \in 0 .. n + 1 |-> Step(g, m)]
  <2> HIDE DEF Step
  <2>2. \A m \in 0 .. n : h[m] = g[m]
    BY <2>1
  <2>3. \A m \in 0 .. n + 1 : Step(h, m) = Step(g, m)
    <3> TAKE m \in 0 .. n + 1
    <3>1. m # 0 => m - 1 \in 0 .. n
      OBVIOUS
    <3>2. m # 0 => h[m - 1] = g[m - 1]
      BY <3>1, <2>2
    <3> QED BY <3>2 DEF Step
  <2>4. h = [m \in 0 .. n + 1 |-> Step(h, m)]
    BY <2>3
  <2> HIDE DEF h
  <2>5. \E f : f = [m \in 0 .. n + 1 |-> Step(f, m)]
    BY <2>4
  <2> QED BY <2>5
<1> HIDE DEF T
<1>3. N \in T
  BY <1>1, <1>2, NumberInduction, Bounds
<1>4. PICK g : g = [m \in 0 .. N |-> Step(g, m)]
  BY <1>3 DEF T
<1>5. Nested = CHOOSE f : f = [n \in 0 .. N |-> Step(f, n)]
  BY DEF Nested
<1>6. Nested = [m \in 0 .. N |-> Step(Nested, m)]
  <2> HIDE DEF Step
  <2> QED BY <1>4, <1>5
<1> HIDE DEF Step
<1>7. \A n \in 0 .. N : Nested[n] = Step(Nested, n)
  BY <1>6
<1>8. 0 \in 0 .. N /\ \A n \in 1 .. N : n \in 0 .. N /\ n # 0
  BY Bounds
<1> QED
  BY <1>7, <1>8 DEF Step

\* What an expression is.
LEMMA Shapes ==
    /\ \A e \in Leaves :
          (e.op = "Constant" /\ e.value \in Value) \/ (e.op = "AttrRef" /\ e.idx \in Nat)
    /\ \A S : \A e \in Applications(S) :
          \/ e.op \in UnaryOps /\ e.args \in [1 .. 1 -> S]
          \/ e.op \in BinaryOps /\ e.args \in [1 .. 2 -> S]
BY DEF Leaves, Applications

LEMMA ApplicationsGrow ==
    ASSUME NEW A, NEW B, A \subseteq B
    PROVE  Applications(A) \subseteq Applications(B)
<1>1. [1 .. 1 -> A] \subseteq [1 .. 1 -> B] /\ [1 .. 2 -> A] \subseteq [1 .. 2 -> B]
  OBVIOUS
<1> QED BY <1>1 DEF Applications

LEMMA NestedGrows ==
    \A n \in 0 .. 2 * MaxNesting : \A m \in 0 .. n : Nested[m] \subseteq Nested[n]
<1> DEFINE N == 2 * MaxNesting
<1> N \in Nat
  BY Bounds
<1> HIDE DEF N
<1>1. /\ Nested[0] = Leaves
      /\ \A n \in 1 .. N : Nested[n] = Leaves \cup Applications(Nested[n - 1])
  BY NestedExists DEF N
<1> DEFINE T == {n \in Nat : n \in 1 .. N => Nested[n - 1] \subseteq Nested[n]}
           U == {n \in Nat : n \in 0 .. N => \A m \in 0 .. n : Nested[m] \subseteq Nested[n]}
<1>2. 0 \in T
  OBVIOUS
<1>3. ASSUME NEW n \in Nat, n \in T PROVE n + 1 \in T
  <2> SUFFICES ASSUME n + 1 \in 1 .. N PROVE Nested[n] \subseteq Nested[n + 1]
    OBVIOUS
  <2>1. Nested[n + 1] = Leaves \cup Applications(Nested[n])
    BY <1>1
  <2>2. CASE n = 0
    BY <2>1, <2>2, <1>1
  <2>3. CASE n # 0
    <3>1. n \in 1 .. N /\ Nested[n] = Leaves \cup Applications(Nested[n - 1])
      BY <2>3, <1>1
    <3>2. Nested[n - 1] \subseteq Nested[n]
      BY <3>1, <1>3
    <3> QED BY <2>1, <3>1, <3>2, ApplicationsGrow
  <2> QED BY <2>2, <2>3
<1> HIDE DEF T
<1>4. \A n \in 1 .. N : Nested[n - 1] \subseteq Nested[n]
  <2>1. \A n \in Nat : n \in T
    BY <1>2, <1>3, NumberInduction
  <2> QED BY <2>1 DEF T
<1>5. 0 \in U
  OBVIOUS
<1>6. ASSUME NEW n \in Nat, n \in U PROVE n + 1 \in U
  <2> SUFFICES ASSUME n + 1 \in 0 .. N, NEW m \in 0 .. n + 1
               PROVE  Nested[m] \subseteq Nested[n + 1]
    OBVIOUS
  <2>1. CASE m = n + 1
    BY <2>1
  <2>2. CASE m # n + 1
    <3>1. Nested[m] \subseteq Nested[n]
      BY <2>2, <1>6
    <3>2. Nested[n] \subseteq Nested[n + 1]
      BY <1>4
    <3> QED BY <3>1, <3>2
  <2> QED BY <2>1, <2>2
<1> HIDE DEF U
<1>7. \A n \in Nat : n \in U
  BY <1>5, <1>6, NumberInduction
<1> QED BY <1>7 DEF U, N

\* The parts of an expression are expressions, and what is nested less deeply than
\* the bound is.
LEMMA PartsAreExpressions ==
    /\ \A n \in 0 .. 2 * MaxNesting : Nested[n] \subseteq Expressions
    /\ \A e \in Expressions : e \in Leaves \/ e \in Applications(Expressions)
    /\ Leaves \subseteq Expressions
    /\ \A n \in 1 .. 2 * MaxNesting : Applications(Nested[n - 1]) \subseteq Expressions
<1> DEFINE N == 2 * MaxNesting
<1>1. N \in Nat /\ N >= 1
  BY Bounds
<1>2. \A n \in 0 .. N : Nested[n] \subseteq Nested[N]
  BY <1>1, NestedGrows
<1>3. Expressions = Nested[N]
  BY DEF Expressions
<1> HIDE DEF N
<1>4. /\ Nested[0] = Leaves
      /\ \A n \in 1 .. N : Nested[n] = Leaves \cup Applications(Nested[n - 1])
  BY NestedExists DEF N
<1>5. Applications(Nested[N - 1]) \subseteq Applications(Nested[N])
  BY <1>1, <1>2, ApplicationsGrow
<1> QED BY <1>1, <1>2, <1>3, <1>4, <1>5 DEF N

-----------------------------------------------------------------------------
(* evaluate is defined by what it is of the parts.                         *)

\* A step of evaluate's recursion.
ValueStep(b, tuple, value, e) ==
    CASE e.op = "Constant" -> e.value
      [] e.op = "AttrRef"  -> IF e.idx \in DOMAIN tuple THEN tuple[e.idx] ELSE Panic
      [] e.op \in UnaryOps -> Unary(e.op, value[e.args[1]])
      [] OTHER -> Binary(b, e.op, value[e.args[1]], value[e.args[2]])

ValueOf(b, tuple) == CHOOSE g : g = [e \in Expressions |-> ValueStep(b, tuple, g, e)]

LEMMA ValueStepOfParts ==
    ASSUME NEW b, NEW tuple, NEW f, NEW g, NEW S, \A e \in S : f[e] = g[e],
           NEW e, e \in Leaves \cup Applications(S)
    PROVE  ValueStep(b, tuple, f, e) = ValueStep(b, tuple, g, e)
<1>1. CASE e.op = "Constant" \/ e.op = "AttrRef"
  BY <1>1 DEF ValueStep, UnaryOps
<1>2. CASE e.op \in UnaryOps /\ e.args \in [1 .. 1 -> S]
  <2>1. f[e.args[1]] = g[e.args[1]]
    BY <1>2
  <2>2. e.op \notin {"Constant", "AttrRef"}
    BY <1>2 DEF UnaryOps
  <2> QED BY <2>1, <2>2, <1>2 DEF ValueStep
<1>3. CASE e.op \in BinaryOps /\ e.args \in [1 .. 2 -> S]
  <2>1. f[e.args[1]] = g[e.args[1]] /\ f[e.args[2]] = g[e.args[2]]
    BY <1>3
  <2>2. e.op \notin {"Constant", "AttrRef"} \cup UnaryOps
    BY <1>3 DEF UnaryOps, BinaryOps
  <2> QED BY <2>1, <2>2, <1>3 DEF ValueStep
<1> QED BY <1>1, <1>2, <1>3, Shapes

LEMMA ValueExists ==
    ASSUME NEW b, NEW tuple
    PROVE  ValueOf(b, tuple) = [e \in Expressions |-> ValueStep(b, tuple, ValueOf(b, tuple), e)]
<1> DEFINE N == 2 * MaxNesting
           Step(g, e) == ValueStep(b, tuple, g, e)
           Unfolds(g, n) == g = [e \in Nested[n] |-> Step(g, e)]
           T == {n \in Nat : n \in 0 .. N => \E g : Unfolds(g, n)}
<1> N \in Nat
  BY Bounds
<1> HIDE DEF N, Step
<1>1. /\ Nested[0] = Leaves
      /\ \A n \in 1 .. N : Nested[n] = Leaves \cup Applications(Nested[n - 1])
  BY NestedExists DEF N
<1>2. ASSUME NEW f, NEW g, NEW S, \A e \in S : f[e] = g[e], NEW e \in Leaves \cup Applications(S)
      PROVE  Step(f, e) = Step(g, e)
  BY <1>2, ValueStepOfParts DEF Step
<1>3. 0 \in T
  <2> DEFINE g == [e \in Leaves |-> Step(<<>>, e)]
  <2>1. \A e \in Leaves : Step(g, e) = Step(<<>>, e)
    <3> TAKE e \in Leaves
    <3>1. \A x \in {} : g[x] = <<>>[x]
      OBVIOUS
    <3>2. e \in Leaves \cup Applications({})
      OBVIOUS
    <3> HIDE DEF g
    <3> DEFINE none == <<>>
               nothing == {}
    <3> HIDE DEF none, nothing
    <3>3. \A x \in nothing : g[x] = none[x]
      BY DEF nothing
    <3>4. e \in Leaves \cup Applications(nothing)
      OBVIOUS
    <3>5. Step(g, e) = Step(none, e)
      BY <3>3, <3>4, <1>2
    <3> QED BY <3>5 DEF none
  <2>2. Unfolds(g, 0)
    BY <1>1, <2>1
  <2> QED BY <2>2
<1>4. ASSUME NEW n \in Nat, n \in T PROVE n + 1 \in T
  <2> SUFFICES ASSUME n + 1 \in 0 .. N PROVE \E h : Unfolds(h, n + 1)
    OBVIOUS
  <2>1. PICK g : Unfolds(g, n)
    BY <1>4
  <2>2. Nested[n + 1] = Leaves \cup Applications(Nested[n])
    BY <1>1
  <2>3. Nested[n] \subseteq Nested[n + 1]
    BY NestedGrows DEF N
  <2> DEFINE h == [e \in Nested[n + 1] |-> Step(g, e)]
  <2>4. \A e \in Nested[n] : h[e] = g[e]
    BY <2>1, <2>3
  <2>5. \A e \in Nested[n + 1] : Step(h, e) = Step(g, e)
    <3> HIDE DEF h
    <3> QED BY <2>4, <2>2, <1>2
  <2>6. h = [e \in Nested[n + 1] |-> Step(h, e)]
    BY <2>5
  <2> HIDE DEF h
  <2> QED BY <2>6
<1> HIDE DEF T
<1>5. N \in T
  BY <1>3, <1>4, NumberInduction
<1>6. \E g : Unfolds(g, N)
  BY <1>5 DEF T
<1>7. Expressions = Nested[N]
  BY DEF Expressions, N
<1> QED BY <1>6, <1>7 DEF ValueOf, Step

LEMMA EvaluateIs ==
    ASSUME NEW b, NEW tuple, NEW e \in Expressions
    PROVE  /\ evaluate(b, e, tuple) = ValueOf(b, tuple)[e]
           /\ evaluate(b, e, tuple) = ValueStep(b, tuple, ValueOf(b, tuple), e)
<1>1. evaluate(b, e, tuple) = ValueOf(b, tuple)[e]
  BY DEF evaluate, ValueOf, ValueStep
<1>2. ValueOf(b, tuple)[e] = ValueStep(b, tuple, ValueOf(b, tuple), e)
  <2> DEFINE V == ValueOf(b, tuple)
             Step(x) == ValueStep(b, tuple, V, x)
  <2> HIDE DEF Step
  <2>1. V = [x \in Expressions |-> Step(x)]
    BY ValueExists DEF Step
  <2> HIDE DEF V
  <2>2. V[e] = Step(e)
    BY <2>1
  <2> QED BY <2>2 DEF Step, V
<1> QED BY <1>1, <1>2

\* What evaluate is, by the shape of the expression.
LEMMA Evaluates ==
    ASSUME NEW b, NEW tuple, NEW e \in Expressions
    PROVE  LET x == evaluate(b, e.args[1], tuple)
               y == evaluate(b, e.args[2], tuple)
           IN  /\ e.op = "Constant" => evaluate(b, e, tuple) = e.value
               /\ e.op = "AttrRef" =>
                     evaluate(b, e, tuple) = IF e.idx \in DOMAIN tuple THEN tuple[e.idx] ELSE Panic
               /\ e.op \in UnaryOps => evaluate(b, e, tuple) = Unary(e.op, x)
               /\ e.op \in BinaryOps => evaluate(b, e, tuple) = Binary(b, e.op, x, y)
<1> DEFINE V == ValueOf(b, tuple)
<1>1. evaluate(b, e, tuple) = ValueStep(b, tuple, V, e)
  BY EvaluateIs
<1>2. \A a \in Expressions : evaluate(b, a, tuple) = V[a]
  BY EvaluateIs
<1> HIDE DEF V
<1>3. e.op = "Constant" \/ e.op = "AttrRef" => e.op \notin UnaryOps \cup BinaryOps
  BY DEF UnaryOps, BinaryOps
<1>4. UnaryOps \cap BinaryOps = {}
  BY DEF UnaryOps, BinaryOps
<1>5. CASE e.op = "Constant"
  BY <1>1, <1>3, <1>5 DEF ValueStep
<1>6. CASE e.op = "AttrRef"
  BY <1>1, <1>3, <1>6 DEF ValueStep
<1>7. CASE e.op \in UnaryOps
  <2>1. e.args[1] \in Expressions
    <3>1. e \in Applications(Expressions)
      BY <1>7, <1>3, PartsAreExpressions, Shapes
    <3> QED BY <3>1, <1>7, <1>4, Shapes
  <2> QED BY <2>1, <1>1, <1>2, <1>3, <1>4, <1>7 DEF ValueStep
<1>8. CASE e.op \in BinaryOps
  <2>1. e.args[1] \in Expressions /\ e.args[2] \in Expressions
    <3>1. e \in Applications(Expressions)
      BY <1>8, <1>3, PartsAreExpressions, Shapes
    <3> QED BY <3>1, <1>8, <1>4, Shapes
  <2> QED BY <2>1, <1>1, <1>2, <1>3, <1>4, <1>8 DEF ValueStep
<1> QED BY <1>5, <1>6, <1>7, <1>8

-----------------------------------------------------------------------------
(* What the operators make of values is a value.                           *)

Finite == [neg : BOOLEAN, mag : 0 .. Huge]

LEMMA FloatConstants ==
    /\ Unit \in Nat /\ Unit >= 1 /\ MaxMag \in Nat /\ Huge \in Nat /\ Huge > MaxMag
    /\ Significands \in Nat /\ Steps \subseteq Nat \ {0}
    /\ Float32 = Finite \cup {NaN} /\ NaN \notin Finite
    /\ \A neg \in BOOLEAN : Infinity(neg) \in Finite /\ Zero(neg) \in Finite
<1>1. Unit \in Nat \ {0} /\ MaxMag \in Nat \ {0} /\ Significands \in Nat \ {0} /\ Steps \subseteq Nat \ {0}
  BY FloatsAssumption
<1>2. Huge \in Nat /\ Huge > MaxMag
  BY <1>1 DEF Huge
<1> QED BY <1>1, <1>2 DEF Float32, Finite, NaN, Infinity, Zero

LEMMA QuotientsAreNatural ==
    ASSUME NEW n \in Nat, NEW d \in Nat \ {0}
    PROVE  n \div d \in Nat /\ n % d \in Nat /\ n = d * (n \div d) + (n % d) /\ n % d < d
OBVIOUS

LEMMA RoundIsFinite ==
    ASSUME NEW neg \in BOOLEAN, NEW num \in Nat, NEW den \in Nat \ {0}
    PROVE  Round(neg, num, den) \in Finite
<1> DEFINE wide == {s \in Steps : num < Significands * s * den}
           step == CHOOSE s \in wide : \A r \in wide : s <= r
           ulp  == step * den
           q    == num \div ulp
           rest == num % ulp
           up   == IF 2 * rest > ulp \/ (2 * rest = ulp /\ q % 2 = 1) THEN 1 ELSE 0
           mag  == step * (q + up)
<1>1. CASE wide = {}
  BY <1>1, FloatConstants DEF Round
<1>2. CASE wide # {}
  <2>1. wide \in SUBSET Nat
    BY FloatConstants
  <2>2. \E s \in wide : \A r \in wide : s <= r
    BY <2>1, <1>2, LeastExists
  <2>3. step \in wide
    BY <2>2
  <2>4. step \in Nat \ {0}
    BY <2>3, FloatConstants
  <2> HIDE DEF step
  <2>5. ulp \in Nat \ {0}
    <3>1. \A x, y \in Nat \ {0} : x * y \in Nat \ {0}
      OBVIOUS
    <3> QED BY <3>1, <2>4
  <2> HIDE DEF ulp
  <2>6. q \in Nat
    BY <2>5, QuotientsAreNatural
  <2> HIDE DEF q
  <2>7. mag \in Nat
    <3>1. up \in Nat
      OBVIOUS
    <3>2. \A x, y, z \in Nat : x * (y + z) \in Nat
      OBVIOUS
    <3> HIDE DEF up
    <3> QED BY <3>1, <3>2, <2>4, <2>6
  <2>8. Round(neg, num, den) = IF wide = {} \/ mag > MaxMag THEN Infinity(neg)
                               ELSE [neg |-> neg, mag |-> mag]
    BY DEF Round, step, ulp, q
  <2> HIDE DEF mag, wide
  <2>9. CASE mag > MaxMag
    BY <2>8, <2>9, FloatConstants
  <2>10. CASE ~ (mag > MaxMag)
    <3>1. mag \in 0 .. Huge
      BY <2>7, <2>10, FloatConstants
    <3> QED BY <3>1, <2>8, <2>10, <1>2 DEF Finite
  <2> QED BY <2>9, <2>10
<1> QED BY <1>1, <1>2

LEMMA RoundsAreFinite ==
    ASSUME NEW num \in Nat, NEW den \in Nat, den >= 1
    PROVE  /\ Round(TRUE, num, den) \in Finite
           /\ Round(FALSE, num, den) \in Finite
           /\ \A neg \in BOOLEAN : Round(neg, num, den) \in Finite
<1>1. den \in Nat \ {0} /\ TRUE \in BOOLEAN /\ FALSE \in BOOLEAN
  OBVIOUS
<1> QED BY <1>1, RoundIsFinite, Zenon

LEMMA FromIntIsFinite ==
    ASSUME NEW i \in Int
    PROVE  FromInt(i) \in Finite
<1>1. \A x, y \in Int : x * y \in Int /\ (x >= 0 /\ y >= 0 => x * y >= 0)
  OBVIOUS
<1>2. 1 \in Nat /\ 1 >= 1
  OBVIOUS
<1>3. CASE i < 0
  <2>1. - i * Unit \in Nat
    BY <1>1, <1>3, FloatConstants
  <2>2. Round(TRUE, - i * Unit, 1) \in Finite
    BY <2>1, <1>2, RoundsAreFinite, Zenon
  <2> QED BY <2>2, <1>3 DEF FromInt
<1>4. CASE i >= 0
  <2>1. i * Unit \in Nat
    BY <1>1, <1>4, FloatConstants
  <2>2. Round(FALSE, i * Unit, 1) \in Finite
    BY <2>1, <1>2, RoundsAreFinite, Zenon
  <2>3. ~ (i < 0)
    BY <1>4
  <2> QED BY <2>2, <2>3, Zenon DEF FromInt
<1> QED BY <1>3, <1>4

LEMMA FloatOperations ==
    ASSUME NEW x \in Float32, NEW y \in Float32
    PROVE  /\ Negated(x) \in Float32
           /\ Plus(x, y) \in Float32
           /\ Minus(x, y) \in Float32
           /\ Times(x, y) \in Float32
           /\ Quotient(x, y) \in Float32
<1>1. \A f \in Finite : f.neg \in BOOLEAN /\ f.mag \in Nat /\ f.mag \in 0 .. Huge
  BY FloatConstants DEF Finite
<1>2. ASSUME NEW a \in Float32 PROVE Negated(a) \in Float32
  <2>1. CASE a = NaN
    BY <2>1, FloatConstants DEF Negated
  <2>2. CASE a \in Finite /\ a # NaN
    BY <2>2, <1>1, FloatConstants DEF Negated, Finite
  <2> QED BY <2>1, <2>2, FloatConstants
<1>3. ASSUME NEW a \in Float32, NEW b \in Float32 PROVE Plus(a, b) \in Float32
  <2>1. CASE NaN \in {a, b}
    BY <2>1, FloatConstants DEF Plus, Numeric
  <2>2. CASE NaN \notin {a, b}
    <3>1. a \in Finite /\ b \in Finite
      BY <2>2, FloatConstants
    <3>2. Signed(a) \in Int /\ Signed(b) \in Int
      BY <3>1, <1>1 DEF Signed
    <3> DEFINE sum == Signed(a) + Signed(b)
    <3>3. sum \in Int
      BY <3>2
    <3>4. Plus(a, b) = IF ~ Numeric(a, b) \/ (a.mag = Huge /\ b = Negated(a)) THEN NaN
                       ELSE IF a.mag = Huge THEN a
                       ELSE IF b.mag = Huge THEN b
                       ELSE IF sum = 0 THEN Zero(a.neg /\ b.neg)
                       ELSE IF sum < 0 THEN Round(TRUE, - sum, 1)
                       ELSE Round(FALSE, sum, 1)
      BY DEF Plus
    <3> HIDE DEF sum
    <3>5. (sum < 0 => - sum \in Nat) /\ (~ (sum < 0) => sum \in Nat) /\ 1 \in Nat /\ 1 >= 1
      BY <3>3
    <3>6. sum < 0 => Round(TRUE, - sum, 1) \in Finite
      BY <3>5, RoundsAreFinite, Zenon
    <3>7. ~ (sum < 0) => Round(FALSE, sum, 1) \in Finite
      BY <3>5, RoundsAreFinite, Zenon
    <3>8. Zero(a.neg /\ b.neg) \in Finite
      BY FloatConstants
    <3> QED BY <3>1, <3>4, <3>6, <3>7, <3>8, FloatConstants
  <2> QED BY <2>1, <2>2
<1>4. \A a, b \in Nat : a * b \in Nat
  OBVIOUS
<1>5. Times(x, y) \in Float32
  <2>1. CASE NaN \in {x, y}
    BY <2>1, FloatConstants DEF Times, Numeric
  <2>2. CASE NaN \notin {x, y}
    <3>1. x \in Finite /\ y \in Finite
      BY <2>2, FloatConstants
    <3>2. (x.neg # y.neg) \in BOOLEAN /\ x.mag * y.mag \in Nat
      BY <3>1, <1>1, <1>4
    <3>3. Round(x.neg # y.neg, x.mag * y.mag, Unit) \in Finite
      BY <3>2, RoundsAreFinite, FloatConstants
    <3>4. Infinity(x.neg # y.neg) \in Finite
      BY FloatConstants
    <3> QED BY <3>3, <3>4, FloatConstants DEF Times
  <2> QED BY <2>1, <2>2
<1>6. Quotient(x, y) \in Float32
  <2>1. CASE NaN \in {x, y}
    BY <2>1, FloatConstants DEF Quotient, Numeric
  <2>2. CASE NaN \notin {x, y}
    <3>1. x \in Finite /\ y \in Finite
      BY <2>2, FloatConstants
    <3>2. (x.neg # y.neg) \in BOOLEAN /\ x.mag * Unit \in Nat
      BY <3>1, <1>1, <1>4, FloatConstants
    <3>3. y.mag # 0 => Round(x.neg # y.neg, x.mag * Unit, y.mag) \in Finite
      <4>1. y.mag # 0 => y.mag \in Nat /\ y.mag >= 1
        BY <3>1, <1>1
      <4> QED BY <4>1, <3>2, RoundsAreFinite, Zenon
    <3>4. Infinity(x.neg # y.neg) \in Finite /\ Zero(x.neg # y.neg) \in Finite
      BY FloatConstants
    <3> QED BY <3>3, <3>4, FloatConstants DEF Quotient
  <2> QED BY <2>1, <2>2
<1> QED BY <1>2, <1>3, <1>5, <1>6 DEF Minus

\* What an evaluation can end in.
Outcome == Value \cup {Err("InvalidComparison"), Panic}

LEMMA ValuesByType ==
    /\ \A x \in Value :
          \/ x.type = "Int" /\ x.v \in MinInt .. MaxInt /\ x \in ValuesOf("Int")
          \/ x.type = "Float" /\ x.v \in Float32 /\ x \in ValuesOf("Float")
          \/ x.type = "VarChar" /\ x.v \in Seq(Nat) /\ x \in ValuesOf("VarChar")
          \/ x.type = "Boolean" /\ x.v \in BOOLEAN /\ x \in ValuesOf("Boolean")
          \/ x.type = "Null" /\ x = Null /\ x \in ValuesOf("Null")
    /\ \A n \in MinInt .. MaxInt : Integer(n) \in Value
    /\ \A f \in Float32 : Float(f) \in Value
    /\ \A s \in Seq(Nat) : VarChar(s) \in Value
    /\ \A b \in BOOLEAN : Boolean(b) \in Value
    /\ Null \in Value
<1>1. ValuesOf("Int") = [type : {"Int"}, v : MinInt .. MaxInt]
  BY DEF ValuesOf
<1>2. ValuesOf("Float") = [type : {"Float"}, v : Float32]
  BY DEF ValuesOf
<1>3. ValuesOf("VarChar") = [type : {"VarChar"}, v : Seq(Nat)]
  BY DEF ValuesOf
<1>4. ValuesOf("Boolean") = [type : {"Boolean"}, v : BOOLEAN]
  BY DEF ValuesOf
<1>5. ValuesOf("Null") = {Null}
  BY DEF ValuesOf
<1>6. \A x \in ValuesOf("Int") : x.type = "Int" /\ x.v \in MinInt .. MaxInt
  <2>1. \A x \in [type : {"Int"}, v : MinInt .. MaxInt] : x.type = "Int" /\ x.v \in MinInt .. MaxInt
    OBVIOUS
  <2> QED BY <2>1, <1>1, Zenon
<1>7. \A x \in ValuesOf("Float") : x.type = "Float" /\ x.v \in Float32
  <2>1. \A x \in [type : {"Float"}, v : Float32] : x.type = "Float" /\ x.v \in Float32
    OBVIOUS
  <2> QED BY <2>1, <1>2, Zenon
<1>8. \A x \in ValuesOf("VarChar") : x.type = "VarChar" /\ x.v \in Seq(Nat)
  <2>1. \A x \in [type : {"VarChar"}, v : Seq(Nat)] : x.type = "VarChar" /\ x.v \in Seq(Nat)
    OBVIOUS
  <2> QED BY <2>1, <1>3, Zenon
<1>9. \A x \in ValuesOf("Boolean") : x.type = "Boolean" /\ x.v \in BOOLEAN
  <2>1. \A x \in [type : {"Boolean"}, v : BOOLEAN] : x.type = "Boolean" /\ x.v \in BOOLEAN
    OBVIOUS
  <2> QED BY <2>1, <1>4, Zenon
<1>10. \A x \in ValuesOf("Null") : x.type = "Null" /\ x = Null
  BY <1>5 DEF Null
<1>11. \A n \in MinInt .. MaxInt : Integer(n) \in ValuesOf("Int")
  BY <1>1 DEF Integer
<1>12. \A f \in Float32 : Float(f) \in ValuesOf("Float")
  BY <1>2 DEF Float
<1>13. \A s \in Seq(Nat) : VarChar(s) \in ValuesOf("VarChar")
  BY <1>3 DEF VarChar
<1>14. \A b \in BOOLEAN : Boolean(b) \in ValuesOf("Boolean")
  BY <1>4 DEF Boolean
<1> QED
  BY <1>5, <1>6, <1>7, <1>8, <1>9, <1>10, <1>11, <1>12, <1>13, <1>14, Zenon DEF Value

\* A value fails in no way, and an outcome that is no value does.
LEMMA OutcomesFail ==
    /\ \A x \in Value : x \in Outcome /\ ~ Fails(x)
    /\ \A x \in Outcome : ~ Fails(x) => x \in Value
    /\ \A x \in Outcome : Fails(x) => x \in {Err("InvalidComparison"), Panic}
    /\ Err("InvalidComparison") \in Outcome /\ Panic \in Outcome
    /\ Fails(Err("InvalidComparison")) /\ Fails(Panic)
<1>1. \A x \in Value : x.type \in {"Int", "Float", "VarChar", "Boolean", "Null"}
  BY ValuesByType
<1>2. Err("InvalidComparison").type = "Err" /\ Panic.type = "Panic"
  BY DEF Err, Panic
<1> QED BY <1>1, <1>2 DEF Outcome, Fails

\* Whatever an Int's operation overflows to.
LEMMA ComputedIsOutcome ==
    ASSUME NEW b, NEW n \in Int
    PROVE  Computed(b, n) \in {Panic} \cup ValuesOf("Int")
<1>1. \A m \in MinInt .. MaxInt : Integer(m) \in ValuesOf("Int")
  BY DEF Integer, ValuesOf
<1>2. Wrapped(n) \in MinInt .. MaxInt
  <2> DEFINE w == MaxInt - MinInt + 1
             r == (n - MinInt) % w
  <2>1. w \in Nat /\ w > 0 /\ n - MinInt \in Int
    BY Bounds
  <2>2. \A i \in Int, d \in Nat : d > 0 => i % d \in 0 .. d - 1
    OBVIOUS
  <2>3. r \in 0 .. w - 1
    <3> HIDE DEF w
    <3> QED BY <2>1, <2>2
  <2>4. Wrapped(n) = MinInt + r
    BY DEF Wrapped
  <2> HIDE DEF r
  <2> QED BY <2>3, <2>4, Bounds
<1> QED BY <1>1, <1>2 DEF Computed

LEMMA DivideIntsIsOutcome ==
    ASSUME NEW l \in MinInt .. MaxInt, NEW r \in MinInt .. MaxInt
    PROVE  DivideInts(l, r) \in {Panic} \cup ValuesOf("Int")
<1>1. \A m \in MinInt .. MaxInt : Integer(m) \in ValuesOf("Int")
  BY DEF Integer, ValuesOf
<1> SUFFICES ASSUME r # 0, ~ (l = MinInt /\ r = -1)
             PROVE  DivideInts(l, r) \in ValuesOf("Int")
  BY DEF DivideInts
<1> DEFINE a == Magnitude(l)
           d == Magnitude(r)
           q == a \div d
<1>2. a \in Nat /\ d \in Nat \ {0} /\ a <= MaxInt + 1 /\ d >= 1
  BY Bounds DEF Magnitude
<1>3. (l < 0 => l = - a) /\ (~ (l < 0) => l = a) /\ (r < 0 => r = - d) /\ (~ (r < 0) => r = d)
  BY Bounds DEF Magnitude
<1> HIDE DEF a, d
<1>4. q \in Nat /\ a = d * q + (a % d) /\ a % d \in Nat
  BY <1>2, QuotientsAreNatural
<1> HIDE DEF q
<1>5. d * q >= q /\ (d >= 2 => d * q >= 2 * q) /\ d * q \in Nat
  <2>1. \A x, y \in Nat : x * y \in Nat
    OBVIOUS
  <2>2. (d - 1) * q \in Nat /\ (d - 1) * q = d * q - q
    BY <1>2, <1>4, <2>1
  <2>3. d >= 2 => (d - 2) * q \in Nat /\ (d - 2) * q = d * q - 2 * q
    BY <1>2, <1>4, <2>1
  <2> QED BY <2>1, <2>2, <2>3, <1>2, <1>4
<1>6. q <= a /\ (d >= 2 => 2 * q <= a)
  BY <1>2, <1>4, <1>5
<1>7. q <= MaxInt \/ (q = MaxInt + 1 /\ d = 1 /\ a = MaxInt + 1)
  BY <1>2, <1>4, <1>6, Bounds
<1>8. q = MaxInt + 1 => l < 0 /\ ~ (r < 0)
  BY <1>2, <1>3, <1>7, Bounds
<1>9. (IF (l < 0) = (r < 0) THEN q ELSE - q) \in MinInt .. MaxInt
  BY <1>4, <1>7, <1>8, Bounds
<1>10. DivideInts(l, r) = Integer(IF (l < 0) = (r < 0) THEN q ELSE - q)
  BY DEF DivideInts, q, a, d
<1> QED BY <1>1, <1>9, <1>10

LEMMA UnaryOutcome ==
    ASSUME NEW op \in UnaryOps, NEW x \in Outcome
    PROVE  Unary(op, x) \in Outcome
<1>1. CASE Fails(x)
  BY <1>1 DEF Unary
<1>2. CASE ~ Fails(x)
  <2>1. x \in Value
    BY <1>2, OutcomesFail
  <2>2. Not(x) \in Outcome
    <3>1. Boolean(~ x.v) \in Value
      BY ValuesByType
    <3>2. Null \in Value
      BY ValuesByType
    <3> QED BY <3>1, <3>2, OutcomesFail, Zenon DEF Not
  <2>3. Boolean(IsNull(x)) \in Outcome /\ Boolean(~ IsNull(x)) \in Outcome
    <3>1. IsNull(x) \in BOOLEAN /\ (~ IsNull(x)) \in BOOLEAN
      BY DEF IsNull
    <3> QED BY <3>1, ValuesByType, OutcomesFail, Zenon
  <2> QED BY <1>2, <2>2, <2>3 DEF Unary, UnaryOps
<1> QED BY <1>1, <1>2

\* A comparison gives a truth value if what is compared meets.
LEMMA CompareOutcome ==
    ASSUME NEW l, NEW r, NEW holds \in BOOLEAN
    PROVE  Compare(l, r, holds) \in Outcome
<1>1. Boolean(holds) \in Outcome /\ Null \in Outcome /\ Err("InvalidComparison") \in Outcome
  BY ValuesByType, OutcomesFail, Zenon
<1> QED BY <1>1, Zenon DEF Compare

LEMMA ComparisonsAreBoolean ==
    ASSUME NEW l, NEW r
    PROVE  SameValue(l, r) \in BOOLEAN /\ Greater(l, r) \in BOOLEAN
<1>1. SameValue(l, r) \in BOOLEAN
  BY DEF SameValue, Equals
<1>2. Greater(l, r) \in BOOLEAN
  BY Zenon DEF Greater
<1> QED BY <1>1, <1>2

LEMMA AsFloatIsFloat ==
    ASSUME NEW l \in Value, NEW r \in Value, MeetAsFloats(l, r)
    PROVE  /\ AsFloat(l) \in Float32 /\ AsFloat(r) \in Float32
           /\ l.type \in {"Int", "Float"} /\ r.type \in {"Int", "Float"}
           /\ AsFloat(l) = NaN => l.type = "Float" /\ l.v = NaN
           /\ AsFloat(r) = NaN => r.type = "Float" /\ r.v = NaN
<1>1. l.type \in {"Int", "Float"} /\ r.type \in {"Int", "Float"}
  BY DEF MeetAsFloats
<1>2. ASSUME NEW x \in Value, x.type \in {"Int", "Float"}
      PROVE  AsFloat(x) \in Float32 /\ (AsFloat(x) = NaN => x.type = "Float" /\ x.v = NaN)
  <2>1. CASE x.type = "Int"
    <3>1. x.v \in Int
      <4>1. x.v \in MinInt .. MaxInt
        BY <2>1, ValuesByType
      <4> QED BY <4>1, Bounds
    <3>2. AsFloat(x) = FromInt(x.v) /\ FromInt(x.v) \in Finite
      BY <2>1, <3>1, FromIntIsFinite DEF AsFloat
    <3> QED BY <3>2, FloatConstants
  <2>2. CASE x.type = "Float"
    <3>1. x.v \in Float32
      BY <2>2, ValuesByType
    <3>2. AsFloat(x) = x.v
      BY <2>2 DEF AsFloat
    <3> QED BY <2>2, <3>1, <3>2
  <2> QED BY <2>1, <2>2, <1>2
<1> QED BY <1>1, <1>2

Arithmetic == {"Add", "Subtract", "Multiply", "Divide"}

LEMMA OnIntsOutcome ==
    ASSUME NEW b, NEW op \in Arithmetic, NEW m \in MinInt .. MaxInt, NEW n \in MinInt .. MaxInt
    PROVE  OnInts(b, op, m, n) \in {Panic} \cup ValuesOf("Int")
<1>1. m + n \in Int /\ m - n \in Int /\ m * n \in Int
  <2>1. m \in Int /\ n \in Int
    BY Bounds
  <2>2. \A i, j \in Int : i * j \in Int
    OBVIOUS
  <2> QED BY <2>1, <2>2
<1>2. op = "Add" => OnInts(b, op, m, n) = Computed(b, m + n)
  BY DEF OnInts
<1>3. op = "Subtract" => OnInts(b, op, m, n) = Computed(b, m - n)
  BY DEF OnInts
<1>4. op = "Multiply" => OnInts(b, op, m, n) = Computed(b, m * n)
  BY DEF OnInts
<1>5. op = "Divide" => OnInts(b, op, m, n) = DivideInts(m, n)
  BY DEF OnInts
<1>6. op \in {"Add", "Subtract", "Multiply", "Divide"}
  BY DEF Arithmetic
<1>7. \A k \in Int : Computed(b, k) \in {Panic} \cup ValuesOf("Int")
  BY ComputedIsOutcome
<1>8. DivideInts(m, n) \in {Panic} \cup ValuesOf("Int")
  BY DivideIntsIsOutcome
<1> QED BY <1>1, <1>2, <1>3, <1>4, <1>5, <1>6, <1>7, <1>8

LEMMA OnFloatsOutcome ==
    ASSUME NEW op \in Arithmetic, NEW x \in Float32, NEW y \in Float32
    PROVE  OnFloats(op, x, y) \in Float32
BY FloatOperations DEF OnFloats, Arithmetic

\* What arithmetic gives, by the types of its operands.
LEMMA ComputeOutcome ==
    ASSUME NEW b, NEW op \in Arithmetic, NEW l \in Value, NEW r \in Value
    PROVE  LET c == Compute(b, op, l, r)
           IN  IF IsNull(l) \/ IsNull(r) THEN c = Null
               ELSE IF Is("Int", l, r) THEN c \in {Panic} \cup ValuesOf("Int")
               ELSE IF MeetAsFloats(l, r) THEN c \in ValuesOf("Float")
               ELSE IF op = "Add" /\ Is("VarChar", l, r) THEN c \in ValuesOf("VarChar")
               ELSE c = Err("InvalidComparison")
<1>1. Is("Int", l, r) => OnInts(b, op, l.v, r.v) \in {Panic} \cup ValuesOf("Int")
  <2> SUFFICES ASSUME Is("Int", l, r) PROVE OnInts(b, op, l.v, r.v) \in {Panic} \cup ValuesOf("Int")
    OBVIOUS
  <2>1. l.v \in MinInt .. MaxInt /\ r.v \in MinInt .. MaxInt
    BY ValuesByType DEF Is
  <2> QED BY <2>1, OnIntsOutcome
<1>2. MeetAsFloats(l, r) => Float(OnFloats(op, AsFloat(l), AsFloat(r))) \in ValuesOf("Float")
  <2>1. \A f \in Float32 : Float(f) \in ValuesOf("Float")
    BY DEF ValuesOf, Float
  <2> QED BY <2>1, AsFloatIsFloat, OnFloatsOutcome
<1>3. Is("VarChar", l, r) => VarChar(l.v \o r.v) \in ValuesOf("VarChar")
  <2> SUFFICES ASSUME Is("VarChar", l, r) PROVE VarChar(l.v \o r.v) \in ValuesOf("VarChar")
    OBVIOUS
  <2>1. l.v \in Seq(Nat) /\ r.v \in Seq(Nat)
    BY ValuesByType DEF Is
  <2>2. l.v \o r.v \in Seq(Nat)
    BY <2>1
  <2> QED BY <2>2 DEF ValuesOf, VarChar
<1> QED BY <1>1, <1>2, <1>3, Zenon DEF Compute

LEMMA BinaryOutcome ==
    ASSUME NEW b, NEW op \in BinaryOps, NEW l \in Outcome, NEW r \in Outcome
    PROVE  Binary(b, op, l, r) \in Outcome
<1> SUFFICES ASSUME ~ Fails(l), ~ Fails(r) PROVE Binary(b, op, l, r) \in Outcome
  BY DEF Binary
<1>1. l \in Value /\ r \in Value
  BY OutcomesFail
<1>2. And(l, r) \in Outcome /\ Or(l, r) \in Outcome
  <2>1. Boolean(TRUE) \in Outcome /\ Boolean(FALSE) \in Outcome
    BY ValuesByType, OutcomesFail, Zenon
  <2>2. Null \in Outcome /\ Err("InvalidComparison") \in Outcome
    BY ValuesByType, OutcomesFail
  <2> QED BY <2>1, <2>2, Zenon DEF And, Or
<1>3. Compare(l, r, SameValue(l, r)) \in Outcome
  BY <1>1, CompareOutcome, ComparisonsAreBoolean
<1>4. Compare(l, r, Greater(l, r)) \in Outcome /\ Compare(l, r, Greater(r, l)) \in Outcome
  BY <1>1, CompareOutcome, ComparisonsAreBoolean
<1>5. op \in Arithmetic => Compute(b, op, l, r) \in Outcome
  <2>1. ValuesOf("Int") \cup ValuesOf("Float") \cup ValuesOf("VarChar") \subseteq Outcome
    BY DEF Value, Outcome
  <2>2. Null \in Outcome /\ Err("InvalidComparison") \in Outcome /\ Panic \in Outcome
    BY ValuesByType, OutcomesFail
  <2> QED BY <1>1, <2>1, <2>2, ComputeOutcome
<1>6. op \in {"And", "Or", "Equal", "GreaterThan", "LessThan"} \cup Arithmetic
  BY DEF BinaryOps, Arithmetic
<1> QED BY <1>2, <1>3, <1>4, <1>5, <1>6 DEF Binary, Arithmetic

-----------------------------------------------------------------------------
(* Induction over expressions, with a set in the place of a predicate.     *)

LEMMA ExpressionInduction ==
    ASSUME NEW P,
           \A e \in Leaves : e \in P,
           \A e \in Expressions :
              /\ e.op \in UnaryOps /\ e.args[1] \in P \cap Expressions => e \in P
              /\ e.op \in BinaryOps /\ e.args[1] \in P \cap Expressions
                                    /\ e.args[2] \in P \cap Expressions => e \in P
    PROVE  Expressions \subseteq P
<1> DEFINE N == 2 * MaxNesting
           T == {n \in Nat : n \in 0 .. N => Nested[n] \subseteq P}
<1> N \in Nat
  BY Bounds
<1> HIDE DEF N
<1>1. /\ Nested[0] = Leaves
      /\ \A n \in 1 .. N : Nested[n] = Leaves \cup Applications(Nested[n - 1])
      /\ \A n \in 0 .. N : Nested[n] \subseteq Expressions
  BY NestedExists, PartsAreExpressions DEF N
<1>2. 0 \in T
  BY <1>1
<1>3. ASSUME NEW n \in Nat, n \in T PROVE n + 1 \in T
  <2> SUFFICES ASSUME n + 1 \in 0 .. N, NEW e \in Nested[n + 1] PROVE e \in P
    OBVIOUS
  <2>1. e \in Leaves \cup Applications(Nested[n]) /\ e \in Expressions
    BY <1>1
  <2>2. Nested[n] \subseteq P \cap Expressions
    BY <1>1, <1>3
  <2>3. CASE e \in Leaves
    BY <2>3
  <2>4. CASE e.op \in UnaryOps /\ e.args \in [1 .. 1 -> Nested[n]]
    <3>1. e.args[1] \in Nested[n]
      BY <2>4
    <3> QED BY <3>1, <2>1, <2>2, <2>4
  <2>5. CASE e.op \in BinaryOps /\ e.args \in [1 .. 2 -> Nested[n]]
    <3>1. e.args[1] \in Nested[n] /\ e.args[2] \in Nested[n]
      BY <2>5
    <3> QED BY <3>1, <2>1, <2>2, <2>5
  <2> QED BY <2>1, <2>3, <2>4, <2>5, Shapes
<1> HIDE DEF T
<1>4. N \in T
  BY <1>2, <1>3, NumberInduction
<1> QED BY <1>4 DEF T, N, Expressions

\* An expression of stored values, or of no tuple, is a value or fails.
LEMMA EvaluateOutcome ==
    ASSUME NEW b, NEW tuple, \A k \in DOMAIN tuple : tuple[k] \in Value
    PROVE  \A e \in Expressions : evaluate(b, e, tuple) \in Outcome
<1> DEFINE P == {e \in Expressions : evaluate(b, e, tuple) \in Outcome}
<1>1. ASSUME NEW e \in Leaves PROVE e \in P
  <2>1. e \in Expressions
    BY PartsAreExpressions
  <2>2. CASE e.op = "Constant" /\ e.value \in Value
    BY <2>1, <2>2, Evaluates, OutcomesFail
  <2>3. CASE e.op = "AttrRef"
    BY <2>1, <2>3, Evaluates, OutcomesFail
  <2> QED BY <2>2, <2>3, Shapes
<1>2. ASSUME NEW e \in Expressions PROVE
         /\ e.op \in UnaryOps /\ e.args[1] \in P \cap Expressions => e \in P
         /\ e.op \in BinaryOps /\ e.args[1] \in P \cap Expressions
                               /\ e.args[2] \in P \cap Expressions => e \in P
  BY Evaluates, UnaryOutcome, BinaryOutcome
<1> HIDE DEF P
<1>3. Expressions \subseteq P
  BY <1>1, <1>2, ExpressionInduction
<1> QED BY <1>3 DEF P

-----------------------------------------------------------------------------
(* The operators in an expression: Ops is defined, too.                    *)

OpsStep(ops, e) ==
    CASE e.op = "Constant" -> {e.value.type}
      [] e.op = "AttrRef"  -> {"AttrRef"}
      [] OTHER             -> {e.op} \cup UNION {ops[e.args[k]] : k \in DOMAIN e.args}

OpsIn == CHOOSE g : g = [e \in Expressions |-> OpsStep(g, e)]

LEMMA OpsStepOfParts ==
    ASSUME NEW f, NEW g, NEW S, \A e \in S : f[e] = g[e]
    PROVE  \A e \in Leaves \cup Applications(S) : OpsStep(f, e) = OpsStep(g, e)
<1> TAKE e \in Leaves \cup Applications(S)
<1>1. CASE e.op = "Constant" \/ e.op = "AttrRef"
  BY <1>1 DEF OpsStep
<1>2. CASE ~ (e.op = "Constant" \/ e.op = "AttrRef")
  <2>1. e.args \in [1 .. 1 -> S] \/ e.args \in [1 .. 2 -> S]
    BY <1>2, Shapes
  <2>2. \A k \in DOMAIN e.args : f[e.args[k]] = g[e.args[k]]
    BY <2>1
  <2>3. {f[e.args[k]] : k \in DOMAIN e.args} = {g[e.args[k]] : k \in DOMAIN e.args}
    BY <2>2
  <2> QED BY <2>3, <1>2 DEF OpsStep
<1> QED BY <1>1, <1>2

LEMMA OpsExist ==
    OpsIn = [e \in Expressions |-> OpsStep(OpsIn, e)]
<1> DEFINE N == 2 * MaxNesting
           Step(g, e) == OpsStep(g, e)
           Unfolds(g, n) == g = [e \in Nested[n] |-> Step(g, e)]
           T == {n \in Nat : n \in 0 .. N => \E g : Unfolds(g, n)}
<1> N \in Nat
  BY Bounds
<1> HIDE DEF N, Step
<1>1. /\ Nested[0] = Leaves
      /\ \A n \in 1 .. N : Nested[n] = Leaves \cup Applications(Nested[n - 1])
  BY NestedExists DEF N
<1>2. ASSUME NEW f, NEW g, NEW S, \A e \in S : f[e] = g[e]
      PROVE  \A e \in Leaves \cup Applications(S) : Step(f, e) = Step(g, e)
  BY <1>2, OpsStepOfParts DEF Step
<1>3. 0 \in T
  <2> DEFINE none == <<>>
             nothing == {}
             g == [e \in Leaves |-> Step(none, e)]
  <2> HIDE DEF none
  <2>1. \A e \in Leaves : Step(g, e) = Step(none, e)
    <3> TAKE e \in Leaves
    <3> HIDE DEF g, nothing
    <3>1. \A x \in nothing : g[x] = none[x]
      BY DEF nothing
    <3>2. e \in Leaves \cup Applications(nothing)
      OBVIOUS
    <3> QED BY <3>1, <3>2, <1>2
  <2>2. Unfolds(g, 0)
    BY <1>1, <2>1
  <2> QED BY <2>2
<1>4. ASSUME NEW n \in Nat, n \in T PROVE n + 1 \in T
  <2> SUFFICES ASSUME n + 1 \in 0 .. N PROVE \E h : Unfolds(h, n + 1)
    OBVIOUS
  <2>1. PICK g : Unfolds(g, n)
    BY <1>4
  <2>2. Nested[n + 1] = Leaves \cup Applications(Nested[n])
    BY <1>1
  <2>3. Nested[n] \subseteq Nested[n + 1]
    BY NestedGrows DEF N
  <2> DEFINE h == [e \in Nested[n + 1] |-> Step(g, e)]
  <2>4. \A e \in Nested[n] : h[e] = g[e]
    BY <2>1, <2>3
  <2>5. \A e \in Nested[n + 1] : Step(h, e) = Step(g, e)
    <3> HIDE DEF h
    <3> QED BY <2>4, <2>2, <1>2
  <2>6. h = [e \in Nested[n + 1] |-> Step(h, e)]
    BY <2>5
  <2> HIDE DEF h
  <2> QED BY <2>6
<1> HIDE DEF T
<1>5. N \in T
  BY <1>3, <1>4, NumberInduction
<1>6. \E g : Unfolds(g, N)
  BY <1>5 DEF T
<1>7. Expressions = Nested[N]
  BY DEF Expressions, N
<1> QED BY <1>6, <1>7 DEF OpsIn, Step

LEMMA OpsAre ==
    ASSUME NEW e \in Expressions
    PROVE  /\ e.op = "Constant" => Ops(e) = {e.value.type}
           /\ e.op = "AttrRef" => Ops(e) = {"AttrRef"}
           /\ e.op \in UnaryOps => Ops(e) = {e.op} \cup Ops(e.args[1])
           /\ e.op \in BinaryOps => Ops(e) = {e.op} \cup Ops(e.args[1]) \cup Ops(e.args[2])
<1>1. \A x \in Expressions : Ops(x) = OpsIn[x]
  BY DEF Ops, OpsIn, OpsStep
<1>2. Ops(e) = OpsStep(OpsIn, e)
  <2> DEFINE Step(x) == OpsStep(OpsIn, x)
  <2> HIDE DEF Step
  <2>1. OpsIn = [x \in Expressions |-> Step(x)]
    BY OpsExist DEF Step
  <2> QED BY <1>1, <2>1 DEF Step
<1>3. CASE e.op = "Constant" \/ e.op = "AttrRef"
  BY <1>2, <1>3 DEF OpsStep, UnaryOps, BinaryOps
<1>4. CASE ~ (e.op = "Constant" \/ e.op = "AttrRef")
  <2>1. e \in Applications(Expressions)
    BY <1>4, PartsAreExpressions, Shapes
  <2>2. Ops(e) = {e.op} \cup UNION {OpsIn[e.args[k]] : k \in DOMAIN e.args}
    BY <1>2, <1>4 DEF OpsStep
  <2>3. CASE e.op \in UnaryOps /\ e.args \in [1 .. 1 -> Expressions]
    <3>1. e.args[1] \in Expressions /\ DOMAIN e.args = {1}
      BY <2>3
    <3>2. UNION {OpsIn[e.args[k]] : k \in DOMAIN e.args} = Ops(e.args[1])
      BY <1>1, <3>1
    <3>3. e.op \notin BinaryOps
      BY <2>3 DEF UnaryOps, BinaryOps
    <3> QED BY <2>2, <3>2, <3>3, <1>4
  <2>4. CASE e.op \in BinaryOps /\ e.args \in [1 .. 2 -> Expressions]
    <3>1. e.args[1] \in Expressions /\ e.args[2] \in Expressions /\ DOMAIN e.args = {1, 2}
      BY <2>4
    <3>2. UNION {OpsIn[e.args[k]] : k \in DOMAIN e.args} = Ops(e.args[1]) \cup Ops(e.args[2])
      BY <1>1, <3>1
    <3>3. e.op \notin UnaryOps
      BY <2>4 DEF UnaryOps, BinaryOps
    <3> QED BY <2>2, <3>2, <3>3, <1>4
  <2> QED BY <2>1, <2>3, <2>4, Shapes
<1> QED BY <1>3, <1>4

-----------------------------------------------------------------------------
(* Syntax trees, and their binding: parse_expr is defined by what it is of *)
(* the parts.                                                              *)

LEMMA WrittenExists ==
    /\ Written[0] = Atoms
    /\ \A n \in 1 .. MaxNesting : Written[n] = Atoms \cup Compounds(Written[n - 1])
<1> DEFINE N == MaxNesting
           Step(g, n) == Atoms \cup (IF n = 0 THEN {} ELSE Compounds(g[n - 1]))
           T == {n \in Nat : \E g : g = [m \in 0 .. n |-> Step(g, m)]}
<1>1. 0 \in T
  <2> DEFINE g == [m \in 0 .. 0 |-> Atoms]
  <2>1. g = [m \in 0 .. 0 |-> Step(g, m)]
    <3>1. \A m \in 0 .. 0 : Step(g, m) = Atoms
      OBVIOUS
    <3> QED BY <3>1
  <2> QED BY <2>1
<1>2. ASSUME NEW n \in Nat, n \in T PROVE n + 1 \in T
  <2>1. PICK g : g = [m \in 0 .. n |-> Step(g, m)]
    BY <1>2
  <2> DEFINE h == [m \in 0 .. n + 1 |-> Step(g, m)]
  <2> HIDE DEF Step
  <2>2. \A m \in 0 .. n : h[m] = g[m]
    BY <2>1
  <2>3. \A m \in 0 .. n + 1 : Step(h, m) = Step(g, m)
    <3> TAKE m \in 0 .. n + 1
    <3>1. m # 0 => m - 1 \in 0 .. n
      OBVIOUS
    <3>2. m # 0 => h[m - 1] = g[m - 1]
      BY <3>1, <2>2
    <3> QED BY <3>2 DEF Step
  <2>4. h = [m \in 0 .. n + 1 |-> Step(h, m)]
    BY <2>3
  <2> HIDE DEF h
  <2>5. \E f : f = [m \in 0 .. n + 1 |-> Step(f, m)]
    BY <2>4
  <2> QED BY <2>5
<1> HIDE DEF T
<1>3. N \in T
  BY <1>1, <1>2, NumberInduction, Bounds
<1>4. PICK g : g = [m \in 0 .. N |-> Step(g, m)]
  BY <1>3 DEF T
<1>5. Written = CHOOSE f : f = [n \in 0 .. N |-> Step(f, n)]
  BY DEF Written
<1>6. Written = [m \in 0 .. N |-> Step(Written, m)]
  <2> HIDE DEF Step
  <2> QED BY <1>4, <1>5
<1> HIDE DEF Step
<1>7. \A n \in 0 .. N : Written[n] = Step(Written, n)
  BY <1>6
<1>8. 0 \in 0 .. N /\ \A n \in 1 .. N : n \in 0 .. N /\ n # 0
  BY Bounds
<1> QED
  BY <1>7, <1>8 DEF Step

\* What a tree is.
LEMMA TreeShapes ==
    /\ \A e \in Atoms :
          \/ e.node = "Identifier" /\ e.ident \in Ident
          \/ e.node = "CompoundIdentifier" /\ e.idents \in Seq(Ident)
          \/ e.node = "Value" /\ e.value \in Literal
          \/ e.node \notin Bindable
    /\ \A S : \A e \in Compounds(S) :
          \/ e.node = "BinaryOp" /\ e.left \in S /\ e.right \in S
          \/ e.node = "UnaryOp" /\ e.expr \in S
          \/ e.node \in {"IsNull", "IsNotNull", "Nested"} /\ e.expr \in S
BY DEF Atoms, Compounds

LEMMA CompoundsGrow ==
    ASSUME NEW A, NEW B, A \subseteq B
    PROVE  Compounds(A) \subseteq Compounds(B)
BY DEF Compounds

LEMMA WrittenGrows ==
    \A n \in 0 .. MaxNesting : \A m \in 0 .. n : Written[m] \subseteq Written[n]
<1> DEFINE N == MaxNesting
<1> N \in Nat
  BY Bounds
<1> HIDE DEF N
<1>1. /\ Written[0] = Atoms
      /\ \A n \in 1 .. N : Written[n] = Atoms \cup Compounds(Written[n - 1])
  BY WrittenExists DEF N
<1> DEFINE T == {n \in Nat : n \in 1 .. N => Written[n - 1] \subseteq Written[n]}
           U == {n \in Nat : n \in 0 .. N => \A m \in 0 .. n : Written[m] \subseteq Written[n]}
<1>2. 0 \in T
  OBVIOUS
<1>3. ASSUME NEW n \in Nat, n \in T PROVE n + 1 \in T
  <2> SUFFICES ASSUME n + 1 \in 1 .. N PROVE Written[n] \subseteq Written[n + 1]
    OBVIOUS
  <2>1. Written[n + 1] = Atoms \cup Compounds(Written[n])
    BY <1>1
  <2>2. CASE n = 0
    BY <2>1, <2>2, <1>1
  <2>3. CASE n # 0
    <3>1. n \in 1 .. N /\ Written[n] = Atoms \cup Compounds(Written[n - 1])
      BY <2>3, <1>1
    <3>2. Written[n - 1] \subseteq Written[n]
      BY <3>1, <1>3
    <3> QED BY <2>1, <3>1, <3>2, CompoundsGrow
  <2> QED BY <2>2, <2>3
<1> HIDE DEF T
<1>4. \A n \in 1 .. N : Written[n - 1] \subseteq Written[n]
  <2>1. \A n \in Nat : n \in T
    BY <1>2, <1>3, NumberInduction
  <2> QED BY <2>1 DEF T
<1>5. 0 \in U
  OBVIOUS
<1>6. ASSUME NEW n \in Nat, n \in U PROVE n + 1 \in U
  <2> SUFFICES ASSUME n + 1 \in 0 .. N, NEW m \in 0 .. n + 1
               PROVE  Written[m] \subseteq Written[n + 1]
    OBVIOUS
  <2>1. CASE m = n + 1
    BY <2>1
  <2>2. CASE m # n + 1
    <3>1. Written[m] \subseteq Written[n]
      BY <2>2, <1>6
    <3>2. Written[n] \subseteq Written[n + 1]
      BY <1>4
    <3> QED BY <3>1, <3>2
  <2> QED BY <2>1, <2>2
<1> HIDE DEF U
<1>7. \A n \in Nat : n \in U
  BY <1>5, <1>6, NumberInduction
<1> QED BY <1>7 DEF U, N

LEMMA PartsAreTrees ==
    /\ \A n \in 0 .. MaxNesting : Written[n] \subseteq SyntaxTrees
    /\ \A e \in SyntaxTrees : e \in Atoms \/ e \in Compounds(SyntaxTrees)
    /\ Atoms \subseteq SyntaxTrees
    /\ \A n \in 1 .. MaxNesting : Compounds(Written[n - 1]) \subseteq SyntaxTrees
<1> DEFINE N == MaxNesting
<1>1. N \in Nat /\ N >= 1
  BY Bounds
<1>2. \A n \in 0 .. N : Written[n] \subseteq Written[N]
  BY <1>1, WrittenGrows
<1>3. SyntaxTrees = Written[N]
  BY DEF SyntaxTrees
<1> HIDE DEF N
<1>4. /\ Written[0] = Atoms
      /\ \A n \in 1 .. N : Written[n] = Atoms \cup Compounds(Written[n - 1])
  BY WrittenExists DEF N
<1>5. Compounds(Written[N - 1]) \subseteq Compounds(Written[N])
  BY <1>1, <1>2, CompoundsGrow
<1> QED BY <1>1, <1>2, <1>3, <1>4, <1>5 DEF N

\* A step of parse_expr's recursion.
BoundStep(table, bound, e) ==
    CASE e.node = "BinaryOp" -> parse_binary_expr(e.op, bound[e.left], bound[e.right])
      [] e.node = "UnaryOp" -> parse_unary_expr(e.op, bound[e.expr])
      [] e.node \in {"IsNull", "IsNotNull"} -> Applied(e.node, <<bound[e.expr]>>)
      [] e.node = "Nested" -> bound[e.expr]
      [] e.node = "Identifier" -> resolve_column(e.ident.value, table.columns)
      [] e.node = "CompoundIdentifier" -> resolve_compound_column(e.idents, table)
      [] e.node = "Value" -> parse_value(e.value)
      [] OTHER -> Refused("ParseError")

BoundOf(table) == CHOOSE g : g = [e \in SyntaxTrees |-> BoundStep(table, g, e)]

LEMMA BoundStepOfParts ==
    ASSUME NEW table, NEW f, NEW g, NEW S, \A e \in S : f[e] = g[e]
    PROVE  \A e \in Atoms \cup Compounds(S) : BoundStep(table, f, e) = BoundStep(table, g, e)
<1> TAKE e \in Atoms \cup Compounds(S)
<1>1. CASE e.node = "BinaryOp" /\ e.left \in S /\ e.right \in S
  BY <1>1 DEF BoundStep
<1>2. CASE e.node = "UnaryOp" /\ e.expr \in S
  BY <1>2 DEF BoundStep
<1>3. CASE e.node \in {"IsNull", "IsNotNull", "Nested"} /\ e.expr \in S
  BY <1>3 DEF BoundStep
<1>4. CASE e.node \notin {"BinaryOp", "UnaryOp", "IsNull", "IsNotNull", "Nested"}
  BY <1>4 DEF BoundStep
<1> QED BY <1>1, <1>2, <1>3, <1>4, TreeShapes DEF Bindable

LEMMA BoundExists ==
    ASSUME NEW table
    PROVE  BoundOf(table) = [e \in SyntaxTrees |-> BoundStep(table, BoundOf(table), e)]
<1> DEFINE N == MaxNesting
           Step(g, e) == BoundStep(table, g, e)
           Unfolds(g, n) == g = [e \in Written[n] |-> Step(g, e)]
           T == {n \in Nat : n \in 0 .. N => \E g : Unfolds(g, n)}
<1> N \in Nat
  BY Bounds
<1> HIDE DEF N, Step
<1>1. /\ Written[0] = Atoms
      /\ \A n \in 1 .. N : Written[n] = Atoms \cup Compounds(Written[n - 1])
  BY WrittenExists DEF N
<1>2. ASSUME NEW f, NEW g, NEW S, \A e \in S : f[e] = g[e]
      PROVE  \A e \in Atoms \cup Compounds(S) : Step(f, e) = Step(g, e)
  BY <1>2, BoundStepOfParts DEF Step
<1>3. 0 \in T
  <2> DEFINE none == <<>>
             nothing == {}
             g == [e \in Atoms |-> Step(none, e)]
  <2> HIDE DEF none
  <2>1. \A e \in Atoms : Step(g, e) = Step(none, e)
    <3> TAKE e \in Atoms
    <3> HIDE DEF g, nothing
    <3>1. \A x \in nothing : g[x] = none[x]
      BY DEF nothing
    <3>2. e \in Atoms \cup Compounds(nothing)
      OBVIOUS
    <3> QED BY <3>1, <3>2, <1>2
  <2>2. Unfolds(g, 0)
    BY <1>1, <2>1
  <2> QED BY <2>2
<1>4. ASSUME NEW n \in Nat, n \in T PROVE n + 1 \in T
  <2> SUFFICES ASSUME n + 1 \in 0 .. N PROVE \E h : Unfolds(h, n + 1)
    OBVIOUS
  <2>1. PICK g : Unfolds(g, n)
    BY <1>4
  <2>2. Written[n + 1] = Atoms \cup Compounds(Written[n])
    BY <1>1
  <2>3. Written[n] \subseteq Written[n + 1]
    BY WrittenGrows DEF N
  <2> DEFINE h == [e \in Written[n + 1] |-> Step(g, e)]
  <2>4. \A e \in Written[n] : h[e] = g[e]
    BY <2>1, <2>3
  <2>5. \A e \in Written[n + 1] : Step(h, e) = Step(g, e)
    <3> HIDE DEF h
    <3> QED BY <2>4, <2>2, <1>2
  <2>6. h = [e \in Written[n + 1] |-> Step(h, e)]
    BY <2>5
  <2> HIDE DEF h
  <2> QED BY <2>6
<1> HIDE DEF T
<1>5. N \in T
  BY <1>3, <1>4, NumberInduction
<1>6. \E g : Unfolds(g, N)
  BY <1>5 DEF T
<1>7. SyntaxTrees = Written[N]
  BY DEF SyntaxTrees, N
<1> QED BY <1>6, <1>7 DEF BoundOf, Step

\* What parse_expr is, by the shape of the tree.
LEMMA Parses ==
    ASSUME NEW table, NEW e \in SyntaxTrees
    PROVE  /\ e.node = "BinaryOp" =>
                 parse_expr(e, table) =
                     parse_binary_expr(e.op, parse_expr(e.left, table), parse_expr(e.right, table))
           /\ e.node = "UnaryOp" =>
                 parse_expr(e, table) = parse_unary_expr(e.op, parse_expr(e.expr, table))
           /\ e.node \in {"IsNull", "IsNotNull"} =>
                 parse_expr(e, table) = Applied(e.node, <<parse_expr(e.expr, table)>>)
           /\ e.node = "Nested" => parse_expr(e, table) = parse_expr(e.expr, table)
           /\ e.node = "Identifier" =>
                 parse_expr(e, table) = resolve_column(e.ident.value, table.columns)
           /\ e.node = "CompoundIdentifier" =>
                 parse_expr(e, table) = resolve_compound_column(e.idents, table)
           /\ e.node = "Value" => parse_expr(e, table) = parse_value(e.value)
           /\ e.node \notin Bindable => parse_expr(e, table) = Refused("ParseError")
<1> DEFINE B == BoundOf(table)
<1>1. \A x \in SyntaxTrees : parse_expr(x, table) = B[x]
  BY DEF parse_expr, BoundOf, BoundStep
<1>2. parse_expr(e, table) = BoundStep(table, B, e)
  <2> DEFINE Step(x) == BoundStep(table, B, x)
  <2> HIDE DEF Step
  <2>1. B = [x \in SyntaxTrees |-> Step(x)]
    BY BoundExists DEF Step
  <2> HIDE DEF B
  <2> QED BY <1>1, <2>1 DEF Step
<1> HIDE DEF B
<1>3. CASE e.node = "BinaryOp" /\ e.left \in SyntaxTrees /\ e.right \in SyntaxTrees
  BY <1>1, <1>2, <1>3 DEF BoundStep, Bindable
<1>4. CASE e.node = "UnaryOp" /\ e.expr \in SyntaxTrees
  BY <1>1, <1>2, <1>4 DEF BoundStep, Bindable
<1>5. CASE e.node \in {"IsNull", "IsNotNull", "Nested"} /\ e.expr \in SyntaxTrees
  BY <1>1, <1>2, <1>5 DEF BoundStep, Bindable
<1>6. CASE e.node \notin {"BinaryOp", "UnaryOp", "IsNull", "IsNotNull", "Nested"}
  BY <1>2, <1>6 DEF BoundStep, Bindable
<1> QED BY <1>3, <1>4, <1>5, <1>6, TreeShapes, PartsAreTrees DEF Bindable

-----------------------------------------------------------------------------
(* What is bound is an expression, and what holds of names and constants   *)
(* and is kept by operators holds of it.                                   *)

LEMMA AppliedToOne ==
    ASSUME NEW op, NEW x
    PROVE  Applied(op, <<x>>) = IF IsRefused(x) THEN x ELSE [op |-> op, args |-> <<x>>]
<1> DEFINE args == <<x>>
           refused(k) == IsRefused(args[k]) /\ \A j \in 1 .. k - 1 : ~ IsRefused(args[j])
<1>1. DOMAIN args = {1} /\ args[1] = x
  OBVIOUS
<1>2. Applied(op, args) = IF \E k \in DOMAIN args : IsRefused(args[k])
                          THEN args[CHOOSE k \in DOMAIN args : refused(k)]
                          ELSE [op |-> op, args |-> args]
  BY DEF Applied
<1>3. CASE IsRefused(x)
  <2>1. refused(1)
    BY <1>1, <1>3
  <2> HIDE DEF refused, args
  <2>2. (CHOOSE k \in DOMAIN args : refused(k)) = 1
    BY <1>1, <2>1
  <2> QED BY <1>1, <1>2, <1>3, <2>2 DEF args
<1>4. CASE ~ IsRefused(x)
  BY <1>1, <1>2, <1>4
<1> QED BY <1>3, <1>4

LEMMA AppliedToTwo ==
    ASSUME NEW op, NEW x, NEW y
    PROVE  Applied(op, <<x, y>>) = IF IsRefused(x) THEN x
                                   ELSE IF IsRefused(y) THEN y
                                   ELSE [op |-> op, args |-> <<x, y>>]
<1> DEFINE args == <<x, y>>
           refused(k) == IsRefused(args[k]) /\ \A j \in 1 .. k - 1 : ~ IsRefused(args[j])
<1>1. DOMAIN args = {1, 2} /\ args[1] = x /\ args[2] = y
  OBVIOUS
<1>2. Applied(op, args) = IF \E k \in DOMAIN args : IsRefused(args[k])
                          THEN args[CHOOSE k \in DOMAIN args : refused(k)]
                          ELSE [op |-> op, args |-> args]
  BY DEF Applied
<1>3. CASE IsRefused(x)
  <2>1. refused(1) /\ ~ refused(2)
    <3>1. 1 \in 1 .. 2 - 1 /\ 1 .. 1 - 1 = {}
      OBVIOUS
    <3> QED BY <3>1, <1>1, <1>3
  <2> HIDE DEF refused, args
  <2>2. (CHOOSE k \in DOMAIN args : refused(k)) = 1
    BY <1>1, <2>1
  <2> QED BY <1>1, <1>2, <1>3, <2>2 DEF args
<1>4. CASE ~ IsRefused(x) /\ IsRefused(y)
  <2>1. refused(2) /\ ~ refused(1)
    <3>1. 1 .. 2 - 1 = {1}
      OBVIOUS
    <3> QED BY <3>1, <1>1, <1>4
  <2> HIDE DEF refused, args
  <2>2. (CHOOSE k \in DOMAIN args : refused(k)) = 2
    BY <1>1, <2>1
  <2> QED BY <1>1, <1>2, <1>4, <2>2 DEF args
<1>5. CASE ~ IsRefused(x) /\ ~ IsRefused(y)
  BY <1>1, <1>2, <1>5
<1> QED BY <1>3, <1>4, <1>5

LEMMA NoneIsRefused ==
    \A e \in Expressions : ~ IsRefused(e)
<1>1. \A e \in Expressions : e.op \in {"Constant", "AttrRef"} \cup UnaryOps \cup BinaryOps
  BY PartsAreExpressions, Shapes
<1> QED BY <1>1 DEF IsRefused, UnaryOps, BinaryOps

\* Q holds of what an operator makes of the parts if it holds of them.
Closed(Q) ==
    \A e \in Expressions :
       /\ e.op \in UnaryOps /\ e.args[1] \in Q \cap Expressions => e \in Q
       /\ e.op \in BinaryOps /\ e.args[1] \in Q \cap Expressions
                             /\ e.args[2] \in Q \cap Expressions => e \in Q

\* What is nested at most n deep, and Q holds of; or what is refused.
Among(Q, n) == {e \in Nested[n] : e \in Q}

LEMMA AppliedIsAmong ==
    ASSUME NEW Q, Closed(Q), NEW n \in 0 .. 2 * MaxNesting - 1, NEW x, NEW y,
           IsRefused(x) \/ x \in Among(Q, n), IsRefused(y) \/ y \in Among(Q, n)
    PROVE  /\ \A op \in UnaryOps : LET a == Applied(op, <<x>>)
                                   IN  IsRefused(a) \/ a \in Among(Q, n + 1)
           /\ \A op \in BinaryOps : LET a == Applied(op, <<x, y>>)
                                    IN  IsRefused(a) \/ a \in Among(Q, n + 1)
<1>1. n + 1 \in 1 .. 2 * MaxNesting /\ (n + 1) - 1 = n /\ n \in 0 .. 2 * MaxNesting
  BY Bounds
<1>2. /\ Applications(Nested[n]) \subseteq Nested[n + 1]
      /\ Nested[n] \subseteq Expressions /\ Nested[n + 1] \subseteq Expressions
  <2>1. n + 1 \in 0 .. 2 * MaxNesting
    BY <1>1, Bounds
  <2> QED BY <1>1, <2>1, NestedExists, PartsAreExpressions
<1>3. ASSUME NEW op \in UnaryOps, x \in Among(Q, n)
      PROVE  [op |-> op, args |-> <<x>>] \in Among(Q, n + 1)
  <2> DEFINE e == [op |-> op, args |-> <<x>>]
  <2>1. e.op \in UnaryOps /\ e.args[1] = x
    OBVIOUS
  <2>2. <<x>> \in [1 .. 1 -> Nested[n]]
    BY <1>3 DEF Among
  <2>3. e \in Applications(Nested[n])
    BY <2>2 DEF Applications
  <2>4. e \in Nested[n + 1] /\ e \in Expressions
    BY <1>2, <2>3
  <2>5. x \in Q \cap Expressions
    BY <1>2, <1>3 DEF Among
  <2> HIDE DEF e
  <2>6. e \in Q
    BY <2>1, <2>4, <2>5 DEF Closed
  <2> QED BY <2>4, <2>6 DEF e, Among
<1>4. ASSUME NEW op \in BinaryOps, x \in Among(Q, n), y \in Among(Q, n)
      PROVE  [op |-> op, args |-> <<x, y>>] \in Among(Q, n + 1)
  <2> DEFINE e == [op |-> op, args |-> <<x, y>>]
  <2>1. e.op \in BinaryOps /\ e.args[1] = x /\ e.args[2] = y
    OBVIOUS
  <2>2. <<x, y>> \in [1 .. 2 -> Nested[n]]
    BY <1>4 DEF Among
  <2>3. e \in Applications(Nested[n])
    BY <2>2 DEF Applications
  <2>4. e \in Nested[n + 1] /\ e \in Expressions
    BY <1>2, <2>3
  <2>5. x \in Q \cap Expressions /\ y \in Q \cap Expressions
    BY <1>2, <1>4 DEF Among
  <2> HIDE DEF e
  <2>6. e \in Q
    BY <2>1, <2>4, <2>5 DEF Closed
  <2> QED BY <2>4, <2>6 DEF e, Among
<1>5. ASSUME NEW op \in UnaryOps
      PROVE  IsRefused(Applied(op, <<x>>)) \/ Applied(op, <<x>>) \in Among(Q, n + 1)
  <2>1. Applied(op, <<x>>) = IF IsRefused(x) THEN x ELSE [op |-> op, args |-> <<x>>]
    BY AppliedToOne
  <2> QED BY <2>1, <1>3, Zenon
<1>6. ASSUME NEW op \in BinaryOps
      PROVE  IsRefused(Applied(op, <<x, y>>)) \/ Applied(op, <<x, y>>) \in Among(Q, n + 1)
  <2>1. Applied(op, <<x, y>>) = IF IsRefused(x) THEN x
                                ELSE IF IsRefused(y) THEN y
                                ELSE [op |-> op, args |-> <<x, y>>]
    BY AppliedToTwo
  <2> QED BY <2>1, <1>4, Zenon
<1> QED BY <1>5, <1>6, Zenon

LEMMA AmongGrows ==
    ASSUME NEW Q, NEW n \in 0 .. 2 * MaxNesting, NEW m \in 0 .. n
    PROVE  Among(Q, m) \subseteq Among(Q, n)
BY NestedGrows DEF Among

LEMMA LeavesAreAmong ==
    ASSUME NEW Q, NEW n \in 0 .. 2 * MaxNesting
    PROVE  /\ \A v \in Value : Constant(v) \in Q => Constant(v) \in Among(Q, n)
           /\ \A k \in Nat : AttrRef(k) \in Q => AttrRef(k) \in Among(Q, n)
<1>1. Nested[0] = Leaves /\ Nested[0] \subseteq Nested[n]
  <2>1. 0 \in 0 .. n
    BY Bounds
  <2> QED BY <2>1, NestedExists, NestedGrows
<1>2. \A v \in Value : Constant(v) \in Leaves
  BY DEF Constant, Leaves
<1>3. \A k \in Nat : AttrRef(k) \in Leaves
  BY DEF AttrRef, Leaves
<1> QED BY <1>1, <1>2, <1>3 DEF Among

\* A numeral is a value.
LEMMA NumeralIsValue ==
    ASSUME NEW value, value.units \in Nat
    PROVE  Numeral(value) \in Value
<1> DEFINE u == value.units
           q == u \div Unit
<1>1. CASE value.whole /\ u <= MaxInt * Unit
  <2>1. Unit \in Nat \ {0}
    BY FloatConstants
  <2>2. q \in Nat /\ u = Unit * q + (u % Unit) /\ u % Unit \in Nat
    BY <2>1, QuotientsAreNatural
  <2> HIDE DEF q, u
  <2>3. q <= MaxInt
    <3> SUFFICES ASSUME q >= MaxInt + 1 PROVE FALSE
      BY <2>2, Bounds
    <3>1. \A x, y \in Nat : x * y \in Nat
      OBVIOUS
    <3>2. (q - (MaxInt + 1)) * Unit \in Nat
      BY <2>1, <2>2, <3>1, Bounds
    <3>3. (q - (MaxInt + 1)) * Unit = Unit * q - MaxInt * Unit - Unit
      BY <2>1, <2>2, Bounds
    <3>4. MaxInt * Unit \in Nat /\ Unit * q \in Nat
      BY <2>1, <2>2, <3>1, Bounds
    <3> QED BY <2>1, <2>2, <3>2, <3>3, <3>4, <1>1
  <2>4. q \in MinInt .. MaxInt
    BY <2>2, <2>3, Bounds
  <2> QED BY <1>1, <2>4, ValuesByType DEF Numeral, q, u
<1>2. CASE ~ (value.whole /\ u <= MaxInt * Unit)
  <2>1. Round(FALSE, u, 1) \in Finite
    <3>1. 1 \in Nat /\ 1 >= 1
      OBVIOUS
    <3> QED BY <3>1, RoundsAreFinite, Zenon
  <2>2. Float(Round(FALSE, u, 1)) \in Value
    BY <2>1, FloatConstants, ValuesByType
  <2> QED BY <1>2, <2>2 DEF Numeral
<1> QED BY <1>1, <1>2

LEMMA LiteralsAreValues ==
    ASSUME NEW value \in Literal
    PROVE  IsRefused(parse_value(value)) \/ \E v \in Value : parse_value(value) = Constant(v)
<1>1. \/ value.kind = "Number" /\ value.units \in Nat
      \/ value.kind = "String" /\ value.v \in Seq(Nat)
      \/ value.kind = "Boolean" /\ value.v \in BOOLEAN
      \/ value.kind \notin {"Number", "String", "Boolean"}
  BY DEF Literal
<1>2. CASE value.kind = "Number" /\ value.units \in Nat
  BY <1>2, NumeralIsValue DEF parse_value
<1>3. CASE value.kind = "String" /\ value.v \in Seq(Nat)
  BY <1>3, ValuesByType DEF parse_value
<1>4. CASE value.kind = "Boolean" /\ value.v \in BOOLEAN
  <2>1. parse_value(value) = Constant(Boolean(value.v))
    BY <1>4 DEF parse_value
  <2> QED BY <2>1, <1>4, ValuesByType, Zenon
<1>5. CASE value.kind \notin {"Number", "String", "Boolean"}
  BY <1>5, ValuesByType DEF parse_value, IsRefused, Refused
<1> QED BY <1>1, <1>2, <1>3, <1>4, <1>5

\* A column that is found is one of the table.
LEMMA ResolvedIsColumn ==
    ASSUME NEW name, NEW columns
    PROVE  \/ IsRefused(resolve_column(name, columns))
           \/ \E k \in DOMAIN columns : resolve_column(name, columns) = AttrRef(k)
<1> DEFINE named == {k \in DOMAIN columns : columns[k].name = name}
<1>1. CASE Cardinality(named) = 1
  <2>1. named # {}
    BY <1>1, FS_EmptySet
  <2>2. (CHOOSE k \in named : TRUE) \in named
    BY <2>1
  <2> QED BY <1>1, <2>2 DEF resolve_column
<1>2. CASE Cardinality(named) # 1
  BY <1>2 DEF resolve_column, IsRefused, Refused
<1> QED BY <1>1, <1>2

LEMMA CompoundIsColumn ==
    ASSUME NEW idents, NEW table
    PROVE  \/ IsRefused(resolve_compound_column(idents, table))
           \/ \E k \in DOMAIN table.columns : resolve_compound_column(idents, table) = AttrRef(k)
BY ResolvedIsColumn DEF resolve_compound_column, IsRefused, Refused

\* A tree of n operators is bound to an expression of at most twice as many.
LEMMA ParseInduction ==
    ASSUME NEW table, DOMAIN table.columns \subseteq Nat, NEW Q, Closed(Q),
           \A v \in Value : Constant(v) \in Q,
           \A k \in DOMAIN table.columns : AttrRef(k) \in Q
    PROVE  \A n \in 0 .. MaxNesting : \A t \in Written[n] :
              IsRefused(parse_expr(t, table)) \/ parse_expr(t, table) \in Among(Q, 2 * n)
<1> DEFINE Good(b, n) == IsRefused(b) \/ b \in Among(Q, n)
           T == {n \in Nat : n \in 0 .. MaxNesting =>
                    \A t \in Written[n] : Good(parse_expr(t, table), 2 * n)}
<1>1. ASSUME NEW m \in 0 .. 2 * MaxNesting, NEW t \in Atoms
      PROVE  Good(parse_expr(t, table), m)
  <2>1. t \in SyntaxTrees
    BY PartsAreTrees
  <2>2. CASE t.node = "Identifier"
    <3>1. parse_expr(t, table) = resolve_column(t.ident.value, table.columns)
      BY <2>1, <2>2, Parses
    <3> QED BY <3>1, ResolvedIsColumn, LeavesAreAmong
  <2>3. CASE t.node = "CompoundIdentifier"
    <3>1. parse_expr(t, table) = resolve_compound_column(t.idents, table)
      BY <2>1, <2>3, Parses
    <3> QED BY <3>1, CompoundIsColumn, LeavesAreAmong
  <2>4. CASE t.node = "Value" /\ t.value \in Literal
    <3>1. parse_expr(t, table) = parse_value(t.value)
      BY <2>1, <2>4, Parses
    <3> QED BY <3>1, <2>4, LiteralsAreValues, LeavesAreAmong
  <2>5. CASE t.node \notin Bindable
    <3>1. parse_expr(t, table) = Refused("ParseError")
      BY <2>1, <2>5, Parses
    <3>2. IsRefused(Refused("ParseError"))
      BY DEF IsRefused, Refused
    <3> QED BY <3>1, <3>2
  <2> QED BY <2>2, <2>3, <2>4, <2>5, TreeShapes
<1>2. ASSUME NEW m \in 0 .. 2 * MaxNesting - 2, NEW op, NEW l, NEW r, Good(l, m), Good(r, m)
      PROVE  Good(parse_binary_expr(op, l, r), m + 2)
  <2>1. m + 1 \in 0 .. 2 * MaxNesting - 1 /\ m \in 0 .. 2 * MaxNesting - 1
        /\ m + 2 \in 0 .. 2 * MaxNesting /\ m + 1 \in 0 .. m + 2 /\ (m + 1) + 1 = m + 2
    BY Bounds
  <2>2. \A b : Good(b, m + 1) => Good(b, m + 2)
    BY <2>1, AmongGrows
  <2> DEFINE gt == Applied("GreaterThan", <<l, r>>)
             lt == Applied("LessThan", <<l, r>>)
             eq == Applied("Equal", <<l, r>>)
  <2>3. \A o \in BinaryOps : Good(Applied(o, <<l, r>>), m + 1)
    BY <1>2, <2>1, AppliedIsAmong
  <2>4. Good(gt, m + 1) /\ Good(lt, m + 1) /\ Good(eq, m + 1)
    BY <2>3 DEF BinaryOps
  <2> HIDE DEF gt, lt, eq
  <2>5. Good(Applied("Or", <<gt, eq>>), m + 2) /\ Good(Applied("Or", <<lt, eq>>), m + 2)
    <3>1. "Or" \in BinaryOps
      BY DEF BinaryOps
    <3> QED BY <3>1, <2>1, <2>4, AppliedIsAmong
  <2>6. Good(Applied("Not", <<eq>>), m + 2)
    <3>1. "Not" \in UnaryOps
      BY DEF UnaryOps
    <3> QED BY <3>1, <2>1, <2>4, AppliedIsAmong
  <2>7. op \in DOMAIN ExprOf => ExprOf[op] \in BinaryOps
    BY DEF ExprOf, BinaryOps
  <2>8. op \in DOMAIN ExprOf => Good(Applied(ExprOf[op], <<l, r>>), m + 2)
    BY <2>2, <2>3, <2>7
  <2>9. IsRefused(Refused("ParseError"))
    BY DEF IsRefused, Refused
  <2>0. DOMAIN ExprOf = {"And", "Or", "Eq", "Gt", "Lt", "Plus", "Minus", "Multiply", "Divide"}
    BY DEF ExprOf
  <2> HIDE DEF Good
  <2>10. CASE op = "GtEq"
    <3>1. parse_binary_expr(op, l, r) = Applied("Or", <<gt, eq>>)
      BY <2>0, <2>10 DEF parse_binary_expr, gt, eq
    <3> QED BY <3>1, <2>5
  <2>11. CASE op = "LtEq"
    <3>1. parse_binary_expr(op, l, r) = Applied("Or", <<lt, eq>>)
      BY <2>0, <2>11 DEF parse_binary_expr, lt, eq
    <3> QED BY <3>1, <2>5
  <2>12. CASE op = "NotEq"
    <3>1. parse_binary_expr(op, l, r) = Applied("Not", <<eq>>)
      BY <2>0, <2>12 DEF parse_binary_expr, eq
    <3> QED BY <3>1, <2>6
  <2>13. CASE op \in DOMAIN ExprOf
    <3>1. parse_binary_expr(op, l, r) = Applied(ExprOf[op], <<l, r>>)
      BY <2>0, <2>13 DEF parse_binary_expr
    <3> QED BY <3>1, <2>8, <2>13
  <2>14. CASE op \notin {"GtEq", "LtEq", "NotEq"} \cup DOMAIN ExprOf
    <3>1. parse_binary_expr(op, l, r) = Refused("ParseError")
      BY <2>0, <2>14 DEF parse_binary_expr
    <3> QED BY <3>1, <2>9 DEF Good
  <2> QED BY <2>10, <2>11, <2>12, <2>13, <2>14
<1>3. ASSUME NEW m \in 0 .. 2 * MaxNesting - 2, NEW op, NEW x, Good(x, m)
      PROVE  Good(parse_unary_expr(op, x), m + 2)
  <2>1. m \in 0 .. 2 * MaxNesting - 1 /\ m \in 0 .. 2 * MaxNesting /\ m \in 0 .. m + 2
        /\ m + 2 \in 0 .. 2 * MaxNesting /\ m + 1 \in 0 .. m + 2
    BY Bounds
  <2>2. \A b : Good(b, m + 1) \/ Good(b, m) => Good(b, m + 2)
    BY <2>1, AmongGrows
  <2>3. Good(Applied("Not", <<x>>), m + 1)
    <3>1. "Not" \in UnaryOps
      BY DEF UnaryOps
    <3> QED BY <3>1, <1>3, <2>1, AppliedIsAmong
  <2>4. Good(Applied("Subtract", <<Constant(Integer(0)), x>>), m + 1)
    <3>1. "Subtract" \in BinaryOps
      BY DEF BinaryOps
    <3>2. Integer(0) \in Value
      <4>1. 0 \in MinInt .. MaxInt
        BY Bounds
      <4> QED BY <4>1, ValuesByType
    <3>3. Good(Constant(Integer(0)), m)
      BY <3>2, <2>1, LeavesAreAmong
    <3> QED BY <3>1, <3>3, <1>3, <2>1, AppliedIsAmong
  <2>5. IsRefused(Refused("ParseError"))
    BY DEF IsRefused, Refused
  <2> HIDE DEF Good
  <2>6. CASE op \in {"Not", "BangNot"}
    BY <2>2, <2>3, <2>6 DEF parse_unary_expr
  <2>7. CASE op = "Minus"
    BY <2>2, <2>4, <2>7 DEF parse_unary_expr
  <2>8. CASE op = "Plus"
    BY <1>3, <2>2, <2>8 DEF parse_unary_expr
  <2>9. CASE op \notin {"Not", "BangNot", "Minus", "Plus"}
    BY <2>5, <2>9 DEF parse_unary_expr, Good
  <2> QED BY <2>6, <2>7, <2>8, <2>9
<1>4. 0 \in T
  <2>1. 0 \in 0 .. 2 * MaxNesting /\ 2 * 0 = 0
    BY Bounds
  <2> QED BY <2>1, <1>1, WrittenExists
<1>5. ASSUME NEW n \in Nat, n \in T PROVE n + 1 \in T
  <2> SUFFICES ASSUME n + 1 \in 0 .. MaxNesting, NEW t \in Written[n + 1]
               PROVE  Good(parse_expr(t, table), 2 * n + 2)
    BY Bounds
  <2>1. n \in 0 .. MaxNesting /\ 2 * n \in 0 .. 2 * MaxNesting - 2
        /\ 2 * n + 2 \in 0 .. 2 * MaxNesting /\ n + 1 \in 1 .. MaxNesting /\ (n + 1) - 1 = n
    BY Bounds
  <2>2. \A s \in Written[n] : Good(parse_expr(s, table), 2 * n)
    BY <1>5, <2>1
  <2>3. t \in Atoms \cup Compounds(Written[n]) /\ t \in SyntaxTrees
    BY <2>1, WrittenExists, PartsAreTrees
  <2> HIDE DEF Good
  <2>4. CASE t \in Atoms
    BY <1>1, <2>1, <2>4
  <2>5. CASE t.node = "BinaryOp" /\ t.left \in Written[n] /\ t.right \in Written[n]
    <3>1. parse_expr(t, table) =
             parse_binary_expr(t.op, parse_expr(t.left, table), parse_expr(t.right, table))
      BY <2>3, <2>5, Parses
    <3> QED BY <3>1, <1>2, <2>1, <2>2, <2>5
  <2>6. CASE t.node = "UnaryOp" /\ t.expr \in Written[n]
    <3>1. parse_expr(t, table) = parse_unary_expr(t.op, parse_expr(t.expr, table))
      BY <2>3, <2>6, Parses
    <3> QED BY <3>1, <1>3, <2>1, <2>2, <2>6
  <2>7. CASE t.node \in {"IsNull", "IsNotNull"} /\ t.expr \in Written[n]
    <3>1. parse_expr(t, table) = Applied(t.node, <<parse_expr(t.expr, table)>>)
      BY <2>3, <2>7, Parses
    <3>2. t.node \in UnaryOps
      BY <2>7 DEF UnaryOps
    <3>3. 2 * n \in 0 .. 2 * MaxNesting - 1 /\ 2 * n + 1 \in 0 .. 2 * n + 2
      BY <2>1, Bounds
    <3>4. Good(Applied(t.node, <<parse_expr(t.expr, table)>>), 2 * n + 1)
      BY <3>2, <3>3, <2>2, <2>7, AppliedIsAmong DEF Good
    <3> QED BY <3>1, <3>3, <3>4, <2>1, AmongGrows DEF Good
  <2>8. CASE t.node = "Nested" /\ t.expr \in Written[n]
    <3>1. parse_expr(t, table) = parse_expr(t.expr, table)
      BY <2>3, <2>8, Parses
    <3>2. 2 * n \in 0 .. 2 * n + 2
      BY <2>1
    <3> QED BY <3>1, <3>2, <2>1, <2>2, <2>8, AmongGrows DEF Good
  <2> QED BY <2>3, <2>4, <2>5, <2>6, <2>7, <2>8, TreeShapes
<1> HIDE DEF T
<1>6. \A n \in Nat : n \in T
  BY <1>4, <1>5, NumberInduction
<1> QED BY <1>6 DEF T

-----------------------------------------------------------------------------
(* The type of an expression                                               *)

\* What an operator makes of operands of these types, none of them NULL, unless
\* it panics.
UnaryType(op, s) ==
    IF s \in {"Err", "Panic"} THEN s
    ELSE IF op = "Not" /\ s # "Boolean" THEN "Err" ELSE "Boolean"

BinaryType(op, s, t) ==
    IF s \in {"Err", "Panic"} THEN s
    ELSE IF t \in {"Err", "Panic"} THEN t
    ELSE IF op \in {"And", "Or"} THEN IF s = "Boolean" /\ t = "Boolean" THEN "Boolean" ELSE "Err"
    ELSE IF op \in {"Equal", "GreaterThan", "LessThan"}
            THEN IF s = t \/ {s, t} \in {{"Float"}, {"Int", "Float"}} THEN "Boolean" ELSE "Err"
    ELSE IF s = "Int" /\ t = "Int" THEN "Int"
    ELSE IF {s, t} \in {{"Float"}, {"Int", "Float"}} THEN "Float"
    ELSE IF op = "Add" /\ s = "VarChar" /\ t = "VarChar" THEN "VarChar"
    ELSE "Err"

Risky(b) ==
    {"Divide"} \cup (IF b = "debug" THEN {"Add", "Subtract", "Multiply"} ELSE {})

LEMMA TypesOfOutcomes ==
    /\ \A x \in Outcome :
          /\ x.type \in {"Int", "Float", "VarChar", "Boolean", "Null", "Err", "Panic"}
          /\ x.type = "Null" => x = Null
          /\ x.type = "Boolean" => x.v \in BOOLEAN
          /\ Fails(x) <=> x.type \in {"Err", "Panic"}
    /\ Null.type = "Null" /\ Panic.type = "Panic"
    /\ \A k : Err(k).type = "Err"
    /\ \A v : Boolean(v).type = "Boolean"
<1>1. \A x \in Value : x.type \in {"Int", "Float", "VarChar", "Boolean", "Null"}
                       /\ (x.type = "Null" => x = Null)
                       /\ (x.type = "Boolean" => x.v \in BOOLEAN)
  BY ValuesByType
<1>2. /\ Null.type = "Null" /\ Panic.type = "Panic"
      /\ \A k : Err(k).type = "Err"
      /\ \A v : Boolean(v).type = "Boolean"
  BY DEF Null, Panic, Err, Boolean
<1> QED BY <1>1, <1>2 DEF Outcome, Fails

\* What NOT gives.
LEMMA NotIs ==
    ASSUME NEW x, x.type = "Boolean" => x.v \in BOOLEAN
    PROVE  /\ IsTrue(x) => Not(x) = Boolean(FALSE)
           /\ IsFalse(x) => Not(x) = Boolean(TRUE)
           /\ IsNull(x) => Not(x) = Null
           /\ ~ Logical(x) => Not(x) = Err("InvalidComparison")
<1>1. ASSUME IsTrue(x) PROVE Not(x) = Boolean(FALSE)
  <2>1. x.type = "Boolean" /\ (~ x.v) = FALSE
    BY <1>1 DEF IsTrue
  <2>2. Boolean(~ x.v) = Boolean(FALSE)
    BY <2>1, Zenon
  <2>3. ~ IsNull(x)
    BY <2>1 DEF IsNull
  <2> QED BY <2>1, <2>2, <2>3, Zenon DEF Not
<1>2. ASSUME IsFalse(x) PROVE Not(x) = Boolean(TRUE)
  <2>1. x.type = "Boolean" /\ (~ x.v) = TRUE
    BY <1>2 DEF IsFalse
  <2>2. Boolean(~ x.v) = Boolean(TRUE)
    BY <2>1, Zenon
  <2>3. ~ IsNull(x)
    BY <2>1 DEF IsNull
  <2> QED BY <2>1, <2>2, <2>3, Zenon DEF Not
<1>3. ASSUME IsNull(x) PROVE Not(x) = Null
  BY <1>3 DEF Not, IsNull
<1>4. ASSUME ~ Logical(x) PROVE Not(x) = Err("InvalidComparison")
  BY <1>4 DEF Not, IsNull, Logical
<1> QED BY <1>1, <1>2, <1>3, <1>4

LEMMA UnaryHasType ==
    ASSUME NEW op \in UnaryOps, NEW x \in Outcome
    PROVE  /\ x.type # "Null" => Unary(op, x).type = UnaryType(op, x.type)
           /\ Unary(op, x).type = "Panic" => x.type = "Panic"
           /\ Unary(op, x).type = "Null" => x.type = "Null"
<1>1. CASE Fails(x)
  BY <1>1, TypesOfOutcomes DEF Unary, UnaryType
<1>2. CASE ~ Fails(x) /\ op = "Not"
  <2>1. Unary(op, x) = Not(x) /\ x.type \notin {"Err", "Panic"}
    BY <1>2, TypesOfOutcomes DEF Unary
  <2>2. CASE x.type = "Boolean"
    <3>1. Not(x) = Boolean(TRUE) \/ Not(x) = Boolean(FALSE)
      BY <2>2, NotIs, TypesOfOutcomes DEF IsTrue, IsFalse
    <3> QED BY <3>1, <2>1, <2>2, <1>2, TypesOfOutcomes DEF UnaryType
  <2>3. CASE x.type = "Null"
    <3>1. Not(x) = Null
      BY <2>3 DEF Not, IsNull
    <3> QED BY <3>1, <2>1, <2>3, TypesOfOutcomes
  <2>4. CASE x.type \notin {"Boolean", "Null"}
    <3>1. Not(x) = Err("InvalidComparison")
      BY <2>4 DEF Not, IsNull
    <3> QED BY <3>1, <2>1, <2>4, <1>2, TypesOfOutcomes DEF UnaryType
  <2> QED BY <2>2, <2>3, <2>4
<1>3. CASE ~ Fails(x) /\ op \in {"IsNull", "IsNotNull"}
  <2>1. x.type \notin {"Err", "Panic"}
    BY <1>3, TypesOfOutcomes
  <2>2. Unary(op, x) = Boolean(IsNull(x)) \/ Unary(op, x) = Boolean(~ IsNull(x))
    BY <1>3 DEF Unary
  <2>3. Unary(op, x).type = "Boolean"
    BY <2>2, TypesOfOutcomes
  <2> QED BY <2>1, <2>3, <1>3 DEF UnaryType
<1> QED BY <1>1, <1>2, <1>3 DEF UnaryOps

\* An Int's operation panics only in a debug build, or it is a division.
LEMMA IntPanics ==
    ASSUME NEW b, NEW op \in Arithmetic, NEW m \in MinInt .. MaxInt, NEW n \in MinInt .. MaxInt
    PROVE  /\ OnInts(b, op, m, n).type \in {"Int", "Panic"}
           /\ OnInts(b, op, m, n).type = "Panic" => op \in Risky(b)
<1>1. OnInts(b, op, m, n).type \in {"Int", "Panic"}
  <2>1. \A x \in ValuesOf("Int") : x.type = "Int"
    BY DEF ValuesOf
  <2> QED BY <2>1, OnIntsOutcome, TypesOfOutcomes
<1>2. \A i : b # "debug" => Computed(b, i).type = "Int"
  BY DEF Computed, Integer
<1>3. op # "Divide" /\ b # "debug" => OnInts(b, op, m, n).type = "Int"
  <2>1. CASE op = "Add"
    BY <1>2, <2>1 DEF OnInts
  <2>2. CASE op = "Subtract"
    BY <1>2, <2>2 DEF OnInts
  <2>3. CASE op = "Multiply"
    BY <1>2, <2>3 DEF OnInts
  <2> QED BY <2>1, <2>2, <2>3 DEF Arithmetic
<1>4. op = "Divide" \/ b = "debug" => op \in Risky(b)
  BY DEF Risky, Arithmetic
<1> QED BY <1>1, <1>3, <1>4

\* The three truth values.
LEMMA Truths ==
    /\ \A v \in BOOLEAN : LET x == Boolean(v)
                          IN  /\ Logical(x) /\ ~ Fails(x) /\ ~ IsNull(x)
                              /\ (IsTrue(x) <=> v) /\ (IsFalse(x) <=> ~ v)
    /\ Logical(Null) /\ ~ Fails(Null) /\ IsNull(Null) /\ ~ IsTrue(Null) /\ ~ IsFalse(Null)
    /\ \A k : LET x == Err(k)
              IN  ~ Logical(x) /\ ~ IsNull(x) /\ Fails(x) /\ ~ IsTrue(x) /\ ~ IsFalse(x)
    /\ ~ Logical(Panic) /\ ~ IsTrue(Panic) /\ ~ IsNull(Panic)
<1>1. \A v : Boolean(v).type = "Boolean"
  BY DEF Boolean
<1>2. \A v : Boolean(v).v = v
  BY Zenon DEF Boolean
<1>3. \A v \in BOOLEAN : (IsTrue(Boolean(v)) <=> v) /\ (IsFalse(Boolean(v)) <=> ~ v)
  <2> TAKE v \in BOOLEAN
  <2>1. Boolean(v).type = "Boolean" /\ Boolean(v).v = v
    BY <1>1, <1>2, Zenon
  <2> QED BY <2>1, Zenon DEF IsTrue, IsFalse
<1>4. \A v : Logical(Boolean(v)) /\ ~ Fails(Boolean(v)) /\ ~ IsNull(Boolean(v))
  BY <1>1 DEF Logical, Fails, IsNull
<1>5. Logical(Null) /\ ~ Fails(Null) /\ IsNull(Null) /\ ~ IsTrue(Null) /\ ~ IsFalse(Null)
  BY DEF Null, Logical, Fails, IsNull, IsTrue, IsFalse
<1>6. \A k : LET x == Err(k)
             IN  ~ Logical(x) /\ ~ IsNull(x) /\ Fails(x) /\ ~ IsTrue(x) /\ ~ IsFalse(x)
  BY DEF Err, Logical, Fails, IsNull, IsTrue, IsFalse
<1>7. ~ Logical(Panic) /\ ~ IsTrue(Panic) /\ ~ IsNull(Panic)
  BY DEF Panic, Logical, IsNull, IsTrue
<1> QED BY <1>3, <1>4, <1>5, <1>6, <1>7, Zenon

\* What AND and OR give.
LEMMA ConnectivesAre ==
    ASSUME NEW l, NEW r
    PROVE  /\ ~ (Logical(l) /\ Logical(r)) =>
                 /\ And(l, r) = Err("InvalidComparison") /\ Or(l, r) = Err("InvalidComparison")
           /\ Logical(l) /\ Logical(r) =>
                 /\ Logical(And(l, r)) /\ Logical(Or(l, r))
                 /\ IsNull(And(l, r)) \/ IsNull(Or(l, r)) => IsNull(l) \/ IsNull(r)
                 /\ IsFalse(And(l, r)) <=> IsFalse(l) \/ IsFalse(r)
                 /\ IsTrue(Or(l, r)) <=> IsTrue(l) \/ IsTrue(r)
<1> DEFINE T == Boolean(TRUE)
           F == Boolean(FALSE)
<1>1. /\ Logical(T) /\ ~ IsNull(T) /\ IsTrue(T) /\ ~ IsFalse(T)
      /\ Logical(F) /\ ~ IsNull(F) /\ ~ IsTrue(F) /\ IsFalse(F)
      /\ Logical(Null) /\ IsNull(Null) /\ ~ IsTrue(Null) /\ ~ IsFalse(Null)
  BY Truths, Zenon
<1>2. And(l, r) = IF ~ (Logical(l) /\ Logical(r)) THEN Err("InvalidComparison")
                  ELSE IF IsFalse(l) \/ IsFalse(r) THEN F
                  ELSE IF IsNull(l) \/ IsNull(r) THEN Null ELSE T
  BY DEF And
<1>3. Or(l, r) = IF ~ (Logical(l) /\ Logical(r)) THEN Err("InvalidComparison")
                 ELSE IF IsTrue(l) \/ IsTrue(r) THEN T
                 ELSE IF IsNull(l) \/ IsNull(r) THEN Null ELSE F
  BY DEF Or
<1> HIDE DEF T, F
<1> QED BY <1>1, <1>2, <1>3, Zenon

\* What a comparison gives.
LEMMA ComparesTo ==
    ASSUME NEW l, NEW r, NEW holds \in BOOLEAN
    PROVE  LET c == Compare(l, r, holds)
           IN  /\ IsNull(l) \/ IsNull(r) => c = Null
               /\ ~ IsNull(l) /\ ~ IsNull(r) /\ Comparable(l, r) =>
                     /\ c.type = "Boolean" /\ Logical(c) /\ ~ IsNull(c)
                     /\ (IsTrue(c) <=> holds) /\ (IsFalse(c) <=> ~ holds)
               /\ ~ IsNull(l) /\ ~ IsNull(r) /\ ~ Comparable(l, r) => c = Err("InvalidComparison")
<1>1. Compare(l, r, holds) = IF IsNull(l) \/ IsNull(r) THEN Null
                             ELSE IF Comparable(l, r) THEN Boolean(holds)
                             ELSE Err("InvalidComparison")
  BY DEF Compare
<1>2. LET x == Boolean(holds)
      IN  Logical(x) /\ ~ IsNull(x) /\ (IsTrue(x) <=> holds) /\ (IsFalse(x) <=> ~ holds)
          /\ x.type = "Boolean"
  BY Truths, TypesOfOutcomes, Zenon
<1> QED BY <1>1, <1>2, Zenon

LEMMA BinaryIs ==
    ASSUME NEW b, NEW l \in Outcome, NEW r \in Outcome
    PROVE  /\ \A op : Fails(l) => Binary(b, op, l, r) = l
           /\ \A op : ~ Fails(l) /\ Fails(r) => Binary(b, op, l, r) = r
           /\ ~ Fails(l) /\ ~ Fails(r) =>
                 /\ Binary(b, "And", l, r) = And(l, r)
                 /\ Binary(b, "Or", l, r) = Or(l, r)
                 /\ Binary(b, "Equal", l, r) = Compare(l, r, SameValue(l, r))
                 /\ Binary(b, "GreaterThan", l, r) = Compare(l, r, Greater(l, r))
                 /\ Binary(b, "LessThan", l, r) = Compare(l, r, Greater(r, l))
                 /\ \A op \in Arithmetic : Binary(b, op, l, r) = Compute(b, op, l, r)
BY DEF Binary, Arithmetic

\* Arithmetic gives a result of a type that goes by its operands' types.
LEMMA ComputeHasType ==
    ASSUME NEW b, NEW op \in Arithmetic, NEW l \in Value, NEW r \in Value
    PROVE  LET c == Compute(b, op, l, r)
           IN  /\ ~ IsNull(l) /\ ~ IsNull(r) => c.type \in {BinaryType(op, l.type, r.type), "Panic"}
               /\ c.type = "Panic" => op \in Risky(b)
               /\ c.type = "Null" => IsNull(l) \/ IsNull(r)
<1>1. l.type \notin {"Err", "Panic"} /\ r.type \notin {"Err", "Panic"}
  BY ValuesByType
<1>2. CASE IsNull(l) \/ IsNull(r)
  BY <1>2, TypesOfOutcomes DEF Compute
<1>3. CASE ~ IsNull(l) /\ ~ IsNull(r) /\ Is("Int", l, r)
  <2>1. Compute(b, op, l, r) = OnInts(b, op, l.v, r.v)
    BY <1>3 DEF Compute
  <2>2. l.v \in MinInt .. MaxInt /\ r.v \in MinInt .. MaxInt
    BY <1>3, ValuesByType DEF Is
  <2>3. BinaryType(op, l.type, r.type) = "Int"
    BY <1>3 DEF BinaryType, Is, Arithmetic
  <2> QED BY <2>1, <2>2, <2>3, IntPanics
<1>4. CASE ~ IsNull(l) /\ ~ IsNull(r) /\ ~ Is("Int", l, r)
  <2>1. BinaryType(op, l.type, r.type) = IF MeetAsFloats(l, r) THEN "Float"
                                         ELSE IF op = "Add" /\ Is("VarChar", l, r) THEN "VarChar"
                                         ELSE "Err"
    BY <1>1, <1>4 DEF BinaryType, Is, MeetAsFloats, Arithmetic
  <2>2. Compute(b, op, l, r).type = IF MeetAsFloats(l, r) THEN "Float"
                                    ELSE IF op = "Add" /\ Is("VarChar", l, r) THEN "VarChar"
                                    ELSE "Err"
    BY <1>4 DEF Compute, Float, VarChar, Err
  <2> QED BY <1>4, <2>1, <2>2
<1> QED BY <1>2, <1>3, <1>4

LEMMA BinaryHasType ==
    ASSUME NEW b, NEW op \in BinaryOps, NEW l \in Outcome, NEW r \in Outcome
    PROVE  LET c == Binary(b, op, l, r)
           IN  /\ l.type # "Null" /\ r.type # "Null" =>
                     c.type \in {BinaryType(op, l.type, r.type), "Panic"}
               /\ c.type = "Panic" => l.type = "Panic" \/ r.type = "Panic" \/ op \in Risky(b)
               /\ c.type = "Null" => l.type = "Null" \/ r.type = "Null"
<1>1. CASE Fails(l) \/ Fails(r)
  <2>1. (IF Fails(l) THEN l ELSE r) = Binary(b, op, l, r)
    BY <1>1, BinaryIs
  <2>2. BinaryType(op, l.type, r.type) = IF Fails(l) THEN l.type ELSE r.type
    BY <1>1 DEF BinaryType, Fails
  <2> QED BY <2>1, <2>2
<1>2. CASE ~ Fails(l) /\ ~ Fails(r)
  <2>1. l \in Value /\ r \in Value /\ l.type \notin {"Err", "Panic"} /\ r.type \notin {"Err", "Panic"}
    BY <1>2, OutcomesFail, TypesOfOutcomes
  <2>2. CASE op \in {"And", "Or"}
    <3>1. Binary(b, op, l, r) = IF op = "And" THEN And(l, r) ELSE Or(l, r)
      BY <1>2, <2>2, BinaryIs
    <3>2. CASE Logical(l) /\ Logical(r)
      <4>1. Logical(Binary(b, op, l, r))
            /\ (IsNull(Binary(b, op, l, r)) => IsNull(l) \/ IsNull(r))
        BY <3>1, <3>2, ConnectivesAre
      <4> QED BY <4>1, <3>2, <2>2 DEF Logical, IsNull, BinaryType
    <3>3. CASE ~ (Logical(l) /\ Logical(r))
      <4>1. Binary(b, op, l, r).type = "Err"
        BY <3>1, <3>3, ConnectivesAre, TypesOfOutcomes
      <4> QED BY <4>1, <3>3, <2>1, <2>2 DEF Logical, BinaryType
    <3> QED BY <3>2, <3>3
  <2>3. CASE op \in {"Equal", "GreaterThan", "LessThan"}
    <3>1. \E holds \in BOOLEAN : Binary(b, op, l, r) = Compare(l, r, holds)
      BY <1>2, <2>3, BinaryIs, ComparisonsAreBoolean
    <3>2. CASE IsNull(l) \/ IsNull(r)
      <4>1. Binary(b, op, l, r) = Null
        BY <3>1, <3>2, ComparesTo
      <4> QED BY <4>1, <3>2, TypesOfOutcomes DEF IsNull
    <3>3. CASE ~ (IsNull(l) \/ IsNull(r))
      <4>1. Binary(b, op, l, r).type = IF Comparable(l, r) THEN "Boolean" ELSE "Err"
        BY <3>1, <3>3, ComparesTo, TypesOfOutcomes
      <4>2. BinaryType(op, l.type, r.type) = IF Comparable(l, r) THEN "Boolean" ELSE "Err"
        BY <2>1, <2>3 DEF BinaryType, Comparable, MeetAsFloats
      <4> QED BY <4>1, <4>2, <3>3 DEF IsNull
    <3> QED BY <3>2, <3>3
  <2>4. CASE op \in Arithmetic
    <3>1. Binary(b, op, l, r) = Compute(b, op, l, r)
      BY <1>2, <2>4, BinaryIs
    <3> QED BY <3>1, <2>1, <2>4, ComputeHasType DEF IsNull
  <2> QED BY <2>2, <2>3, <2>4 DEF BinaryOps, Arithmetic
<1> QED BY <1>1, <1>2

-----------------------------------------------------------------------------
(* NULL, panics and types in an expression                                 *)

LEMMA TypesOfValues ==
    \A t : \A x \in ValuesOf(t) : x \in Value /\ x.type = t
<1> TAKE t
<1>1. CASE t \in {"Int", "Float", "VarChar", "Boolean", "Null"}
  <2>1. ValuesOf(t) \subseteq Value
    BY <1>1 DEF Value
  <2>2. \A x \in ValuesOf(t) : x.type = t
    BY <1>1 DEF ValuesOf, Null
  <2> QED BY <2>1, <2>2
<1>2. CASE t \notin {"Int", "Float", "VarChar", "Boolean", "Null"}
  <2>1. ValuesOf(t) = {}
    BY <1>2 DEF ValuesOf
  <2> QED BY <2>1
<1> QED BY <1>1, <1>2

\* Without NULL among the stored values, only the literal makes one.
LEMMA NullNeedsNull ==
    ASSUME NEW b, NEW tuple, \A k \in DOMAIN tuple : tuple[k] \in Value /\ tuple[k].type # "Null"
    PROVE  \A e \in Expressions : evaluate(b, e, tuple).type = "Null" => "Null" \in Ops(e)
<1> DEFINE P == {e \in Expressions : evaluate(b, e, tuple).type = "Null" => "Null" \in Ops(e)}
<1>1. ASSUME NEW e \in Leaves PROVE e \in P
  <2>1. e \in Expressions
    BY PartsAreExpressions
  <2>2. CASE e.op = "Constant"
    BY <2>1, <2>2, Evaluates, OpsAre
  <2>3. CASE e.op = "AttrRef"
    BY <2>1, <2>3, Evaluates, TypesOfOutcomes
  <2> QED BY <2>2, <2>3, Shapes
<1>2. ASSUME NEW e \in Expressions PROVE
         /\ e.op \in UnaryOps /\ e.args[1] \in P \cap Expressions => e \in P
         /\ e.op \in BinaryOps /\ e.args[1] \in P \cap Expressions
                               /\ e.args[2] \in P \cap Expressions => e \in P
  <2>1. ASSUME e.op \in UnaryOps, e.args[1] \in P PROVE e \in P
    <3>1. evaluate(b, e.args[1], tuple) \in Outcome
      BY <2>1, EvaluateOutcome
    <3>2. evaluate(b, e, tuple) = Unary(e.op, evaluate(b, e.args[1], tuple))
      BY <2>1, Evaluates
    <3>3. Ops(e.args[1]) \subseteq Ops(e)
      BY <2>1, OpsAre
    <3> QED BY <3>1, <3>2, <3>3, <2>1, UnaryHasType
  <2>2. ASSUME e.op \in BinaryOps, e.args[1] \in P, e.args[2] \in P PROVE e \in P
    <3> DEFINE x == evaluate(b, e.args[1], tuple)
               y == evaluate(b, e.args[2], tuple)
    <3>1. x \in Outcome /\ y \in Outcome
      BY <2>2, EvaluateOutcome
    <3>2. evaluate(b, e, tuple) = Binary(b, e.op, x, y)
      BY <2>2, Evaluates
    <3>3. Ops(e.args[1]) \subseteq Ops(e) /\ Ops(e.args[2]) \subseteq Ops(e)
      BY <2>2, OpsAre
    <3>4. (x.type = "Null" => "Null" \in Ops(e.args[1])) /\ (y.type = "Null" => "Null" \in Ops(e.args[2]))
      BY <2>2
    <3>5. e.op \in BinaryOps
      BY <2>2
    <3> HIDE DEF x, y
    <3>6. Binary(b, e.op, x, y).type = "Null" => x.type = "Null" \/ y.type = "Null"
      BY <3>1, <3>5, BinaryHasType
    <3> QED BY <3>2, <3>3, <3>4, <3>6
  <2> QED BY <2>1, <2>2
<1> HIDE DEF P
<1>3. Expressions \subseteq P
  BY <1>1, <1>2, ExpressionInduction
<1> QED BY <1>3 DEF P

\* A panic needs one of the operators (or a column of no tuple) R names.
Sound(b, tuple, R) ==
    {e \in Expressions : evaluate(b, e, tuple).type = "Panic" => Ops(e) \cap R # {}}

LEMMA SoundIsClosed ==
    ASSUME NEW b, NEW tuple, \A k \in DOMAIN tuple : tuple[k] \in Value,
           NEW R, Risky(b) \subseteq R
    PROVE  /\ Closed(Sound(b, tuple, R))
           /\ \A v \in Value : Constant(v) \in Sound(b, tuple, R)
           /\ \A k \in Nat : k \in DOMAIN tuple \/ "AttrRef" \in R => AttrRef(k) \in Sound(b, tuple, R)
<1> DEFINE P == Sound(b, tuple, R)
<1>1. ASSUME NEW e \in Expressions, e.op \in UnaryOps, e.args[1] \in P PROVE e \in P
  <2>1. e.args[1] \in Expressions
    BY <1>1 DEF Sound
  <2>2. evaluate(b, e.args[1], tuple) \in Outcome
    BY <2>1, EvaluateOutcome
  <2>3. evaluate(b, e, tuple) = Unary(e.op, evaluate(b, e.args[1], tuple))
    BY <1>1, Evaluates
  <2>4. Ops(e.args[1]) \subseteq Ops(e)
    BY <1>1, OpsAre
  <2> QED BY <2>2, <2>3, <2>4, <1>1, UnaryHasType DEF Sound
<1>2. ASSUME NEW e \in Expressions, e.op \in BinaryOps, e.args[1] \in P, e.args[2] \in P PROVE e \in P
  <2>1. e.args[1] \in Expressions /\ e.args[2] \in Expressions
    BY <1>2 DEF Sound
  <2>2. evaluate(b, e.args[1], tuple) \in Outcome /\ evaluate(b, e.args[2], tuple) \in Outcome
    BY <2>1, EvaluateOutcome
  <2>3. evaluate(b, e, tuple) =
           Binary(b, e.op, evaluate(b, e.args[1], tuple), evaluate(b, e.args[2], tuple))
    BY <1>2, Evaluates
  <2>4. Ops(e.args[1]) \subseteq Ops(e) /\ Ops(e.args[2]) \subseteq Ops(e) /\ e.op \in Ops(e)
    BY <1>2, OpsAre
  <2> QED BY <2>2, <2>3, <2>4, <1>2, BinaryHasType DEF Sound
<1>3. \A v \in Value : Constant(v) \in P
  <2> TAKE v \in Value
  <2>1. Constant(v) \in Leaves
    BY DEF Leaves, Constant
  <2>2. Constant(v) \in Expressions /\ Constant(v).op = "Constant" /\ Constant(v).value = v
    BY <2>1, PartsAreExpressions DEF Constant
  <2>3. evaluate(b, Constant(v), tuple) = v
    BY <2>2, Evaluates
  <2>4. v.type # "Panic"
    BY ValuesByType
  <2> QED BY <2>2, <2>3, <2>4 DEF Sound
<1>4. ASSUME NEW k \in Nat, k \in DOMAIN tuple \/ "AttrRef" \in R PROVE AttrRef(k) \in P
  <2>1. AttrRef(k) \in Leaves
    BY DEF Leaves, AttrRef
  <2>2. AttrRef(k) \in Expressions /\ AttrRef(k).op = "AttrRef" /\ AttrRef(k).idx = k
    BY <2>1, PartsAreExpressions DEF AttrRef
  <2>3. Ops(AttrRef(k)) = {"AttrRef"}
    BY <2>2, OpsAre
  <2>4. CASE k \in DOMAIN tuple
    <3>1. evaluate(b, AttrRef(k), tuple) = tuple[k]
      BY <2>2, <2>4, Evaluates
    <3>2. tuple[k].type # "Panic"
      BY <2>4, ValuesByType
    <3> QED BY <3>1, <3>2, <2>2 DEF Sound
  <2>5. CASE "AttrRef" \in R
    BY <2>2, <2>3, <2>5 DEF Sound
  <2> QED BY <2>4, <2>5, <1>4
<1> HIDE DEF P
<1>5. Closed(P)
  BY <1>1, <1>2 DEF Closed
<1> QED BY <1>3, <1>4, <1>5 DEF P

\* A row of a table with these columns.
OfColumns(row, columns) ==
    /\ DOMAIN row = DOMAIN columns
    /\ \A k \in DOMAIN columns : row[k] \in ValuesOf(columns[k].data_type) \ {Null}

LEMMA RowsAreOfValues ==
    ASSUME NEW row, NEW columns, OfColumns(row, columns)
    PROVE  \A k \in DOMAIN row : row[k] \in Value /\ row[k].type # "Null"
                                 /\ row[k].type = columns[k].data_type
<1> TAKE k \in DOMAIN row
<1>1. row[k] \in Value /\ row[k] # Null /\ row[k].type = columns[k].data_type
  BY TypesOfValues DEF OfColumns
<1> QED BY <1>1, ValuesByType

\* Without the literal NULL an expression has one type on all rows it does not
\* panic on.
LEMMA ExpressionHasType ==
    ASSUME NEW b, NEW columns
    PROVE  \A e \in Expressions : "Null" \notin Ops(e) =>
              \E t : \A row : OfColumns(row, columns) =>
                                 evaluate(b, e, row).type \in {t, "Panic"}
<1> DEFINE HasType(e, t) ==
              \A row : OfColumns(row, columns) => evaluate(b, e, row).type \in {t, "Panic"}
           P == {e \in Expressions : "Null" \notin Ops(e) => \E t : HasType(e, t)}
<1>1. ASSUME NEW e \in Leaves PROVE e \in P
  <2>1. e \in Expressions
    BY PartsAreExpressions
  <2>2. CASE e.op = "Constant"
    <3>1. HasType(e, e.value.type)
      BY <2>1, <2>2, Evaluates
    <3> QED BY <3>1, <2>1
  <2>3. CASE e.op = "AttrRef"
    <3>1. HasType(e, columns[e.idx].data_type)
      BY <2>1, <2>3, Evaluates, RowsAreOfValues, TypesOfOutcomes
    <3> QED BY <3>1, <2>1
  <2> QED BY <2>2, <2>3, Shapes
<1>2. \A row : OfColumns(row, columns) =>
         \A e \in Expressions : evaluate(b, e, row) \in Outcome
                                /\ ("Null" \notin Ops(e) => evaluate(b, e, row).type # "Null")
  <2> SUFFICES ASSUME NEW row, OfColumns(row, columns)
               PROVE  \A e \in Expressions : evaluate(b, e, row) \in Outcome
                         /\ ("Null" \notin Ops(e) => evaluate(b, e, row).type # "Null")
    OBVIOUS
  <2>1. \A k \in DOMAIN row : row[k] \in Value /\ row[k].type # "Null"
    BY RowsAreOfValues
  <2> QED BY <2>1, EvaluateOutcome, NullNeedsNull
<1>3. ASSUME NEW e \in Expressions, e.op \in UnaryOps, e.args[1] \in P PROVE e \in P
  <2> SUFFICES ASSUME "Null" \notin Ops(e) PROVE \E t : HasType(e, t)
    OBVIOUS
  <2>1. "Null" \notin Ops(e.args[1]) /\ e.args[1] \in Expressions
    BY <1>3, OpsAre
  <2>2. PICK s : HasType(e.args[1], s)
    BY <1>3, <2>1
  <2>3. HasType(e, UnaryType(e.op, s))
    <3> SUFFICES ASSUME NEW row, OfColumns(row, columns)
                 PROVE  evaluate(b, e, row).type \in {UnaryType(e.op, s), "Panic"}
      OBVIOUS
    <3>1. evaluate(b, e, row) = Unary(e.op, evaluate(b, e.args[1], row))
      BY <1>3, Evaluates
    <3>2. evaluate(b, e.args[1], row) \in Outcome /\ evaluate(b, e.args[1], row).type # "Null"
          /\ evaluate(b, e.args[1], row).type \in {s, "Panic"}
      BY <1>2, <2>1, <2>2
    <3>3. evaluate(b, e, row).type = UnaryType(e.op, evaluate(b, e.args[1], row).type)
      BY <3>1, <3>2, <1>3, UnaryHasType
    <3>4. UnaryType(e.op, "Panic") = "Panic"
      BY DEF UnaryType
    <3> QED BY <3>2, <3>3, <3>4
  <2> QED BY <2>3
<1>4. ASSUME NEW e \in Expressions, e.op \in BinaryOps, e.args[1] \in P, e.args[2] \in P PROVE e \in P
  <2> SUFFICES ASSUME "Null" \notin Ops(e) PROVE \E t : HasType(e, t)
    OBVIOUS
  <2>1. /\ "Null" \notin Ops(e.args[1]) /\ e.args[1] \in Expressions
        /\ "Null" \notin Ops(e.args[2]) /\ e.args[2] \in Expressions
    BY <1>4, OpsAre
  <2>2. PICK s : HasType(e.args[1], s)
    BY <1>4, <2>1
  <2>3. PICK t : HasType(e.args[2], t)
    BY <1>4, <2>1
  <2>4. HasType(e, BinaryType(e.op, s, t))
    <3> SUFFICES ASSUME NEW row, OfColumns(row, columns)
                 PROVE  evaluate(b, e, row).type \in {BinaryType(e.op, s, t), "Panic"}
      OBVIOUS
    <3> DEFINE x == evaluate(b, e.args[1], row)
               y == evaluate(b, e.args[2], row)
    <3>1. evaluate(b, e, row) = Binary(b, e.op, x, y)
      BY <1>4, Evaluates
    <3>2. x \in Outcome /\ y \in Outcome /\ x.type # "Null" /\ y.type # "Null"
          /\ x.type \in {s, "Panic"} /\ y.type \in {t, "Panic"}
      BY <1>2, <2>1, <2>2, <2>3
    <3>6. e.op \in BinaryOps
      BY <1>4
    <3> HIDE DEF x, y, P, HasType
    <3>3. evaluate(b, e, row).type \in {BinaryType(e.op, x.type, y.type), "Panic"}
      BY <3>1, <3>2, <3>6, BinaryHasType
    <3>4. BinaryType(e.op, "Panic", y.type) = "Panic"
      BY DEF BinaryType
    <3>5. BinaryType(e.op, s, "Panic") \in {BinaryType(e.op, s, t), "Panic"}
      BY DEF BinaryType
    <3> QED BY <3>2, <3>3, <3>4, <3>5
  <2> QED BY <2>4
<1> HIDE DEF P
<1>5. Expressions \subseteq P
  <2>1. \A e \in Expressions :
           /\ e.op \in UnaryOps /\ e.args[1] \in P \cap Expressions => e \in P
           /\ e.op \in BinaryOps /\ e.args[1] \in P \cap Expressions
                                 /\ e.args[2] \in P \cap Expressions => e \in P
    BY <1>3, <1>4
  <2> QED BY <2>1, <1>1, ExpressionInduction
<1> QED BY <1>5 DEF P

-----------------------------------------------------------------------------
(* The orders of values                                                    *)

LEMMA EarlierIsAnOrder ==
    ASSUME NEW s \in Seq(Nat), NEW t \in Seq(Nat)
    PROVE  /\ s = t \/ Earlier(s, t) \/ Earlier(t, s)
           /\ ~ (Earlier(s, t) /\ Earlier(t, s))
<1> DEFINE D == {k \in Nat : k \in DOMAIN s /\ k \in DOMAIN t /\ s[k] # t[k]}
<1>0. Len(s) \in Nat /\ Len(t) \in Nat
  OBVIOUS
<1>1. /\ Len(s) \in Nat /\ DOMAIN s = 1 .. Len(s) /\ Len(t) \in Nat /\ DOMAIN t = 1 .. Len(t)
      /\ \A k \in 1 .. Len(s) : s[k] \in Nat
      /\ \A k \in 1 .. Len(t) : t[k] \in Nat
  OBVIOUS
<1>2. ASSUME D # {} PROVE Earlier(s, t) \/ Earlier(t, s)
  <2>1. D \subseteq Nat
    OBVIOUS
  <2>2. PICK d \in D : \A k \in D : d <= k
    <3> HIDE DEF D
    <3> QED BY <1>2, <2>1, LeastExists
  <2>3. d \in 1 .. Len(s) /\ d \in 1 .. Len(t) /\ s[d] # t[d]
    BY <1>1, <2>2
  <2> DEFINE n == d - 1
  <2>4. n \in 0 .. Len(s) /\ n \in 0 .. Len(t) /\ n < Len(s) /\ n < Len(t) /\ n + 1 = d
    BY <1>1, <2>3
  <2>5. \A k \in 1 .. n : s[k] = t[k]
    <3> SUFFICES ASSUME NEW k \in 1 .. n, s[k] # t[k] PROVE FALSE
      OBVIOUS
    <3>1. k \in D /\ ~ (d <= k)
      BY <1>1, <2>3
    <3> QED BY <3>1, <2>2
  <2>6. s[n + 1] < t[n + 1] \/ t[n + 1] < s[n + 1]
    BY <1>1, <2>3, <2>4
  <2>7. \A k \in 1 .. n : t[k] = s[k]
    BY <2>5
  <2> HIDE DEF n, D
  <2>8. CASE s[n + 1] < t[n + 1]
    BY <2>4, <2>5, <2>8, Zenon DEF Earlier
  <2>9. CASE t[n + 1] < s[n + 1]
    BY <2>4, <2>7, <2>9, Zenon DEF Earlier
  <2> QED BY <2>6, <2>8, <2>9
<1>3. ASSUME D = {} PROVE s = t \/ Earlier(s, t) \/ Earlier(t, s)
  <2>1. \A k \in 1 .. Len(s) : k \in 1 .. Len(t) => s[k] = t[k]
    BY <1>1, <1>3
  <2> HIDE DEF D
  <2>2. CASE Len(s) = Len(t)
    BY <2>1, <2>2, SMTT(30)
  <2>3. CASE Len(s) < Len(t)
    <3>1. Len(s) \in 0 .. Len(s) /\ \A k \in 1 .. Len(s) : s[k] = t[k]
      BY <1>1, <2>1, <2>3
    <3>2. Earlier(s, t)
      BY <2>3, <3>1, Zenon DEF Earlier
    <3> QED BY <3>2
  <2>4. CASE Len(t) < Len(s)
    <3>1. Len(t) \in 0 .. Len(t) /\ \A k \in 1 .. Len(t) : t[k] = s[k]
      BY <1>1, <2>1, <2>4
    <3>2. Earlier(t, s)
      BY <2>4, <3>1, Zenon DEF Earlier
    <3> QED BY <3>2
  <2>5. Len(s) = Len(t) \/ Len(s) < Len(t) \/ Len(t) < Len(s)
    BY <1>0
  <2> QED BY <2>2, <2>3, <2>4, <2>5
<1>4. ASSUME Earlier(s, t), Earlier(t, s) PROVE FALSE
  <2>1. PICK n \in 0 .. Len(s) : /\ n < Len(t) /\ \A k \in 1 .. n : s[k] = t[k]
                                 /\ n = Len(s) \/ s[n + 1] < t[n + 1]
    BY <1>4 DEF Earlier
  <2>2. PICK m \in 0 .. Len(t) : /\ m < Len(s) /\ \A k \in 1 .. m : t[k] = s[k]
                                 /\ m = Len(t) \/ t[m + 1] < s[m + 1]
    BY <1>4, SMTT(30) DEF Earlier
  <2>0. n \in Nat /\ m \in Nat /\ n < Len(t) /\ m < Len(s)
    BY <1>0, <2>1, <2>2
  <2>3. CASE n < m
    <3>1. n + 1 \in 1 .. m /\ n # Len(s) /\ n + 1 \in 1 .. Len(s)
      BY <1>0, <2>0, <2>3, SMTT(30)
    <3>2. s[n + 1] < t[n + 1] /\ t[n + 1] = s[n + 1] /\ s[n + 1] \in Nat
      BY <1>1, <2>1, <2>2, <3>1
    <3> QED BY <3>2
  <2>4. CASE m < n
    <3>1. m + 1 \in 1 .. n /\ m # Len(t) /\ m + 1 \in 1 .. Len(t)
      BY <1>0, <2>0, <2>4, SMTT(30)
    <3>2. t[m + 1] < s[m + 1] /\ t[m + 1] = s[m + 1] /\ t[m + 1] \in Nat
      BY <1>1, <2>1, <2>2, <3>1
    <3> QED BY <3>2, SMTT(30)
  <2>5. CASE m = n
    <3>1. n + 1 \in 1 .. Len(s) /\ n + 1 \in 1 .. Len(t) /\ n # Len(s) /\ m # Len(t)
      BY <1>0, <2>0, <2>5
    <3>2. s[n + 1] < t[n + 1] /\ t[n + 1] < s[n + 1] /\ s[n + 1] \in Nat /\ t[n + 1] \in Nat
      BY <1>1, <2>1, <2>2, <2>5, <3>1
    <3> QED BY <3>2, SMTT(30)
  <2> QED BY <2>0, <2>3, <2>4, <2>5
<1> QED BY <1>2, <1>3, <1>4

IsNaN(x) == x.type = "Float" /\ x.v = NaN

\* Of two values that can be compared one is the greater, or they are the same;
\* a NaN is neither greater nor less, nor the same.
LEMMA Trichotomy ==
    ASSUME NEW l \in Value, NEW r \in Value, ~ IsNull(l), ~ IsNull(r), Comparable(l, r)
    PROVE  /\ IsNaN(l) \/ IsNaN(r) =>
                 ~ Greater(l, r) /\ ~ Greater(r, l) /\ ~ SameValue(l, r)
           /\ ~ IsNaN(l) /\ ~ IsNaN(r) => Greater(l, r) \/ Greater(r, l) \/ SameValue(l, r)
           /\ ~ (Greater(l, r) /\ Greater(r, l))
           /\ ~ (Greater(l, r) /\ SameValue(l, r))
           /\ ~ (Greater(r, l) /\ SameValue(l, r))
<1>1. CASE MeetAsFloats(l, r)
  <2> DEFINE x == AsFloat(l)
             y == AsFloat(r)
  <2>1. /\ x \in Float32 /\ y \in Float32
        /\ x = NaN <=> IsNaN(l)
        /\ y = NaN <=> IsNaN(r)
    <3>1. /\ x \in Float32 /\ y \in Float32
          /\ x = NaN => IsNaN(l)
          /\ y = NaN => IsNaN(r)
      BY <1>1, AsFloatIsFloat DEF IsNaN
    <3>2. (IsNaN(l) => x = NaN) /\ (IsNaN(r) => y = NaN)
      BY DEF IsNaN, AsFloat
    <3> QED BY <3>1, <3>2
  <2>2. MeetAsFloats(r, l) /\ ~ Is("Int", l, r) /\ ~ Is("Int", r, l)
        /\ ~ Is("Boolean", l, r) /\ ~ Is("Boolean", r, l)
        /\ ~ Is("VarChar", l, r) /\ ~ Is("VarChar", r, l)
    BY <1>1 DEF MeetAsFloats, Is
  <2>3. /\ Greater(l, r) <=> Above(x, y)
        /\ Greater(r, l) <=> Above(y, x)
        /\ SameValue(l, r) <=> Equals(x, y)
    BY <1>1, <2>2 DEF Greater, SameValue
  <2> HIDE DEF x, y
  <2>4. CASE x = NaN \/ y = NaN
    <3>1. ~ Numeric(x, y) /\ ~ Numeric(y, x)
      BY <2>4 DEF Numeric
    <3> QED BY <2>1, <2>3, <2>4, <3>1 DEF Above, Equals
  <2>5. CASE x # NaN /\ y # NaN
    <3>1. x \in Finite /\ y \in Finite
      BY <2>1, <2>5, FloatConstants
    <3>2. Signed(x) \in Int /\ Signed(y) \in Int
      BY <3>1, FloatConstants DEF Finite, Signed
    <3>3. Numeric(x, y) /\ Numeric(y, x)
      BY <2>5 DEF Numeric
    <3> QED BY <2>1, <2>3, <2>5, <3>2, <3>3 DEF Above, Equals
  <2> QED BY <2>4, <2>5
<1>2. CASE ~ MeetAsFloats(l, r)
  <2>1. ~ MeetAsFloats(r, l) /\ l.type = r.type /\ l.type # "Float" /\ l.type # "Null"
    BY <1>2 DEF MeetAsFloats, Comparable, IsNull
  <2>2. ~ IsNaN(l) /\ ~ IsNaN(r)
    BY <2>1 DEF IsNaN
  <2>3. SameValue(l, r) <=> l.v = r.v
    BY <1>2 DEF SameValue
  <2>4. CASE l.type = "Int"
    <3>1. l.v \in Int /\ r.v \in Int
      <4>1. l.v \in MinInt .. MaxInt /\ r.v \in MinInt .. MaxInt
        BY <2>1, <2>4, ValuesByType
      <4>2. MinInt \in Int /\ MaxInt \in Int
        BY Bounds
      <4> QED BY <4>1, <4>2
    <3>2. (Greater(l, r) <=> l.v > r.v) /\ (Greater(r, l) <=> r.v > l.v)
      BY <1>2, <2>1, <2>4 DEF Greater, Is
    <3> QED BY <2>2, <2>3, <3>1, <3>2
  <2>5. CASE l.type = "Boolean"
    <3>1. l.v \in BOOLEAN /\ r.v \in BOOLEAN
      BY <2>1, <2>5, ValuesByType
    <3>2. (Greater(l, r) <=> (l.v /\ ~ r.v)) /\ (Greater(r, l) <=> (r.v /\ ~ l.v))
      BY <1>2, <2>1, <2>5 DEF Greater, Is
    <3> QED BY <2>2, <2>3, <3>1, <3>2, Zenon
  <2>6. CASE l.type = "VarChar"
    <3>1. l.v \in Seq(Nat) /\ r.v \in Seq(Nat)
      BY <2>1, <2>6, ValuesByType
    <3>2. (Greater(l, r) <=> Earlier(r.v, l.v)) /\ (Greater(r, l) <=> Earlier(l.v, r.v))
      BY <1>2, <2>1, <2>6 DEF Greater, Is
    <3> QED BY <2>2, <2>3, <3>1, <3>2, EarlierIsAnOrder
  <2> QED BY <2>1, <2>4, <2>5, <2>6, ValuesByType
<1> QED BY <1>1, <1>2

-----------------------------------------------------------------------------
(* Clauses that are built of clauses                                       *)

\* A tree of n operators, bound.
LEMMA ParsesToNested ==
    ASSUME NEW table, DOMAIN table.columns \subseteq Nat, NEW n \in 0 .. MaxNesting,
           NEW t \in Written[n], ~ IsRefused(parse_expr(t, table))
    PROVE  parse_expr(t, table) \in Nested[2 * n] /\ parse_expr(t, table) \in Expressions
           /\ 2 * n \in 0 .. 2 * MaxNesting
<1>1. Closed(Expressions)
  BY DEF Closed
<1>2. \A v \in Value : Constant(v) \in Expressions
  <2>1. \A v \in Value : Constant(v) \in Leaves
    BY DEF Leaves, Constant
  <2> QED BY <2>1, PartsAreExpressions
<1>3. \A k \in Nat : AttrRef(k) \in Expressions
  <2>1. \A k \in Nat : AttrRef(k) \in Leaves
    BY DEF Leaves, AttrRef
  <2> QED BY <2>1, PartsAreExpressions
<1>4. parse_expr(t, table) \in Among(Expressions, 2 * n)
  BY <1>1, <1>2, <1>3, ParseInduction
<1>5. 2 * n \in 0 .. 2 * MaxNesting
  BY Bounds
<1> QED BY <1>4, <1>5 DEF Among

LEMMA OneOperand ==
    ASSUME NEW b, NEW tuple, NEW n \in 0 .. 2 * MaxNesting - 1, NEW x \in Nested[n], NEW op \in UnaryOps
    PROVE  /\ Applied(op, <<x>>) \in Nested[n + 1]
           /\ evaluate(b, Applied(op, <<x>>), tuple) = Unary(op, evaluate(b, x, tuple))
<1> DEFINE e == [op |-> op, args |-> <<x>>]
<1>1. n \in 0 .. 2 * MaxNesting /\ n + 1 \in 0 .. 2 * MaxNesting /\ n + 1 \in 1 .. 2 * MaxNesting
      /\ (n + 1) - 1 = n
  BY Bounds
<1>2. ~ IsRefused(x)
  BY <1>1, PartsAreExpressions, NoneIsRefused
<1>3. Applied(op, <<x>>) = e
  BY <1>2, AppliedToOne
<1>4. e.op = op /\ e.args[1] = x
  OBVIOUS
<1>5. e \in Applications(Nested[n])
  <2>1. <<x>> \in [1 .. 1 -> Nested[n]]
    OBVIOUS
  <2> QED BY <2>1 DEF Applications
<1>6. e \in Nested[n + 1] /\ e \in Expressions
  BY <1>1, <1>5, NestedExists, PartsAreExpressions
<1> HIDE DEF e
<1>7. evaluate(b, e, tuple) = Unary(e.op, evaluate(b, e.args[1], tuple))
  BY <1>4, <1>6, Evaluates
<1> QED BY <1>3, <1>4, <1>6, <1>7

LEMMA TwoOperands ==
    ASSUME NEW b, NEW tuple, NEW n \in 0 .. 2 * MaxNesting - 1, NEW x \in Nested[n],
           NEW y \in Nested[n], NEW op \in BinaryOps
    PROVE  /\ Applied(op, <<x, y>>) \in Nested[n + 1]
           /\ evaluate(b, Applied(op, <<x, y>>), tuple) =
                 Binary(b, op, evaluate(b, x, tuple), evaluate(b, y, tuple))
<1> DEFINE e == [op |-> op, args |-> <<x, y>>]
<1>1. n \in 0 .. 2 * MaxNesting /\ n + 1 \in 0 .. 2 * MaxNesting /\ n + 1 \in 1 .. 2 * MaxNesting
      /\ (n + 1) - 1 = n
  BY Bounds
<1>2. ~ IsRefused(x) /\ ~ IsRefused(y)
  BY <1>1, PartsAreExpressions, NoneIsRefused
<1>3. Applied(op, <<x, y>>) = e
  BY <1>2, AppliedToTwo
<1>4. e.op = op /\ e.args[1] = x /\ e.args[2] = y
  OBVIOUS
<1>5. e \in Applications(Nested[n])
  <2>1. <<x, y>> \in [1 .. 2 -> Nested[n]]
    OBVIOUS
  <2> QED BY <2>1 DEF Applications
<1>6. e \in Nested[n + 1] /\ e \in Expressions
  BY <1>1, <1>5, NestedExists, PartsAreExpressions
<1> HIDE DEF e
<1>7. evaluate(b, e, tuple) =
         Binary(b, e.op, evaluate(b, e.args[1], tuple), evaluate(b, e.args[2], tuple))
  BY <1>4, <1>6, Evaluates
<1> QED BY <1>3, <1>4, <1>6, <1>7

\* What a binary operator of the syntax makes of its operands' values.
Means(b, op, x, y) ==
    IF op = "GtEq" THEN Binary(b, "Or", Binary(b, "GreaterThan", x, y), Binary(b, "Equal", x, y))
    ELSE IF op = "LtEq" THEN Binary(b, "Or", Binary(b, "LessThan", x, y), Binary(b, "Equal", x, y))
    ELSE IF op = "NotEq" THEN Unary("Not", Binary(b, "Equal", x, y))
    ELSE Binary(b, ExprOf[op], x, y)

LEMMA BinaryMeans ==
    ASSUME NEW b, NEW tuple, NEW n \in 0 .. 2 * MaxNesting - 2, NEW x \in Nested[n],
           NEW y \in Nested[n], NEW op \in {"GtEq", "LtEq", "NotEq"} \cup DOMAIN ExprOf
    PROVE  LET e == parse_binary_expr(op, x, y)
           IN  /\ e \in Nested[n + 2] /\ ~ IsRefused(e)
               /\ evaluate(b, e, tuple) = Means(b, op, evaluate(b, x, tuple), evaluate(b, y, tuple))
<1>0. DOMAIN ExprOf = {"And", "Or", "Eq", "Gt", "Lt", "Plus", "Minus", "Multiply", "Divide"}
      /\ \A o \in DOMAIN ExprOf : ExprOf[o] \in BinaryOps
  BY DEF ExprOf, BinaryOps
<1>1. n \in 0 .. 2 * MaxNesting - 1 /\ n + 1 \in 0 .. 2 * MaxNesting - 1 /\ (n + 1) + 1 = n + 2
      /\ n + 2 \in 0 .. 2 * MaxNesting /\ n + 1 \in 0 .. n + 2
  BY Bounds
<1>2. Nested[n + 1] \subseteq Nested[n + 2] /\ Nested[n + 2] \subseteq Expressions
  BY <1>1, NestedGrows, PartsAreExpressions
<1> DEFINE vx == evaluate(b, x, tuple)
           vy == evaluate(b, y, tuple)
           A(o) == Applied(o, <<x, y>>)
<1>3. \A o \in BinaryOps : A(o) \in Nested[n + 1] /\ evaluate(b, A(o), tuple) = Binary(b, o, vx, vy)
  BY <1>1, TwoOperands
<1>4. /\ A("GreaterThan") \in Nested[n + 1]
      /\ evaluate(b, A("GreaterThan"), tuple) = Binary(b, "GreaterThan", vx, vy)
      /\ A("LessThan") \in Nested[n + 1]
      /\ evaluate(b, A("LessThan"), tuple) = Binary(b, "LessThan", vx, vy)
      /\ A("Equal") \in Nested[n + 1]
      /\ evaluate(b, A("Equal"), tuple) = Binary(b, "Equal", vx, vy)
  BY <1>3 DEF BinaryOps
<1>5. /\ op = "GtEq" => parse_binary_expr(op, x, y) = Applied("Or", <<A("GreaterThan"), A("Equal")>>)
      /\ op = "LtEq" => parse_binary_expr(op, x, y) = Applied("Or", <<A("LessThan"), A("Equal")>>)
      /\ op = "NotEq" => parse_binary_expr(op, x, y) = Applied("Not", <<A("Equal")>>)
      /\ op \in DOMAIN ExprOf => parse_binary_expr(op, x, y) = A(ExprOf[op])
  <2>1. CASE op = "GtEq"
    BY <1>0, <2>1 DEF parse_binary_expr
  <2>2. CASE op = "LtEq"
    BY <1>0, <2>2 DEF parse_binary_expr
  <2>3. CASE op = "NotEq"
    BY <1>0, <2>3 DEF parse_binary_expr
  <2>4. CASE op \in DOMAIN ExprOf
    BY <1>0, <2>4 DEF parse_binary_expr
  <2> QED BY <2>1, <2>2, <2>3, <2>4
<1>6. "Or" \in BinaryOps /\ "Not" \in UnaryOps
  BY DEF BinaryOps, UnaryOps
<1> DEFINE Good == LET e == parse_binary_expr(op, x, y)
                   IN  e \in Nested[n + 2] /\ evaluate(b, e, tuple) = Means(b, op, vx, vy)
<1> HIDE DEF A, vx, vy
<1>7. ASSUME op = "GtEq" PROVE Good
  <2> DEFINE e == Applied("Or", <<A("GreaterThan"), A("Equal")>>)
  <2>1. e \in Nested[n + 2]
        /\ evaluate(b, e, tuple) = Binary(b, "Or", evaluate(b, A("GreaterThan"), tuple),
                                                   evaluate(b, A("Equal"), tuple))
    BY <1>1, <1>4, <1>6, TwoOperands
  <2> HIDE DEF e
  <2>2. parse_binary_expr(op, x, y) = e
    BY <1>5, <1>7 DEF e
  <2> QED BY <2>1, <2>2, <1>4, <1>7 DEF Means
<1>8. ASSUME op = "LtEq" PROVE Good
  <2> DEFINE e == Applied("Or", <<A("LessThan"), A("Equal")>>)
  <2>1. e \in Nested[n + 2]
        /\ evaluate(b, e, tuple) = Binary(b, "Or", evaluate(b, A("LessThan"), tuple),
                                                   evaluate(b, A("Equal"), tuple))
    BY <1>1, <1>4, <1>6, TwoOperands
  <2> HIDE DEF e
  <2>2. parse_binary_expr(op, x, y) = e
    BY <1>5, <1>8 DEF e
  <2> QED BY <2>1, <2>2, <1>4, <1>8 DEF Means
<1>9. ASSUME op = "NotEq" PROVE Good
  <2> DEFINE e == Applied("Not", <<A("Equal")>>)
  <2>1. e \in Nested[n + 2]
        /\ evaluate(b, e, tuple) = Unary("Not", evaluate(b, A("Equal"), tuple))
    BY <1>1, <1>4, <1>6, OneOperand
  <2> HIDE DEF e
  <2>2. parse_binary_expr(op, x, y) = e
    BY <1>5, <1>9 DEF e
  <2> QED BY <2>1, <2>2, <1>4, <1>9 DEF Means
<1>10. ASSUME op \in DOMAIN ExprOf PROVE Good
  <2>1. parse_binary_expr(op, x, y) = A(ExprOf[op])
    BY <1>5, <1>10
  <2>2. A(ExprOf[op]) \in Nested[n + 1] /\ evaluate(b, A(ExprOf[op]), tuple) = Binary(b, ExprOf[op], vx, vy)
    BY <1>0, <1>3, <1>10
  <2>3. Means(b, op, vx, vy) = Binary(b, ExprOf[op], vx, vy)
    BY <1>0, <1>10 DEF Means
  <2> QED BY <2>1, <2>2, <2>3, <1>2
<1>11. Good
  BY <1>7, <1>8, <1>9, <1>10
<1> QED BY <1>2, <1>11, NoneIsRefused DEF vx, vy

\* What a clause is on a row.
ValueOn(b, tree, table, row) == evaluate(b, parse_expr(tree, table), row)

LEMMA UnaryClauses ==
    ASSUME NEW b, NEW row, NEW table, DOMAIN table.columns \subseteq Nat,
           NEW m \in 0 .. MaxNesting - 1, NEW t \in Written[m], ~ IsRefused(parse_expr(t, table))
    PROVE  LET x == ValueOn(b, t, table, row)
           IN  /\ NotOf(t) \in Written[m + 1] /\ ~ IsRefused(parse_expr(NotOf(t), table))
               /\ ValueOn(b, NotOf(t), table, row) = Unary("Not", x)
               /\ IsNullOf(t) \in Written[m + 1] /\ ~ IsRefused(parse_expr(IsNullOf(t), table))
               /\ ValueOn(b, IsNullOf(t), table, row) = Unary("IsNull", x)
<1>1. /\ m \in 0 .. MaxNesting /\ m + 1 \in 1 .. MaxNesting /\ (m + 1) - 1 = m
      /\ m + 1 \in 0 .. MaxNesting /\ 2 * m \in 0 .. 2 * MaxNesting - 1
      /\ 2 * m + 1 \in 0 .. 2 * MaxNesting
  BY Bounds
<1>2. parse_expr(t, table) \in Nested[2 * m]
  BY <1>1, ParsesToNested
<1>3. NotOf(t).node = "UnaryOp" /\ NotOf(t).op = "Not" /\ NotOf(t).expr = t
      /\ IsNullOf(t).node = "IsNull" /\ IsNullOf(t).expr = t
  BY DEF NotOf, IsNullOf
<1>4. NotOf(t) \in Written[m + 1] /\ IsNullOf(t) \in Written[m + 1]
  <2>1. NotOf(t) \in [node : {"UnaryOp"}, op : BoundUnary \cup STRING, expr : Written[m]]
    BY DEF NotOf, BoundUnary
  <2>2. IsNullOf(t) \in [node : {"IsNull", "IsNotNull", "Nested"}, expr : Written[m]]
    BY DEF IsNullOf
  <2>3. NotOf(t) \in Compounds(Written[m]) /\ IsNullOf(t) \in Compounds(Written[m])
    BY <2>1, <2>2, Zenon DEF Compounds
  <2> QED BY <2>3, <1>1, WrittenExists
<1>5. NotOf(t) \in SyntaxTrees /\ IsNullOf(t) \in SyntaxTrees
  BY <1>1, <1>4, PartsAreTrees
<1>6. parse_expr(NotOf(t), table) = Applied("Not", <<parse_expr(t, table)>>)
  <2>1. parse_expr(NotOf(t), table) = parse_unary_expr("Not", parse_expr(t, table))
    BY <1>3, <1>5, Parses
  <2> QED BY <2>1 DEF parse_unary_expr
<1>7. parse_expr(IsNullOf(t), table) = Applied("IsNull", <<parse_expr(t, table)>>)
  BY <1>3, <1>5, Parses
<1>8. \A op \in UnaryOps :
         /\ Applied(op, <<parse_expr(t, table)>>) \in Expressions
         /\ evaluate(b, Applied(op, <<parse_expr(t, table)>>), row) =
               Unary(op, ValueOn(b, t, table, row))
  <2>1. Nested[2 * m + 1] \subseteq Expressions
    BY <1>1, PartsAreExpressions
  <2> QED BY <1>1, <1>2, <2>1, OneOperand DEF ValueOn
<1>9. "Not" \in UnaryOps /\ "IsNull" \in UnaryOps
  BY DEF UnaryOps
<1> QED BY <1>4, <1>6, <1>7, <1>8, <1>9, NoneIsRefused DEF ValueOn

LEMMA BinaryClauses ==
    ASSUME NEW b, NEW row, NEW table, DOMAIN table.columns \subseteq Nat,
           NEW m \in 0 .. MaxNesting - 1, NEW l \in Written[m], NEW r \in Written[m],
           ~ IsRefused(parse_expr(l, table)), ~ IsRefused(parse_expr(r, table)), NEW op \in BoundBinary
    PROVE  LET t == BinaryOp(l, op, r)
           IN  /\ t \in Written[m + 1] /\ ~ IsRefused(parse_expr(t, table))
               /\ ValueOn(b, t, table, row) =
                     Means(b, op, ValueOn(b, l, table, row), ValueOn(b, r, table, row))
<1> DEFINE t == BinaryOp(l, op, r)
<1>1. /\ m \in 0 .. MaxNesting /\ m + 1 \in 1 .. MaxNesting /\ (m + 1) - 1 = m
      /\ m + 1 \in 0 .. MaxNesting /\ 2 * m \in 0 .. 2 * MaxNesting - 2
  BY Bounds
<1>2. parse_expr(l, table) \in Nested[2 * m] /\ parse_expr(r, table) \in Nested[2 * m]
  BY <1>1, ParsesToNested
<1>3. t.node = "BinaryOp" /\ t.op = op /\ t.left = l /\ t.right = r
  BY DEF BinaryOp
<1>4. t \in Written[m + 1]
  <2>1. t \in [node : {"BinaryOp"}, op : BoundBinary \cup STRING, left : Written[m], right : Written[m]]
    BY DEF BinaryOp
  <2>2. t \in Compounds(Written[m])
    BY <2>1, Zenon DEF Compounds
  <2> QED BY <2>2, <1>1, WrittenExists
<1>5. t \in SyntaxTrees
  BY <1>1, <1>4, PartsAreTrees
<1> HIDE DEF t
<1>6. parse_expr(t, table) = parse_binary_expr(op, parse_expr(l, table), parse_expr(r, table))
  BY <1>3, <1>5, Parses
<1>7. op \in {"GtEq", "LtEq", "NotEq"} \cup DOMAIN ExprOf
  BY DEF BoundBinary
<1> DEFINE x == parse_expr(l, table)
           y == parse_expr(r, table)
<1>8. LET e == parse_binary_expr(op, x, y)
      IN  ~ IsRefused(e) /\ evaluate(b, e, row) = Means(b, op, evaluate(b, x, row), evaluate(b, y, row))
  <2> HIDE DEF x, y
  <2>1. x \in Nested[2 * m] /\ y \in Nested[2 * m]
    BY <1>2 DEF x, y
  <2> QED BY <1>1, <2>1, <1>7, BinaryMeans
<1> QED BY <1>4, <1>6, <1>8 DEF t, ValueOn

\* The operands of a clause that is bound.
LEMMA OperandsOf ==
    ASSUME NEW b, NEW row, NEW table, DOMAIN table.columns \subseteq Nat,
           NEW m \in 0 .. MaxNesting, NEW p \in Written[m], p.node = "BinaryOp",
           ~ IsRefused(parse_expr(p, table))
    PROVE  /\ m \in 1 .. MaxNesting
           /\ p.op \in BoundBinary
           /\ p.left \in Written[m - 1] /\ ~ IsRefused(parse_expr(p.left, table))
           /\ p.right \in Written[m - 1] /\ ~ IsRefused(parse_expr(p.right, table))
           /\ ValueOn(b, p, table, row) =
                 Means(b, p.op, ValueOn(b, p.left, table, row), ValueOn(b, p.right, table, row))
<1>1. p \notin Atoms
  BY TreeShapes DEF Bindable
<1>2. m \in 1 .. MaxNesting
  <2>1. m # 0
    BY <1>1, WrittenExists
  <2> QED BY <2>1, Bounds
<1>3. p.left \in Written[m - 1] /\ p.right \in Written[m - 1]
  <2>1. p \in Compounds(Written[m - 1])
    BY <1>1, <1>2, WrittenExists
  <2> QED BY <2>1, TreeShapes
<1>4. p \in SyntaxTrees
  BY PartsAreTrees
<1>5. parse_expr(p, table) =
         parse_binary_expr(p.op, parse_expr(p.left, table), parse_expr(p.right, table))
  BY <1>4, Parses
<1> DEFINE x == parse_expr(p.left, table)
           y == parse_expr(p.right, table)
<1>6. p.op \in BoundBinary /\ ~ IsRefused(x) /\ ~ IsRefused(y)
  <2> HIDE DEF x, y
  <2> SUFFICES ASSUME IsRefused(x) \/ IsRefused(y) \/ p.op \notin BoundBinary
               PROVE  IsRefused(parse_binary_expr(p.op, x, y))
    BY <1>5 DEF x, y
  <2>1. DOMAIN ExprOf = {"And", "Or", "Eq", "Gt", "Lt", "Plus", "Minus", "Multiply", "Divide"}
    BY DEF ExprOf
  <2>2. CASE p.op \notin BoundBinary
    <3>1. parse_binary_expr(p.op, x, y) = Refused("ParseError")
      BY <2>2 DEF parse_binary_expr, BoundBinary
    <3> QED BY <3>1 DEF IsRefused, Refused
  <2>3. CASE IsRefused(x) \/ IsRefused(y)
    <3> DEFINE A(o) == Applied(o, <<x, y>>)
    <3>1. \A o : IsRefused(A(o))
      <4> TAKE o
      <4>1. A(o) = IF IsRefused(x) THEN x ELSE IF IsRefused(y) THEN y
                   ELSE [op |-> o, args |-> <<x, y>>]
        BY AppliedToTwo
      <4> QED BY <4>1, <2>3
    <3>2. \A o, s, t : IsRefused(s) => IsRefused(Applied(o, <<s, t>>)) /\ IsRefused(Applied(o, <<s>>))
      <4> TAKE o, s, t
      <4>1. Applied(o, <<s>>) = IF IsRefused(s) THEN s ELSE [op |-> o, args |-> <<s>>]
        BY AppliedToOne
      <4>2. Applied(o, <<s, t>>) = IF IsRefused(s) THEN s ELSE IF IsRefused(t) THEN t
                                   ELSE [op |-> o, args |-> <<s, t>>]
        BY AppliedToTwo
      <4> QED BY <4>1, <4>2
    <3>3. /\ p.op = "GtEq" => parse_binary_expr(p.op, x, y) = Applied("Or", <<A("GreaterThan"), A("Equal")>>)
          /\ p.op = "LtEq" => parse_binary_expr(p.op, x, y) = Applied("Or", <<A("LessThan"), A("Equal")>>)
          /\ p.op = "NotEq" => parse_binary_expr(p.op, x, y) = Applied("Not", <<A("Equal")>>)
          /\ p.op \in DOMAIN ExprOf => parse_binary_expr(p.op, x, y) = A(ExprOf[p.op])
      <4>1. CASE p.op = "GtEq"
        BY <2>1, <4>1 DEF parse_binary_expr
      <4>2. CASE p.op = "LtEq"
        BY <2>1, <4>2 DEF parse_binary_expr
      <4>3. CASE p.op = "NotEq"
        BY <2>1, <4>3 DEF parse_binary_expr
      <4>4. CASE p.op \in DOMAIN ExprOf
        BY <2>1, <4>4 DEF parse_binary_expr
      <4> QED BY <4>1, <4>2, <4>3, <4>4
    <3> HIDE DEF A
    <3> QED BY <2>2, <3>1, <3>2, <3>3, Zenon DEF BoundBinary
  <2> QED BY <2>2, <2>3
<1>7. LET e == parse_binary_expr(p.op, x, y)
      IN  evaluate(b, e, row) = Means(b, p.op, evaluate(b, x, row), evaluate(b, y, row))
  <2>1. m - 1 \in 0 .. MaxNesting /\ 2 * (m - 1) \in 0 .. 2 * MaxNesting - 2
    BY <1>2, Bounds
  <2>2. x \in Nested[2 * (m - 1)] /\ y \in Nested[2 * (m - 1)]
    BY <1>3, <1>6, <2>1, ParsesToNested
  <2>3. p.op \in {"GtEq", "LtEq", "NotEq"} \cup DOMAIN ExprOf
    BY <1>6 DEF BoundBinary
  <2> HIDE DEF x, y
  <2> QED BY <2>1, <2>2, <2>3, BinaryMeans
<1> QED BY <1>2, <1>3, <1>5, <1>6, <1>7 DEF ValueOn

-----------------------------------------------------------------------------
(* Laws of the three-valued logic, on one row                              *)

LEMMA LogicalIs ==
    ASSUME NEW x \in Outcome
    PROVE  /\ Logical(x) => x \in Value /\ ~ Fails(x)
           /\ Logical(x) <=> IsTrue(x) \/ IsFalse(x) \/ IsNull(x)
           /\ ~ (IsTrue(x) /\ IsFalse(x)) /\ ~ (IsTrue(x) /\ IsNull(x)) /\ ~ (IsFalse(x) /\ IsNull(x))
<1>1. x.type = "Boolean" => x.v \in BOOLEAN
  BY TypesOfOutcomes
<1>2. Logical(x) => ~ Fails(x)
  BY DEF Logical, Fails
<1>3. Logical(x) => x \in Value
  BY <1>2, OutcomesFail
<1>4. Logical(x) <=> IsTrue(x) \/ IsFalse(x) \/ IsNull(x)
  BY <1>1 DEF Logical, IsTrue, IsFalse, IsNull
<1>5. ~ (IsTrue(x) /\ IsFalse(x)) /\ ~ (IsTrue(x) /\ IsNull(x)) /\ ~ (IsFalse(x) /\ IsNull(x))
  BY <1>1 DEF IsTrue, IsFalse, IsNull
<1> QED BY <1>2, <1>3, <1>4, <1>5

LEMMA NegationIs ==
    ASSUME NEW x \in Outcome
    PROVE  LET n == Unary("Not", x)
               u == Unary("IsNull", x)
           IN  /\ n \in Outcome /\ u \in Outcome
               /\ Logical(n) <=> Logical(x)
               /\ IsTrue(n) <=> IsFalse(x)
               /\ IsFalse(n) <=> IsTrue(x)
               /\ Logical(x) => /\ IsTrue(u) <=> IsNull(x)
                                /\ IsTrue(Unary("Not", u)) <=> ~ IsNull(x)
<1> DEFINE n == Unary("Not", x)
           u == Unary("IsNull", x)
<1>1. n \in Outcome /\ u \in Outcome
  BY UnaryOutcome DEF UnaryOps
<1>2. ASSUME NEW y \in Outcome
      PROVE  LET m == Unary("Not", y)
             IN  /\ Logical(m) <=> Logical(y)
                 /\ IsTrue(m) <=> IsFalse(y)
                 /\ IsFalse(m) <=> IsTrue(y)
  <2> DEFINE m == Unary("Not", y)
  <2>1. CASE Fails(y)
    <3>1. m = y
      BY <2>1 DEF Unary
    <3>2. ~ IsTrue(y) /\ ~ IsFalse(y)
      BY <2>1 DEF Fails, IsTrue, IsFalse
    <3> QED BY <3>1, <3>2
  <2>2. CASE ~ Fails(y)
    <3>1. m = Not(y)
      BY <2>2 DEF Unary
    <3>2. y.type = "Boolean" => y.v \in BOOLEAN
      BY TypesOfOutcomes
    <3>3. /\ IsTrue(y) => Not(y) = Boolean(FALSE)
          /\ IsFalse(y) => Not(y) = Boolean(TRUE)
          /\ IsNull(y) => Not(y) = Null
          /\ ~ Logical(y) => Not(y) = Err("InvalidComparison")
      BY <3>2, NotIs
    <3>4. /\ Logical(Boolean(FALSE)) /\ ~ IsTrue(Boolean(FALSE)) /\ IsFalse(Boolean(FALSE))
          /\ Logical(Boolean(TRUE)) /\ IsTrue(Boolean(TRUE)) /\ ~ IsFalse(Boolean(TRUE))
          /\ Logical(Null) /\ ~ IsTrue(Null) /\ ~ IsFalse(Null)
          /\ LET e == Err("InvalidComparison") IN ~ Logical(e) /\ ~ IsTrue(e) /\ ~ IsFalse(e)
      BY Truths, Zenon
    <3>5. /\ Logical(y) <=> IsTrue(y) \/ IsFalse(y) \/ IsNull(y)
          /\ ~ (IsTrue(y) /\ IsFalse(y)) /\ ~ (IsTrue(y) /\ IsNull(y)) /\ ~ (IsFalse(y) /\ IsNull(y))
      BY LogicalIs
    <3> HIDE DEF m
    <3>6. (Logical(m) <=> Logical(y)) /\ (IsTrue(m) <=> IsFalse(y)) /\ (IsFalse(m) <=> IsTrue(y))
      <4>1. CASE IsTrue(y)
        <5>1. m = Boolean(FALSE)
          BY <3>1, <3>3, <4>1, Zenon
        <5> QED BY <3>4, <3>5, <4>1, <5>1, Zenon
      <4>2. CASE IsFalse(y)
        <5>1. m = Boolean(TRUE)
          BY <3>1, <3>3, <4>2, Zenon
        <5> QED BY <3>4, <3>5, <4>2, <5>1, Zenon
      <4>3. CASE IsNull(y)
        BY <3>1, <3>3, <3>4, <3>5, <4>3
      <4>4. CASE ~ Logical(y)
        BY <3>1, <3>3, <3>4, <3>5, <4>4
      <4> QED BY <3>5, <4>1, <4>2, <4>3, <4>4
    <3> QED BY <3>6 DEF m
  <2> QED BY <2>1, <2>2
<1>3. ASSUME Logical(x)
      PROVE  u \in Outcome /\ Logical(u) /\ (IsTrue(u) <=> IsNull(x)) /\ (IsFalse(u) <=> ~ IsNull(x))
  <2>1. ~ Fails(x)
    BY <1>3, LogicalIs
  <2>2. u = Boolean(IsNull(x))
    BY <2>1 DEF Unary
  <2>3. IsNull(x) \in BOOLEAN
    BY DEF IsNull
  <2>4. Logical(u) /\ (IsTrue(u) <=> IsNull(x)) /\ (IsFalse(u) <=> ~ IsNull(x))
    BY <2>2, <2>3, Truths, Zenon
  <2> QED BY <1>1, <2>4
<1> HIDE DEF u
<1>4. Logical(x) => ((IsTrue(u) <=> IsNull(x)) /\ (IsTrue(Unary("Not", u)) <=> ~ IsNull(x)))
  BY <1>2, <1>3, Zenon
<1> QED BY <1>1, <1>2, <1>4 DEF u

\* Of p, NOT p and p IS NULL just one is true.
LEMMA OneOfThree ==
    ASSUME NEW x \in Outcome, Logical(x)
    PROVE  LET n == Unary("Not", x)
               u == Unary("IsNull", x)
           IN  /\ IsTrue(x) \/ IsTrue(n) \/ IsTrue(u)
               /\ ~ (IsTrue(x) /\ IsTrue(n)) /\ ~ (IsTrue(x) /\ IsTrue(u)) /\ ~ (IsTrue(n) /\ IsTrue(u))
BY LogicalIs, NegationIs, Zenon

\* An AND or OR that is a condition has operands that are.
LEMMA ConnectivesMean ==
    ASSUME NEW b, NEW x \in Outcome, NEW y \in Outcome
    PROVE  LET a == Binary(b, "And", x, y)
               o == Binary(b, "Or", x, y)
           IN  /\ Logical(a) <=> Logical(x) /\ Logical(y)
               /\ Logical(o) <=> Logical(x) /\ Logical(y)
               /\ Logical(x) /\ Logical(y) =>
                     /\ IsFalse(a) <=> IsFalse(x) \/ IsFalse(y)
                     /\ IsTrue(a) <=> IsTrue(x) /\ IsTrue(y)
                     /\ IsTrue(o) <=> IsTrue(x) \/ IsTrue(y)
                     /\ IsFalse(o) <=> IsFalse(x) /\ IsFalse(y)
<1>1. CASE Fails(x) \/ Fails(y)
  <2>1. ~ (Logical(x) /\ Logical(y))
    BY <1>1, LogicalIs
  <2>2. Fails(Binary(b, "And", x, y)) /\ Fails(Binary(b, "Or", x, y))
    BY <1>1 DEF Binary
  <2>3. \A z : Fails(z) => ~ Logical(z)
    BY DEF Fails, Logical
  <2> QED BY <2>1, <2>2, <2>3
<1>2. CASE ~ Fails(x) /\ ~ Fails(y)
  <2>1. Binary(b, "And", x, y) = And(x, y) /\ Binary(b, "Or", x, y) = Or(x, y)
    BY <1>2, BinaryIs
  <2> DEFINE T == Boolean(TRUE)
             F == Boolean(FALSE)
             E == Err("InvalidComparison")
  <2>2. /\ Logical(T) /\ IsTrue(T) /\ ~ IsFalse(T)
        /\ Logical(F) /\ ~ IsTrue(F) /\ IsFalse(F)
        /\ Logical(Null) /\ ~ IsTrue(Null) /\ ~ IsFalse(Null)
        /\ ~ Logical(E)
    BY Truths, Zenon
  <2>3. And(x, y) = IF ~ (Logical(x) /\ Logical(y)) THEN E
                    ELSE IF IsFalse(x) \/ IsFalse(y) THEN F
                    ELSE IF IsNull(x) \/ IsNull(y) THEN Null ELSE T
    BY DEF And
  <2>4. Or(x, y) = IF ~ (Logical(x) /\ Logical(y)) THEN E
                   ELSE IF IsTrue(x) \/ IsTrue(y) THEN T
                   ELSE IF IsNull(x) \/ IsNull(y) THEN Null ELSE F
    BY DEF Or
  <2> HIDE DEF T, F, E
  <2>5. /\ Logical(x) <=> IsTrue(x) \/ IsFalse(x) \/ IsNull(x)
        /\ ~ (IsTrue(x) /\ IsFalse(x)) /\ ~ (IsTrue(x) /\ IsNull(x)) /\ ~ (IsFalse(x) /\ IsNull(x))
        /\ Logical(y) <=> IsTrue(y) \/ IsFalse(y) \/ IsNull(y)
        /\ ~ (IsTrue(y) /\ IsFalse(y)) /\ ~ (IsTrue(y) /\ IsNull(y)) /\ ~ (IsFalse(y) /\ IsNull(y))
    BY LogicalIs
  <2> DEFINE a == And(x, y)
             o == Or(x, y)
  <2>6. /\ Logical(a) <=> Logical(x) /\ Logical(y)
        /\ Logical(x) /\ Logical(y) =>
              (IsFalse(a) <=> IsFalse(x) \/ IsFalse(y)) /\ (IsTrue(a) <=> IsTrue(x) /\ IsTrue(y))
    BY <2>2, <2>3, <2>5, Zenon
  <2>7. /\ Logical(o) <=> Logical(x) /\ Logical(y)
        /\ Logical(x) /\ Logical(y) =>
              (IsTrue(o) <=> IsTrue(x) \/ IsTrue(y)) /\ (IsFalse(o) <=> IsFalse(x) /\ IsFalse(y))
    BY <2>2, <2>4, <2>5, Zenon
  <2> QED BY <2>1, <2>6, <2>7
<1> QED BY <1>1, <1>2

LEMMA DeMorgan ==
    ASSUME NEW b, NEW x \in Outcome, NEW y \in Outcome
    PROVE  /\ Logical(Means(b, "And", x, y)) =>
                 (IsTrue(Unary("Not", Means(b, "And", x, y))) <=>
                     IsTrue(Means(b, "Or", Unary("Not", x), Unary("Not", y))))
           /\ Logical(Means(b, "Or", x, y)) =>
                 (IsTrue(Unary("Not", Means(b, "Or", x, y))) <=>
                     IsTrue(Means(b, "And", Unary("Not", x), Unary("Not", y))))
<1> DEFINE a == Binary(b, "And", x, y)
           o == Binary(b, "Or", x, y)
           m == Unary("Not", x)
           n == Unary("Not", y)
<1>1. a \in Outcome /\ o \in Outcome
  BY BinaryOutcome DEF BinaryOps
<1>2. /\ m \in Outcome /\ n \in Outcome
      /\ Logical(m) <=> Logical(x)
      /\ Logical(n) <=> Logical(y)
      /\ IsTrue(m) <=> IsFalse(x)
      /\ IsTrue(n) <=> IsFalse(y)
  BY NegationIs
<1>3. /\ \A s, t : Means(b, "And", s, t) = Binary(b, "And", s, t)
      /\ \A s, t : Means(b, "Or", s, t) = Binary(b, "Or", s, t)
  BY DEF Means, ExprOf
<1>4. (IsTrue(Unary("Not", a)) <=> IsFalse(a)) /\ (IsTrue(Unary("Not", o)) <=> IsFalse(o))
  BY <1>1, NegationIs
<1>5. /\ Logical(a) <=> Logical(x) /\ Logical(y)
      /\ Logical(o) <=> Logical(x) /\ Logical(y)
      /\ Logical(x) /\ Logical(y) =>
            (IsFalse(a) <=> IsFalse(x) \/ IsFalse(y)) /\ (IsFalse(o) <=> IsFalse(x) /\ IsFalse(y))
  BY ConnectivesMean
<1> HIDE DEF a, o, m, n
<1>6. Logical(m) /\ Logical(n) =>
         /\ IsTrue(Binary(b, "Or", m, n)) <=> IsTrue(m) \/ IsTrue(n)
         /\ IsTrue(Binary(b, "And", m, n)) <=> IsTrue(m) /\ IsTrue(n)
  BY <1>2, ConnectivesMean
<1>7. /\ Logical(a) => (IsTrue(Unary("Not", a)) <=> IsTrue(Binary(b, "Or", m, n)))
      /\ Logical(o) => (IsTrue(Unary("Not", o)) <=> IsTrue(Binary(b, "And", m, n)))
  BY <1>2, <1>4, <1>5, <1>6, Zenon
<1> QED BY <1>3, <1>7 DEF a, o, m, n

ComparisonOps == {"Eq", "NotEq", "Gt", "GtEq", "Lt", "LtEq"}

LEMMA ComparisonsMean ==
    ASSUME NEW b, NEW x, NEW y
    PROVE  /\ Means(b, "Eq", x, y) = Binary(b, "Equal", x, y)
           /\ Means(b, "Gt", x, y) = Binary(b, "GreaterThan", x, y)
           /\ Means(b, "Lt", x, y) = Binary(b, "LessThan", x, y)
           /\ Means(b, "NotEq", x, y) = Unary("Not", Binary(b, "Equal", x, y))
           /\ Means(b, "GtEq", x, y) =
                 Binary(b, "Or", Binary(b, "GreaterThan", x, y), Binary(b, "Equal", x, y))
           /\ Means(b, "LtEq", x, y) =
                 Binary(b, "Or", Binary(b, "LessThan", x, y), Binary(b, "Equal", x, y))
BY DEF Means, ExprOf

\* A comparison that is a condition is one of values that can be compared.
LEMMA ComparesValues ==
    ASSUME NEW b, NEW x \in Outcome, NEW y \in Outcome, NEW op \in ComparisonOps,
           Logical(Means(b, op, x, y))
    PROVE  /\ x \in Value /\ y \in Value /\ ~ Fails(x) /\ ~ Fails(y)
           /\ IsNull(x) \/ IsNull(y) \/ Comparable(x, y)
<1> DEFINE g == Binary(b, "GreaterThan", x, y)
           l == Binary(b, "LessThan", x, y)
           e == Binary(b, "Equal", x, y)
<1>1. g \in Outcome /\ l \in Outcome /\ e \in Outcome
  BY BinaryOutcome DEF BinaryOps
<1>2. ASSUME NEW o \in {"GreaterThan", "LessThan", "Equal"}, Logical(Binary(b, o, x, y))
      PROVE  /\ x \in Value /\ y \in Value /\ ~ Fails(x) /\ ~ Fails(y)
             /\ IsNull(x) \/ IsNull(y) \/ Comparable(x, y)
  <2>1. ~ Fails(Binary(b, o, x, y))
    BY <1>2 DEF Logical, Fails
  <2>2. ~ Fails(x) /\ ~ Fails(y)
    BY <2>1, BinaryIs
  <2>3. \E holds \in BOOLEAN : Binary(b, o, x, y) = Compare(x, y, holds)
    BY <2>2, BinaryIs, ComparisonsAreBoolean
  <2>4. IsNull(x) \/ IsNull(y) \/ Comparable(x, y)
    <3>1. ~ Logical(Err("InvalidComparison"))
      BY Truths
    <3> QED BY <3>1, <2>3, <1>2, ComparesTo
  <2> QED BY <2>2, <2>4, OutcomesFail
<1> HIDE DEF g, l, e
<1>3. Logical(Binary(b, "Or", g, e)) => Logical(g)
  BY <1>1, ConnectivesMean
<1>4. Logical(Binary(b, "Or", l, e)) => Logical(l)
  BY <1>1, ConnectivesMean
<1>5. Logical(Unary("Not", e)) => Logical(e)
  BY <1>1, NegationIs
<1>6. Logical(g) \/ Logical(l) \/ Logical(e)
  <2>1. /\ Means(b, "Eq", x, y) = e
        /\ Means(b, "Gt", x, y) = g
        /\ Means(b, "Lt", x, y) = l
        /\ Means(b, "NotEq", x, y) = Unary("Not", e)
        /\ Means(b, "GtEq", x, y) = Binary(b, "Or", g, e)
        /\ Means(b, "LtEq", x, y) = Binary(b, "Or", l, e)
    BY ComparisonsMean DEF g, l, e
  <2> QED BY <2>1, <1>3, <1>4, <1>5 DEF ComparisonOps
<1> QED BY <1>2, <1>6 DEF g, l, e

\* The laws of <, =, >, >=, <= and <>.
LEMMA ComparisonLaws ==
    ASSUME NEW b, NEW x \in Outcome, NEW y \in Outcome, NEW op \in ComparisonOps,
           Logical(Means(b, op, x, y))
    PROVE  LET is(o)  == IsTrue(Means(b, o, x, y))
               non(o) == IsTrue(Unary("Not", Means(b, o, x, y)))
               known  == IsTrue(Unary("Not", Unary("IsNull", Means(b, op, x, y))))
               nan    == (IsNaN(x) \/ IsNaN(y)) /\ known
           IN  /\ is("Lt") \/ is("Eq") \/ is("Gt") <=> known /\ ~ nan
               /\ ~ (is("Lt") /\ is("Eq")) /\ ~ (is("Lt") /\ is("Gt")) /\ ~ (is("Eq") /\ is("Gt"))
               /\ is("GtEq") <=> non("Lt") /\ ~ nan
               /\ is("LtEq") <=> non("Gt") /\ ~ nan
               /\ is("NotEq") <=> non("Eq")
               /\ nan => is("NotEq")
               /\ is("Lt") <=> IsTrue(Means(b, "Gt", y, x))
<1> DEFINE g == Binary(b, "GreaterThan", x, y)
           l == Binary(b, "LessThan", x, y)
           e == Binary(b, "Equal", x, y)
           h == Binary(b, "GreaterThan", y, x)
           ge == Binary(b, "Or", g, e)
           le == Binary(b, "Or", l, e)
           ne == Unary("Not", e)
           c == Means(b, op, x, y)
           meets == ~ IsNull(x) /\ ~ IsNull(y)
           Same == SameValue(x, y)
           More == Greater(x, y)
           Less == Greater(y, x)
           noNaN == ~ IsNaN(x) /\ ~ IsNaN(y)
<1>1. x \in Value /\ y \in Value /\ ~ Fails(x) /\ ~ Fails(y)
      /\ (IsNull(x) \/ IsNull(y) \/ Comparable(x, y))
  BY ComparesValues
<1>2. /\ g = Compare(x, y, More) /\ l = Compare(x, y, Less) /\ e = Compare(x, y, Same)
      /\ h = Compare(y, x, Less)
  BY <1>1, BinaryIs
<1>3. Comparable(x, y) => Comparable(y, x)
  BY DEF Comparable, MeetAsFloats
<1>4. More \in BOOLEAN /\ Less \in BOOLEAN /\ Same \in BOOLEAN
  BY ComparisonsAreBoolean
<1>5. /\ g \in Outcome /\ l \in Outcome /\ e \in Outcome /\ h \in Outcome
      /\ ge \in Outcome /\ le \in Outcome /\ ne \in Outcome
  <2>1. g \in Outcome /\ l \in Outcome /\ e \in Outcome /\ h \in Outcome
    BY BinaryOutcome DEF BinaryOps
  <2> HIDE DEF g, l, e, h
  <2> QED BY <2>1, BinaryOutcome, UnaryOutcome DEF BinaryOps, UnaryOps
<1>6. meets => /\ noNaN <=> More \/ Less \/ Same
               /\ ~ (More /\ Less) /\ ~ (More /\ Same) /\ ~ (Less /\ Same)
  BY <1>1, Trichotomy
<1> HIDE DEF More, Less, Same
<1>7. /\ meets => /\ Logical(g) /\ (IsTrue(g) <=> More) /\ (IsFalse(g) <=> ~ More)
                  /\ Logical(l) /\ (IsTrue(l) <=> Less) /\ (IsFalse(l) <=> ~ Less)
                  /\ Logical(e) /\ (IsTrue(e) <=> Same) /\ (IsFalse(e) <=> ~ Same)
                  /\ (IsTrue(h) <=> Less)
                  /\ ~ IsNull(g) /\ ~ IsNull(l) /\ ~ IsNull(e)
      /\ ~ meets => IsNull(g) /\ IsNull(l) /\ IsNull(e) /\ IsNull(h)
  <2> HIDE DEF g, l, e, h
  <2>1. CASE meets
    <3>1. Comparable(x, y) /\ Comparable(y, x) /\ ~ IsNull(x) /\ ~ IsNull(y)
      BY <2>1, <1>1, <1>3
    <3>2. Logical(g) /\ ~ IsNull(g) /\ (IsTrue(g) <=> More) /\ (IsFalse(g) <=> ~ More)
      BY <1>2, <1>4, <3>1, ComparesTo
    <3>3. Logical(l) /\ ~ IsNull(l) /\ (IsTrue(l) <=> Less) /\ (IsFalse(l) <=> ~ Less)
      BY <1>2, <1>4, <3>1, ComparesTo
    <3>4. Logical(e) /\ ~ IsNull(e) /\ (IsTrue(e) <=> Same) /\ (IsFalse(e) <=> ~ Same)
      BY <1>2, <1>4, <3>1, ComparesTo
    <3>5. IsTrue(h) <=> Less
      BY <1>2, <1>4, <3>1, ComparesTo
    <3> QED BY <2>1, <3>2, <3>3, <3>4, <3>5
  <2>2. CASE ~ meets
    <3>1. g = Null /\ l = Null /\ e = Null /\ h = Null
      BY <1>2, <2>2 DEF Compare
    <3> QED BY <2>2, <3>1, Truths
  <2> QED BY <2>1, <2>2
<1> HIDE DEF g, l, e, h
<1>8. /\ Logical(ge) /\ Logical(le) /\ Logical(ne)
      /\ IsTrue(ge) <=> IsTrue(g) \/ IsTrue(e)
      /\ IsTrue(le) <=> IsTrue(l) \/ IsTrue(e)
      /\ IsFalse(ge) <=> IsFalse(g) /\ IsFalse(e)
      /\ IsFalse(le) <=> IsFalse(l) /\ IsFalse(e)
      /\ IsTrue(ne) <=> IsFalse(e)
      /\ IsFalse(ne) <=> IsTrue(e)
  <2>1. Logical(g) /\ Logical(l) /\ Logical(e)
    BY <1>7 DEF Logical, IsNull
  <2> QED BY <2>1, <1>5, ConnectivesMean, NegationIs
<1>9. /\ IsTrue(Unary("Not", l)) <=> IsFalse(l)
      /\ IsTrue(Unary("Not", g)) <=> IsFalse(g)
      /\ IsTrue(Unary("Not", e)) <=> IsFalse(e)
  BY <1>5, NegationIs
<1>10. \A z \in {g, l, e, ge, le, ne} :
          /\ Logical(z) <=> IsTrue(z) \/ IsFalse(z) \/ IsNull(z)
          /\ ~ (IsTrue(z) /\ IsNull(z)) /\ ~ (IsFalse(z) /\ IsNull(z))
  BY <1>5, LogicalIs
<1> HIDE DEF ge, le, ne
<1>11. /\ Means(b, "Eq", x, y) = e
       /\ Means(b, "Gt", x, y) = g
       /\ Means(b, "Lt", x, y) = l
       /\ Means(b, "NotEq", x, y) = ne
       /\ Means(b, "GtEq", x, y) = ge
       /\ Means(b, "LtEq", x, y) = le
       /\ Means(b, "Gt", y, x) = h
  BY ComparisonsMean DEF g, l, e, h, ge, le, ne
<1>12. c \in {g, l, e, ge, le, ne}
  BY <1>11 DEF ComparisonOps
<1> DEFINE known == IsTrue(Unary("Not", Unary("IsNull", c)))
<1>13. known <=> ~ IsNull(c)
  <2>1. c \in Outcome /\ Logical(c)
    BY <1>5, <1>12
  <2> HIDE DEF c
  <2> QED BY <2>1, NegationIs
<1>14. IsNull(c) <=> ~ meets
  <2>1. /\ meets => ~ IsNull(g) /\ ~ IsNull(l) /\ ~ IsNull(e) /\ ~ IsNull(ge) /\ ~ IsNull(le) /\ ~ IsNull(ne)
        /\ ~ meets => IsNull(g) /\ IsNull(l) /\ IsNull(e) /\ IsNull(ge) /\ IsNull(le) /\ IsNull(ne)
    <3> HIDE DEF meets
    <3> QED BY <1>7, <1>8, <1>10
  <2> QED BY <2>1, <1>12
<1> HIDE DEF known, meets, noNaN, c
<1>15. /\ IsTrue(l) \/ IsTrue(e) \/ IsTrue(g) <=> known /\ noNaN
       /\ ~ (IsTrue(l) /\ IsTrue(e)) /\ ~ (IsTrue(l) /\ IsTrue(g)) /\ ~ (IsTrue(e) /\ IsTrue(g))
       /\ IsTrue(ge) <=> IsTrue(Unary("Not", l)) /\ ~ (~ noNaN /\ known)
       /\ IsTrue(le) <=> IsTrue(Unary("Not", g)) /\ ~ (~ noNaN /\ known)
       /\ IsTrue(ne) <=> IsTrue(Unary("Not", e))
       /\ ~ noNaN /\ known => IsTrue(ne)
       /\ IsTrue(l) <=> IsTrue(h)
  <2>1. CASE meets
    BY <2>1, <1>6, <1>7, <1>8, <1>9, <1>13, <1>14
  <2>2. CASE ~ meets
    <3>1. /\ ~ IsTrue(g) /\ ~ IsTrue(l) /\ ~ IsTrue(e) /\ ~ IsTrue(h)
          /\ ~ IsFalse(g) /\ ~ IsFalse(l) /\ ~ IsFalse(e)
      BY <2>2, <1>7 DEF IsTrue, IsFalse, IsNull
    <3> QED BY <2>2, <3>1, <1>8, <1>9, <1>13, <1>14
  <2> QED BY <2>1, <2>2
<1> QED BY <1>11, <1>15 DEF known, noNaN, c

-----------------------------------------------------------------------------
(* The inductive invariant                                                 *)

IsColumns(columns) ==
    /\ Len(columns) \in Nat /\ DOMAIN columns = 1 .. Len(columns)
    /\ \A k \in DOMAIN columns : columns[k].data_type \in {"VarChar", "Int", "Float", "Blob"}

RowsOf(columns) == {row \in Seq(Value) : OfColumns(row, columns)}

\* The tables and their rows.
TablesOK ==
    /\ build \in {"debug", "release"}
    /\ DOMAIN rows = DOMAIN tables
    /\ \A t \in DOMAIN tables : IsColumns(tables[t]) /\ rows[t] \in Seq(RowsOf(tables[t]))

\* The plan is what the binder makes of the statement, now as then.
PlanOK ==
    /\ phase \in {"Idle", "Planned", "Refused", "Done", "Error", "Panicked"}
    /\ phase = "Idle" => stmt = None /\ plan = NoPlan /\ next_row = 1 /\ out = <<>>
    /\ phase # "Idle" => /\ stmt \in Statements
                         /\ plan = bind(stmt, tables)
                         /\ phase = "Refused" <=> IsRefused(plan)

\* The rows before the next one that the WHERE clause is true of.
TrueBefore(n) ==
    {k \in 1 .. n - 1 : IsTrue(Condition(plan.filter, rows[plan.table][k]))}

\* The rows that a scan has passed are conditions, and it has found those that
\* are true.
ScanOK ==
    plan.op = "Select" =>
        /\ next_row \in 1 .. Len(rows[plan.table]) + 1
        /\ phase = "Done" => next_row = Len(rows[plan.table]) + 1
        /\ \A k \in 1 .. next_row - 1 : Logical(Condition(plan.filter, rows[plan.table][k]))
        /\ out \in Seq({Projected(rows[plan.table][k]) : k \in DOMAIN rows[plan.table]})
        /\ Len(out) = Cardinality(TrueBefore(next_row))
        /\ \A k \in TrueBefore(next_row) :
              out[Cardinality(TrueBefore(next_row) \cap (1 .. k))] = Projected(rows[plan.table][k])

\* What is in the statement that may panic; or its page may.
HasCause ==
    \/ plan.op = "Select" /\ OpsOf(plan.filter \o plan.cols) \cap Risky(build) # {}
    \/ /\ plan.op = "Insert"
       /\ \/ OpsOf(plan.values) \cap (Risky(build) \cup {"AttrRef", "Null"}) # {}
          \/ is_valid_tuple
    \/ plan.op = "CreateTable" /\ plan.name \notin DOMAIN tables

PanicHasCause == phase = "Panicked" => HasCause

\* The columns have the names that their CREATE TABLE has for them.
NamesOK ==
    /\ whole \in BOOLEAN
    /\ DOMAIN created = DOMAIN tables
    /\ \A t \in DOMAIN tables :
          /\ DOMAIN created[t].columns = DOMAIN tables[t]
          /\ \A k \in DOMAIN tables[t] : tables[t][k].name = to_string(created[t].columns[k].ident)

IInv == TablesOK /\ PlanOK /\ ScanOK /\ PanicHasCause /\ NamesOK

-----------------------------------------------------------------------------
(* What a statement is bound to                                            *)

LEMMA AppliedToMany ==
    ASSUME NEW op, NEW n \in Nat, NEW args, DOMAIN args = 1 .. n
    PROVE  LET a == Applied(op, args)
           IN  /\ (\E k \in 1 .. n : IsRefused(args[k])) => IsRefused(a)
               /\ ~ (\E k \in 1 .. n : IsRefused(args[k])) => a = [op |-> op, args |-> args]
<1>1. ASSUME \E k \in 1 .. n : IsRefused(args[k]) PROVE IsRefused(Applied(op, args))
  <2> DEFINE T == {k \in 1 .. n : IsRefused(args[k])}
             First(k) == IsRefused(args[k]) /\ \A j \in 1 .. k - 1 : ~ IsRefused(args[j])
  <2>1. T \in SUBSET Nat /\ T # {}
    BY <1>1
  <2>2. PICK k \in T : \A j \in T : k <= j
    <3> HIDE DEF T
    <3> QED BY <2>1, LeastExists
  <2>3. k \in DOMAIN args /\ First(k)
    BY <2>2
  <2> HIDE DEF First
  <2>4. First(CHOOSE j \in DOMAIN args : First(j))
    BY <2>3, Zenon
  <2>5. Applied(op, args) = args[CHOOSE j \in DOMAIN args : First(j)]
    BY <1>1 DEF Applied, First
  <2>6. IsRefused(args[CHOOSE j \in DOMAIN args : First(j)])
    BY <2>4 DEF First
  <2> QED BY <2>5, <2>6
<1>2. ASSUME ~ (\E k \in 1 .. n : IsRefused(args[k])) PROVE Applied(op, args) = [op |-> op, args |-> args]
  BY <1>2 DEF Applied
<1> QED BY <1>1, <1>2

LEMMA EachIs ==
    ASSUME NEW S, NEW exprs \in Seq(S), NEW table
    PROVE  LET e == Each(exprs, table)
           IN  /\ IsRefused(e) <=> \E k \in DOMAIN exprs : IsRefused(parse_expr(exprs[k], table))
               /\ ~ IsRefused(e) => e.args = [k \in DOMAIN exprs |-> parse_expr(exprs[k], table)]
<1> DEFINE bound == [k \in DOMAIN exprs |-> parse_expr(exprs[k], table)]
           n == Len(exprs)
<1>1. n \in Nat /\ DOMAIN exprs = 1 .. n
  OBVIOUS
<1>2. DOMAIN bound = 1 .. n /\ \A k \in 1 .. n : bound[k] = parse_expr(exprs[k], table)
  BY <1>1
<1>3. Each(exprs, table) = Applied("List", bound)
  BY DEF Each
<1> HIDE DEF bound, n
<1>4. /\ (\E k \in 1 .. n : IsRefused(bound[k])) => IsRefused(Applied("List", bound))
      /\ ~ (\E k \in 1 .. n : IsRefused(bound[k])) =>
            Applied("List", bound) = [op |-> "List", args |-> bound]
  BY <1>1, <1>2, AppliedToMany
<1>5. ~ IsRefused([op |-> "List", args |-> bound])
  BY DEF IsRefused
<1>6. [op |-> "List", args |-> bound].args = bound
  OBVIOUS
<1> QED BY <1>1, <1>2, <1>3, <1>4, <1>5, <1>6 DEF bound

TableOf(all, name) == [op |-> "Table", name |-> name, columns |-> all[name]]

LEMMA FromIs ==
    ASSUME NEW from \in Seq(FromItems), NEW all
    PROVE  LET t     == parse_from(from, all)
               name  == table_name(from[1].name)
               found == Len(from) = 1 /\ from[1].node = "Table" /\ name \in DOMAIN all
           IN  /\ IsRefused(t) <=> ~ found
               /\ found => t = TableOf(all, name)
<1> DEFINE t     == parse_from(from, all)
           name  == table_name(from[1].name)
<1>1. \A k : IsRefused(Refused(k))
  BY DEF IsRefused, Refused
<1>2. ~ IsRefused(TableOf(all, name))
  BY DEF IsRefused, TableOf
<1>3. CASE Len(from) # 1
  <2>1. t = Refused("ParseError")
    BY <1>3 DEF parse_from
  <2> QED BY <1>1, <1>3, <2>1
<1>4. CASE Len(from) = 1 /\ from[1].node # "Table"
  <2>1. t = Refused("ParseError")
    BY <1>4 DEF parse_from
  <2> QED BY <1>1, <1>4, <2>1
<1>5. CASE Len(from) = 1 /\ from[1].node = "Table"
  <2>1. t = IF name \in DOMAIN all THEN TableOf(all, name) ELSE Refused("TableNotFound")
    BY <1>5 DEF parse_from, TableOf
  <2> HIDE DEF t, name
  <2>2. /\ IsRefused(t) <=> name \notin DOMAIN all
        /\ name \in DOMAIN all => t = TableOf(all, name)
    BY <1>1, <1>2, <2>1
  <2> QED BY <1>5, <2>2 DEF t, name
<1> QED BY <1>3, <1>4, <1>5

LEMMA ProjectionIs ==
    ASSUME NEW S, NEW items \in Seq(S), NEW table
    PROVE  LET c     == parse_projection(items, table)
               bound == [k \in DOMAIN items |-> parse_expr(items[k], table)]
               fails == \E k \in DOMAIN items : IsRefused(parse_expr(items[k], table))
           IN  /\ (\A k \in DOMAIN items : items[k].node # "Wildcard") =>
                     /\ IsRefused(c) <=> fails
                     /\ ~ IsRefused(c) => c.args = bound
               /\ ~ IsRefused(c) => c.args = <<>> \/ (c.args = bound /\ ~ fails)
<1> DEFINE c     == parse_projection(items, table)
           fails == \E k \in DOMAIN items : IsRefused(parse_expr(items[k], table))
           wild  == {k \in DOMAIN items : items[k].node = "Wildcard"}
           first == IF wild = {} THEN Len(items) + 1
                    ELSE CHOOSE k \in wild : \A j \in wild : k <= j
           bound == Each(SubSeq(items, 1, first - 1), table)
<1>1. c = IF IsRefused(bound) \/ wild = {} THEN bound ELSE [op |-> "List", args |-> <<>>]
  BY DEF parse_projection
<1>2. CASE wild = {}
  <2>1. SubSeq(items, 1, first - 1) = items
    <3>1. first - 1 = Len(items)
      BY <1>2
    <3> HIDE DEF first
    <3> QED BY <3>1
  <2>2. c = Each(items, table)
    BY <1>1, <1>2, <2>1
  <2> HIDE DEF c
  <2>3. /\ IsRefused(c) <=> fails
        /\ ~ IsRefused(c) => c.args = [k \in DOMAIN items |-> parse_expr(items[k], table)]
    BY <2>2, EachIs
  <2> QED BY <2>3 DEF c
<1>3. CASE wild # {}
  <2>1. IsRefused(c) \/ c = [op |-> "List", args |-> <<>>]
    BY <1>1, <1>3
  <2> HIDE DEF c
  <2>2. IsRefused(c) \/ c.args = <<>>
    BY <2>1
  <2> QED BY <2>2, <1>3 DEF c
<1> QED BY <1>2, <1>3

\* What a SELECT is bound to.
LEMMA SelectIs ==
    ASSUME NEW s \in Syntax, s.node = "Query", NEW all
    PROVE  LET q     == bind(s, all)
               name  == table_name(s.from[1].name)
               cols  == parse_projection(s.items, TableOf(all, name))
               filter == Each(s.selection, TableOf(all, name))
               found == Len(s.from) = 1 /\ s.from[1].node = "Table" /\ name \in DOMAIN all
           IN  /\ IsRefused(q) <=> ~ found \/ IsRefused(cols) \/ IsRefused(filter)
               /\ ~ IsRefused(q) => /\ q.op = "Select" /\ q.table = name
                                    /\ q.cols = cols.args /\ q.filter = filter.args
<1> DEFINE q     == bind(s, all)
           name  == table_name(s.from[1].name)
           table == parse_from(s.from, all)
           c     == parse_projection(s.items, table)
           w     == Each(s.selection, table)
           found == Len(s.from) = 1 /\ s.from[1].node = "Table" /\ name \in DOMAIN all
<1>1. s.from \in Seq(FromItems)
  BY DEF Syntax
<1>2. /\ IsRefused(table) <=> ~ found
      /\ found => table = TableOf(all, name)
  BY <1>1, FromIs
<1>3. q = parse_select_ast(s, all)
  BY DEF bind
<1>4. q = IF IsRefused(table) THEN table
          ELSE IF IsRefused(c) THEN c
          ELSE IF IsRefused(w) THEN w
          ELSE [op |-> "Select", table |-> table.name, cols |-> c.args, filter |-> w.args]
  BY <1>3 DEF parse_select_ast, parse_filter
<1> DEFINE plain == [op |-> "Select", table |-> table.name, cols |-> c.args, filter |-> w.args]
<1>5. /\ ~ IsRefused(plain) /\ plain.op = "Select" /\ plain.table = table.name
      /\ plain.cols = c.args /\ plain.filter = w.args
  BY DEF IsRefused
<1>6. TableOf(all, name).name = name
  BY DEF TableOf
<1> HIDE DEF plain, q, name, table, found
<1>7. CASE ~ found
  BY <1>2, <1>4, <1>7 DEF q, found, name
<1>8. CASE found
  <2>1. table = TableOf(all, name) /\ ~ IsRefused(table) /\ table.name = name
    BY <1>2, <1>6, <1>8
  <2>2. /\ IsRefused(q) <=> IsRefused(c) \/ IsRefused(w)
        /\ ~ IsRefused(q) => q.op = "Select" /\ q.table = name /\ q.cols = c.args /\ q.filter = w.args
    <3> HIDE DEF c, w
    <3> QED BY <1>4, <1>5, <2>1 DEF plain
  <2> QED BY <2>1, <2>2, <1>8 DEF q, found, name
<1> QED BY <1>7, <1>8

\* What an INSERT is bound to.
LEMMA InsertIs ==
    ASSUME NEW s \in Syntax, s.node = "Insert", NEW all, ~ IsRefused(bind(s, all))
    PROVE  LET q    == bind(s, all)
               name == table_name(s.table)
           IN  /\ q.op = "Insert" /\ q.table = name /\ name \in DOMAIN all
               /\ s.rows[1] \in Seq(SqlExprs)
               /\ q.values = [k \in DOMAIN s.rows[1] |-> parse_expr(s.rows[1][k], TableOf(all, name))]
               /\ \A k \in DOMAIN s.rows[1] : ~ IsRefused(parse_expr(s.rows[1][k], TableOf(all, name)))
<1> DEFINE q     == bind(s, all)
           name  == table_name(s.table)
           v     == Each(s.rows[1], TableOf(all, name))
           plain == [op |-> "Insert", table |-> name, values |-> v.args]
<1>1. q = parse_insert(s, all)
  BY DEF bind
<1>2. q = IF name \notin DOMAIN all THEN Refused("TableNotFound")
          ELSE IF s.source # "Values" \/ s.rows = <<>> THEN Refused("ParseError")
          ELSE IF IsRefused(v) THEN v ELSE plain
  BY <1>1 DEF parse_insert, TableOf
<1>3. \A k : IsRefused(Refused(k))
  BY DEF IsRefused, Refused
<1>4. plain.op = "Insert" /\ plain.table = name /\ plain.values = v.args
  OBVIOUS
<1>5. ~ IsRefused(q)
  OBVIOUS
<1> HIDE DEF q, v, plain, name
<1>6. name \in DOMAIN all /\ s.rows # <<>> /\ ~ IsRefused(v) /\ q = plain
  BY <1>2, <1>3, <1>5
<1>7. s.rows[1] \in Seq(SqlExprs)
  <2>1. s.rows \in Seq(Seq(SqlExprs))
    BY DEF Syntax
  <2> QED BY <2>1, <1>6
<1>8. /\ v.args = [k \in DOMAIN s.rows[1] |-> parse_expr(s.rows[1][k], TableOf(all, name))]
      /\ \A k \in DOMAIN s.rows[1] : ~ IsRefused(parse_expr(s.rows[1][k], TableOf(all, name)))
  BY <1>6, <1>7, EachIs DEF v
<1> QED BY <1>4, <1>6, <1>7, <1>8 DEF q, name

\* What a CREATE TABLE is bound to, whatever tables there are.
LEMMA CreateIs ==
    ASSUME NEW s \in Syntax, s.node = "CreateTable", NEW all
    PROVE  /\ bind(s, all) = parse_create(s)
           /\ ~ IsRefused(parse_create(s)) =>
                 LET made == parse_create(s).columns
                 IN  /\ parse_create(s).op = "CreateTable" /\ IsColumns(made)
                     /\ DOMAIN made = DOMAIN s.columns
                     /\ \A k \in DOMAIN made : made[k].name = to_string(s.columns[k].ident)
<1> DEFINE n     == Len(s.columns)
           cols  == [k \in DOMAIN s.columns |-> parse_col(s.columns[k])]
           list  == Applied("List", cols)
           made  == [k \in DOMAIN s.columns |-> list.args[k].column]
           plain == [op |-> "CreateTable", name |-> table_name(s.name), columns |-> made]
<1>1. bind(s, all) = parse_create(s)
  BY DEF bind
<1>2. n \in Nat /\ DOMAIN s.columns = 1 .. n
  BY DEF Syntax
<1>3. parse_create(s) = IF IsRefused(list) THEN list ELSE plain
  BY DEF parse_create
<1>4. DOMAIN cols = 1 .. n /\ \A k \in 1 .. n : cols[k] = parse_col(s.columns[k])
  BY <1>2
<1>5. DOMAIN made = 1 .. n /\ Len(made) = n /\ \A k \in 1 .. n : made[k] = list.args[k].column
  BY <1>2
<1>6. plain.op = "CreateTable" /\ plain.columns = made
  OBVIOUS
<1> HIDE DEF n, cols, made, plain
<1>7. ASSUME ~ IsRefused(list)
      PROVE  IsColumns(made) /\ \A k \in 1 .. n : made[k].name = to_string(s.columns[k].ident)
  <2>1. \A k \in 1 .. n : ~ IsRefused(cols[k]) /\ list.args[k] = cols[k]
    <3>1. ~ \E k \in 1 .. n : IsRefused(cols[k])
      BY <1>2, <1>4, <1>7, AppliedToMany
    <3>2. list = [op |-> "List", args |-> cols]
      BY <1>2, <1>4, <3>1, AppliedToMany
    <3> QED BY <3>1, <3>2
  <2>2. \A k \in 1 .. n : /\ made[k].data_type \in {"VarChar", "Int", "Float", "Blob"}
                           /\ made[k].name = to_string(s.columns[k].ident)
    <3> TAKE k \in 1 .. n
    <3> DEFINE c     == s.columns[k]
               named == [name |-> to_string(c.ident), data_type |-> ColumnType[c.data_type]]
    <3>1. ~ IsRefused(parse_col(c)) /\ made[k] = parse_col(c).column
      BY <1>4, <1>5, <2>1
    <3>2. \A e : IsRefused(Refused(e))
      BY DEF IsRefused, Refused
    <3>3. c.data_type \in DOMAIN ColumnType /\ parse_col(c) = [op |-> "Column", column |-> named]
      BY <3>1, <3>2, Zenon DEF parse_col
    <3>4. [op |-> "Column", column |-> named].column = named
          /\ named.name = to_string(c.ident) /\ named.data_type = ColumnType[c.data_type]
      OBVIOUS
    <3>5. \A d \in DOMAIN ColumnType : ColumnType[d] \in {"VarChar", "Int", "Float", "Blob"}
      BY DEF ColumnType
    <3> HIDE DEF named
    <3> QED BY <3>1, <3>3, <3>4, <3>5
  <2> QED BY <1>2, <1>5, <2>2 DEF IsColumns
<1> HIDE DEF list
<1> QED BY <1>1, <1>2, <1>3, <1>5, <1>6, <1>7

\* The statement tells the kind of plan.
LEMMA BindIs ==
    ASSUME NEW s \in Syntax, NEW all
    PROVE  LET q == bind(s, all)
           IN  /\ q.op = "Select" => s.node = "Query"
               /\ q.op = "Insert" => s.node = "Insert"
               /\ q.op = "CreateTable" => s.node = "CreateTable"
               /\ q.op \in {"Select", "Insert", "CreateTable", "Refused"}
<1> DEFINE q == bind(s, all)
<1>1. CASE s.node = "Query"
  <2>1. IsRefused(q) \/ q.op = "Select"
    BY <1>1, SelectIs
  <2> QED BY <2>1, <1>1 DEF IsRefused
<1>2. CASE s.node = "Insert"
  <2>1. IsRefused(q) \/ q.op = "Insert"
    BY <1>2, InsertIs
  <2> QED BY <2>1, <1>2 DEF IsRefused
<1>3. CASE s.node = "CreateTable"
  <2>1. IsRefused(q) \/ q.op = "CreateTable"
    BY <1>3, CreateIs
  <2> QED BY <2>1, <1>3 DEF IsRefused
<1>4. CASE s.node \notin {"Query", "Insert", "CreateTable"}
  <2>1. q = Refused("ParseError")
    BY <1>4 DEF bind
  <2> QED BY <2>1 DEF Refused
<1> QED BY <1>1, <1>2, <1>3, <1>4

-----------------------------------------------------------------------------
(* Plans in the states that are reached                                    *)

\* What the parts of a statement can be bound to.
BoundExprs(table) ==
    {e \in {parse_expr(t, table) : t \in SqlExprs} : ~ IsRefused(e)}

LEMMA BoundAre ==
    ASSUME NEW table, DOMAIN table.columns \subseteq Nat, NEW e \in BoundExprs(table)
    PROVE  /\ e \in Expressions
           /\ \A b, tuple, R :
                 /\ \A k \in DOMAIN tuple : tuple[k] \in Value
                 /\ Risky(b) \subseteq R
                 /\ DOMAIN table.columns \subseteq DOMAIN tuple \/ "AttrRef" \in R
                 /\ evaluate(b, e, tuple).type = "Panic"
                 => Ops(e) \cap R # {}
<1>1. PICK t \in SqlExprs : e = parse_expr(t, table) /\ ~ IsRefused(e)
  BY DEF BoundExprs
<1>2. MaxNesting - 2 \in 0 .. MaxNesting
  BY Bounds
<1>3. t \in Written[MaxNesting - 2]
  BY DEF SqlExprs
<1>4. e \in Expressions
  BY <1>1, <1>2, <1>3, ParsesToNested
<1>5. ASSUME NEW b, NEW tuple, NEW R, \A k \in DOMAIN tuple : tuple[k] \in Value,
             Risky(b) \subseteq R, DOMAIN table.columns \subseteq DOMAIN tuple \/ "AttrRef" \in R,
             evaluate(b, e, tuple).type = "Panic"
      PROVE  Ops(e) \cap R # {}
  <2>1. /\ Closed(Sound(b, tuple, R))
        /\ \A v \in Value : Constant(v) \in Sound(b, tuple, R)
        /\ \A k \in DOMAIN table.columns : AttrRef(k) \in Sound(b, tuple, R)
    BY <1>5, SoundIsClosed
  <2>2. e \in Among(Sound(b, tuple, R), 2 * (MaxNesting - 2))
    BY <1>1, <1>2, <1>3, <2>1, ParseInduction
  <2> QED BY <2>2, <1>5 DEF Among, Sound
<1> QED BY <1>4, <1>5

LEMMA SelectPlan ==
    ASSUME TablesOK, PlanOK, plan.op = "Select"
    PROVE  /\ phase # "Idle" /\ stmt \in Syntax /\ stmt.node = "Query" /\ plan = bind(stmt, tables)
           /\ plan.table = table_name(stmt.from[1].name) /\ plan.table \in DOMAIN tables
           /\ Table = TableOf(tables, plan.table) /\ Table.columns = tables[plan.table]
           /\ DOMAIN Table.columns \subseteq Nat
           /\ plan.filter \in Seq(BoundExprs(Table)) /\ plan.cols \in Seq(BoundExprs(Table))
           /\ \/ plan.filter = <<>> /\ stmt.selection = <<>>
              \/ /\ Len(plan.filter) = 1 /\ stmt.selection[1] \in SqlExprs
                 /\ plan.filter[1] = parse_expr(stmt.selection[1], Table)
                 /\ ~ IsRefused(plan.filter[1])
<1> DEFINE name == table_name(stmt.from[1].name)
           T    == TableOf(tables, name)
           cols == parse_projection(stmt.items, T)
           w    == Each(stmt.selection, T)
           none(s) == s = <<>>
<1>1. phase # "Idle"
  BY DEF PlanOK, NoPlan
<1>2. stmt \in Statements /\ plan = bind(stmt, tables) /\ stmt \in Syntax
  BY <1>1, StatementsAssumption DEF PlanOK
<1>3. stmt.node = "Query"
  BY <1>2, BindIs
<1>4. ~ IsRefused(plan)
  BY DEF IsRefused
<1>5. /\ name \in DOMAIN tables /\ ~ IsRefused(cols) /\ ~ IsRefused(w)
      /\ plan.table = name /\ plan.cols = cols.args /\ plan.filter = w.args
  BY <1>2, <1>3, <1>4, SelectIs
<1>6. Table = T /\ T.columns = tables[plan.table]
  BY <1>5 DEF Table, Columns, TableOf
<1>7. DOMAIN T.columns \subseteq Nat
  BY <1>5, <1>6 DEF TablesOK, IsColumns
<1>8. /\ stmt.items \in Seq(SqlExprs)
      /\ stmt.selection \in Seq(SqlExprs) /\ Len(stmt.selection) <= 1
  BY <1>2, <1>3 DEF Syntax
<1> HIDE DEF T, name, cols, w
<1>9. plan.cols \in Seq(BoundExprs(T))
  <2> DEFINE bound == [k \in DOMAIN stmt.items |-> parse_expr(stmt.items[k], T)]
  <2>1. \/ cols.args = <<>>
        \/ cols.args = bound /\ ~ \E k \in DOMAIN stmt.items : IsRefused(parse_expr(stmt.items[k], T))
    BY <1>5, <1>8, ProjectionIs DEF cols
  <2>2. CASE cols.args = <<>>
    BY <1>5, <2>2
  <2>3. CASE cols.args = bound /\ ~ \E k \in DOMAIN stmt.items : IsRefused(parse_expr(stmt.items[k], T))
    <3>1. \A k \in DOMAIN stmt.items : parse_expr(stmt.items[k], T) \in BoundExprs(T)
      BY <1>8, <2>3 DEF BoundExprs
    <3>2. bound \in Seq(BoundExprs(T))
      BY <1>8, <3>1
    <3> QED BY <1>5, <2>3, <3>2
  <2> QED BY <2>1, <2>2, <2>3
<1>10. stmt.selection \in Seq(SqlExprs)
  BY <1>8
<1>11. /\ plan.filter = [k \in DOMAIN stmt.selection |-> parse_expr(stmt.selection[k], T)]
       /\ \A k \in DOMAIN stmt.selection : ~ IsRefused(parse_expr(stmt.selection[k], T))
  BY <1>5, <1>10, EachIs DEF w
<1>12. plan.filter \in Seq(BoundExprs(T))
  <2>1. \A k \in DOMAIN stmt.selection : parse_expr(stmt.selection[k], T) \in BoundExprs(T)
    BY <1>10, <1>11 DEF BoundExprs
  <2> QED BY <1>10, <1>11, <2>1
<1>13. CASE Len(stmt.selection) = 0
  <2>2. stmt.selection = <<>>
    BY <1>10, <1>13
  <2>3. Len(plan.filter) = 0
    BY <1>11, <2>2
  <2>4. plan.filter = <<>>
    BY <1>12, <2>3
  <2> QED BY <1>1, <1>2, <1>3, <1>5, <1>6, <1>7, <1>9, <1>12, <2>2, <2>4 DEF name, T
<1>14. CASE Len(stmt.selection) = 1
  <2>1. stmt.selection[1] \in SqlExprs /\ DOMAIN stmt.selection = 1 .. 1 /\ Len(stmt.selection) = 1
    BY <1>10, <1>14
  <2>2. plan.filter[1] = parse_expr(stmt.selection[1], T) /\ ~ IsRefused(plan.filter[1])
    BY <1>11, <2>1
  <2>3. Len(plan.filter) = 1
    BY <1>11, <1>12, <2>1
  <2> QED BY <1>1, <1>2, <1>3, <1>5, <1>6, <1>7, <1>9, <1>12, <2>1, <2>2, <2>3 DEF name, T
<1>15. Len(stmt.selection) = 0 \/ Len(stmt.selection) = 1
  <2> DEFINE n == Len(stmt.selection)
  <2>1. n \in Nat /\ n <= 1
    BY <1>8, <1>10
  <2> HIDE DEF n
  <2>2. n = 0 \/ n = 1
    BY <2>1
  <2> QED BY <2>2 DEF n
<1> QED BY <1>13, <1>14, <1>15

LEMMA InsertPlan ==
    ASSUME TablesOK, PlanOK, plan.op = "Insert"
    PROVE  /\ phase # "Idle" /\ plan.table \in DOMAIN tables
           /\ DOMAIN Table.columns \subseteq Nat
           /\ plan.values \in Seq(BoundExprs(Table))
<1> DEFINE name  == table_name(stmt.table)
           T     == TableOf(tables, name)
           exprs == stmt.rows[1]
<1>1. phase # "Idle"
  BY DEF PlanOK, NoPlan
<1>2. stmt \in Statements /\ plan = bind(stmt, tables) /\ stmt \in Syntax
  BY <1>1, StatementsAssumption DEF PlanOK
<1>3. stmt.node = "Insert"
  BY <1>2, BindIs
<1>4. ~ IsRefused(plan)
  BY DEF IsRefused
<1>5. /\ plan.table = name /\ name \in DOMAIN tables
      /\ exprs \in Seq(SqlExprs)
      /\ plan.values = [k \in DOMAIN exprs |-> parse_expr(exprs[k], T)]
      /\ \A k \in DOMAIN exprs : ~ IsRefused(parse_expr(exprs[k], T))
  BY <1>2, <1>3, <1>4, InsertIs
<1>6. Table = T /\ T.columns = tables[plan.table]
  BY <1>5 DEF Table, Columns, TableOf
<1>7. DOMAIN T.columns \subseteq Nat
  BY <1>5, <1>6 DEF TablesOK, IsColumns
<1> HIDE DEF T, name, exprs
<1>8. \A k \in DOMAIN exprs : parse_expr(exprs[k], T) \in BoundExprs(T)
  BY <1>5 DEF BoundExprs
<1>9. plan.values \in Seq(BoundExprs(T))
  BY <1>5, <1>8
<1> QED BY <1>1, <1>5, <1>6, <1>7, <1>9

\* The first of those that fail is one of those that fail.
LEMMA FirstFailureFails ==
    ASSUME NEW values, DOMAIN values \subseteq Nat, AnyFails(values)
    PROVE  \E k \in DOMAIN values : FirstFailure(values) = values[k] /\ Fails(values[k])
<1> DEFINE failed == {k \in DOMAIN values : Fails(values[k])}
           first == CHOOSE k \in failed : \A j \in failed : k <= j
<1>1. failed \in SUBSET Nat /\ failed # {}
  BY DEF AnyFails
<1>2. FirstFailure(values) = values[first]
  BY DEF FirstFailure
<1>3. first \in failed
  <2> HIDE DEF failed
  <2>1. \E k \in failed : \A j \in failed : k <= j
    BY <1>1, LeastExists
  <2> QED BY <2>1
<1> QED BY <1>2, <1>3

LEMMA OpsOfBoth ==
    ASSUME NEW S, NEW s \in Seq(S), NEW t \in Seq(S), NEW R,
           \/ \E k \in DOMAIN s : Ops(s[k]) \cap R # {}
           \/ \E k \in DOMAIN t : Ops(t[k]) \cap R # {}
    PROVE  OpsOf(s \o t) \cap R # {}
<1> DEFINE u == s \o t
<1>1. \A k \in DOMAIN s : k \in DOMAIN u /\ u[k] = s[k]
  OBVIOUS
<1>2. \A k \in DOMAIN t : Len(s) + k \in DOMAIN u /\ u[Len(s) + k] = t[k]
  OBVIOUS
<1> HIDE DEF u
<1>3. \E j \in DOMAIN u : Ops(u[j]) \cap R # {}
  BY <1>1, <1>2
<1> QED BY <1>3 DEF OpsOf, u

\* The row of a table, and what a scan makes of it.
LEMMA RowsAreRead ==
    ASSUME TablesOK, PlanOK, plan.op = "Select", NEW n \in DOMAIN rows[plan.table]
    PROVE  LET row == rows[plan.table][n]
           IN  /\ OfColumns(row, Columns)
               /\ \A k \in DOMAIN row : row[k] \in Value
               /\ DOMAIN Table.columns \subseteq DOMAIN row
<1> DEFINE row == rows[plan.table][n]
<1>1. plan.table \in DOMAIN tables /\ Table.columns = Columns
  BY SelectPlan DEF Columns
<1>2. rows[plan.table] \in Seq(RowsOf(Columns))
  BY <1>1 DEF TablesOK, Columns
<1>3. OfColumns(row, Columns)
  BY <1>2 DEF RowsOf
<1> QED BY <1>1, <1>3, RowsAreOfValues DEF OfColumns

LEMMA ConditionIs ==
    ASSUME TablesOK, PlanOK, plan.op = "Select", NEW n \in DOMAIN rows[plan.table]
    PROVE  LET c == Condition(plan.filter, rows[plan.table][n])
           IN  /\ c \in Outcome
               /\ c.type = "Panic" => OpsOf(plan.filter \o plan.cols) \cap Risky(build) # {}
<1> DEFINE row == rows[plan.table][n]
           c   == Condition(plan.filter, row)
           f   == plan.filter
<1>1. /\ DOMAIN Table.columns \subseteq Nat
      /\ f \in Seq(BoundExprs(Table)) /\ plan.cols \in Seq(BoundExprs(Table))
      /\ f = <<>> \/ Len(f) = 1
  BY SelectPlan
<1>2. /\ \A k \in DOMAIN row : row[k] \in Value
      /\ DOMAIN Table.columns \subseteq DOMAIN row
  BY RowsAreRead
<1> HIDE DEF row
<1>3. CASE f = <<>>
  <2>1. c = Boolean(TRUE) /\ c.type = "Boolean"
    BY <1>3 DEF Condition, Boolean
  <2>2. Boolean(TRUE) \in Outcome
    BY DEF Outcome, Value, ValuesOf, Boolean
  <2> QED BY <2>1, <2>2 DEF row
<1>4. CASE Len(f) = 1
  <2>1. f[1] \in BoundExprs(Table) /\ 1 \in DOMAIN f /\ f # <<>>
    BY <1>1, <1>4, SMTT(30)
  <2>2. c = evaluate(build, f[1], row)
    BY <2>1 DEF Condition
  <2>3. f[1] \in Expressions
    BY <1>1, <2>1, BoundAre
  <2>4. c \in Outcome
    BY <1>2, <2>2, <2>3, EvaluateOutcome
  <2>5. ASSUME c.type = "Panic" PROVE Ops(f[1]) \cap Risky(build) # {}
    BY <1>1, <1>2, <2>1, <2>2, <2>5, BoundAre
  <2>6. ASSUME c.type = "Panic" PROVE OpsOf(plan.filter \o plan.cols) \cap Risky(build) # {}
    <3>1. \E k \in DOMAIN f : Ops(f[k]) \cap Risky(build) # {}
      BY <2>1, <2>5, <2>6
    <3> QED BY <1>1, <3>1, OpsOfBoth
  <2> QED BY <2>4, <2>6 DEF row
<1> QED BY <1>1, <1>3, <1>4

LEMMA ProjectedIs ==
    ASSUME TablesOK, PlanOK, plan.op = "Select", NEW n \in DOMAIN rows[plan.table],
           AnyFails(Projected(rows[plan.table][n]))
    PROVE  LET x == FirstFailure(Projected(rows[plan.table][n]))
           IN  x.type = "Panic" => OpsOf(plan.filter \o plan.cols) \cap Risky(build) # {}
<1> DEFINE row  == rows[plan.table][n]
           x    == FirstFailure(Projected(row))
           cols == plan.cols
<1>1. /\ DOMAIN Table.columns \subseteq Nat
      /\ plan.filter \in Seq(BoundExprs(Table)) /\ cols \in Seq(BoundExprs(Table))
  BY SelectPlan
<1>2. /\ \A k \in DOMAIN row : row[k] \in Value
      /\ DOMAIN Table.columns \subseteq DOMAIN row
  BY RowsAreRead
<1> HIDE DEF row
<1>3. cols # <<>>
  <2> SUFFICES ASSUME cols = <<>> PROVE FALSE
    OBVIOUS
  <2>1. Projected(row) = row
    BY DEF Projected
  <2>2. \A k \in DOMAIN row : ~ Fails(row[k])
    BY <1>2, OutcomesFail
  <2> QED BY <2>1, <2>2 DEF AnyFails, row
<1>4. Projected(row) = [k \in DOMAIN cols |-> evaluate(build, cols[k], row)]
  BY <1>3 DEF Projected, Evaluated
<1>5. PICK k \in DOMAIN cols : x = evaluate(build, cols[k], row)
  <2>1. DOMAIN Projected(row) = DOMAIN cols /\ DOMAIN cols \subseteq Nat
    BY <1>1, <1>4
  <2>2. \E k \in DOMAIN Projected(row) : FirstFailure(Projected(row)) = Projected(row)[k]
    BY <2>1, FirstFailureFails DEF row
  <2> QED BY <1>4, <2>1, <2>2
<1>6. cols[k] \in BoundExprs(Table)
  BY <1>1
<1>7. ASSUME x.type = "Panic" PROVE OpsOf(plan.filter \o plan.cols) \cap Risky(build) # {}
  <2>1. Ops(cols[k]) \cap Risky(build) # {}
    BY <1>1, <1>2, <1>5, <1>6, <1>7, BoundAre
  <2> QED BY <1>1, <2>1, OpsOfBoth
<1> QED BY <1>7 DEF row

\* The values of an INSERT: no row is read, so that a column panics.
LEMMA ValuesAre ==
    ASSUME TablesOK, PlanOK, plan.op = "Insert"
    PROVE  LET R == Risky(build) \cup {"AttrRef", "Null"}
           IN  /\ Values \in Seq(Outcome)
               /\ \A k \in DOMAIN Values : Values[k].type = "Panic" \/ IsNull(Values[k]) =>
                                             OpsOf(plan.values) \cap R # {}
<1> DEFINE exprs == plan.values
           R     == Risky(build) \cup {"AttrRef", "Null"}
<1>1. DOMAIN Table.columns \subseteq Nat /\ exprs \in Seq(BoundExprs(Table))
  BY InsertPlan
<1>2. Values = [k \in DOMAIN exprs |-> evaluate(build, exprs[k], NoTuple)]
  BY DEF Values, Evaluated
<1>3. DOMAIN NoTuple = {}
  BY DEF NoTuple
<1>4. ASSUME NEW k \in DOMAIN exprs
      PROVE  LET x == evaluate(build, exprs[k], NoTuple)
             IN  /\ x \in Outcome
                 /\ x.type = "Panic" => Ops(exprs[k]) \cap R # {}
                 /\ IsNull(x) => Ops(exprs[k]) \cap R # {}
  <2> DEFINE x == evaluate(build, exprs[k], NoTuple)
  <2>1. exprs[k] \in BoundExprs(Table)
    BY <1>1
  <2>2. exprs[k] \in Expressions
    BY <1>1, <2>1, BoundAre
  <2>3. x \in Outcome
    BY <1>3, <2>2, EvaluateOutcome
  <2>4. x.type = "Panic" => Ops(exprs[k]) \cap R # {}
    <3>1. Risky(build) \subseteq R /\ "AttrRef" \in R
      OBVIOUS
    <3> HIDE DEF R
    <3> QED BY <1>1, <1>3, <2>1, <3>1, BoundAre
  <2>5. IsNull(x) => "Null" \in Ops(exprs[k])
    BY <1>3, <2>2, NullNeedsNull DEF IsNull
  <2> QED BY <2>3, <2>4, <2>5
<1> HIDE DEF R
<1>5. Values \in Seq(Outcome) /\ DOMAIN Values = DOMAIN exprs
  BY <1>1, <1>2, <1>4
<1>6. \A k \in DOMAIN exprs : Ops(exprs[k]) \cap R # {} => OpsOf(exprs) \cap R # {}
  BY DEF OpsOf
<1> QED BY <1>2, <1>4, <1>5, <1>6 DEF R

-----------------------------------------------------------------------------
(* The inductive invariant holds                                           *)

LEMMA InitIInv == Init => IInv
<1> SUFFICES ASSUME Init PROVE IInv
  OBVIOUS
<1>1. TablesOK
  BY DEF Init, TablesOK
<1>2. PlanOK
  BY DEF Init, PlanOK
<1>3. ScanOK
  BY DEF Init, ScanOK, NoPlan
<1>4. PanicHasCause
  BY DEF Init, PanicHasCause
<1>5. NamesOK
  BY DEF Init, NamesOK
<1> QED BY <1>1, <1>2, <1>3, <1>4, <1>5 DEF IInv

\* A step that does not touch the tables.
LEMMA TablesStay ==
    ASSUME TablesOK, UNCHANGED <<build, tables, rows>>
    PROVE  TablesOK'
BY DEF TablesOK, RowsOf, IsColumns, OfColumns

LEMMA NamesStay ==
    ASSUME NamesOK, UNCHANGED <<tables, created>>, whole' = whole \/ FilesMayBreak
    PROVE  NamesOK'
<1>1. whole' \in BOOLEAN
  BY DEF NamesOK, FilesMayBreak
<1> QED BY <1>1 DEF NamesOK

\* The statement comes to an end, as it may.
LEMMA EndsKeeps ==
    ASSUME IInv, NEW how \in {"Done", "Error", "Panicked"}, phase = "Planned", Ends(how), UNCHANGED rows,
           how = "Done" /\ plan.op = "Select" => next_row = Len(rows[plan.table]) + 1,
           how = "Panicked" => HasCause
    PROVE  IInv'
<1>1. TablesOK'
  BY TablesStay DEF IInv, Ends
<1>2. PlanOK'
  BY DEF IInv, PlanOK, Ends
<1>3. ScanOK'
  <2>1. \A k : TrueBefore(k)' = TrueBefore(k)
    BY DEF TrueBefore, Condition, Ends
  <2>2. \A row : Projected(row)' = Projected(row)
    BY DEF Projected, Evaluated, Ends
  <2>3. \A row : Condition(plan.filter, row)' = Condition(plan.filter, row)
    BY DEF Condition, Ends
  <2> QED BY <2>1, <2>2, <2>3 DEF IInv, ScanOK, Ends
<1>4. PanicHasCause'
  <2>1. is_valid_tuple' <=> is_valid_tuple
    <3>1. Values' = Values /\ Columns' = Columns
      BY DEF Values, Evaluated, Columns, Ends
    <3> QED BY <3>1 DEF is_valid_tuple, Fits
  <2> QED BY <2>1 DEF PanicHasCause, HasCause, Ends
<1>5. NamesOK'
  BY NamesStay DEF IInv, Ends
<1> QED BY <1>1, <1>2, <1>3, <1>4, <1>5 DEF IInv

\* The next statement is awaited.
LEMMA IdleKeeps ==
    ASSUME IInv, phase' = "Idle", stmt' = None, plan' = NoPlan, next_row' = 1, out' = <<>>,
           UNCHANGED <<build, tables, rows, created>>, whole' = whole \/ FilesMayBreak
    PROVE  IInv'
<1>1. TablesOK'
  BY TablesStay DEF IInv
<1>2. PlanOK'
  BY DEF PlanOK
<1>3. ScanOK'
  BY DEF ScanOK, NoPlan
<1>4. PanicHasCause'
  BY DEF PanicHasCause
<1>5. NamesOK'
  BY NamesStay DEF IInv
<1> QED BY <1>1, <1>2, <1>3, <1>4, <1>5 DEF IInv

\* An empty directory: nothing is known of the one before.
LEMMA IsSetAsideKeeps ==
    ASSUME IInv, IsSetAside
    PROVE  IInv'
<1>1. TablesOK'
  BY DEF IInv, TablesOK, IsSetAside
<1>2. PlanOK'
  BY DEF IInv, PlanOK, IsSetAside
<1>3. ScanOK'
  BY DEF IInv, PlanOK, ScanOK, NoPlan, IsSetAside
<1>4. PanicHasCause'
  BY DEF PanicHasCause, IsSetAside
<1>5. NamesOK'
  BY DEF NamesOK, IsSetAside
<1> QED BY <1>1, <1>2, <1>3, <1>4, <1>5 DEF IInv

LEMMA BindsKeeps ==
    ASSUME IInv, NEW s \in Incoming, Binds(s)
    PROVE  IInv'
<1>0. s \in Statements /\ phase = "Idle"
  BY DEF Incoming
<1>1. TablesOK'
  BY TablesStay DEF IInv, Binds
<1>2. next_row' = 1 /\ out' = <<>>
  BY <1>0 DEF IInv, PlanOK, Binds
<1>3. PlanOK'
  BY <1>0 DEF Binds, PlanOK
<1>4. ScanOK'
  <2> SUFFICES ASSUME plan'.op = "Select" PROVE ScanOK'
    BY DEF ScanOK
  <2> DEFINE name == table_name(s.from[1].name)
  <2>1. s \in Syntax /\ plan' = bind(s, tables)
    BY <1>0, StatementsAssumption DEF Binds
  <2>2. s.node = "Query"
    BY <2>1, BindIs
  <2>3. plan'.table = name /\ name \in DOMAIN tables
    BY <2>1, <2>2, SelectIs DEF IsRefused
  <2>4. rows' = rows /\ rows[plan'.table] \in Seq(RowsOf(tables[plan'.table]))
    BY <2>3 DEF IInv, TablesOK, Binds
  <2>5. phase' # "Done"
    BY DEF Binds
  <2>6. Len(rows'[plan'.table]) \in Nat
    BY <2>4
  <2>7. TrueBefore(1)' = {}
    BY DEF TrueBefore
  <2>8. Cardinality({}) = 0
    BY FS_EmptySet
  <2> DEFINE n == Len(rows'[plan'.table])
  <2>9. 1 \in 1 .. n + 1 /\ \A k \in 1 .. 1 - 1 : FALSE
    <3> HIDE DEF n
    <3> QED BY <2>6 DEF n
  <2>10. Len(out') = 0 /\ \A S : out' \in Seq(S)
    BY <1>2
  <2> HIDE DEF n
  <2> QED BY <1>2, <2>5, <2>7, <2>8, <2>9, <2>10 DEF ScanOK, n
<1>5. PanicHasCause'
  BY DEF PanicHasCause, Binds
<1>6. NamesOK'
  BY NamesStay DEF IInv, Binds
<1> QED BY <1>1, <1>3, <1>4, <1>5, <1>6 DEF IInv

\* What is planned was bound, and was not refused.
LEMMA Executes ==
    ASSUME PlanOK, phase = "Planned"
    PROVE  /\ stmt \in Statements /\ stmt \in Syntax /\ plan = bind(stmt, tables)
           /\ ~ IsRefused(plan)
BY StatementsAssumption DEF PlanOK

LEMMA CreatesTableKeeps ==
    ASSUME IInv, CreatesTable
    PROVE  IInv'
<1>1. /\ stmt \in Statements /\ stmt \in Syntax /\ plan = bind(stmt, tables) /\ ~ IsRefused(plan)
      /\ phase = "Planned" /\ plan.op = "CreateTable" /\ phase' = "Done"
      /\ UNCHANGED <<build, stmt, plan, next_row, out>>
  BY Executes DEF IInv, CreatesTable, Executing
<1>2. stmt.node = "CreateTable"
  BY <1>1, BindIs
<1>3. /\ \A all : bind(stmt, all) = parse_create(stmt)
      /\ IsColumns(plan.columns) /\ DOMAIN plan.columns = DOMAIN stmt.columns
      /\ \A k \in DOMAIN plan.columns : plan.columns[k].name = to_string(stmt.columns[k].ident)
  BY <1>1, <1>2, CreateIs
<1>4. TablesOK'
  <2>1. CASE UNCHANGED <<tables, rows, created>>
    BY <2>1, <1>1, TablesStay DEF IInv
  <2>2. CASE /\ plan.name \notin DOMAIN tables
             /\ tables' = Entered(tables, plan.name, plan.columns)
             /\ rows' = Entered(rows, plan.name, <<>>)
    <3>1. DOMAIN tables' = {plan.name} \cup DOMAIN tables /\ DOMAIN rows' = DOMAIN tables'
      BY <2>2 DEF IInv, TablesOK, Entered
    <3>2. tables'[plan.name] = plan.columns /\ rows'[plan.name] = <<>>
      BY <2>2 DEF Entered
    <3>3. \A t \in DOMAIN tables : tables'[t] = tables[t] /\ rows'[t] = rows[t]
      BY <2>2 DEF IInv, TablesOK, Entered
    <3>4. \A t \in DOMAIN tables' : IsColumns(tables'[t]) /\ rows'[t] \in Seq(RowsOf(tables'[t]))
      <4> TAKE t \in DOMAIN tables'
      <4>1. CASE t = plan.name
        BY <4>1, <3>2, <1>3
      <4>2. CASE t \in DOMAIN tables
        BY <4>2, <3>3 DEF IInv, TablesOK
      <4> QED BY <4>1, <4>2, <3>1
    <3>5. \A c : RowsOf(c)' = RowsOf(c) /\ (IsColumns(c)' <=> IsColumns(c))
      BY DEF RowsOf, IsColumns, OfColumns
    <3>6. build' \in {"debug", "release"}
      BY <1>1 DEF IInv, TablesOK
    <3> QED BY <3>1, <3>4, <3>5, <3>6 DEF TablesOK
  <2> QED BY <2>1, <2>2 DEF CreatesTable
<1>5. PlanOK'
  <2>1. plan' = bind(stmt', tables')
    BY <1>1, <1>3
  <2> QED BY <1>1, <2>1 DEF PlanOK
<1>6. ScanOK'
  BY <1>1 DEF ScanOK
<1>7. PanicHasCause'
  BY <1>1 DEF PanicHasCause
<1>8. NamesOK'
  <2>1. whole' = whole
    BY DEF CreatesTable
  <2>2. CASE UNCHANGED <<tables, rows, created>>
    BY <2>1, <2>2, NamesStay DEF IInv
  <2>3. CASE /\ tables' = Entered(tables, plan.name, plan.columns)
             /\ created' = Entered(created, plan.name, stmt)
    <3>1. DOMAIN tables' = DOMAIN tables \cup {plan.name} /\ DOMAIN created' = DOMAIN tables'
      BY <2>3 DEF IInv, NamesOK, Entered
    <3>2. ASSUME NEW t \in DOMAIN tables'
          PROVE  /\ DOMAIN created'[t].columns = DOMAIN tables'[t]
                 /\ \A k \in DOMAIN tables'[t] :
                       tables'[t][k].name = to_string(created'[t].columns[k].ident)
      <4>1. CASE t = plan.name
        <5>1. tables'[t] = plan.columns /\ created'[t] = stmt
          BY <2>3, <4>1 DEF Entered
        <5> QED BY <1>3, <5>1
      <4>2. CASE t # plan.name
        <5>1. t \in DOMAIN tables /\ tables'[t] = tables[t] /\ created'[t] = created[t]
          BY <2>3, <3>1, <3>2, <4>2 DEF IInv, NamesOK, Entered
        <5> QED BY <5>1 DEF IInv, NamesOK
      <4> QED BY <4>1, <4>2
    <3> QED BY <2>1, <3>1, <3>2 DEF IInv, NamesOK
  <2> QED BY <2>2, <2>3 DEF CreatesTable
<1> QED BY <1>4, <1>5, <1>6, <1>7, <1>8 DEF IInv

LEMMA CreateTableKeeps ==
    ASSUME IInv, CreateTable
    PROVE  IInv'
<1>1. CASE CreatesTable
  BY <1>1, CreatesTableKeeps
<1>2. CASE TableIsNotCreated
  <2>1. /\ phase = "Planned" /\ plan.op = "CreateTable" /\ plan.name \notin DOMAIN tables
        /\ UNCHANGED rows
    BY <1>2 DEF TableIsNotCreated, Executing
  <2>2. PICK how \in {"Error", "Panicked"} : Ends(how)
    BY <1>2 DEF TableIsNotCreated
  <2>3. HasCause /\ plan.op # "Select"
    BY <2>1 DEF HasCause
  <2> QED BY <2>1, <2>2, <2>3, EndsKeeps
<1> QED BY <1>1, <1>2 DEF CreateTable

\* A tuple that was checked is a row of its table.
LEMMA InsertsKeeps ==
    ASSUME IInv, Inserts
    PROVE  IInv'
<1> DEFINE t == plan.table
<1>1. /\ phase = "Planned" /\ plan.op = "Insert" /\ phase' = "Done"
      /\ UNCHANGED <<build, tables, stmt, plan, next_row, out>>
      /\ rows' = [rows EXCEPT ![t] = Append(@, Values)]
      /\ TablesOK /\ PlanOK /\ NamesOK /\ UNCHANGED <<created, whole>>
  BY DEF IInv, Inserts, Executing, Ends
<1>2. t \in DOMAIN tables /\ Values \in Seq(Outcome)
  BY <1>1, InsertPlan, ValuesAre
<1>3. Values \in RowsOf(Columns)
  <2>1. IsColumns(Columns)
    BY <1>1, <1>2 DEF TablesOK, Columns
  <2>2. Len(Values) = Len(Columns) /\ \A k \in DOMAIN Columns : Values[k].type = Columns[k].data_type
    BY DEF Inserts, is_valid_tuple, Fits
  <2>3. DOMAIN Values = DOMAIN Columns
    BY <1>2, <2>1, <2>2 DEF IsColumns
  <2>4. \A k \in DOMAIN Columns : Values[k] \in ValuesOf(Columns[k].data_type) \ {Null} /\ Values[k] \in Value
    <3> TAKE k \in DOMAIN Columns
    <3>1. Values[k] \in Outcome /\ ~ Fails(Values[k])
      BY <1>2, <2>3 DEF Inserts, AnyFails
    <3>2. Values[k] \in Value
      BY <3>1, OutcomesFail
    <3>3. Values[k].type = Columns[k].data_type
          /\ Columns[k].data_type \in {"VarChar", "Int", "Float", "Blob"}
      BY <2>1, <2>2 DEF IsColumns
    <3>4. Values[k].type # "Null"
      BY <3>3
    <3>5. \E type : Values[k] \in ValuesOf(type)
      BY <3>2 DEF Value
    <3>6. Values[k] \in ValuesOf(Values[k].type)
      BY <3>5, TypesOfValues
    <3>7. Values[k] # Null
      BY <3>4 DEF Null
    <3> QED BY <3>2, <3>3, <3>6, <3>7
  <2>5. Values \in Seq(Value)
    BY <1>2, <2>3, <2>4
  <2> QED BY <2>3, <2>4, <2>5 DEF RowsOf, OfColumns
<1>4. TablesOK'
  <2>1. DOMAIN rows' = DOMAIN tables'
    BY <1>1 DEF TablesOK
  <2>2. \A u \in DOMAIN tables : rows'[u] \in Seq(RowsOf(tables[u]))
    <3> TAKE u \in DOMAIN tables
    <3>1. rows[u] \in Seq(RowsOf(tables[u])) /\ u \in DOMAIN rows
      BY <1>1 DEF TablesOK
    <3>2. CASE u = t
      <4>1. rows'[u] = Append(rows[u], Values)
        BY <1>1, <3>1, <3>2
      <4>2. Values \in RowsOf(tables[u])
        BY <1>3, <3>2 DEF Columns
      <4> QED BY <3>1, <4>1, <4>2
    <3>3. CASE u # t
      BY <1>1, <3>1, <3>3
    <3> QED BY <3>2, <3>3
  <2>3. \A c : RowsOf(c)' = RowsOf(c) /\ (IsColumns(c)' <=> IsColumns(c))
    BY DEF RowsOf, IsColumns, OfColumns
  <2> QED BY <1>1, <2>1, <2>2, <2>3 DEF TablesOK
<1>5. PlanOK'
  BY <1>1 DEF PlanOK
<1>6. ScanOK'
  BY <1>1 DEF ScanOK
<1>7. PanicHasCause'
  BY <1>1 DEF PanicHasCause
<1>8. NamesOK'
  BY <1>1, NamesStay
<1> QED BY <1>4, <1>5, <1>6, <1>7, <1>8 DEF IInv

-----------------------------------------------------------------------------
(* A scan                                                                  *)

\* Ranks in a set of numbers, and in one of one greater number more.
LEMMA Ranks ==
    ASSUME NEW n \in Nat \ {0}, NEW T \in SUBSET (1 .. n - 1)
    PROVE  /\ Cardinality(T) \in Nat /\ Cardinality(T) <= n - 1
           /\ \A k \in T : Cardinality(T \cap (1 .. k)) \in 1 .. Cardinality(T)
           /\ Cardinality(T \cup {n}) = Cardinality(T) + 1
           /\ (T \cup {n}) \cap (1 .. n) = T \cup {n}
           /\ \A k \in T : (T \cup {n}) \cap (1 .. k) = T \cap (1 .. k)
<1>1. IsFiniteSet(1 .. n - 1) /\ Cardinality(1 .. n - 1) = n - 1
  BY FS_Interval
<1>2. IsFiniteSet(T) /\ Cardinality(T) \in Nat /\ Cardinality(T) <= Cardinality(1 .. n - 1)
  BY <1>1, FS_Subset, FS_CardinalityType
<1>3. ASSUME NEW k \in T PROVE Cardinality(T \cap (1 .. k)) \in 1 .. Cardinality(T)
  <2> DEFINE U == T \cap (1 .. k)
  <2>1. U \subseteq T /\ k \in U
    OBVIOUS
  <2> HIDE DEF U
  <2>2. IsFiniteSet(U) /\ Cardinality(U) \in Nat /\ Cardinality(U) <= Cardinality(T)
    BY <1>2, <2>1, FS_Subset, FS_CardinalityType
  <2>3. Cardinality(U) # 0
    BY <2>1, <2>2, FS_EmptySet
  <2> QED BY <1>2, <2>2, <2>3 DEF U
<1>4. \A k \in T : k \in 1 .. n /\ k \in 1 .. n - 1
  OBVIOUS
<1>5. n \notin T /\ n \in 1 .. n
  OBVIOUS
<1>6. Cardinality(T \cup {n}) = Cardinality(T) + 1
  BY <1>2, <1>5, FS_AddElement
<1>7. (T \cup {n}) \cap (1 .. n) = T \cup {n}
  BY <1>4, <1>5, Zenon
<1>8. \A k \in T : (T \cup {n}) \cap (1 .. k) = T \cap (1 .. k)
  <2> TAKE k \in T
  <2>1. n \notin 1 .. k
    BY <1>4
  <2> QED BY <2>1
<1> QED BY <1>1, <1>2, <1>3, <1>6, <1>7, <1>8

\* A scan passes a row that is a condition; it has found it if that is true.
LEMMA AdvancesKeeps ==
    ASSUME IInv, Scanning, NEW found, Advances(found), Logical(Condition(plan.filter, Row)),
           found = IF IsTrue(Condition(plan.filter, Row)) THEN <<Projected(Row)>> ELSE <<>>
    PROVE  IInv'
<1> DEFINE n    == next_row
           all  == rows[plan.table]
           P    == {Projected(all[k]) : k \in DOMAIN all}
           T    == TrueBefore(n)
           true == IsTrue(Condition(plan.filter, Row))
<1>1. /\ TablesOK /\ PlanOK /\ ScanOK
      /\ plan.op = "Select" /\ phase = "Planned" /\ n <= Len(all)
      /\ out' = out \o found /\ next_row' = n + 1
      /\ UNCHANGED <<build, tables, rows, created, whole, phase, stmt, plan>>
  BY DEF IInv, Scanning, Executing, Advances
<1>2. all \in Seq(RowsOf(Columns)) /\ Len(all) \in Nat
  BY <1>1, SelectPlan DEF TablesOK, Columns
<1>3. n \in 1 .. Len(all) /\ n \in Nat \ {0} /\ n \in DOMAIN all /\ Row = all[n]
  BY <1>1, <1>2 DEF ScanOK, Row
<1>4. TablesOK'
  BY <1>1, TablesStay
<1>5. PlanOK'
  BY <1>1 DEF PlanOK
<1>6. PanicHasCause'
  BY <1>1 DEF PanicHasCause
<1>7. ScanOK'
  <2>1. /\ \A row : Projected(row)' = Projected(row)
        /\ \A row : Condition(plan.filter, row)' = Condition(plan.filter, row)
        /\ all' = all
    BY <1>1 DEF Projected, Evaluated, Condition
  <2>2. TrueBefore(next_row)' = {j \in 1 .. n : IsTrue(Condition(plan.filter, all[j]))}
    <3>1. (n + 1) - 1 = n
      BY <1>3
    <3>2. TrueBefore(next_row)' = {j \in 1 .. (n + 1) - 1 : IsTrue(Condition(plan.filter, all[j]))}
      BY <1>1 DEF TrueBefore, Condition
    <3> QED BY <3>1, <3>2
  <2>3. T = {j \in 1 .. n - 1 : IsTrue(Condition(plan.filter, all[j]))} /\ T \in SUBSET (1 .. n - 1)
    BY DEF TrueBefore
  <2>4. 1 .. n = (1 .. n - 1) \cup {n}
    BY <1>3
  <2>5. TrueBefore(next_row)' = IF true THEN T \cup {n} ELSE T
    BY <1>3, <2>2, <2>3, <2>4
  <2>6. /\ out \in Seq(P) /\ Len(out) = Cardinality(T)
        /\ \A k \in T : out[Cardinality(T \cap (1 .. k))] = Projected(all[k])
        /\ \A k \in 1 .. n - 1 : Logical(Condition(plan.filter, all[k]))
    BY <1>1 DEF ScanOK
  <2>7. n + 1 \in 1 .. Len(all) + 1 /\ (n + 1) - 1 = n
    BY <1>2, <1>3
  <2>8. \A k \in 1 .. n : Logical(Condition(plan.filter, all[k]))
    BY <1>3, <2>4, <2>6
  <2> DEFINE S == TrueBefore(next_row)'
  <2>9. /\ out' \in Seq(P) /\ Len(out') = Cardinality(S)
        /\ \A k \in S : out'[Cardinality(S \cap (1 .. k))] = Projected(all[k])
    <3> HIDE DEF S, T, P
    <3>1. CASE ~ true
      <4>1. S = T
        BY <2>5, <3>1 DEF S
      <4>2. out' = out
        BY <1>1, <2>6, <3>1
      <4> QED BY <4>1, <4>2, <2>6
    <3>2. CASE true
      <4> DEFINE x == Projected(all[n])
                 m == Len(out)
      <4>1. S = T \cup {n}
        BY <2>5, <3>2 DEF S
      <4>2. out' = out \o <<x>> /\ x \in P
        BY <1>1, <1>3, <3>2 DEF P
      <4> HIDE DEF x
      <4>3. /\ out' \in Seq(P) /\ Len(out') = m + 1 /\ m \in Nat /\ out'[m + 1] = x
            /\ \A j \in 1 .. m : out'[j] = out[j]
        BY <2>6, <4>2
      <4>4. /\ \A k \in T : Cardinality(T \cap (1 .. k)) \in 1 .. m
            /\ Cardinality(S) = m + 1
            /\ S \cap (1 .. n) = S
            /\ \A k \in T : S \cap (1 .. k) = T \cap (1 .. k)
        BY <1>3, <2>3, <2>6, <4>1, Ranks
      <4> HIDE DEF m
      <4>5. out'[Cardinality(S \cap (1 .. n))] = x
        BY <4>3, <4>4
      <4>6. \A k \in T : out'[Cardinality(S \cap (1 .. k))] = Projected(all[k])
        BY <2>6, <4>3, <4>4
      <4> QED BY <4>1, <4>3, <4>4, <4>5, <4>6 DEF x
    <3> QED BY <3>1, <3>2
  <2>10. plan'.op = "Select" /\ phase' # "Done" /\ next_row' = n + 1
    BY <1>1
  <2>11. P' = P
    BY <2>1
  <2>12. (next_row \in 1 .. Len(all) + 1 /\ (phase = "Done" => next_row = Len(all) + 1))'
    BY <2>1, <2>7, <2>10
  <2>13. (\A k \in 1 .. next_row - 1 : Logical(Condition(plan.filter, all[k])))'
    BY <2>1, <2>7, <2>8, <2>10
  <2>14. (out \in Seq(P) /\ Len(out) = Cardinality(TrueBefore(next_row)))'
    BY <2>9, <2>11
  <2>15. (\A k \in TrueBefore(next_row) :
             out[Cardinality(TrueBefore(next_row) \cap (1 .. k))] = Projected(all[k]))'
    BY <2>1, <2>9
  <2> HIDE DEF T, true, S
  <2> QED BY <2>12, <2>13, <2>14, <2>15 DEF ScanOK
<1>8. NamesOK'
  BY <1>1, NamesStay DEF IInv
<1> QED BY <1>4, <1>5, <1>6, <1>7, <1>8 DEF IInv

LEMMA SelectKeeps ==
    ASSUME IInv, Select
    PROVE  IInv'
<1> DEFINE c == Condition(plan.filter, Row)
<1>1. TablesOK /\ PlanOK /\ ScanOK /\ plan.op = "Select" /\ phase = "Planned"
  BY DEF IInv, Select, FilterFails, RowIsPassedOver, ColumnFails, RowIsFound, ScanEnds, PageIsNotRead,
         Scanning, Executing
<1>2. rows[plan.table] \in Seq(RowsOf(Columns)) /\ Len(rows[plan.table]) \in Nat
      /\ next_row \in 1 .. Len(rows[plan.table]) + 1
  BY <1>1, SelectPlan DEF TablesOK, Columns, ScanOK
<1>3. ASSUME Scanning
      PROVE  /\ next_row \in DOMAIN rows[plan.table]
             /\ c \in Outcome
             /\ c.type = "Panic" => HasCause
             /\ AnyFails(Projected(Row)) /\ FirstFailure(Projected(Row)).type = "Panic" => HasCause
  <2>1. next_row \in DOMAIN rows[plan.table]
    BY <1>2, <1>3 DEF Scanning
  <2> QED BY <1>1, <2>1, ConditionIs, ProjectedIs DEF Row, HasCause
<1>4. \A x : HowItFails(x) \in {"Error", "Panicked"} /\ (HowItFails(x) = "Panicked" => x.type = "Panic")
  BY DEF HowItFails
<1>5. CASE FilterFails
  <2>1. Scanning /\ Ends(HowItFails(c)) /\ UNCHANGED rows
    BY <1>5 DEF FilterFails
  <2> HIDE DEF c
  <2> QED BY <1>1, <1>3, <1>4, <2>1, EndsKeeps
<1>6. CASE RowIsPassedOver
  <2>1. Scanning /\ Advances(<<>>) /\ (IsFalse(c) \/ IsNull(c))
    BY <1>6 DEF RowIsPassedOver
  <2>2. Logical(c) /\ ~ IsTrue(c)
    BY <1>3, <2>1, LogicalIs
  <2> QED BY <2>1, <2>2, AdvancesKeeps
<1>7. CASE ColumnFails
  <2>1. /\ Scanning /\ UNCHANGED rows /\ AnyFails(Projected(Row))
        /\ Ends(HowItFails(FirstFailure(Projected(Row))))
    BY <1>7 DEF ColumnFails
  <2> QED BY <1>1, <1>3, <1>4, <2>1, EndsKeeps
<1>8. CASE RowIsFound
  <2>1. Scanning /\ Advances(<<Projected(Row)>>) /\ IsTrue(c)
    BY <1>8 DEF RowIsFound
  <2>2. Logical(c)
    BY <1>3, <2>1, LogicalIs
  <2> QED BY <2>1, <2>2, AdvancesKeeps
<1>9. CASE ScanEnds
  <2>1. Ends("Done") /\ UNCHANGED rows /\ next_row = Len(rows[plan.table]) + 1
    BY <1>2, <1>9 DEF ScanEnds
  <2> QED BY <1>1, <2>1, EndsKeeps
<1>10. CASE PageIsNotRead
  <2>1. Ends("Error") /\ UNCHANGED rows
    BY <1>10 DEF PageIsNotRead
  <2> QED BY <1>1, <2>1, EndsKeeps
<1> QED BY <1>5, <1>6, <1>7, <1>8, <1>9, <1>10 DEF Select

LEMMA InsertKeeps ==
    ASSUME IInv, Insert
    PROVE  IInv'
<1>1. TablesOK /\ PlanOK /\ plan.op = "Insert" /\ phase = "Planned"
  BY DEF IInv, Insert, InsertFails, InsertOfNull, InsertMismatch, Inserts, RecordIsNotStored,
         Executing
<1>2. /\ Values \in Seq(Outcome)
      /\ \A k \in DOMAIN Values : Values[k].type = "Panic" \/ IsNull(Values[k]) => HasCause
  BY <1>1, ValuesAre DEF HasCause
<1>3. plan.op # "Select"
  BY <1>1
<1>4. CASE InsertFails
  <2> DEFINE x == FirstFailure(Values)
  <2>1. Ends(HowItFails(x)) /\ UNCHANGED rows /\ AnyFails(Values)
    BY <1>4 DEF InsertFails
  <2>2. \E k \in DOMAIN Values : x = Values[k]
    BY <1>2, <2>1, FirstFailureFails
  <2> HIDE DEF x
  <2>3. x.type = "Panic" => HasCause
    BY <1>2, <2>2
  <2>4. HowItFails(x) \in {"Error", "Panicked"} /\ (HowItFails(x) = "Panicked" => x.type = "Panic")
    BY DEF HowItFails
  <2> QED BY <1>1, <1>3, <2>1, <2>3, <2>4, EndsKeeps
<1>5. CASE InsertOfNull
  <2>1. Ends("Panicked") /\ UNCHANGED rows /\ NullIsReached
    BY <1>5 DEF InsertOfNull
  <2>2. PICK k \in DOMAIN Columns : IsNull(Values[k])
    BY <2>1 DEF NullIsReached
  <2>3. k \in DOMAIN Values
    <3>1. IsColumns(Columns)
      BY <1>1, InsertPlan DEF TablesOK, Columns
    <3> QED BY <1>2, <2>1, <3>1 DEF NullIsReached, IsColumns
  <2>4. HasCause
    BY <1>2, <2>2, <2>3
  <2> QED BY <1>1, <1>3, <2>1, <2>4, EndsKeeps
<1>6. CASE InsertMismatch
  <2>1. Ends("Error") /\ UNCHANGED rows
    BY <1>6 DEF InsertMismatch
  <2> QED BY <1>1, <1>3, <2>1, EndsKeeps
<1>7. CASE Inserts
  BY <1>7, InsertsKeeps
<1>8. CASE RecordIsNotStored
  <2>1. UNCHANGED rows /\ is_valid_tuple
    BY <1>8 DEF RecordIsNotStored
  <2>2. PICK how \in {"Error", "Panicked"} : Ends(how)
    BY <1>8 DEF RecordIsNotStored
  <2>3. HasCause
    BY <1>1, <2>1 DEF HasCause
  <2> QED BY <1>1, <1>3, <2>1, <2>2, <2>3, EndsKeeps
<1> QED BY <1>4, <1>5, <1>6, <1>7, <1>8 DEF Insert

LEMMA NextIInv == IInv /\ [Next]_vars => IInv'
<1> SUFFICES ASSUME IInv, [Next]_vars PROVE IInv'
  OBVIOUS
<1>1. CASE \E s \in Incoming : Binds(s)
  BY <1>1, BindsKeeps
<1>2. CASE CreateTable
  BY <1>2, CreateTableKeeps
<1>3. CASE Insert
  BY <1>3, InsertKeeps
<1>4. CASE Select
  BY <1>4, SelectKeeps
<1>5. CASE Answers
  BY <1>5, IdleKeeps DEF Answers
<1>6. CASE Restarts
  BY <1>6, IdleKeeps DEF Restarts
<1>7. CASE UNCHANGED vars
  <2>1. UNCHANGED <<build, tables, rows, created, whole, phase, stmt, plan, next_row, out>>
    BY <1>7 DEF vars
  <2>2. TablesOK'
    BY <2>1, TablesStay DEF IInv
  <2>3. PlanOK'
    BY <2>1 DEF IInv, PlanOK
  <2>4. ScanOK'
    <3>1. \A k : TrueBefore(k)' = TrueBefore(k)
      BY <2>1 DEF TrueBefore, Condition
    <3>2. \A row : Projected(row)' = Projected(row)
      BY <2>1 DEF Projected, Evaluated
    <3>3. \A row : Condition(plan.filter, row)' = Condition(plan.filter, row)
      BY <2>1 DEF Condition
    <3> QED BY <2>1, <3>1, <3>2, <3>3 DEF IInv, ScanOK
  <2>5. PanicHasCause'
    <3>1. Values' = Values /\ Columns' = Columns
      BY <2>1 DEF Values, Evaluated, Columns
    <3>2. is_valid_tuple' <=> is_valid_tuple
      BY <3>1 DEF is_valid_tuple, Fits
    <3> QED BY <2>1, <3>2 DEF IInv, PanicHasCause, HasCause
  <2>6. NamesOK'
    BY <2>1, NamesStay DEF IInv
  <2> QED BY <2>2, <2>3, <2>4, <2>5, <2>6 DEF IInv
<1>8. CASE IsSetAside
  BY <1>8, IsSetAsideKeeps
<1> QED BY <1>1, <1>2, <1>3, <1>4, <1>5, <1>6, <1>7, <1>8 DEF Next

\* In every state that is reached the tables hold rows of their columns, the
\* plan is what the binder makes of the statement, a scan has found the rows
\* that its WHERE clause is true of, the columns have the names they were created
\* under, and a panic has its cause in the statement or at its page.
THEOREM QueryIsSafe == Spec => []IInv
BY InitIInv, NextIInv, PTL DEF Spec

-----------------------------------------------------------------------------
(* The invariants                                                          *)

LEMMA OneType ==
    ASSUME NEW types, NEW t, types \subseteq {t, "Panic"}
    PROVE  Cardinality(types \ {"Panic"}) <= 1
<1>1. types \ {"Panic"} \in SUBSET {t}
  OBVIOUS
<1>2. IsFiniteSet({t}) /\ Cardinality({t}) = 1
  BY FS_Singleton
<1> QED BY <1>1, <1>2, FS_Subset

\* The rows of a table are of its columns' types, without a NULL and with every
\* number in its range, after any sequence of statements, inserts of computed
\* values and repeated CREATE TABLEs among them (Executor::execute, is_valid_tuple).
THEOREM QueryIsWellTyped == Spec => []TypeOK
<1>1. ASSUME IInv PROVE TypeOK
  <2>1. /\ build \in {"debug", "release"} /\ whole \in BOOLEAN /\ DOMAIN rows = DOMAIN tables
        /\ phase \in {"Idle", "Planned", "Refused", "Done", "Error", "Panicked"}
    BY <1>1 DEF IInv, TablesOK, PlanOK, NamesOK
  <2>2. ASSUME NEW t \in DOMAIN rows, NEW n \in DOMAIN rows[t]
        PROVE  /\ Len(rows[t][n]) = Len(tables[t])
               /\ \A k \in DOMAIN tables[t] :
                     rows[t][n][k] \in ValuesOf(tables[t][k].data_type) \ {Null}
    <3> DEFINE row == rows[t][n]
               l   == Len(row)
               m   == Len(tables[t])
    <3>1. rows[t] \in Seq(RowsOf(tables[t])) /\ IsColumns(tables[t])
      BY <1>1, <2>1 DEF IInv, TablesOK
    <3>2. row \in Seq(Value) /\ OfColumns(row, tables[t])
      BY <3>1 DEF RowsOf
    <3>3. l \in Nat /\ m \in Nat /\ 1 .. l = 1 .. m
      BY <3>1, <3>2 DEF OfColumns, IsColumns
    <3> HIDE DEF l, m
    <3>4. l = m
      <4>1. \A i \in Nat : i \in 1 .. l <=> i \in 1 .. m
        BY <3>3
      <4>2. l <= m /\ m <= l
        BY <3>3, <4>1
      <4> QED BY <3>3, <4>2
    <3> QED BY <3>2, <3>4 DEF OfColumns, l, m
  <2>3. ASSUME plan.op = "Select"
        PROVE  next_row \in 1 .. Len(rows[plan.table]) + 1 /\ Len(out) < next_row
    <3>1. TablesOK /\ PlanOK /\ ScanOK
      BY <1>1 DEF IInv
    <3>2. Len(rows[plan.table]) \in Nat
      BY <2>3, <3>1, SelectPlan DEF TablesOK
    <3>3. next_row \in 1 .. Len(rows[plan.table]) + 1 /\ next_row \in Nat \ {0}
      BY <2>3, <3>1, <3>2 DEF ScanOK
    <3>4. Len(out) = Cardinality(TrueBefore(next_row))
      BY <2>3, <3>1 DEF ScanOK
    <3>5. TrueBefore(next_row) \in SUBSET (1 .. next_row - 1)
      BY DEF TrueBefore
    <3>6. Cardinality(TrueBefore(next_row)) \in Nat /\ Cardinality(TrueBefore(next_row)) <= next_row - 1
      BY <3>3, <3>5, Ranks
    <3> QED BY <3>3, <3>4, <3>6
  <2> QED BY <2>1, <2>2, <2>3 DEF TypeOK
<1> QED BY <1>1, QueryIsSafe, PTL

\* A WHERE clause without the literal NULL is of one type on every row, or
\* panics; a SELECT that panics has a division in it, or in a debug build
\* arithmetic; an INSERT that panics has that, a column or NULL in it, or it came
\* as far as its page; a CREATE TABLE that panics did so on the catalog page
\* (expr.rs, Executor::execute, page/mod.rs:149).
THEOREM FailuresAreForeseen == Spec => []FailuresAreForeseeable
<1>1. ASSUME IInv PROVE FailuresAreForeseeable
  <2>1. TablesOK /\ PlanOK /\ PanicHasCause
    BY <1>1 DEF IInv
  <2>2. ASSUME plan.op = "Select", "Null" \notin OpsOf(plan.filter)
        PROVE  Cardinality({Condition(plan.filter, rows[plan.table][n]).type :
                               n \in DOMAIN rows[plan.table]} \ {"Panic"}) <= 1
    <3> DEFINE types == {Condition(plan.filter, rows[plan.table][n]).type :
                            n \in DOMAIN rows[plan.table]}
    <3>1. /\ plan.filter \in Seq(BoundExprs(Table)) /\ DOMAIN Table.columns \subseteq Nat
          /\ plan.filter = <<>> \/ Len(plan.filter) = 1
      BY <2>1, <2>2, SelectPlan
    <3>2. \A n \in DOMAIN rows[plan.table] : OfColumns(rows[plan.table][n], Columns)
      BY <2>1, <2>2, RowsAreRead
    <3>3. \E t : types \subseteq {t, "Panic"}
      <4>1. CASE plan.filter = <<>>
        <5>1. types \subseteq {"Boolean", "Panic"}
          BY <4>1 DEF Condition, Boolean
        <5> QED BY <5>1
      <4>2. CASE Len(plan.filter) = 1
        <5> DEFINE e == plan.filter[1]
        <5>1. e \in BoundExprs(Table) /\ 1 \in DOMAIN plan.filter /\ plan.filter # <<>>
          <6>1. plan.filter \in Seq(BoundExprs(Table))
            BY <3>1
          <6> QED BY <6>1, <4>2
        <5>2. e \in Expressions
          BY <3>1, <5>1, BoundAre
        <5>3. "Null" \notin Ops(e)
          BY <2>2, <5>1 DEF OpsOf
        <5>4. PICK t : \A row : OfColumns(row, Columns) => evaluate(build, e, row).type \in {t, "Panic"}
          BY <5>2, <5>3, ExpressionHasType
        <5>5. types \subseteq {t, "Panic"}
          BY <3>2, <5>1, <5>4 DEF Condition
        <5> QED BY <5>5
      <4> QED BY <3>1, <4>1, <4>2
    <3> HIDE DEF types
    <3> QED BY <3>3, OneType DEF types
  <2>3. ASSUME phase = "Panicked" PROVE HasCause
    BY <2>1, <2>3 DEF PanicHasCause
  <2> QED BY <2>2, <2>3 DEF FailuresAreForeseeable, HasCause, Risky
<1> QED BY <1>1, QueryIsSafe, PTL

-----------------------------------------------------------------------------
(* What a WHERE clause keeps                                               *)

LEMMA ClausesAreOutcomes ==
    ASSUME NEW b, NEW table, DOMAIN table.columns \subseteq Nat,
           NEW row, \A k \in DOMAIN row : row[k] \in Value,
           NEW m \in 0 .. MaxNesting, NEW t \in Written[m], ~ IsRefused(parse_expr(t, table))
    PROVE  ValueOn(b, t, table, row) \in Outcome
BY ParsesToNested, EvaluateOutcome DEF ValueOn

\* NOT of AND and OR, on one row.
LEMMA NegatesOn ==
    ASSUME NEW b, NEW table, DOMAIN table.columns \subseteq Nat,
           NEW row, \A k \in DOMAIN row : row[k] \in Value,
           NEW p \in SqlExprs, ~ IsRefused(parse_expr(p, table)),
           p.node = "BinaryOp", p.op \in {"And", "Or"}, Logical(ValueOn(b, p, table, row))
    PROVE  IsTrue(ValueOn(b, NotOf(p), table, row)) <=>
              IsTrue(ValueOn(b, BinaryOp(NotOf(p.left), IF p.op = "And" THEN "Or" ELSE "And",
                                         NotOf(p.right)), table, row))
<1> DEFINE m     == MaxNesting - 2
           v(t)  == ValueOn(b, t, table, row)
           dual  == IF p.op = "And" THEN "Or" ELSE "And"
           l     == v(p.left)
           r     == v(p.right)
<1>1. m \in 0 .. MaxNesting /\ m \in 0 .. MaxNesting - 1
  BY Bounds
<1>2. p \in Written[m]
  BY DEF SqlExprs
<1> HIDE DEF m, dual
<1>3. /\ m \in 1 .. MaxNesting
      /\ p.left \in Written[m - 1] /\ ~ IsRefused(parse_expr(p.left, table))
      /\ p.right \in Written[m - 1] /\ ~ IsRefused(parse_expr(p.right, table))
      /\ v(p) = Means(b, p.op, l, r)
  BY <1>1, <1>2, OperandsOf
<1>4. m - 1 \in 0 .. MaxNesting - 1 /\ m - 1 \in 0 .. MaxNesting /\ (m - 1) + 1 = m
  <2>1. m \in 1 .. MaxNesting /\ MaxNesting \in Nat
    BY <1>3, Bounds
  <2> QED BY <2>1
<1>5. l \in Outcome /\ r \in Outcome
  BY <1>3, <1>4, ClausesAreOutcomes
<1>6. /\ NotOf(p.left) \in Written[m] /\ ~ IsRefused(parse_expr(NotOf(p.left), table))
      /\ v(NotOf(p.left)) = Unary("Not", l)
      /\ NotOf(p.right) \in Written[m] /\ ~ IsRefused(parse_expr(NotOf(p.right), table))
      /\ v(NotOf(p.right)) = Unary("Not", r)
  BY <1>3, <1>4, UnaryClauses
<1>7. v(NotOf(p)) = Unary("Not", v(p))
  BY <1>1, <1>2, UnaryClauses
<1>8. dual \in BoundBinary
  BY DEF dual, BoundBinary, ExprOf
<1>9. v(BinaryOp(NotOf(p.left), dual, NotOf(p.right))) = Means(b, dual, Unary("Not", l), Unary("Not", r))
  <2> DEFINE x == NotOf(p.left)
             y == NotOf(p.right)
  <2> HIDE DEF x, y
  <2>1. x \in Written[m] /\ ~ IsRefused(parse_expr(x, table))
        /\ y \in Written[m] /\ ~ IsRefused(parse_expr(y, table))
    BY <1>6 DEF x, y
  <2>2. v(BinaryOp(x, dual, y)) = Means(b, dual, v(x), v(y))
    BY <1>1, <1>8, <2>1, BinaryClauses, ZenonT(60)
  <2> QED BY <1>6, <2>2 DEF x, y
<1> HIDE DEF v, l, r
<1>10. Logical(v(p))
  BY DEF v
<1>11. IsTrue(v(NotOf(p))) <=> IsTrue(v(BinaryOp(NotOf(p.left), dual, NotOf(p.right))))
  <2>1. CASE p.op = "And"
    <3>1. dual = "Or" /\ Logical(Means(b, "And", l, r))
      BY <2>1, <1>3, <1>10 DEF dual
    <3>2. IsTrue(Unary("Not", Means(b, "And", l, r))) <=>
             IsTrue(Means(b, "Or", Unary("Not", l), Unary("Not", r)))
      BY <1>5, <3>1, DeMorgan
    <3> QED BY <2>1, <1>3, <1>7, <1>9, <3>1, <3>2, Zenon
  <2>2. CASE p.op = "Or"
    <3>1. dual = "And" /\ Logical(Means(b, "Or", l, r))
      BY <2>2, <1>3, <1>10 DEF dual
    <3>2. IsTrue(Unary("Not", Means(b, "Or", l, r))) <=>
             IsTrue(Means(b, "And", Unary("Not", l), Unary("Not", r)))
      BY <1>5, <3>1, DeMorgan
    <3> QED BY <2>2, <1>3, <1>7, <1>9, <3>1, <3>2, Zenon
  <2> QED BY <2>1, <2>2
<1> QED BY <1>11, Zenon DEF v, dual

\* The comparisons, on one row.
LEMMA ComparesOn ==
    ASSUME NEW b, NEW table, DOMAIN table.columns \subseteq Nat,
           NEW row, \A k \in DOMAIN row : row[k] \in Value,
           NEW p \in SqlExprs, ~ IsRefused(parse_expr(p, table)),
           p.node = "BinaryOp", p.op \in ComparisonOps, Logical(ValueOn(b, p, table, row))
    PROVE  LET on(t)  == IsTrue(ValueOn(b, t, table, row))
               is(o)  == on(BinaryOp(p.left, o, p.right))
               non(o) == on(NotOf(BinaryOp(p.left, o, p.right)))
               known  == on(NotOf(IsNullOf(p)))
               nan    == /\ \/ IsNaN(ValueOn(b, p.left, table, row))
                            \/ IsNaN(ValueOn(b, p.right, table, row))
                         /\ known
           IN  /\ is("Lt") \/ is("Eq") \/ is("Gt") <=> known /\ ~ nan
               /\ ~ (is("Lt") /\ is("Eq")) /\ ~ (is("Lt") /\ is("Gt")) /\ ~ (is("Eq") /\ is("Gt"))
               /\ is("GtEq") <=> non("Lt") /\ ~ nan
               /\ is("LtEq") <=> non("Gt") /\ ~ nan
               /\ is("NotEq") <=> non("Eq")
               /\ nan => is("NotEq")
               /\ is("Lt") <=> on(BinaryOp(p.right, "Gt", p.left))
<1> DEFINE m     == MaxNesting - 2
           v(t)  == ValueOn(b, t, table, row)
           l     == v(p.left)
           r     == v(p.right)
<1>1. m \in 0 .. MaxNesting /\ m \in 0 .. MaxNesting - 1 /\ m + 1 \in 0 .. MaxNesting - 1
  BY Bounds
<1>2. p \in Written[m]
  BY DEF SqlExprs
<1> HIDE DEF m
<1>3. /\ m \in 1 .. MaxNesting
      /\ p.left \in Written[m - 1] /\ ~ IsRefused(parse_expr(p.left, table))
      /\ p.right \in Written[m - 1] /\ ~ IsRefused(parse_expr(p.right, table))
      /\ v(p) = Means(b, p.op, l, r)
  BY <1>1, <1>2, OperandsOf
<1>4. m - 1 \in 0 .. MaxNesting - 1 /\ m - 1 \in 0 .. MaxNesting /\ (m - 1) + 1 = m
  <2>1. m \in 1 .. MaxNesting /\ MaxNesting \in Nat
    BY <1>3, Bounds
  <2> QED BY <2>1
<1>5. l \in Outcome /\ r \in Outcome
  BY <1>3, <1>4, ClausesAreOutcomes
<1>6. \A o \in BoundBinary :
         /\ BinaryOp(p.left, o, p.right) \in Written[m]
         /\ ~ IsRefused(parse_expr(BinaryOp(p.left, o, p.right), table))
         /\ v(BinaryOp(p.left, o, p.right)) = Means(b, o, l, r)
         /\ v(BinaryOp(p.right, o, p.left)) = Means(b, o, r, l)
  <2> TAKE o \in BoundBinary
  <2> DEFINE x == p.left
             y == p.right
             k == m - 1
  <2> HIDE DEF x, y, k
  <2>1. x \in Written[k] /\ ~ IsRefused(parse_expr(x, table))
        /\ y \in Written[k] /\ ~ IsRefused(parse_expr(y, table))
    BY <1>3 DEF x, y, k
  <2>2. k \in 0 .. MaxNesting - 1 /\ k + 1 = m
    BY <1>4 DEF k
  <2>3. /\ BinaryOp(x, o, y) \in Written[k + 1]
        /\ ~ IsRefused(parse_expr(BinaryOp(x, o, y), table))
        /\ v(BinaryOp(x, o, y)) = Means(b, o, v(x), v(y))
    BY <2>1, <2>2, BinaryClauses
  <2>4. v(BinaryOp(y, o, x)) = Means(b, o, v(y), v(x))
    BY <2>1, <2>2, BinaryClauses
  <2> QED BY <2>2, <2>3, <2>4 DEF x, y
<1>7. ComparisonOps \subseteq BoundBinary
  BY DEF ComparisonOps, BoundBinary, ExprOf
<1>8. \A o \in BoundBinary : v(NotOf(BinaryOp(p.left, o, p.right))) = Unary("Not", Means(b, o, l, r))
  <2> TAKE o \in BoundBinary
  <2> DEFINE t == BinaryOp(p.left, o, p.right)
  <2>1. t \in Written[m] /\ ~ IsRefused(parse_expr(t, table)) /\ v(t) = Means(b, o, l, r)
    BY <1>6
  <2> HIDE DEF t
  <2>2. v(NotOf(t)) = Unary("Not", v(t))
    BY <1>1, <2>1, UnaryClauses
  <2> QED BY <2>1, <2>2 DEF t
<1>9. v(NotOf(IsNullOf(p))) = Unary("Not", Unary("IsNull", Means(b, p.op, l, r)))
  <2>1. /\ IsNullOf(p) \in Written[m + 1] /\ ~ IsRefused(parse_expr(IsNullOf(p), table))
        /\ v(IsNullOf(p)) = Unary("IsNull", v(p))
    BY <1>1, <1>2, UnaryClauses
  <2>2. v(NotOf(IsNullOf(p))) = Unary("Not", v(IsNullOf(p)))
    BY <1>1, <2>1, UnaryClauses
  <2> QED BY <1>3, <2>1, <2>2
<1>10. Logical(Means(b, p.op, l, r))
  BY <1>3
<1> HIDE DEF v, l, r
<1> DEFINE is(o)  == IsTrue(Means(b, o, l, r))
           non(o) == IsTrue(Unary("Not", Means(b, o, l, r)))
           known  == IsTrue(Unary("Not", Unary("IsNull", Means(b, p.op, l, r))))
           nan    == (IsNaN(l) \/ IsNaN(r)) /\ known
           on(t)  == IsTrue(v(t))
<1>11. /\ is("Lt") \/ is("Eq") \/ is("Gt") <=> known /\ ~ nan
       /\ ~ (is("Lt") /\ is("Eq")) /\ ~ (is("Lt") /\ is("Gt")) /\ ~ (is("Eq") /\ is("Gt"))
       /\ is("GtEq") <=> non("Lt") /\ ~ nan
       /\ is("LtEq") <=> non("Gt") /\ ~ nan
       /\ is("NotEq") <=> non("Eq")
       /\ nan => is("NotEq")
       /\ is("Lt") <=> IsTrue(Means(b, "Gt", r, l))
  BY <1>5, <1>10, ComparisonLaws
<1>12. \A o \in ComparisonOps : /\ on(BinaryOp(p.left, o, p.right)) <=> is(o)
                                /\ on(NotOf(BinaryOp(p.left, o, p.right))) <=> non(o)
  BY <1>6, <1>7, <1>8
<1>13. on(NotOf(IsNullOf(p))) <=> known
  BY <1>9
<1>14. on(BinaryOp(p.right, "Gt", p.left)) <=> IsTrue(Means(b, "Gt", r, l))
  BY <1>6, <1>7 DEF ComparisonOps
<1>15. \A o \in {"Lt", "Eq", "Gt", "GtEq", "LtEq", "NotEq"} : o \in ComparisonOps
  BY DEF ComparisonOps
<1> HIDE DEF is, non, known, on
<1>16. /\ on(BinaryOp(p.left, "Lt", p.right)) <=> is("Lt")
       /\ on(BinaryOp(p.left, "Eq", p.right)) <=> is("Eq")
       /\ on(BinaryOp(p.left, "Gt", p.right)) <=> is("Gt")
       /\ on(BinaryOp(p.left, "GtEq", p.right)) <=> is("GtEq")
       /\ on(BinaryOp(p.left, "LtEq", p.right)) <=> is("LtEq")
       /\ on(BinaryOp(p.left, "NotEq", p.right)) <=> is("NotEq")
       /\ on(NotOf(BinaryOp(p.left, "Lt", p.right))) <=> non("Lt")
       /\ on(NotOf(BinaryOp(p.left, "Eq", p.right))) <=> non("Eq")
       /\ on(NotOf(BinaryOp(p.left, "Gt", p.right))) <=> non("Gt")
  BY <1>12, <1>15
<1>17. /\ on(BinaryOp(p.left, "Lt", p.right)) \/ on(BinaryOp(p.left, "Eq", p.right))
             \/ on(BinaryOp(p.left, "Gt", p.right)) <=> known /\ ~ nan
       /\ ~ (on(BinaryOp(p.left, "Lt", p.right)) /\ on(BinaryOp(p.left, "Eq", p.right)))
       /\ ~ (on(BinaryOp(p.left, "Lt", p.right)) /\ on(BinaryOp(p.left, "Gt", p.right)))
       /\ ~ (on(BinaryOp(p.left, "Eq", p.right)) /\ on(BinaryOp(p.left, "Gt", p.right)))
       /\ on(BinaryOp(p.left, "GtEq", p.right)) <=> on(NotOf(BinaryOp(p.left, "Lt", p.right))) /\ ~ nan
       /\ on(BinaryOp(p.left, "LtEq", p.right)) <=> on(NotOf(BinaryOp(p.left, "Gt", p.right))) /\ ~ nan
       /\ on(BinaryOp(p.left, "NotEq", p.right)) <=> on(NotOf(BinaryOp(p.left, "Eq", p.right)))
       /\ nan => on(BinaryOp(p.left, "NotEq", p.right))
       /\ on(BinaryOp(p.left, "Lt", p.right)) <=> on(BinaryOp(p.right, "Gt", p.left))
  BY <1>11, <1>14, <1>16, Zenon
<1> QED BY <1>13, <1>17, Zenon DEF on, v, l, r

LEMMA SplitsInThree ==
    ASSUME NEW all, NEW A, NEW B, NEW C, A \cup B \cup C = all,
           A \cap B = {}, A \cap C = {}, B \cap C = {}
    PROVE  Splits(all, <<A, B, C>>)
<1> DEFINE parts == <<A, B, C>>
<1>1. DOMAIN parts = {1, 2, 3} /\ parts[1] = A /\ parts[2] = B /\ parts[3] = C
  OBVIOUS
<1> HIDE DEF parts
<1>2. UNION {parts[k] : k \in DOMAIN parts} = all
  <2>1. {parts[k] : k \in DOMAIN parts} = {A, B, C}
    BY <1>1
  <2>2. UNION {A, B, C} = all
    OBVIOUS
  <2> QED BY <2>1, <2>2
<1>3. \A j, k \in DOMAIN parts : j # k => parts[j] \cap parts[k] = {}
  <2>1. B \cap A = {} /\ C \cap A = {} /\ C \cap B = {}
    OBVIOUS
  <2> QED BY <1>1, <2>1
<1> QED BY <1>2, <1>3 DEF Splits, parts

\* The statement's WHERE clause, on the rows of its table.
LEMMA WhereIs ==
    ASSUME TablesOK, PlanOK, plan.op = "Select", plan.filter # <<>>
    PROVE  LET p == stmt.selection[1]
           IN  /\ DOMAIN Table.columns \subseteq Nat
               /\ p \in SqlExprs /\ ~ IsRefused(parse_expr(p, Table))
               /\ \A row : Condition(plan.filter, row) = ValueOn(build, p, Table, row)
               /\ \A n \in DOMAIN rows[plan.table] :
                     LET row == rows[plan.table][n]
                     IN  /\ \A k \in DOMAIN row : row[k] \in Value
                         /\ ValueOn(build, p, Table, row) \in Outcome
<1> DEFINE p == stmt.selection[1]
<1>1. /\ DOMAIN Table.columns \subseteq Nat
      /\ p \in SqlExprs /\ plan.filter[1] = parse_expr(p, Table) /\ ~ IsRefused(plan.filter[1])
  BY SelectPlan
<1>2. \A row : Condition(plan.filter, row) = ValueOn(build, p, Table, row)
  BY <1>1 DEF Condition, ValueOn
<1>3. \A n \in DOMAIN rows[plan.table] :
         \A k \in DOMAIN rows[plan.table][n] : rows[plan.table][n][k] \in Value
  BY RowsAreRead
<1>4. \A n \in DOMAIN rows[plan.table] : Condition(plan.filter, rows[plan.table][n]) \in Outcome
  BY ConditionIs
<1> HIDE DEF p
<1>5. \A n \in DOMAIN rows[plan.table] : ValueOn(build, p, Table, rows[plan.table][n]) \in Outcome
  BY <1>2, <1>4
<1> QED BY <1>1, <1>2, <1>3, <1>5 DEF p

\* The rows that a scan has returned, once it is done.
LEMMA ScanIsDone ==
    ASSUME IInv, phase = "Done", plan.op = "Select", plan.filter # <<>>
    PROVE  LET p == stmt.selection[1]
           IN  /\ Len(out) = Cardinality(Kept(p))
               /\ \A n \in Kept(p) :
                     out[Cardinality(Kept(p) \cap (1 .. n))] = Projected(rows[plan.table][n])
               /\ \A n \in DOMAIN rows[plan.table] :
                     Logical(ValueOn(build, p, Table, rows[plan.table][n]))
<1> DEFINE p   == stmt.selection[1]
           all == rows[plan.table]
<1>1. TablesOK /\ PlanOK /\ ScanOK
  BY DEF IInv
<1>2. \A row : Condition(plan.filter, row) = ValueOn(build, p, Table, row)
  BY <1>1, WhereIs
<1>3. all \in Seq(RowsOf(Columns)) /\ Len(all) \in Nat /\ DOMAIN all = 1 .. Len(all)
  BY <1>1, SelectPlan DEF TablesOK, Columns
<1>4. next_row = Len(all) + 1 /\ (Len(all) + 1) - 1 = Len(all)
  BY <1>1, <1>3 DEF ScanOK
<1>5. TrueBefore(next_row) = {n \in DOMAIN all : IsTrue(ValueOn(build, p, Table, all[n]))}
  BY <1>2, <1>3, <1>4 DEF TrueBefore
<1>6. Kept(p) = {n \in DOMAIN all : IsTrue(ValueOn(build, p, Table, all[n]))}
  BY DEF Kept, ValueOn
<1>7. TrueBefore(next_row) = Kept(p)
  BY <1>5, <1>6
<1>8. \A n \in DOMAIN all : Logical(ValueOn(build, p, Table, all[n]))
  BY <1>1, <1>2, <1>3, <1>4 DEF ScanOK
<1>9. /\ Len(out) = Cardinality(TrueBefore(next_row))
      /\ \A k \in TrueBefore(next_row) :
            out[Cardinality(TrueBefore(next_row) \cap (1 .. k))] = Projected(all[k])
  BY <1>1 DEF ScanOK
<1> QED BY <1>7, <1>8, <1>9

LEMMA KeptIs ==
    \A t : Kept(t) = {n \in DOMAIN rows[plan.table] :
                         IsTrue(ValueOn(build, t, Table, rows[plan.table][n]))}
BY DEF Kept, ValueOn

LEMMA NaNsAre ==
    \A t : AreNaN(t) = {n \in DOMAIN rows[plan.table] :
                           IsNaN(ValueOn(build, t, Table, rows[plan.table][n]))}
BY DEF AreNaN, IsNaN, ValueOn

LEMMA KeptSplits ==
    ASSUME IInv, phase = "Done", plan.op = "Select", plan.filter # <<>>
    PROVE  LET p == stmt.selection[1]
           IN  Splits(DOMAIN rows[plan.table], <<Kept(p), Kept(NotOf(p)), Kept(IsNullOf(p))>>)
<1> DEFINE p    == stmt.selection[1]
           D    == DOMAIN rows[plan.table]
           v(n) == ValueOn(build, p, Table, rows[plan.table][n])
           m    == MaxNesting - 2
<1>1. /\ DOMAIN Table.columns \subseteq Nat
      /\ p \in Written[m] /\ ~ IsRefused(parse_expr(p, Table))
      /\ \A n \in D : v(n) \in Outcome
  BY WhereIs DEF IInv, SqlExprs
<1>2. m \in 0 .. MaxNesting - 1
  BY Bounds
<1>3. \A n \in D : Logical(v(n))
  BY ScanIsDone
<1>4. \A n \in D : /\ ValueOn(build, NotOf(p), Table, rows[plan.table][n]) = Unary("Not", v(n))
                   /\ ValueOn(build, IsNullOf(p), Table, rows[plan.table][n]) = Unary("IsNull", v(n))
  <2> HIDE DEF m, p
  <2> QED BY <1>1, <1>2, UnaryClauses
<1>5. /\ Kept(p) = {n \in D : IsTrue(v(n))}
      /\ Kept(NotOf(p)) = {n \in D : IsTrue(Unary("Not", v(n)))}
      /\ Kept(IsNullOf(p)) = {n \in D : IsTrue(Unary("IsNull", v(n)))}
  BY <1>4, KeptIs
<1> HIDE DEF v, D, p
<1>6. \A n \in D :
         /\ IsTrue(v(n)) \/ IsTrue(Unary("Not", v(n))) \/ IsTrue(Unary("IsNull", v(n)))
         /\ ~ (IsTrue(v(n)) /\ IsTrue(Unary("Not", v(n))))
         /\ ~ (IsTrue(v(n)) /\ IsTrue(Unary("IsNull", v(n))))
         /\ ~ (IsTrue(Unary("Not", v(n))) /\ IsTrue(Unary("IsNull", v(n))))
  BY <1>1, <1>3, OneOfThree, Zenon
<1>7. /\ Kept(p) \cup Kept(NotOf(p)) \cup Kept(IsNullOf(p)) = D
      /\ Kept(p) \cap Kept(NotOf(p)) = {}
      /\ Kept(p) \cap Kept(IsNullOf(p)) = {}
      /\ Kept(NotOf(p)) \cap Kept(IsNullOf(p)) = {}
  BY <1>5, <1>6
<1> QED BY <1>7, SplitsInThree DEF D, p

LEMMA KeptNegates ==
    ASSUME IInv, phase = "Done", plan.op = "Select", plan.filter # <<>>
    PROVE  Negates(stmt.selection[1])
<1> DEFINE p     == stmt.selection[1]
           D     == DOMAIN rows[plan.table]
           on(t, n) == IsTrue(ValueOn(build, t, Table, rows[plan.table][n]))
           dual  == BinaryOp(NotOf(p.left), IF p.op = "And" THEN "Or" ELSE "And", NotOf(p.right))
<1> SUFFICES ASSUME p.node = "BinaryOp", p.op \in {"And", "Or"} PROVE Kept(NotOf(p)) = Kept(dual)
  BY DEF Negates
<1>1. /\ DOMAIN Table.columns \subseteq Nat
      /\ p \in SqlExprs /\ ~ IsRefused(parse_expr(p, Table))
      /\ \A n \in D : \A k \in DOMAIN rows[plan.table][n] : rows[plan.table][n][k] \in Value
  BY WhereIs DEF IInv
<1>2. \A n \in D : Logical(ValueOn(build, p, Table, rows[plan.table][n]))
  BY ScanIsDone
<1> HIDE DEF p
<1>3. \A n \in D : on(NotOf(p), n) <=> on(dual, n)
  <2> TAKE n \in D
  <2> DEFINE row == rows[plan.table][n]
  <2>1. (\A k \in DOMAIN row : row[k] \in Value) /\ Logical(ValueOn(build, p, Table, row))
    BY <1>1, <1>2
  <2> HIDE DEF row
  <2>2. IsTrue(ValueOn(build, NotOf(p), Table, row)) <=> IsTrue(ValueOn(build, dual, Table, row))
    BY <1>1, <2>1, NegatesOn
  <2> QED BY <2>2 DEF row
<1>4. Kept(NotOf(p)) = {n \in D : on(NotOf(p), n)} /\ Kept(dual) = {n \in D : on(dual, n)}
  BY KeptIs
<1> HIDE DEF on, dual, D
<1> QED BY <1>3, <1>4

LEMMA KeptCompares ==
    ASSUME IInv, phase = "Done", plan.op = "Select", plan.filter # <<>>
    PROVE  Compares(stmt.selection[1])
<1> DEFINE p     == stmt.selection[1]
           D     == DOMAIN rows[plan.table]
           v(t, n)  == ValueOn(build, t, Table, rows[plan.table][n])
           is(o)    == Kept(BinaryOp(p.left, o, p.right))
           non(o)   == Kept(NotOf(BinaryOp(p.left, o, p.right)))
           known    == Kept(NotOf(IsNullOf(p)))
           nan      == (AreNaN(p.left) \cup AreNaN(p.right)) \cap known
           converse == Kept(BinaryOp(p.right, "Gt", p.left))
<1> SUFFICES ASSUME p.node = "BinaryOp", p.op \in ComparisonOps
             PROVE  /\ Splits(known \ nan, <<is("Lt"), is("Eq"), is("Gt")>>)
                    /\ is("GtEq") = non("Lt") \ nan
                    /\ is("LtEq") = non("Gt") \ nan
                    /\ is("NotEq") = non("Eq") /\ nan \subseteq is("NotEq")
                    /\ is("Lt") = converse
  BY DEF Compares, ComparisonOps
<1>1. /\ DOMAIN Table.columns \subseteq Nat
      /\ p \in SqlExprs /\ ~ IsRefused(parse_expr(p, Table))
      /\ \A n \in D : \A k \in DOMAIN rows[plan.table][n] : rows[plan.table][n][k] \in Value
  BY WhereIs DEF IInv
<1>2. \A n \in D : Logical(v(p, n))
  BY ScanIsDone
<1>3. /\ \A t : Kept(t) = {n \in D : IsTrue(v(t, n))}
      /\ \A t : AreNaN(t) = {n \in D : IsNaN(v(t, n))}
  BY KeptIs, NaNsAre
<1>4. /\ \A t : Kept(t) \subseteq D
      /\ \A t : \A n \in D : n \in Kept(t) <=> IsTrue(v(t, n))
      /\ \A t : \A n \in D : n \in AreNaN(t) <=> IsNaN(v(t, n))
  BY <1>3
<1> HIDE DEF p
<1>5. \A n \in D :
         /\ n \in is("Lt") \/ n \in is("Eq") \/ n \in is("Gt") <=> n \in known /\ n \notin nan
         /\ ~ (n \in is("Lt") /\ n \in is("Eq"))
         /\ ~ (n \in is("Lt") /\ n \in is("Gt"))
         /\ ~ (n \in is("Eq") /\ n \in is("Gt"))
         /\ n \in is("GtEq") <=> n \in non("Lt") /\ n \notin nan
         /\ n \in is("LtEq") <=> n \in non("Gt") /\ n \notin nan
         /\ n \in is("NotEq") <=> n \in non("Eq")
         /\ n \in nan => n \in is("NotEq")
         /\ n \in is("Lt") <=> n \in converse
  <2> TAKE n \in D
  <2> DEFINE row  == rows[plan.table][n]
             on(t)  == IsTrue(ValueOn(build, t, Table, row))
             isOn(o)  == on(BinaryOp(p.left, o, p.right))
             nonOn(o) == on(NotOf(BinaryOp(p.left, o, p.right)))
             knownOn  == on(NotOf(IsNullOf(p)))
             nanOn    == /\ \/ IsNaN(ValueOn(build, p.left, Table, row))
                            \/ IsNaN(ValueOn(build, p.right, Table, row))
                         /\ knownOn
  <2>1. (\A k \in DOMAIN row : row[k] \in Value) /\ Logical(ValueOn(build, p, Table, row))
    BY <1>1, <1>2
  <2>2. /\ \A o : n \in is(o) <=> isOn(o)
        /\ \A o : n \in non(o) <=> nonOn(o)
        /\ n \in known <=> knownOn
        /\ n \in nan <=> nanOn
        /\ n \in converse <=> on(BinaryOp(p.right, "Gt", p.left))
    BY <1>4
  <2> HIDE DEF row
  <2>3. /\ isOn("Lt") \/ isOn("Eq") \/ isOn("Gt") <=> knownOn /\ ~ nanOn
        /\ ~ (isOn("Lt") /\ isOn("Eq")) /\ ~ (isOn("Lt") /\ isOn("Gt")) /\ ~ (isOn("Eq") /\ isOn("Gt"))
        /\ isOn("GtEq") <=> nonOn("Lt") /\ ~ nanOn
        /\ isOn("LtEq") <=> nonOn("Gt") /\ ~ nanOn
        /\ isOn("NotEq") <=> nonOn("Eq")
        /\ nanOn => isOn("NotEq")
        /\ isOn("Lt") <=> on(BinaryOp(p.right, "Gt", p.left))
    BY <1>1, <2>1, ComparesOn
  <2> HIDE DEF on, isOn, nonOn, knownOn, nanOn, is, non, known, nan, converse
  <2> QED BY <2>2, <2>3, Zenon
<1>6. /\ \A o : is(o) \subseteq D /\ non(o) \subseteq D
      /\ known \subseteq D /\ nan \subseteq D /\ converse \subseteq D
  BY <1>4
<1> HIDE DEF is, non, known, nan, converse, D
<1>7. Splits(known \ nan, <<is("Lt"), is("Eq"), is("Gt")>>)
  <2>1. /\ is("Lt") \cup is("Eq") \cup is("Gt") = known \ nan
        /\ is("Lt") \cap is("Eq") = {} /\ is("Lt") \cap is("Gt") = {} /\ is("Eq") \cap is("Gt") = {}
    BY <1>5, <1>6
  <2> QED BY <2>1, SplitsInThree
<1>8. /\ is("GtEq") = non("Lt") \ nan
      /\ is("LtEq") = non("Gt") \ nan
      /\ is("NotEq") = non("Eq") /\ nan \subseteq is("NotEq")
      /\ is("Lt") = converse
  BY <1>5, <1>6
<1> QED BY <1>7, <1>8

\* Three-valued logic: what a SELECT returns are the rows that its WHERE clause
\* is true of, in their order; those, the rows of NOT and the rows of IS NULL
\* split the table; De Morgan's laws hold; and the six comparisons, three of them
\* bound as two operators, are of one order (expr.rs, parse_binary_expr).
THEOREM ClausesObeyLogic == Spec => []WhereObeysLogic
<1>1. ASSUME IInv PROVE WhereObeysLogic
  <2> SUFFICES ASSUME phase = "Done", plan.op = "Select", plan.filter # <<>>
               PROVE  LET p == stmt.selection[1]
                      IN  /\ Len(out) = Cardinality(Kept(p))
                          /\ \A n \in Kept(p) : out[Cardinality(Kept(p) \cap (1 .. n))] =
                                                   Projected(rows[plan.table][n])
                          /\ Splits(DOMAIN rows[plan.table],
                                    <<Kept(p), Kept(NotOf(p)), Kept(IsNullOf(p))>>)
                          /\ Negates(p)
                          /\ Compares(p)
    BY DEF WhereObeysLogic
  <2> QED BY <1>1, ScanIsDone, KeptSplits, KeptNegates, KeptCompares
<1> QED BY <1>1, QueryIsSafe, PTL

-----------------------------------------------------------------------------
(* Names                                                                   *)

\* A name finds a column just if one column has it.
LEMMA ResolvesOne ==
    ASSUME NEW name, NEW columns, IsColumns(columns)
    PROVE  LET named == {k \in DOMAIN columns : columns[k].name = name}
               found == Cardinality(named) = 1
               c     == resolve_column(name, columns)
           IN  /\ IsRefused(c) <=> ~ found
               /\ found => \A k \in named : c = AttrRef(k)
<1> DEFINE named == {k \in DOMAIN columns : columns[k].name = name}
           c     == resolve_column(name, columns)
<1>1. c = IF Cardinality(named) = 1 THEN AttrRef(CHOOSE k \in named : TRUE) ELSE Refused("ParseError")
  BY DEF resolve_column
<1>2. IsRefused(Refused("ParseError")) /\ \A k : ~ IsRefused(AttrRef(k))
  BY DEF IsRefused, Refused, AttrRef
<1>3. IsFiniteSet(named)
  <2>1. IsFiniteSet(1 .. Len(columns)) /\ named \subseteq 1 .. Len(columns)
    BY FS_Interval DEF IsColumns
  <2> QED BY <2>1, FS_Subset
<1>4. ASSUME Cardinality(named) = 1, NEW k \in named PROVE c = AttrRef(k)
  <2> HIDE DEF named
  <2>1. PICK x : named = {x}
    BY <1>3, <1>4, FS_Singleton
  <2>2. (CHOOSE j \in named : TRUE) = k
    BY <2>1, <1>4
  <2> QED BY <1>1, <1>4, <2>2
<1> HIDE DEF named, c
<1> QED BY <1>1, <1>2, <1>4 DEF named, c

\* The column that a name, or table.name, is bound to.
LEMMA ItemIs ==
    ASSUME NEW item \in SqlExprs, NEW all, NEW name \in DOMAIN all, IsColumns(all[name]),
           \/ item.node = "Identifier"
           \/ item.node = "CompoundIdentifier" /\ Len(item.idents) = 2
    PROVE  LET sought == IF item.node = "Identifier" THEN item.ident.value ELSE item.idents[2].value
               named  == {k \in DOMAIN all[name] : all[name][k].name = sought}
               found  == /\ Cardinality(named) = 1
                         /\ item.node = "Identifier" \/ item.idents[1].value = name
               c      == parse_expr(item, TableOf(all, name))
           IN  /\ IsRefused(c) <=> ~ found
               /\ found => \A k \in named : c = AttrRef(k)
<1> DEFINE table   == TableOf(all, name)
           sought  == IF item.node = "Identifier" THEN item.ident.value ELSE item.idents[2].value
           named   == {k \in DOMAIN all[name] : all[name][k].name = sought}
           mine    == item.idents[1].value = name
           c       == parse_expr(item, table)
<1>1. item \in SyntaxTrees
  <2>1. MaxNesting - 2 \in 0 .. MaxNesting /\ MaxNesting \in 0 .. MaxNesting
    BY Bounds
  <2>2. Written[MaxNesting - 2] \subseteq Written[MaxNesting]
    BY <2>1, WrittenGrows
  <2> QED BY <2>2 DEF SqlExprs, SyntaxTrees
<1>2. table.columns = all[name] /\ table.name = name
  BY DEF TableOf
<1>3. /\ IsRefused(resolve_column(sought, all[name])) <=> ~ (Cardinality(named) = 1)
      /\ Cardinality(named) = 1 => \A k \in named : resolve_column(sought, all[name]) = AttrRef(k)
  BY ResolvesOne
<1>4. CASE item.node = "Identifier"
  <2>1. c = resolve_column(item.ident.value, all[name])
    BY <1>1, <1>2, <1>4, Parses
  <2>2. item.ident.value = sought
    BY <1>4
  <2> HIDE DEF sought, named, c
  <2> QED BY <1>3, <1>4, <2>1, <2>2 DEF sought, named, c
<1>5. CASE item.node = "CompoundIdentifier" /\ Len(item.idents) = 2
  <2>1. c = resolve_compound_column(item.idents, table)
    BY <1>1, <1>5, Parses
  <2>2. item.idents[2].value = sought /\ (item.idents[1].value = table.name <=> mine)
    BY <1>2, <1>5
  <2>3. item.node # "Identifier"
    BY <1>5
  <2>4. CASE mine
    <3>1. c = resolve_column(item.idents[2].value, table.columns)
      BY <1>5, <2>1, <2>2, <2>4 DEF resolve_compound_column
    <3>2. c = resolve_column(sought, all[name])
      BY <1>2, <2>2, <3>1
    <3> HIDE DEF sought, named, c, mine
    <3> QED BY <1>3, <2>4, <3>2 DEF sought, named, c, mine
  <2>5. CASE ~ mine
    <3>1. c = Refused("ParseError")
      BY <1>5, <2>1, <2>2, <2>5 DEF resolve_compound_column
    <3>2. IsRefused(c)
      BY <3>1, SMTT(30) DEF IsRefused, Refused
    <3> QED BY <2>3, <2>5, <3>2
  <2> QED BY <2>4, <2>5
<1> QED BY <1>4, <1>5

\* What a statement that asks for one name is bound to.
LEMMA OneNameIs ==
    ASSUME NEW s \in Syntax, s.node = "Query", SelectsOneName(s), NEW all,
           \A t \in DOMAIN all : IsColumns(all[t])
    PROVE  LET item   == s.items[1]
               name   == table_name(s.from[1].name)
               sought == IF item.node = "Identifier" THEN item.ident.value ELSE item.idents[2].value
               named  == {k \in DOMAIN all[name] : all[name][k].name = sought}
               found  == /\ name \in DOMAIN all
                         /\ Cardinality(named) = 1
                         /\ item.node = "Identifier" \/ item.idents[1].value = name
               q      == bind(s, all)
           IN  /\ IsRefused(q) <=> ~ found
               /\ found => /\ q.op = "Select" /\ q.table = name /\ q.filter = <<>>
                           /\ \A k \in named : q.cols = <<AttrRef(k)>>
<1> DEFINE item   == s.items[1]
           name   == table_name(s.from[1].name)
           sought == IF item.node = "Identifier" THEN item.ident.value ELSE item.idents[2].value
           named  == {k \in DOMAIN all[name] : all[name][k].name = sought}
           mine   == item.node = "Identifier" \/ item.idents[1].value = name
           one    == Cardinality(named) = 1
           q      == bind(s, all)
           table  == TableOf(all, name)
           cols   == parse_projection(s.items, table)
           w      == Each(s.selection, table)
           c      == parse_expr(item, table)
<1>1. /\ s.items \in Seq(SqlExprs) /\ Len(s.items) = 1 /\ s.selection = <<>>
      /\ Len(s.from) = 1 /\ s.from[1].node = "Table"
      /\ item.node = "Identifier" \/ (item.node = "CompoundIdentifier" /\ Len(item.idents) = 2)
  BY DEF Syntax, SelectsOneName
<1>2. item \in SqlExprs /\ DOMAIN s.items = {1}
  BY <1>1
<1>3. /\ IsRefused(q) <=> name \notin DOMAIN all \/ IsRefused(cols) \/ IsRefused(w)
      /\ ~ IsRefused(q) => q.op = "Select" /\ q.table = name /\ q.cols = cols.args /\ q.filter = w.args
  BY <1>1, SelectIs
<1>4. ~ IsRefused(w) /\ w.args = <<>>
  <2>1. <<>> \in Seq(SqlExprs) /\ DOMAIN <<>> = {}
    OBVIOUS
  <2>2. /\ IsRefused(Each(<<>>, table)) <=> \E k \in DOMAIN <<>> : IsRefused(parse_expr(<<>>[k], table))
        /\ ~ IsRefused(Each(<<>>, table)) =>
              Each(<<>>, table).args = [k \in DOMAIN <<>> |-> parse_expr(<<>>[k], table)]
    BY <2>1, EachIs
  <2>3. [k \in DOMAIN <<>> |-> parse_expr(<<>>[k], table)] = <<>>
    BY <2>1
  <2> HIDE DEF table
  <2> QED BY <1>1, <2>1, <2>2, <2>3
<1>5. /\ IsRefused(cols) <=> IsRefused(c)
      /\ ~ IsRefused(cols) => cols.args = <<c>>
  <2> DEFINE bound == [k \in DOMAIN s.items |-> parse_expr(s.items[k], table)]
             fails == \E k \in DOMAIN s.items : IsRefused(parse_expr(s.items[k], table))
  <2>1. \A k \in DOMAIN s.items : s.items[k].node # "Wildcard"
    BY <1>1, <1>2
  <2>2. /\ IsRefused(cols) <=> fails
        /\ ~ IsRefused(cols) => cols.args = bound
    BY <1>1, <2>1, ProjectionIs
  <2>3. fails <=> IsRefused(c)
    BY <1>2
  <2>4. bound = <<c>>
    <3> HIDE DEF c, table
    <3>1. bound = [k \in {1} |-> c]
      BY <1>2, SMTT(30) DEF c
    <3> QED BY <3>1
  <2> HIDE DEF bound, fails, c, cols
  <2> QED BY <2>2, <2>3, <2>4
<1>6. ASSUME name \in DOMAIN all
      PROVE  /\ IsRefused(c) <=> ~ (one /\ mine)
             /\ one /\ mine => \A k \in named : c = AttrRef(k)
  <2>1. IsColumns(all[name])
    BY <1>6
  <2> QED BY <1>1, <1>2, <1>6, <2>1, ItemIs, ZenonT(40)
<1> HIDE DEF item, name, sought, named, mine, one, q, table, cols, w, c
<1>7. /\ IsRefused(q) <=> ~ (name \in DOMAIN all /\ one /\ mine)
      /\ name \in DOMAIN all /\ one /\ mine =>
            /\ q.op = "Select" /\ q.table = name /\ q.filter = <<>>
            /\ \A k \in named : q.cols = <<AttrRef(k)>>
  BY <1>3, <1>4, <1>5, <1>6
<1> QED BY <1>7 DEF item, name, sought, named, mine, one, q

\* A scan of one column without a condition returns the column.
LEMMA ColumnIsRead ==
    ASSUME IInv, phase = "Done", plan.op = "Select", plan.filter = <<>>,
           NEW k \in DOMAIN Columns, plan.cols = <<AttrRef(k)>>
    PROVE  out = [n \in DOMAIN rows[plan.table] |-> <<rows[plan.table][n][k]>>]
<1> DEFINE all == rows[plan.table]
           N   == Len(all)
           P   == {Projected(all[n]) : n \in DOMAIN all}
<1>1. TablesOK /\ PlanOK /\ ScanOK
  BY DEF IInv
<1>2. all \in Seq(RowsOf(Columns)) /\ N \in Nat /\ DOMAIN all = 1 .. N /\ k \in Nat
  BY <1>1, SelectPlan DEF TablesOK, Columns, IsColumns
<1>3. \A n \in DOMAIN all : Projected(all[n]) = <<all[n][k]>>
  <2> TAKE n \in DOMAIN all
  <2> DEFINE row == all[n]
  <2>1. k \in DOMAIN row
    BY <1>1, RowsAreRead DEF OfColumns
  <2> HIDE DEF row
  <2>2. AttrRef(k) \in Expressions
    <3>1. AttrRef(k) \in Leaves
      BY <1>2 DEF AttrRef, Leaves
    <3> QED BY <3>1, PartsAreExpressions
  <2>3. evaluate(build, AttrRef(k), row) = row[k]
    <3>1. AttrRef(k).op = "AttrRef" /\ AttrRef(k).idx = k
      BY DEF AttrRef
    <3> QED BY <2>1, <2>2, <3>1, Evaluates
  <2>4. plan.cols # <<>> /\ DOMAIN plan.cols = {1} /\ plan.cols[1] = AttrRef(k)
    OBVIOUS
  <2>5. Projected(row) = [j \in {1} |-> row[k]]
    BY <2>3, <2>4 DEF Projected, Evaluated
  <2>6. [j \in {1} |-> row[k]] = <<row[k]>>
    OBVIOUS
  <2> QED BY <2>5, <2>6 DEF row
<1>4. \A row : IsTrue(Condition(plan.filter, row))
  BY DEF Condition, IsTrue, Boolean
<1>5. next_row - 1 = N
  BY <1>1, <1>2 DEF ScanOK
<1>6. TrueBefore(next_row) = 1 .. N
  BY <1>4, <1>5 DEF TrueBefore
<1>7. \A n \in 0 .. N : Cardinality(1 .. n) = n
  <2> SUFFICES ASSUME NEW n \in 0 .. N PROVE Cardinality(1 .. n) = n
    OBVIOUS
  <2> HIDE DEF N
  <2>1. n \in Int /\ n >= 0 /\ 1 \in Int
    BY <1>2
  <2>2. Cardinality(1 .. n) = IF 1 > n THEN 0 ELSE n - 1 + 1
    BY <2>1, FS_Interval, Zenon
  <2> QED BY <2>1, <2>2
<1>8. /\ out \in Seq(P) /\ Len(out) = Cardinality(TrueBefore(next_row))
      /\ \A n \in TrueBefore(next_row) :
            out[Cardinality(TrueBefore(next_row) \cap (1 .. n))] = Projected(all[n])
  BY <1>1 DEF ScanOK
<1>9. \A n \in 1 .. N : (1 .. N) \cap (1 .. n) = 1 .. n
  BY <1>2
<1> HIDE DEF P, N, all
<1>10. Len(out) = N
  BY <1>2, <1>6, <1>7, <1>8
<1>11. \A n \in 1 .. N : out[n] = Projected(all[n])
  BY <1>2, <1>6, <1>7, <1>8, <1>9
<1>12. out = [n \in 1 .. N |-> <<all[n][k]>>]
  BY <1>2, <1>3, <1>8, <1>10, <1>11
<1> QED BY <1>2, <1>12 DEF all

\* A column is found, with and without the table's name, just if one column of
\* the CREATE TABLE is displayed as the text that is looked for, and its values
\* come back, row by row (Binder::resolve_column, resolve_compound_column, and
\* what parse_col has stored).
THEOREM ColumnsAreFound == Spec => []NamesFindColumns
<1>1. ASSUME IInv, stmt.node = "Query", SelectsOneName(stmt)
      PROVE  LET item   == stmt.items[1]
                 name   == table_name(stmt.from[1].name)
                 sought == IF item.node = "Identifier" THEN item.ident.value
                                                       ELSE item.idents[2].value
                 columns == created[name].columns
                 named  == {k \in DOMAIN columns : to_string(columns[k].ident) = sought}
                 found  == /\ name \in DOMAIN created
                           /\ Cardinality(named) = 1
                           /\ item.node = "Identifier" \/ item.idents[1].value = name
             IN  /\ phase = "Refused" <=> ~ found
                 /\ phase = "Done" =>
                       \A k \in named : out = [n \in DOMAIN rows[name] |-> <<rows[name][n][k]>>]
  <2> DEFINE item   == stmt.items[1]
             name   == table_name(stmt.from[1].name)
             sought == IF item.node = "Identifier" THEN item.ident.value ELSE item.idents[2].value
             columns == created[name].columns
             meant  == {k \in DOMAIN columns : to_string(columns[k].ident) = sought}
             named  == {k \in DOMAIN tables[name] : tables[name][k].name = sought}
             mine   == item.node = "Identifier" \/ item.idents[1].value = name
             found  == name \in DOMAIN tables /\ Cardinality(named) = 1 /\ mine
  <2>1. TablesOK /\ PlanOK /\ NamesOK
    BY <1>1 DEF IInv
  <2>2. phase # "Idle"
    BY <1>1, <2>1 DEF PlanOK, None
  <2>3. stmt \in Syntax /\ plan = bind(stmt, tables) /\ (phase = "Refused" <=> IsRefused(plan))
    BY <2>1, <2>2, StatementsAssumption DEF PlanOK
  <2>4. \A t \in DOMAIN tables : IsColumns(tables[t])
    BY <2>1, SMTT(30) DEF TablesOK
  <2>5. /\ IsRefused(plan) <=> ~ found
        /\ found => /\ plan.op = "Select" /\ plan.table = name /\ plan.filter = <<>>
                    /\ \A k \in named : plan.cols = <<AttrRef(k)>>
    BY <1>1, <2>3, <2>4, OneNameIs
  <2>6. \A k \in named : k \in DOMAIN tables[name]
    OBVIOUS
  <2>7. /\ DOMAIN created = DOMAIN tables
        /\ name \in DOMAIN tables => meant = named
    <3> HIDE DEF sought, name
    <3> QED BY <2>1 DEF NamesOK
  <2> HIDE DEF named, meant, name, mine, columns
  <2>8. found <=> name \in DOMAIN created /\ Cardinality(meant) = 1 /\ mine
    BY <2>7, Zenon
  <2> HIDE DEF found
  <2>9. ASSUME phase = "Done", NEW k \in meant
        PROVE  out = [n \in DOMAIN rows[name] |-> <<rows[name][n][k]>>]
    <3>1. found
      BY <2>3, <2>5, <2>9
    <3>2. k \in named
      BY <2>7, <2>9, <3>1 DEF found
    <3>3. plan.op = "Select" /\ plan.table = name /\ plan.filter = <<>> /\ plan.cols = <<AttrRef(k)>>
      BY <2>5, <3>1, <3>2
    <3>4. k \in DOMAIN Columns
      BY <2>6, <3>2, <3>3 DEF Columns
    <3>5. out = [n \in DOMAIN rows[plan.table] |-> <<rows[plan.table][n][k]>>]
      BY <1>1, <2>9, <3>3, <3>4, ColumnIsRead
    <3> QED BY <3>3, <3>5
  <2>10. phase = "Refused" <=> ~ found
    BY <2>3, <2>5, SMTT(30)
  <2> QED BY <2>8, <2>9, <2>10 DEF meant, name, mine, columns
<1>2. ASSUME IInv PROVE NamesFindColumns
  BY <1>1, <1>2 DEF NamesFindColumns
<1> QED BY <1>2, QueryIsSafe, PTL
=============================================================================
