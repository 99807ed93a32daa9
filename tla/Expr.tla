-------------------------------- MODULE Expr --------------------------------
(***************************************************************************)
(* Values and expressions (src/src/value.rs, expr.rs).  `evaluate', which  *)
(* takes a tuple, and `evaluate_ref', which takes a stored record, have    *)
(* the same arms, and read the same values (AttrsAgree in TupleCodec).     *)
(* Both operands are evaluated, the left one first; an error or a panic of *)
(* the left one comes before the right one's.                              *)
(*                                                                         *)
(* Float is Floats!Float32, a VarChar is a sequence of numbers.  No        *)
(* statement makes a Blob: its arms are left out.                          *)
(***************************************************************************)
EXTENDS Sequences, Floats

CONSTANTS
    MaxInt,        \* an Int is in two's complement
    MaxNesting     \* bound: operators within operators, as they are written

ASSUME ExprAssumption == {MaxInt, MaxNesting} \subseteq Nat \ {0}

MinInt == - MaxInt - 1

Integer(n) == [type |-> "Int", v |-> n]
Float(x)   == [type |-> "Float", v |-> x]
VarChar(s) == [type |-> "VarChar", v |-> s]
Boolean(b) == [type |-> "Boolean", v |-> b]
Null       == [type |-> "Null", v |-> 0]

ValuesOf(type) ==
    CASE type = "Int"     -> [type : {"Int"}, v : MinInt .. MaxInt]
      [] type = "Float"   -> [type : {"Float"}, v : Float32]
      [] type = "VarChar" -> [type : {"VarChar"}, v : Seq(Nat)]
      [] type = "Boolean" -> [type : {"Boolean"}, v : BOOLEAN]
      [] type = "Null"    -> {Null}
      [] OTHER            -> {}

Value ==
    ValuesOf("Int") \cup ValuesOf("Float") \cup ValuesOf("VarChar") \cup ValuesOf("Boolean")
    \cup ValuesOf("Null")

\* What an evaluation ends in when it ends in no value.
Err(kind)  == [type |-> "Err", v |-> kind]
Panic      == [type |-> "Panic", v |-> 0]

Fails(x)   == x.type \in {"Err", "Panic"}
IsNull(x)  == x.type = "Null"
Is(type, l, r) == l.type = type /\ r.type = type

\* Both are numbers, and one of them is a Float: compared and computed as such.
MeetAsFloats(l, r) ==
    {l.type, r.type} \in {{"Float"}, {"Int", "Float"}}

AsFloat(x) == IF x.type = "Int" THEN FromInt(x.v) ELSE x.v

-----------------------------------------------------------------------------
(* Comparisons *)

Comparable(l, r) == l.type = r.type \/ MeetAsFloats(l, r)

SameValue(l, r) ==
    IF MeetAsFloats(l, r) THEN Equals(AsFloat(l), AsFloat(r)) ELSE l.v = r.v

\* The order of strings.
Earlier(s, t) ==
    \E n \in 0 .. Len(s) :
        /\ n < Len(t)
        /\ \A k \in 1 .. n : s[k] = t[k]
        /\ n = Len(s) \/ s[n + 1] < t[n + 1]

Greater(l, r) ==
    \/ MeetAsFloats(l, r) /\ Above(AsFloat(l), AsFloat(r))
    \/ Is("Int", l, r) /\ l.v > r.v
    \/ Is("Boolean", l, r) /\ l.v /\ ~ r.v
    \/ Is("VarChar", l, r) /\ Earlier(r.v, l.v)

\* `holds', where the operands can be compared.
Compare(l, r, holds) ==
    IF IsNull(l) \/ IsNull(r) THEN Null
    ELSE IF Comparable(l, r) THEN Boolean(holds)
    ELSE Err("InvalidComparison")

-----------------------------------------------------------------------------
(* Logic: NULL is unknown. *)

Logical(x) == x.type \in {"Boolean", "Null"}
IsTrue(x)  == x.type = "Boolean" /\ x.v
IsFalse(x) == x.type = "Boolean" /\ ~ x.v

And(l, r) ==
    IF ~ (Logical(l) /\ Logical(r)) THEN Err("InvalidComparison")
    ELSE IF IsFalse(l) \/ IsFalse(r) THEN Boolean(FALSE)
    ELSE IF IsNull(l) \/ IsNull(r) THEN Null
    ELSE Boolean(TRUE)

Or(l, r) ==
    IF ~ (Logical(l) /\ Logical(r)) THEN Err("InvalidComparison")
    ELSE IF IsTrue(l) \/ IsTrue(r) THEN Boolean(TRUE)
    ELSE IF IsNull(l) \/ IsNull(r) THEN Null
    ELSE Boolean(FALSE)

\* Mutant: what is not true is false.
Not_NullIsFalse(x) ==
    CASE x.type = "Boolean" -> Boolean(~ x.v)
      [] IsNull(x)          -> Boolean(TRUE)
      [] OTHER              -> Err("InvalidComparison")

Not(x) ==
    CASE x.type = "Boolean" -> Boolean(~ x.v)
      [] IsNull(x)          -> Null
      [] OTHER              -> Err("InvalidComparison")

-----------------------------------------------------------------------------
(* Arithmetic *)

Wrapped(n) == MinInt + ((n - MinInt) % (MaxInt - MinInt + 1))

\* An overflow panics in a debug build and wraps in a release build.
Computed(build, n) ==
    IF n \in MinInt .. MaxInt THEN Integer(n)
    ELSE IF build = "debug" THEN Panic
    ELSE Integer(Wrapped(n))

Magnitude(n) == IF n < 0 THEN - n ELSE n

\* Mutant: a division by zero gives NULL.
DivideInts_NullByZero(l, r) ==
    IF r = 0 THEN Null
    ELSE IF l = MinInt /\ r = -1 THEN Panic
    ELSE LET q == Magnitude(l) \div Magnitude(r)
         IN  Integer(IF (l < 0) = (r < 0) THEN q ELSE - q)

\* Zero, and the one quotient that overflows, panic in every build.
DivideInts(l, r) ==
    IF r = 0 \/ (l = MinInt /\ r = -1) THEN Panic
    ELSE LET q == Magnitude(l) \div Magnitude(r)
         IN  Integer(IF (l < 0) = (r < 0) THEN q ELSE - q)

OnInts(build, op, l, r) ==
    CASE op = "Add"      -> Computed(build, l + r)
      [] op = "Subtract" -> Computed(build, l - r)
      [] op = "Multiply" -> Computed(build, l * r)
      [] op = "Divide"   -> DivideInts(l, r)

OnFloats(op, x, y) ==
    CASE op = "Add"      -> Plus(x, y)
      [] op = "Subtract" -> Minus(x, y)
      [] op = "Multiply" -> Times(x, y)
      [] op = "Divide"   -> Quotient(x, y)

\* Only Add takes strings.
Compute(build, op, l, r) ==
    IF IsNull(l) \/ IsNull(r) THEN Null
    ELSE IF Is("Int", l, r) THEN OnInts(build, op, l.v, r.v)
    ELSE IF MeetAsFloats(l, r) THEN Float(OnFloats(op, AsFloat(l), AsFloat(r)))
    ELSE IF op = "Add" /\ Is("VarChar", l, r) THEN VarChar(l.v \o r.v)
    ELSE Err("InvalidComparison")

-----------------------------------------------------------------------------
(* evaluate, evaluate_ref.  A bound expression has an op and args; LIKE is  *)
(* todo!() in the code and is never bound.                                 *)

UnaryOps  == {"Not", "IsNull", "IsNotNull"}
BinaryOps == {"And", "Or", "Equal", "GreaterThan", "LessThan",
              "Add", "Subtract", "Multiply", "Divide"}

Leaves == [op : {"Constant"}, value : Value] \cup [op : {"AttrRef"}, idx : Nat]

Applications(args) ==
    [op : UnaryOps, args : [1 .. 1 -> args]] \cup [op : BinaryOps, args : [1 .. 2 -> args]]

\* The bound expressions of at most n operators within each other.
Nested[n \in 0 .. 2 * MaxNesting] ==
    Leaves \cup (IF n = 0 THEN {} ELSE Applications(Nested[n - 1]))

\* The binder makes two operators of one.
Expressions == Nested[2 * MaxNesting]

Unary(op, x) ==
    IF Fails(x) THEN x
    ELSE CASE op = "Not"       -> Not(x)
           [] op = "IsNull"    -> Boolean(IsNull(x))
           [] op = "IsNotNull" -> Boolean(~ IsNull(x))

Binary(build, op, l, r) ==
    IF Fails(l) THEN l
    ELSE IF Fails(r) THEN r
    ELSE CASE op = "And"         -> And(l, r)
           [] op = "Or"          -> Or(l, r)
           [] op = "Equal"       -> Compare(l, r, SameValue(l, r))
           [] op = "GreaterThan" -> Compare(l, r, Greater(l, r))
           [] op = "LessThan"    -> Compare(l, r, Greater(r, l))
           [] OTHER              -> Compute(build, op, l, r)

NoTuple == <<>>

\* A column of no tuple is unwrapped.
evaluate(build, expr, tuple) ==
    LET value[e \in Expressions] ==
            CASE e.op = "Constant" -> e.value
              [] e.op = "AttrRef"  -> IF e.idx \in DOMAIN tuple THEN tuple[e.idx] ELSE Panic
              [] e.op \in UnaryOps -> Unary(e.op, value[e.args[1]])
              [] OTHER -> Binary(build, e.op, value[e.args[1]], value[e.args[2]])
    IN  value[expr]
=============================================================================
