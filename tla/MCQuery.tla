------------------------------- MODULE MCQuery -------------------------------
(***************************************************************************)
(* Query for TLC: Ints of four bits, Floats of two significant bits.       *)
(* Tables named t and "t".u, columns with and without quotes in their     *)
(* names; every WHERE clause of one operator on atoms, and a choice of     *)
(* those of two.                                                           *)
(***************************************************************************)
EXTENDS Query

Id(c)        == [value |-> <<c>>, quote |-> "None"]
Quoted(text) == [value |-> text, quote |-> "DoubleQuote"]
Ticked(text) == [value |-> text, quote |-> "Backquote"]

\* A text in double quotes, as a text.
DQ          == "DoubleQuote"
WithDQ(text) == <<DQ>> \o text \o <<DQ>>

T  == <<Id("t")>>
TU == <<Quoted(<<"t">>), Id("u")>>
U  == <<Id("u")>>

Col(ident, type) == [ident |-> ident, data_type |-> type]

Name(ident)  == [node |-> "Identifier", ident |-> ident]
Of(t, c)     == [node |-> "CompoundIdentifier", idents |-> <<t, c>>]
Lit(value)   == [node |-> "Value", value |-> value]
Num(n)       == Lit([kind |-> "Number", whole |-> TRUE, units |-> n * Unit])
Halves(n)    == Lit([kind |-> "Number", whole |-> FALSE, units |-> n])
Text(s)      == Lit([kind |-> "String", v |-> s])
Truth(b)     == Lit([kind |-> "Boolean", v |-> b])
NullLit      == Lit([kind |-> "Null"])
Minus1(e)    == [node |-> "UnaryOp", op |-> "Minus", expr |-> e]

a == Name(Id("a"))
f == Name(Id("f"))

-----------------------------------------------------------------------------
Create(name, columns) == [node |-> "CreateTable", name |-> name, columns |-> columns]

\* The columns of the third table, a quote and a pair of quotes, are
\* displayed alike; the name in the last is too long.
Creates ==
    {Create(T, <<Col(Id("a"), "Int"), Col(Id("f"), "Float")>>),
     Create(TU, <<Col(Id("a"), "Varchar"), Col(Quoted(<<"f">>), "Int")>>),
     Create(T, <<Col(Quoted(<<DQ>>), "Varchar"), Col(Quoted(<<DQ, DQ>>), "Varchar")>>),
     Create(T, <<Col(Id("a"), "Boolean")>>),
     Create(T, <<Col(Quoted(WithDQ(<<"f">>)), "Int")>>)}

InsertInto(name, values) ==
    [node |-> "Insert", table |-> name, source |-> "Values", rows |-> <<values>>]

InsertStatements ==
    {InsertInto(T, v) :
        v \in {<<Num(5), Halves(8)>>,
               <<BinaryOp(Minus1(Num(7)), "Minus", Num(1)), BinaryOp(Num(0), "Divide", Halves(0))>>,
               <<Num(0), Minus1(Halves(0))>>,
               <<BinaryOp(Num(5), "Plus", Num(5)), Halves(40)>>,
               <<Num(8), Halves(3)>>,
               <<NullLit, a>>, <<Num(1), NullLit>>, <<Halves(1), NullLit>>, <<Num(1)>>,
               <<BinaryOp(Num(1), "Divide", Num(0)), Halves(1)>>,
               <<Text(<<1, 2>>), Text(<<>>)>>}}
    \cup {InsertInto(TU, <<Text(<<1>>), Num(3)>>),
          [node |-> "Insert", table |-> T, source |-> "Select", rows |-> <<>>],
          [node |-> "Insert", table |-> U, source |-> "Values", rows |-> <<<<a>>>>]}

-----------------------------------------------------------------------------
SelectFrom(name, items, selection) ==
    [node |-> "Query", from |-> <<[node |-> "Table", name |-> name]>>,
     items |-> items, selection |-> selection]

Wildcard == [node |-> "Wildcard"]

Arithmetic  == {"Plus", "Minus", "Multiply", "Divide"}
Comparisons == {"Eq", "NotEq", "Gt", "GtEq", "Lt", "LtEq"}
Connectives == {"And", "Or"}

Operands == {a, f, Num(5), Halves(8), Text(<<1>>), Truth(TRUE), NullLit}

OneOp ==
    {BinaryOp(l, op, r) : l, r \in Operands, op \in Arithmetic \cup Comparisons \cup Connectives}
    \cup {NotOf(e) : e \in Operands} \cup {IsNullOf(e) : e \in Operands}
    \cup {Minus1(e) : e \in Operands}

Conditions ==
    {BinaryOp(a, "Gt", f), BinaryOp(f, "LtEq", Num(2)), BinaryOp(a, "Eq", NullLit),
     IsNullOf(f), Truth(FALSE), NullLit, BinaryOp(a, "Divide", Num(5)),
     BinaryOp(BinaryOp(a, "Divide", a), "Lt", f)}

TwoOps ==
    {BinaryOp(l, op, r) : l, r \in Conditions, op \in Connectives}
    \cup {NotOf(p) : p \in Conditions}
    \cup {BinaryOp(BinaryOp(a, op, e), cmp, f) : op \in Arithmetic, cmp \in {"Eq", "GtEq"},
             e \in {Num(7), Minus1(Num(1)), f}}
    \cup {BinaryOp(BinaryOp(f, op, f), cmp, a) : op \in Arithmetic, cmp \in {"LtEq", "NotEq"}}
    \cup {BinaryOp(BinaryOp(NullLit, "And", p), "Eq", Num(5)) : p \in Conditions}

ColumnItems ==
    {Name(Id("a")), Name(Quoted(<<"a">>)), Name(Id("f")), Name(Id("b")),
     Name(Quoted(WithDQ(<<"f">>))), Name(Ticked(WithDQ(<<"f">>))),
     Name(Ticked(WithDQ(<<DQ, DQ>>))),
     Of(Id("t"), Id("a")), Of(Id("u"), Id("f")),
     Of(Quoted(<<"t">>), Id("a")), Of(Ticked(WithDQ(<<"t">>) \o <<"Dot", "u">>), Id("a"))}

FromNames == {T, TU, <<Ticked(<<"t">>), Id("u")>>, U}

Selects ==
    {SelectFrom(T, <<Wildcard>>, <<p>>) : p \in OneOp \cup TwoOps}
    \cup {SelectFrom(t, <<c>>, <<>>) : t \in FromNames, c \in ColumnItems}
    \cup {SelectFrom(T, <<f, BinaryOp(a, op, Num(7))>>, <<BinaryOp(f, "GtEq", Num(0))>>) :
             op \in Arithmetic \cup {"And", "Modulo"}}
    \cup {SelectFrom(T, <<a, Wildcard, [node |-> "Like"]>>, <<>>),
          SelectFrom(T, <<a, [node |-> "Like"]>>, <<>>),
          [node |-> "Query", from |-> <<>>, items |-> <<a>>, selection |-> <<>>],
          [node |-> "Query", from |-> <<[node |-> "Joins"]>>, items |-> <<a>>, selection |-> <<>>]}

MCStatements == Creates \cup InsertStatements \cup Selects \cup {[node |-> "Update"]}
=============================================================================
