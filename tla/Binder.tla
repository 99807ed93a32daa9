------------------------------- MODULE Binder -------------------------------
(***************************************************************************)
(* From the parser's syntax tree to a plan: Binder (planner/binder.rs) and *)
(* Planner (planner/plan.rs).  A node of the tree is a record whose field  *)
(* `node' is the variant's name.  A text is a sequence of characters, and  *)
(* so is every name that the database keeps: the quotes that an identifier *)
(* is displayed in are characters like any other.  What the binder refuses *)
(* is Refused(kind); the wording of a ParseError is left out.              *)
(*                                                                         *)
(* `tables' maps the names of tables to their columns.                     *)
(***************************************************************************)
EXTENDS Expr, SequencesExt

CONSTANT MaxName    \* the longest name of a column, in bytes: u8::MAX

ASSUME MaxNameAssumption == MaxName \in Nat

Refused(kind) == [op |-> "Refused", kind |-> kind]

IsRefused(e) == e.op = "Refused"

Constant(value)  == [op |-> "Constant", value |-> value]
AttrRef(idx)     == [op |-> "AttrRef", idx |-> idx]

\* An operator of parts that are bound; the first one that is refused counts.
Applied(op, args) ==
    IF \E k \in DOMAIN args : IsRefused(args[k])
       THEN args[CHOOSE k \in DOMAIN args :
                    IsRefused(args[k]) /\ \A j \in 1 .. k - 1 : ~ IsRefused(args[j])]
       ELSE [op |-> op, args |-> args]

-----------------------------------------------------------------------------
(* Names *)

\* A quote that ends an odd run of its kind, with no backslash before the run.
EndsOddRun(value, k, q) ==
    \E j \in 1 .. k :
        /\ \A i \in j .. k : value[i] = q
        /\ (k - j) % 2 = 0
        /\ j > 1 => value[j - 1] \notin {q, "Backslash"}
        /\ k < Len(value) => value[k + 1] # q

\* EscapeQuotedString writes such a quote twice; it takes the others for
\* quotes that are escaped already.
Escaped(value, q) ==
    FlattenSeq([k \in DOMAIN value |->
                   IF EndsOddRun(value, k, q) THEN <<q, q>> ELSE <<value[k]>>])

\* Display of an identifier, which writes the quotes.
to_string(ident) ==
    IF ident.quote = "None" THEN ident.value
    ELSE <<ident.quote>> \o Escaped(ident.value, ident.quote) \o <<ident.quote>>

\* Display of an ObjectName, the name of a table: its parts, with dots between them.
table_name(name) == Tail(FlattenSeq([k \in DOMAIN name |-> <<"Dot">> \o to_string(name[k])]))

\* Mutant: the first column of the name is taken.
resolve_column_First(column_name, columns) ==
    LET named == {k \in DOMAIN columns : columns[k].name = column_name}
    IN  IF named = {} THEN Refused("ParseError")
        ELSE AttrRef(CHOOSE k \in named : \A j \in named : k <= j)

\* No column of this name, or several, are refused.
resolve_column(column_name, columns) ==
    LET named == {k \in DOMAIN columns : columns[k].name = column_name}
    IN  IF Cardinality(named) = 1 THEN AttrRef(CHOOSE k \in named : TRUE)
        ELSE Refused("ParseError")

\* The table's name, which has the quotes that CREATE TABLE was given, is
\* compared with the text of the first part, which has none of its own.
resolve_compound_column(idents, table) ==
    CASE Len(idents) = 1 -> resolve_column(idents[1].value, table.columns)
      [] Len(idents) = 2 /\ idents[1].value = table.name ->
            resolve_column(idents[2].value, table.columns)
      [] OTHER -> Refused("ParseError")

-----------------------------------------------------------------------------
(* Expressions *)

\* A numeral is an Int if it is one, and else a Float.  (It has no sign; its
\* size is given in units of a Float.)
Numeral(value) ==
    IF value.whole /\ value.units <= MaxInt * Unit
       THEN Integer(value.units \div Unit)
       ELSE Float(Round(FALSE, value.units, 1))

parse_value(value) ==
    CASE value.kind = "Number"  -> Constant(Numeral(value))
      [] value.kind = "String"  -> Constant(VarChar(value.v))
      [] value.kind = "Boolean" -> Constant(Boolean(value.v))
      [] value.kind = "Null"    -> Constant(Null)
      [] OTHER                  -> Refused("ParseError")

ExprOf ==
    [And |-> "And", Or |-> "Or", Eq |-> "Equal", Gt |-> "GreaterThan", Lt |-> "LessThan",
     Plus |-> "Add", Minus |-> "Subtract", Multiply |-> "Multiply", Divide |-> "Divide"]

\* >= and <= evaluate their operands twice.
parse_binary_expr(op, l, r) ==
    CASE op = "GtEq"  -> Applied("Or", <<Applied("GreaterThan", <<l, r>>),
                                         Applied("Equal", <<l, r>>)>>)
      [] op = "LtEq"  -> Applied("Or", <<Applied("LessThan", <<l, r>>),
                                         Applied("Equal", <<l, r>>)>>)
      [] op = "NotEq" -> Applied("Not", <<Applied("Equal", <<l, r>>)>>)
      [] op \in DOMAIN ExprOf -> Applied(ExprOf[op], <<l, r>>)
      [] OTHER -> Refused("ParseError")

\* The negative of x is 0 - x.
parse_unary_expr(op, x) ==
    CASE op \in {"Not", "BangNot"} -> Applied("Not", <<x>>)
      [] op = "Minus" -> Applied("Subtract", <<Constant(Integer(0)), x>>)
      [] op = "Plus"  -> x
      [] OTHER        -> Refused("ParseError")

Quotes == {"DoubleQuote", "Backquote", "SingleQuote"}

Ident == [value : Seq(STRING), quote : Quotes \cup {"None"}]

Literal ==
    [kind : {"Number"}, whole : BOOLEAN, units : Nat] \cup [kind : {"String"}, v : Seq(Nat)]
    \cup [kind : {"Boolean"}, v : BOOLEAN] \cup [kind : STRING \ {"Number", "String", "Boolean"}]

Bindable == {"Identifier", "CompoundIdentifier", "Value",
             "BinaryOp", "UnaryOp", "IsNull", "IsNotNull", "Nested"}

\* The operators that are bound; the syntax has others.
BoundUnary  == {"Not", "BangNot", "Minus", "Plus"}
BoundBinary == {"GtEq", "LtEq", "NotEq"} \cup DOMAIN ExprOf

\* Of what the binder refuses just the node.
Atoms ==
    [node : {"Identifier"}, ident : Ident] \cup [node : {"CompoundIdentifier"}, idents : Seq(Ident)]
    \cup [node : {"Value"}, value : Literal] \cup [node : STRING \ Bindable]

Compounds(parts) ==
    [node : {"BinaryOp"}, op : BoundBinary \cup STRING, left : parts, right : parts]
    \cup [node : {"UnaryOp"}, op : BoundUnary \cup STRING, expr : parts]
    \cup [node : {"IsNull", "IsNotNull", "Nested"}, expr : parts]

\* The expressions of at most n operators within each other, as they are written.
Written[n \in 0 .. MaxNesting] ==
    Atoms \cup (IF n = 0 THEN {} ELSE Compounds(Written[n - 1]))

SyntaxTrees == Written[MaxNesting]

parse_expr(tree, table) ==
    LET bound[e \in SyntaxTrees] ==
            CASE e.node = "BinaryOp" -> parse_binary_expr(e.op, bound[e.left], bound[e.right])
              [] e.node = "UnaryOp" -> parse_unary_expr(e.op, bound[e.expr])
              [] e.node \in {"IsNull", "IsNotNull"} -> Applied(e.node, <<bound[e.expr]>>)
              [] e.node = "Nested" -> bound[e.expr]
              [] e.node = "Identifier" -> resolve_column(e.ident.value, table.columns)
              [] e.node = "CompoundIdentifier" -> resolve_compound_column(e.idents, table)
              [] e.node = "Value" -> parse_value(e.value)
              [] OTHER -> Refused("ParseError")
    IN  bound[tree]

\* A list, or the first part that is refused.
Each(exprs, table) ==
    LET bound == [k \in DOMAIN exprs |-> parse_expr(exprs[k], table)]
    IN  Applied("List", bound)

-----------------------------------------------------------------------------
(* Statements *)

\* Anything behind the first wildcard is not looked at, and neither is what
\* stands before it, once it is bound.
parse_projection(items, table) ==
    LET wild  == {k \in DOMAIN items : items[k].node = "Wildcard"}
        first == IF wild = {} THEN Len(items) + 1 ELSE CHOOSE k \in wild : \A j \in wild : k <= j
        bound == Each(SubSeq(items, 1, first - 1), table)
    IN  IF IsRefused(bound) \/ wild = {} THEN bound ELSE [op |-> "List", args |-> <<>>]

\* No WHERE clause is a list of none.
parse_filter(selection, table) == Each(selection, table)

\* One table, no joins.  FROM names a table as it was created, quotes and all.
parse_from(from, tables) ==
    CASE Len(from) # 1 -> Refused("ParseError")
      [] Len(from) = 1 /\ from[1].node # "Table" -> Refused("ParseError")
      [] OTHER -> LET name == table_name(from[1].name)
                  IN  IF name \in DOMAIN tables
                         THEN [op |-> "Table", name |-> name, columns |-> tables[name]]
                         ELSE Refused("TableNotFound")

parse_select_ast(s, tables) ==
    LET table  == parse_from(s.from, tables)
        cols   == parse_projection(s.items, table)
        filter == parse_filter(s.selection, table)
    IN  IF IsRefused(table) THEN table
        ELSE IF IsRefused(cols) THEN cols
        ELSE IF IsRefused(filter) THEN filter
        ELSE [op |-> "Select", table |-> table.name, cols |-> cols.args, filter |-> filter.args]

\* The list of columns is not looked at, nor any row but the first.
parse_insert(s, tables) ==
    LET name  == table_name(s.table)
        table == [op |-> "Table", name |-> name, columns |-> tables[name]]
        values == Each(s.rows[1], table)
    IN  IF name \notin DOMAIN tables THEN Refused("TableNotFound")
        ELSE IF s.source # "Values" \/ s.rows = <<>> THEN Refused("ParseError")
        ELSE IF IsRefused(values) THEN values
        ELSE [op |-> "Insert", table |-> name, values |-> values.args]

ColumnType == [Varchar |-> "VarChar", Int |-> "Int", Float |-> "Float", Blob |-> "Blob"]

\* A column keeps the quotes of its name.
parse_col(col_def) ==
    IF col_def.data_type \notin DOMAIN ColumnType THEN Refused("ParseError")
    ELSE IF Len(to_string(col_def.ident)) > MaxName THEN Refused("InputError")
    ELSE [op |-> "Column",
          column |-> [name |-> to_string(col_def.ident),
                      data_type |-> ColumnType[col_def.data_type]]]

parse_create(s) ==
    LET columns == Applied("List", [k \in DOMAIN s.columns |-> parse_col(s.columns[k])])
    IN  IF IsRefused(columns) THEN columns
        ELSE [op |-> "CreateTable", name |-> table_name(s.name),
              columns |-> [k \in DOMAIN s.columns |-> columns.args[k].column]]

\* bind; the plan has the same fields.
bind(s, tables) ==
    CASE s.node = "Query"       -> parse_select_ast(s, tables)
      [] s.node = "Insert"      -> parse_insert(s, tables)
      [] s.node = "CreateTable" -> parse_create(s)
      [] OTHER                  -> Refused("ParseError")
=============================================================================
