-------------------------------- MODULE Query --------------------------------
(***************************************************************************)
(* Statements from end to end: bound to the tables there are, planned and  *)
(* executed (planner/*, execution/executor.rs, create_table.rs, the scan's *)
(* use of its expressions in seq_scan.rs).  Each statement is parsed; a    *)
(* scan looks at one row per step.  Where rows are on pages is HeapTable,  *)
(* how they become bytes TupleCodec.  That a page can fail a statement is  *)
(* said here; what a directory is like whose files no longer hold all that *)
(* was acknowledged is the matter of Database, HeapTable and the modules   *)
(* below them, and no statement is bound to one here.  The table that      *)
(* shows the catalog page is left to Database as well: nothing names it.   *)
(***************************************************************************)
EXTENDS Binder

CONSTANTS
    Statements,    \* syntax trees
    MaxRows        \* bound: rows in all the tables

\* As the parser makes them.  (WhereObeysLogic speaks of a WHERE clause within
\* two more operators.)
SqlExprs == Written[MaxNesting - 2]

ObjectNames == Seq(Ident) \ {<<>>}

FromItems == [node : {"Table"}, name : ObjectNames] \cup [node : STRING \ {"Table"}]

Syntax ==
    [node : {"Query"}, from : Seq(FromItems), items : Seq(SqlExprs),
     selection : {s \in Seq(SqlExprs) : Len(s) <= 1}]
    \cup [node : {"Insert"}, table : ObjectNames, source : STRING, rows : Seq(Seq(SqlExprs))]
    \cup [node : {"CreateTable"}, name : ObjectNames,
          columns : Seq([ident : Ident, data_type : STRING])]
    \cup [node : STRING \ {"Query", "Insert", "CreateTable"}]

ASSUME StatementsAssumption == Statements \subseteq Syntax /\ MaxNesting >= 2

VARIABLES
    build,         \* "debug" or "release": see Expr!Computed
    tables,        \* name and columns of each table
    rows,          \* the rows of each table
    created,       \* history: the statement that each table was created by
    whole,         \* the files hold the tables and the rows
    phase,
    stmt,          \* the statement in turn
    plan,          \* what the binder made of it
    next_row,      \* of the scan
    out            \* rows it has found

vars == <<build, tables, rows, created, whole, phase, stmt, plan, next_row, out>>

None == [node |-> "None"]
NoPlan == [op |-> "None"]

Init ==
    /\ build \in {"debug", "release"}
    /\ tables = <<>>
    /\ rows = <<>>
    /\ created = <<>>
    /\ whole = TRUE
    /\ phase = "Idle"
    /\ stmt = None /\ plan = NoPlan
    /\ next_row = 1
    /\ out = <<>>

Ends(how) ==
    /\ phase' = how
    /\ UNCHANGED <<build, tables, created, whole, stmt, plan, next_row, out>>

\* A statement had pages evicted, appended or flushed, and that can go wrong.
FilesMayBreak == whole' \in {whole, FALSE}

-----------------------------------------------------------------------------
(* execute_sql: bind, plan *)

RowsInAll == FoldFunction(LAMBDA r, n : Len(r) + n, 0, rows)

\* What can be next: nothing before the last statement is answered.
Incoming == IF phase = "Idle" /\ whole THEN Statements ELSE {}

Binds(s) ==
    /\ s.node = "Insert" => RowsInAll < MaxRows
    /\ stmt' = s
    /\ plan' = bind(s, tables)
    /\ phase' = IF IsRefused(bind(s, tables)) THEN "Refused" ELSE "Planned"
    /\ UNCHANGED <<build, tables, rows, created, whole, next_row, out>>

Executing(op) == phase = "Planned" /\ plan.op = op

\* The answer is sent, and the next statement is taken.
Answers ==
    /\ phase \in {"Refused", "Done", "Error"}
    /\ phase' = "Idle"
    /\ stmt' = None /\ plan' = NoPlan /\ next_row' = 1 /\ out' = <<>>
    /\ IF phase = "Refused" THEN UNCHANGED whole ELSE FilesMayBreak
    /\ UNCHANGED <<build, tables, rows, created>>

\* A panic ends the worker, and unwinding flushes the tables, whose errors are
\* dropped: a new process finds them as they were, if nothing went wrong.
Restarts ==
    /\ phase = "Panicked"
    /\ phase' = "Idle"
    /\ stmt' = None /\ plan' = NoPlan /\ next_row' = 1 /\ out' = <<>>
    /\ FilesMayBreak
    /\ UNCHANGED <<build, tables, rows, created>>

\* An empty directory in place of one that is not whole.
IsSetAside ==
    /\ phase = "Idle" /\ ~ whole
    /\ tables' = <<>> /\ rows' = <<>> /\ created' = <<>>
    /\ whole' = TRUE
    /\ UNCHANGED <<build, phase, stmt, plan, next_row, out>>

-----------------------------------------------------------------------------
(* CREATE TABLE and INSERT *)

Entered(map, name, x) ==
    [t \in DOMAIN map \cup {name} |-> IF t = name THEN x ELSE map[t]]

\* A name that is taken is no error, whatever the columns.
CreatesTable ==
    /\ Executing("CreateTable")
    /\ IF plan.name \in DOMAIN tables
          THEN UNCHANGED <<tables, rows, created>>
          ELSE /\ tables' = Entered(tables, plan.name, plan.columns)
               /\ rows' = Entered(rows, plan.name, <<>>)
               /\ created' = Entered(created, plan.name, stmt)
    /\ phase' = "Done"
    /\ UNCHANGED <<build, whole, stmt, plan, next_row, out>>

\* No file, no entry that fits, no room on the catalog page, no first page; or
\* a panic on the catalog page, whose room is computed as any page's is.  A file
\* without an entry may be left behind.
TableIsNotCreated ==
    /\ Executing("CreateTable")
    /\ plan.name \notin DOMAIN tables
    /\ \E how \in {"Error", "Panicked"} : Ends(how)
    /\ UNCHANGED rows

Evaluated(exprs, tuple) == [k \in DOMAIN exprs |-> evaluate(build, exprs[k], tuple)]

\* The first value that is not one; an error if it is one.
FirstFailure(values) ==
    LET failed == {k \in DOMAIN values : Fails(values[k])}
    IN  values[CHOOSE k \in failed : \A j \in failed : k <= j]

AnyFails(values) == \E k \in DOMAIN values : Fails(values[k])

HowItFails(x) == IF x.type = "Panic" THEN "Panicked" ELSE "Error"

Values == Evaluated(plan.values, NoTuple)

Columns == tables[plan.table]

Fits(k) == Values[k].type = Columns[k].data_type

\* is_valid_tuple goes by the columns; the type of NULL is unwrapped.
NullIsReached ==
    /\ Len(Values) = Len(Columns)
    /\ \E k \in DOMAIN Columns : IsNull(Values[k]) /\ \A j \in 1 .. k - 1 : Fits(j)

is_valid_tuple == Len(Values) = Len(Columns) /\ \A k \in DOMAIN Columns : Fits(k)

InsertFails ==
    /\ Executing("Insert")
    /\ AnyFails(Values)
    /\ Ends(HowItFails(FirstFailure(Values)))
    /\ UNCHANGED rows

InsertOfNull ==
    /\ Executing("Insert")
    /\ ~ AnyFails(Values)
    /\ NullIsReached
    /\ Ends("Panicked")
    /\ UNCHANGED rows

\* TupleDoesntMatchSchema
InsertMismatch ==
    /\ Executing("Insert")
    /\ ~ AnyFails(Values)
    /\ ~ NullIsReached /\ ~ is_valid_tuple
    /\ Ends("Error")
    /\ UNCHANGED rows

\* Mutant: the tuple is not checked.
Inserts_Unchecked ==
    /\ Executing("Insert")
    /\ ~ AnyFails(Values)
    /\ rows' = [rows EXCEPT ![plan.table] = Append(@, Values)]
    /\ Ends("Done")

\* The record is on a page.  (A page that could not be had for it is passed over
\* without an error, also when the one evicted for it was not written back.)
Inserts ==
    /\ Executing("Insert")
    /\ ~ AnyFails(Values)
    /\ is_valid_tuple
    /\ rows' = [rows EXCEPT ![plan.table] = Append(@, Values)]
    /\ Ends("Done")

\* The record is too large, or no page can be had for it; or a panic, as it is
\* longer than what lies below the last one of its page.
RecordIsNotStored ==
    /\ Executing("Insert")
    /\ ~ AnyFails(Values)
    /\ is_valid_tuple
    /\ \E how \in {"Error", "Panicked"} : Ends(how)
    /\ UNCHANGED rows

-----------------------------------------------------------------------------
(* SELECT: next_tuple *)

Scanning == Executing("Select") /\ next_row <= Len(rows[plan.table])

Row == rows[plan.table][next_row]

\* What the WHERE clause is on a row; none is true.
Condition(filter, row) ==
    IF filter = <<>> THEN Boolean(TRUE) ELSE evaluate(build, filter[1], row)

\* The columns asked for; the whole row if none is.
Projected(row) == IF plan.cols = <<>> THEN row ELSE Evaluated(plan.cols, row)

Advances(found) ==
    /\ out' = out \o found
    /\ next_row' = next_row + 1
    /\ UNCHANGED <<build, tables, rows, created, whole, phase, stmt, plan>>

\* Neither true, false nor NULL: InvalidComparison.
FilterFails ==
    /\ Scanning
    /\ ~ Logical(Condition(plan.filter, Row))
    /\ Ends(HowItFails(Condition(plan.filter, Row)))
    /\ UNCHANGED rows

RowIsPassedOver ==
    /\ Scanning
    /\ LET c == Condition(plan.filter, Row) IN IsFalse(c) \/ IsNull(c)
    /\ Advances(<<>>)

ColumnFails ==
    /\ Scanning
    /\ IsTrue(Condition(plan.filter, Row))
    /\ AnyFails(Projected(Row))
    /\ Ends(HowItFails(FirstFailure(Projected(Row))))
    /\ UNCHANGED rows

RowIsFound ==
    /\ Scanning
    /\ IsTrue(Condition(plan.filter, Row))
    /\ ~ AnyFails(Projected(Row))
    /\ Advances(<<Projected(Row)>>)

ScanEnds ==
    /\ Executing("Select") /\ next_row > Len(rows[plan.table])
    /\ Ends("Done")
    /\ UNCHANGED rows

\* The next page cannot be had.
PageIsNotRead ==
    /\ Executing("Select")
    /\ Ends("Error")
    /\ UNCHANGED rows

-----------------------------------------------------------------------------
CreateTable == CreatesTable \/ TableIsNotCreated

Insert == InsertFails \/ InsertOfNull \/ InsertMismatch \/ Inserts \/ RecordIsNotStored

Select ==
    \/ FilterFails \/ RowIsPassedOver \/ ColumnFails \/ RowIsFound
    \/ ScanEnds \/ PageIsNotRead

Next ==
    \/ \E s \in Incoming : Binds(s)
    \/ CreateTable \/ Insert \/ Select
    \/ Answers \/ Restarts \/ IsSetAside

Spec == Init /\ [][Next]_vars

-----------------------------------------------------------------------------
(* Properties *)

\* The rows of a table are of its columns' types, without a NULL and with every
\* number in its range: whatever is inserted, computed or created again (the
\* check of Executor::execute).  A scan is over the rows of its table.
TypeOK ==
    /\ build \in {"debug", "release"} /\ whole \in BOOLEAN
    /\ phase \in {"Idle", "Planned", "Refused", "Done", "Error", "Panicked"}
    /\ DOMAIN rows = DOMAIN tables
    /\ \A t \in DOMAIN rows : \A n \in DOMAIN rows[t] :
          /\ Len(rows[t][n]) = Len(tables[t])
          /\ \A k \in DOMAIN tables[t] :
                rows[t][n][k] \in ValuesOf(tables[t][k].data_type) \ {Null}
    /\ plan.op = "Select" => next_row \in 1 .. Len(rows[plan.table]) + 1
                             /\ Len(out) < next_row

\* A WHERE clause in place of this statement's: which rows it is true of.
Table == [op |-> "Table", name |-> plan.table, columns |-> Columns]

Kept(where) ==
    LET e == parse_expr(where, Table)
    IN  {n \in DOMAIN rows[plan.table] : IsTrue(evaluate(build, e, rows[plan.table][n]))}

BinaryOp(l, op, r) == [node |-> "BinaryOp", op |-> op, left |-> l, right |-> r]
NotOf(e)           == [node |-> "UnaryOp", op |-> "Not", expr |-> e]
IsNullOf(e)        == [node |-> "IsNull", expr |-> e]

Splits(all, parts) ==
    /\ UNION {parts[k] : k \in DOMAIN parts} = all
    /\ \A j, k \in DOMAIN parts : j # k => parts[j] \cap parts[k] = {}

\* A NaN compares with nothing: only <> is true of it.
AreNaN(operand) ==
    LET e == parse_expr(operand, Table)
        isNaN(x) == x.type = "Float" /\ x.v = NaN
    IN  {n \in DOMAIN rows[plan.table] : isNaN(evaluate(build, e, rows[plan.table][n]))}

\* What holds between a clause and the clauses that are built of it.
Negates(p) ==
    p.node = "BinaryOp" /\ p.op \in {"And", "Or"} =>
        Kept(NotOf(p)) = Kept(BinaryOp(NotOf(p.left), IF p.op = "And" THEN "Or" ELSE "And",
                                       NotOf(p.right)))

Compares(p) ==
    p.node = "BinaryOp" /\ p.op \in {"Eq", "NotEq", "Gt", "GtEq", "Lt", "LtEq"} =>
        LET is(op)  == Kept(BinaryOp(p.left, op, p.right))
            non(op) == Kept(NotOf(BinaryOp(p.left, op, p.right)))
            known   == Kept(NotOf(IsNullOf(p)))
            nan     == (AreNaN(p.left) \cup AreNaN(p.right)) \cap known
        IN  /\ Splits(known \ nan, <<is("Lt"), is("Eq"), is("Gt")>>)
            /\ is("GtEq") = non("Lt") \ nan
            /\ is("LtEq") = non("Gt") \ nan
            /\ is("NotEq") = non("Eq") /\ nan \subseteq is("NotEq")
            /\ is("Lt") = Kept(BinaryOp(p.right, "Gt", p.left))

\* Three-valued logic, through binding, evaluating and scanning: the rows a
\* SELECT returns are those its WHERE clause is true of, in their order; those,
\* the rows of NOT p and the rows of p IS NULL split the table; NOT of AND and
\* OR are as De Morgan has it; of <, = and > one is true of two values that are
\* not NULL nor NaN, and >=, <= and <>, each bound as two operators, say what
\* the negation of the opposite one says (expr.rs, parse_binary_expr).
WhereObeysLogic ==
    phase = "Done" /\ plan.op = "Select" /\ plan.filter # <<>> =>
        LET p == stmt.selection[1]
        IN  /\ Len(out) = Cardinality(Kept(p))
            /\ \A n \in Kept(p) :
                  out[Cardinality(Kept(p) \cap (1 .. n))] = Projected(rows[plan.table][n])
            /\ Splits(DOMAIN rows[plan.table], <<Kept(p), Kept(NotOf(p)), Kept(IsNullOf(p))>>)
            /\ Negates(p)
            /\ Compares(p)

SelectsOneName(s) ==
    /\ Len(s.items) = 1
    /\ \/ s.items[1].node = "Identifier"
       \/ s.items[1].node = "CompoundIdentifier" /\ Len(s.items[1].idents) = 2
    /\ Len(s.from) = 1 /\ s.from[1].node = "Table"
    /\ s.selection = <<>>

\* The names of CREATE TABLE are the names of SELECT.  FROM finds a table by the
\* way its name is displayed, so in the quotes it was created in.  A column is
\* found, with and without the table's name, just if one column of the CREATE
\* TABLE is displayed as the text that the identifier has within its own quotes:
\* "a" finds the column a, and a column "f" takes a name that has the quotes in
\* it, which a longer one in other quotes may as well.  Its values then come
\* back, row by row.
NamesFindColumns ==
    stmt.node = "Query" /\ SelectsOneName(stmt) =>
        LET item   == stmt.items[1]
            from   == table_name(stmt.from[1].name)
            sought == IF item.node = "Identifier" THEN item.ident.value
                                                  ELSE item.idents[2].value
            columns == created[from].columns
            named  == {k \in DOMAIN columns : to_string(columns[k].ident) = sought}
            found  == /\ from \in DOMAIN created
                      /\ Cardinality(named) = 1
                      /\ item.node = "Identifier" \/ item.idents[1].value = from
        IN  /\ phase = "Refused" <=> ~ found
            /\ phase = "Done" =>
                  \A k \in named : out = [n \in DOMAIN rows[from] |-> <<rows[from][n][k]>>]

Ops(expr) ==
    LET ops[e \in Expressions] ==
            CASE e.op = "Constant" -> {e.value.type}
              [] e.op = "AttrRef"  -> {"AttrRef"}
              [] OTHER             -> {e.op} \cup UNION {ops[e.args[k]] : k \in DOMAIN e.args}
    IN  ops[expr]

OpsOf(exprs) == UNION {Ops(exprs[k]) : k \in DOMAIN exprs}

\* What can go wrong at run time can be told from the statement.  A WHERE clause
\* without the literal NULL is a condition on every row or on none: its type does
\* not depend on the data, since NULL is in no table.  A SELECT panics only on a
\* division, or in a debug build on arithmetic, whatever the pages do.  An INSERT
\* that is stopped by such a panic, by a column in its VALUES, which is bound and
\* then read of no tuple, or by NULL can be told from its VALUES; any other that
\* panics is one that the columns accept, at its page, as a CREATE TABLE is that
\* panics, whose name is new.
FailuresAreForeseeable ==
    /\ phase = "Planned" /\ plan.op = "Select" /\ "Null" \notin OpsOf(plan.filter) =>
          LET types == {Condition(plan.filter, rows[plan.table][n]).type :
                           n \in DOMAIN rows[plan.table]}
          IN  Cardinality(types \ {"Panic"}) <= 1
    /\ phase = "Panicked" =>
          LET risky == {"Divide"} \cup (IF build = "debug" THEN {"Add", "Subtract", "Multiply"}
                                                           ELSE {})
          IN  CASE plan.op = "Select" -> OpsOf(plan.filter \o plan.cols) \cap risky # {}
                [] plan.op = "Insert" ->
                      \/ OpsOf(plan.values) \cap (risky \cup {"AttrRef", "Null"}) # {}
                      \/ is_valid_tuple
                [] plan.op = "CreateTable" -> plan.name \notin DOMAIN tables
                [] OTHER -> FALSE
=============================================================================
