-------------------------------- MODULE SqlRows --------------------------------
(***************************************************************************)
(* What a statement answers over a database: the reference the lints and   *)
(* the plausibility checks are measured against.  The engine leaves this   *)
(* to DuckDB; here are joins, filters, groups and aggregates, and no more. *)
(*                                                                         *)
(* A cell is [kind, q, s]: a number or an instant or an interval holds a   *)
(* fraction, a text a string.                                              *)
(***************************************************************************)
EXTENDS Statement

CONSTANT Database   \* [table -> sequence of rows], a row is [column -> cell]

(***************************************************************************)
(* Fractions and cells                                                     *)
(***************************************************************************)
RECURSIVE Gcd(_, _)
Gcd(a, b) == IF b = 0 THEN a ELSE Gcd(b, a % b)
Abs(n) == IF n < 0 THEN -n ELSE n

Frac(n, d) ==
    LET s == IF d < 0 THEN -1 ELSE 1
        g == Gcd(Abs(n), Abs(d))
    IN  IF n = 0 THEN <<0, 1>> ELSE <<(s * n) \div g, (s * d) \div g>>

Plus(a, b) == Frac(a[1] * b[2] + b[1] * a[2], a[2] * b[2])
Minus(a, b) == Frac(a[1] * b[2] - b[1] * a[2], a[2] * b[2])
Times(a, b) == Frac(a[1] * b[1], a[2] * b[2])
Over(a, b) == Frac(a[1] * b[2], a[2] * b[1])
Less(a, b) == a[1] * b[2] < b[1] * a[2]
AtMost(a, b) == ~Less(b, a)
Least(S) == CHOOSE a \in S : \A b \in S : AtMost(a, b)
Greatest(S) == CHOOSE a \in S : \A b \in S : AtMost(b, a)

Cell(kind, q, s) == [kind |-> kind, q |-> q, s |-> s]
Null == Cell("null", <<0, 1>>, "")
Num(n) == Cell("num", <<n, 1>>, "")
Text(s) == Cell("text", <<0, 1>>, s)
Time(n) == Cell("time", <<n, 1>>, "")
IsNull(c) == c.kind = "null"

(***************************************************************************)
(* Joined rows: for each source the position of its row, 0 for none        *)
(***************************************************************************)
RowsOf(results, statement, source) ==
    IF ScopeNamed(statement, source.table) = None THEN Database[source.table]
    ELSE results[ScopeNamed(statement, source.table)].rows

Stored(rows, at, column) == IF at = 0 THEN Null ELSE rows[at][column]

(* The source a reference reads.                                           *)
SourceOf(sources, scope, qualifier, column) ==
    CHOOSE i \in DOMAIN scope.sources :
        IF qualifier # None THEN qualifier \in {scope.sources[i].table, scope.sources[i].alias}
        ELSE sources[i] # <<>> /\ column \in DOMAIN sources[i][1]

Value(sources, scope, row, qualifier, column) ==
    LET i == SourceOf(sources, scope, qualifier, column) IN Stored(sources[i], row[i], column)

Holds(sources, scope, row, condition) ==
    LET equal(eq) == \A a, b \in eq :
            LET x == Value(sources, scope, row, a[1], a[2])
                y == Value(sources, scope, row, b[1], b[2])
            IN  x = y /\ ~IsNull(x)
        passes(f) == Value(sources, scope, row, f.qualifier, f.column) \in f.values
    IN  /\ \A eq \in condition.equalities : equal(eq)
        /\ IF condition.disjunction THEN \E f \in condition.filters : passes(f)
           ELSE \A f \in condition.filters : passes(f)

JoinOne(sources, scope, rows, i) ==
    LET matches(row) == {Append(row, j) : j \in {k \in DOMAIN sources[i] :
                            Holds(sources, scope, Append(row, k), scope.sources[i].on)}}
    IN  UNION {IF matches(row) = {} /\ scope.sources[i].join = "left" THEN {Append(row, 0)} ELSE matches(row) :
                row \in rows}

RECURSIVE JoinUpTo(_, _, _)
JoinUpTo(sources, scope, i) ==
    IF i = 1 THEN {<<j>> : j \in DOMAIN sources[1]}
    ELSE JoinOne(sources, scope, JoinUpTo(sources, scope, i - 1), i)

Joined(sources, scope) ==
    {row \in JoinUpTo(sources, scope, Len(scope.sources)) : Holds(sources, scope, row, scope.where)}

(***************************************************************************)
(* Expressions over a set of joined rows                                   *)
(***************************************************************************)
Total(cells) == FoldSet(LAMBDA c, sum : Plus(sum, c[2].q), <<0, 1>>, cells)

(* cells is a set of <<row, cell>>, none of them null.                     *)
Aggregate(func, cells) ==
    LET quantity(q) == Cell((CHOOSE c \in cells : TRUE)[2].kind, q, "")
        all == {c[2].q : c \in cells}
    IN  CASE func = "count" -> Num(Cardinality(cells))
          [] func # "count" /\ cells = {} -> Null
          [] func = "sum" /\ cells # {} -> quantity(Total(cells))
          [] func = "avg" /\ cells # {} -> quantity(Over(Total(cells), <<Cardinality(cells), 1>>))
          [] func = "min" /\ cells # {} -> quantity(Least(all))
          [] func = "max" /\ cells # {} -> quantity(Greatest(all))

(* A difference of instants is an interval, and stays one when scaled.     *)
Combine(op, x, y) ==
    LET kind == IF {x.kind, y.kind} \cap {"time", "clock"} # {} THEN "clock" ELSE "num"
    IN  IF IsNull(x) \/ IsNull(y) THEN Null
        ELSE CASE op = "+" -> Cell(kind, Plus(x.q, y.q), "")
               [] op = "-" -> Cell(kind, Minus(x.q, y.q), "")
               [] op = "*" -> Cell(kind, Times(x.q, y.q), "")
               [] op = "/" -> IF y.q[1] = 0 THEN Null ELSE Cell(kind, Over(x.q, y.q), "")

RECURSIVE Eval(_, _, _, _)
Eval(sources, scope, rows, e) ==
    LET of(arg) == Eval(sources, scope, rows, arg)
        each(arg) == {<<row, Eval(sources, scope, {row}, arg)>> : row \in rows}
        known(arg) == {c \in each(arg) : ~IsNull(c[2])}
    IN  CASE e.op = "number" -> Num(e.value)
          [] e.op = "column" -> IF rows = {} THEN Null
                                ELSE Value(sources, scope, CHOOSE r \in rows : TRUE, e.qualifier, e.column)
          [] e.op = "agg" /\ e.args = <<>> -> Num(Cardinality(rows))
          [] e.op = "agg" /\ e.args # <<>> -> Aggregate(e.func, known(e.args[1]))
          [] e.op = "agg_distinct" -> Aggregate(e.func, {<<c[2], c[2]>> : c \in known(e.args[1])})
          [] e.op = "arith" -> Combine(e.func, of(e.args[1]), of(e.args[2]))
          [] e.op = "numeric" -> LET x == of(e.args[1]) IN IF IsNull(x) THEN Null ELSE Cell("num", x.q, "")
          [] e.op = "coalesce" -> IF IsNull(of(e.args[1])) THEN Num(e.value) ELSE of(e.args[1])
          [] e.op = "opaque" -> of(e.args[1])

(***************************************************************************)
(* A scope's result, and the statement's                                   *)
(***************************************************************************)
Aggregated(scope) == \E e \in ExprsOf(scope) : \E t \in Subtrees(e) : IsAggregate(t)

Groups(sources, scope, rows) ==
    LET key(row) == [k \in DOMAIN scope.group |-> Eval(sources, scope, {row}, scope.items[scope.group[k]].expr)]
    IN  IF scope.group # <<>> THEN {{r \in rows : key(r) = k} : k \in {key(r) : r \in rows}}
        ELSE IF Aggregated(scope) THEN {rows} ELSE {{r} : r \in rows}

ResultRow(sources, scope, rows) ==
    [a \in {scope.items[i].alias : i \in DOMAIN scope.items} |->
        Eval(sources, scope, rows, ItemNamed(scope, a))]

SourceRows(results, statement, scope) ==
    [i \in DOMAIN scope.sources |-> RowsOf(results, statement, scope.sources[i])]

Answered(sources, scope, groups) ==
    LET row(group) == ResultRow(sources, scope, group)
        order == SetToSeq(groups)
    IN  IF scope.distinct THEN SetToSeq({row(g) : g \in groups}) ELSE [g \in DOMAIN order |-> row(order[g])]

(* The joined rows are kept: they say which rows were read how often.      *)
ResultOver(sources, scope, joined) ==
    [joined |-> joined, rows |-> Answered(sources, scope, Groups(sources, scope, joined))]

ScopeResult(sources, scope) == ResultOver(sources, scope, Joined(sources, scope))

Results(statement) ==
    FoldLeft(LAMBDA results, scope : Append(results, ScopeResult(SourceRows(results, statement, scope), scope)), <<>>, statement)

(***************************************************************************)
(* Counted once: the reference definition of what the lint is for          *)
(***************************************************************************)
Deduplicated(scope) == scope.distinct \/ scope.group # <<>> \/ Aggregated(scope)

(* No row of the source stands in two joined rows.                         *)
OncePerRow(joined, i) == \A r, q \in joined : r[i] = q[i] /\ r[i] # 0 => r = q

(* The sources an expression reads; one that reads no column counts the    *)
(* rows of FROM.                                                           *)
Reads(results, statement, scope, refs) ==
    LET sources == SourceRows(results, statement, scope)
    IN  IF refs = {} THEN {1} ELSE {SourceOf(sources, scope, r.qualifier, r.column) : r \in refs}

(* Neither here nor, through a scope whose rows are rows it joined, there. *)
RECURSIVE Once(_, _, _, _)
Once(results, statement, at, refs) ==
    LET scope == statement[at]
    IN  \A i \in Reads(results, statement, scope, refs) :
            LET inner == ScopeNamed(statement, scope.sources[i].table)
                read == {r \in refs : i \in Reads(results, statement, scope, {r})}
            IN  /\ OncePerRow(results[at].joined, i)
                /\ \/ inner = None
                   \/ Deduplicated(statement[inner])
                   \/ refs = {} /\ Once(results, statement, inner, {})
                   \/ /\ refs # {}
                      /\ \A r \in read :
                            Once(results, statement, inner, Refs(ItemNamed(statement[inner], r.column)))

CountedOnce(statement) ==
    LET results == Results(statement)
    IN  \A at \in DOMAIN statement : \A call \in CallsOf(statement[at]) :
            \/ call.op = "agg_distinct" /\ call.func = "count"
            \/ Once(results, statement, at, IF call.args = <<>> THEN {} ELSE Refs(call.args[1]))
================================================================================
