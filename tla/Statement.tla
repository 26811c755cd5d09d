------------------------------- MODULE Statement -------------------------------
(***************************************************************************)
(* A SELECT as every lint and parse of the engine reads it                 *)
(* (tools/sql_scopes.py, tools/sql_select.py): its scopes in post-order,   *)
(* each CTE body and derived table before the scope that reads it, the     *)
(* statement last.                                                         *)
(*                                                                         *)
(* A scope is                                                              *)
(*   [name, kind, sources, where, distinct, union, items, group]           *)
(* with sources a sequence of [table, alias, join, on], items a            *)
(* sequence of [alias, expr] and group the positions of the items it is    *)
(* grouped by, 0 for an expression no item has.  A condition is            *)
(*   [equalities, filters, disjunction, derives]:                          *)
(* equalities of two sides <<qualifier, column>>, and filters [qualifier,  *)
(* column, values] of a column to literals.                                *)
(***************************************************************************)
EXTENDS Integers, Sequences, FiniteSets, SequencesExt, FiniteSetsExt

CONSTANTS
    None,           \* Python's None
    Dictionary      \* sequence of [column, primary, fk, type, enum]

(***************************************************************************)
(* Expressions: trees of one shape                                         *)
(***************************************************************************)
Node(op, func, qualifier, column, value, args) ==
    [op |-> op, func |-> func, qualifier |-> qualifier, column |-> column, value |-> value, args |-> args]

Col(qualifier, column) == Node("column", None, qualifier, column, 0, <<>>)
Number(value) == Node("number", None, None, None, value, <<>>)
Star(func) == Node("agg", func, None, None, 0, <<>>)
Agg(func, arg) == Node("agg", func, None, None, 0, <<arg>>)
AggDistinct(func, arg) == Node("agg_distinct", func, None, None, 0, <<arg>>)
Arith(op, left, right) == Node("arith", op, None, None, 0, <<left, right>>)
Numeric(func, args) == Node("numeric", func, None, None, 0, args)
Coalesce(arg, value) == Node("coalesce", None, None, None, value, <<arg>>)
Opaque(args) == Node("opaque", None, None, None, 0, args)

RECURSIVE Subtrees(_)
Subtrees(e) == {e} \cup UNION {Subtrees(e.args[i]) : i \in DOMAIN e.args}

(* The column references of an expression.                                 *)
Refs(e) == {t \in Subtrees(e) : t.op = "column"}

IsAggregate(e) == e.op \in {"agg", "agg_distinct"}

(* _aggregate_arguments: every COUNT, SUM and AVG of an item.              *)
AggregateCalls(e) == {t \in Subtrees(e) : IsAggregate(t) /\ t.func \in {"count", "sum", "avg"}}

(***************************************************************************)
(* The dictionary                                                          *)
(***************************************************************************)
Rows == ToSet(Dictionary)
KnownColumns == {row.column : row \in Rows}
OwnersOf(column, tables) == {t \in tables : <<t, column>> \in KnownColumns}
PrimaryKeys == {row.column : row \in {r \in Rows : r.primary}}
FkOf(column) ==
    LET keys == {row.fk : row \in {r \in Rows : r.column = column /\ r.fk # None}}
    IN  IF keys = {} THEN None ELSE CHOOSE k \in keys : TRUE

(***************************************************************************)
(* Scopes                                                                  *)
(***************************************************************************)
NoCondition == [equalities |-> {}, filters |-> {}, disjunction |-> FALSE, derives |-> FALSE]

Tables(scope) == {scope.sources[i].table : i \in DOMAIN scope.sources}

(* table_aliases: a source stands under its table and under its alias; the *)
(* last source of a name has it.                                           *)
Aliases(scope) ==
    LET named(a) == {i \in DOMAIN scope.sources : a \in {scope.sources[i].table, scope.sources[i].alias}}
    IN  [a \in Tables(scope) \cup ({scope.sources[i].alias : i \in DOMAIN scope.sources} \ {None}) |->
            scope.sources[Max(named(a))].table]

TableOf(scope, qualifier) ==
    IF qualifier \in DOMAIN Aliases(scope) THEN Aliases(scope)[qualifier] ELSE qualifier

FromTable(scope) == IF scope.sources = <<>> THEN None ELSE scope.sources[1].table
ReferencedOnce(scope, table) == Cardinality({i \in DOMAIN scope.sources : scope.sources[i].table = table}) = 1

ExprsOf(scope) == {scope.items[i].expr : i \in DOMAIN scope.items}
CallsOf(scope) == UNION {AggregateCalls(e) : e \in ExprsOf(scope)}

(* The item of an alias: resolve_select_columns and the parse keep one.    *)
ItemNamed(scope, alias) ==
    LET found == {i \in DOMAIN scope.items : scope.items[i].alias = alias}
    IN  IF found = {} THEN None ELSE scope.items[Min(found)].expr

(* The named scopes a scope can see are the ones before it.                *)
ScopeNamed(statement, name) ==
    LET found == {i \in DOMAIN statement : statement[i].name = name}
    IN  IF name = None \/ found = {} THEN None ELSE Max(found)

Outer(statement) == statement[Len(statement)]

(* What splitting a text returns: the outer scope last, and every scope    *)
(* reads tables and scopes already split.                                  *)
IsStatement(statement) ==
    /\ statement # <<>> /\ Outer(statement).kind = "outer"
    /\ \A i \in DOMAIN statement : \A j \in DOMAIN statement[i].sources :
        LET source == statement[i].sources[j]
        IN  /\ \A k \in i .. Len(statement) : statement[k].name # source.table
            /\ j = 1 <=> source.join = "from"
Columns(statement) == [i \in DOMAIN Outer(statement).items |-> Outer(statement).items[i].alias]

DerivedTables(statement) ==
    {statement[i].name : i \in {k \in DOMAIN statement : statement[k].kind = "derived"}}

(* The FROM and JOIN names of the whole statement, in order, once each: a  *)
(* regex over its text, so a derived table is not among them and the       *)
(* tables inside it are.                                                   *)
Queried(statement) ==
    LET named == FlattenSeq([i \in DOMAIN statement |->
                    [j \in DOMAIN statement[i].sources |-> statement[i].sources[j].table]])
    IN  SelectSeq(FoldLeft(LAMBDA seen, t : IF t \in ToSet(seen) THEN seen ELSE Append(seen, t), <<>>, named),
                  LAMBDA t : t \notin DerivedTables(statement))

HasWhere(statement) ==
    \E i \in DOMAIN statement :
        statement[i].where.filters # {} \/ statement[i].where.equalities # {}

HasAggregate(statement) ==
    \E i \in DOMAIN statement : \E e \in ExprsOf(statement[i]) : \E t \in Subtrees(e) : IsAggregate(t)

(***************************************************************************)
(* The select list resolved through named scopes (resolve_select_items)    *)
(***************************************************************************)
(* A form the grammar cannot read makes its whole item Opaque, except as   *)
(* the argument of a numeric function; SUM(DISTINCT x) is not read.        *)
RECURSIVE Bails(_)
Bails(e) ==
    \/ e.op = "opaque"
    \/ e.op = "agg_distinct" /\ e.func # "count"
    \/ e.op # "numeric" /\ \E i \in DOMAIN e.args : Bails(e.args[i])

Parsed(e) == IF Bails(e) THEN Opaque(<<e>>) ELSE e

(* What the tree shows: an Opaque item keeps its text, not its shape.      *)
RECURSIVE Visible(_)
Visible(e) == {e} \cup (IF e.op = "opaque" THEN {} ELSE UNION {Visible(e.args[i]) : i \in DOMAIN e.args})

(* A column read out of a CTE or a derived table is that scope's own item; *)
(* a real table's column keeps its table, or None when nothing said which; *)
(* a qualifier nothing introduced is Opaque.                               *)
RECURSIVE Resolve(_, _, _)
Resolve(statement, at, e) ==
    LET scope == statement[at]
        nested == {i \in DOMAIN scope.sources : ScopeNamed(statement, scope.sources[i].table) # None}
        inner(table) == ScopeNamed(statement, table)
        offers(i) == ItemNamed(statement[inner(scope.sources[i].table)], e.column) # None
        through(table) ==
            LET item == ItemNamed(statement[inner(table)], e.column)
            IN  IF item = None THEN Opaque(<<>>) ELSE Resolve(statement, inner(table), Parsed(item))
    IN  IF e.op = "opaque" THEN e
        ELSE IF e.op # "column" THEN [e EXCEPT !.args = [i \in DOMAIN e.args |-> Resolve(statement, at, e.args[i])]]
        ELSE IF e.qualifier # None
          THEN IF e.qualifier \notin DOMAIN Aliases(scope) THEN Opaque(<<>>)
               ELSE LET table == Aliases(scope)[e.qualifier]
                    IN  IF inner(table) # None THEN through(table) ELSE Col(table, e.column)
        ELSE IF Cardinality({i \in nested : offers(i)}) = 1
          THEN through(scope.sources[CHOOSE i \in nested : offers(i)].table)
        ELSE Col(None, e.column)

(* COALESCE and its like have the shape of their first argument.           *)
RECURSIVE Shape(_)
Shape(e) ==
    IF e.op = "opaque" THEN e
    ELSE IF e.op = "coalesce" THEN Shape(e.args[1])
    ELSE [e EXCEPT !.args = [i \in DOMAIN e.args |-> Shape(e.args[i])]]

SelectItem(statement, alias) ==
    LET item == ItemNamed(Outer(statement), alias)
    IN  IF item = None THEN None ELSE Shape(Resolve(statement, Len(statement), Parsed(item)))

(***************************************************************************)
(* The Verifier's view (resolve_select_columns): the outer scope only, and *)
(* SUM(col), AVG(col), SUM(COALESCE(col, _)) and a plain column.           *)
(***************************************************************************)
Traced(scope, e) ==
    LET of(column, aggregate) ==
            [table |-> IF column.qualifier = None THEN None ELSE Aliases(scope)[column.qualifier],
             column |-> column.column, aggregate |-> aggregate]
        known(column) == column.op = "column" /\ (column.qualifier = None \/ column.qualifier \in DOMAIN Aliases(scope))
    IN  IF e.op = "column" /\ known(e) THEN of(e, "none")
        ELSE IF e.op = "agg" /\ e.func \in {"sum", "avg"} /\ known(e.args[1]) THEN of(e.args[1], e.func)
        ELSE IF e.op = "agg" /\ e.func = "sum" /\ e.args[1].op = "coalesce" /\ known(e.args[1].args[1])
          THEN of(e.args[1].args[1], "sum")
        ELSE None

ResolvedColumn(statement, alias) ==
    LET item == ItemNamed(Outer(statement), alias) IN IF item = None THEN None ELSE Traced(Outer(statement), item)
================================================================================
