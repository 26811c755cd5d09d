---------------------------- MODULE MCStatements ----------------------------
(* An instance of Statements: five tables of which a parent has two        *)
(* children, and the statements over up to three of them.                  *)
EXTENDS Statements

Declared(of, column, primary, fk, type, enum) ==
    [column |-> <<of, column>>, primary |-> primary, fk |-> fk, type |-> type, enum |-> enum]
Statuses == {Text("OPEN"), Text("CLOSED")}
MCDictionary == <<
    Declared("suppliers", "id", TRUE, None, "integer", {}),
    Declared("suppliers", "rating", FALSE, None, "double", {}),
    Declared("invoices", "id", TRUE, None, "integer", {}),
    Declared("invoices", "supplier_id", FALSE, <<"suppliers", "id">>, "integer", {}),
    Declared("invoices", "total", FALSE, None, "double", {}),
    Declared("invoices", "received", FALSE, None, "timestamp", {}),
    Declared("invoices", "paid", FALSE, None, "timestamp", {}),
    Declared("lines", "id", TRUE, None, "integer", {}),
    Declared("lines", "invoice_id", FALSE, <<"invoices", "id">>, "integer", {}),
    Declared("lines", "amount", FALSE, None, "double", {}),
    Declared("contracts", "id", TRUE, None, "integer", {}),
    Declared("contracts", "supplier_id", FALSE, <<"suppliers", "id">>, "integer", {}),
    Declared("contracts", "value", FALSE, None, "double", {}),
    Declared("history", "id", TRUE, None, "integer", {}),
    Declared("history", "invoice_id", FALSE, <<"invoices", "id">>, "integer", {}),
    Declared("history", "status", FALSE, None, "varchar", Statuses)>>

Row(columns, cells) == [c \in ToSet(columns) |-> cells[CHOOSE i \in DOMAIN columns : columns[i] = c]]
RowsOver(columns, rows) == [i \in DOMAIN rows |-> Row(columns, rows[i])]

(* Means of no whole hundredth, and nulls at no whole rate.                *)
MCDatabase == [
    suppliers |-> RowsOver(<<"id", "rating">>, <<<<Num(1), Num(4)>>, <<Num(2), Num(2)>>>>),
    invoices |-> RowsOver(<<"id", "supplier_id", "total", "received", "paid">>,
        <<<<Num(1), Num(1), Num(5), Time(0), Time(7200)>>,
          <<Num(2), Num(1), Num(3), Time(3600), Time(14400)>>,
          <<Num(3), Num(2), Num(2), Time(3600), Null>>>>),
    lines |-> RowsOver(<<"id", "invoice_id", "amount">>,
        <<<<Num(1), Num(1), Num(3)>>, <<Num(2), Num(1), Num(1)>>, <<Num(3), Num(2), Num(3)>>>>),
    contracts |-> RowsOver(<<"id", "supplier_id", "value">>,
        <<<<Num(1), Num(1), Num(5)>>, <<Num(2), Num(1), Num(2)>>, <<Num(3), Num(2), Null>>>>),
    history |-> RowsOver(<<"id", "invoice_id", "status">>,
        <<<<Num(1), Num(1), Text("OPEN")>>, <<Num(2), Num(1), Text("CLOSED")>>, <<Num(3), Num(2), Text("CLOSED")>>>>)]

(* The conversation has shown the first supplier. *)
MCKnown == {Num(1)}

MCJoinPaths == {[steps |-> {{<<"history", "invoice_id">>, <<"invoices", "id">>}}, one_to_one |-> FALSE,
                 when |-> {[column |-> <<"history", "status">>, values |-> {Text("CLOSED")}]}]}

MCSpelled == [n \in {"wait", "wait_hours", "wait_days", "share"} |->
    CASE n = "wait" -> [money |-> FALSE, duration |-> "clock", rate |-> None]
      [] n = "wait_hours" -> [money |-> FALSE, duration |-> "hours", rate |-> None]
      [] n = "wait_days" -> [money |-> FALSE, duration |-> "days", rate |-> None]
      [] n = "share" -> [money |-> FALSE, duration |-> None, rate |-> "percent"]]
MCNouns == [n \in {"invoice_count", "paid_invoice_count"} |->
    IF n = "invoice_count" THEN <<{"invoices"}>> ELSE <<{}, {"invoices", "history"}>>]

(***************************************************************************)
(* Statements                                                              *)
(***************************************************************************)
Item(alias, expr) == [alias |-> alias, expr |-> expr]
Filter(qualifier, column, values) == [qualifier |-> qualifier, column |-> column, values |-> values]
On(a, ca, b, cb) == [NoCondition EXCEPT !.equalities = {{<<a, ca>>, <<b, cb>>}}]
With(condition, filters) == [condition EXCEPT !.filters = filters]
From(name) == [table |-> name, alias |-> None, join |-> "from", on |-> NoCondition]
Join(name, join, on) == [table |-> name, alias |-> None, join |-> join, on |-> on]
Select(sources, where, items) ==
    [name |-> None, kind |-> "outer", sources |-> sources, where |-> where, distinct |-> FALSE,
     union |-> FALSE, items |-> items, group |-> <<>>]

(* The ways two of the tables may be joined: a foreign key to its target,  *)
(* and two of one target.                                                  *)
Edges == {<<"invoices", "supplier_id", "suppliers", "id">>, <<"contracts", "supplier_id", "suppliers", "id">>,
          <<"lines", "invoice_id", "invoices", "id">>, <<"history", "invoice_id", "invoices", "id">>,
          <<"lines", "invoice_id", "history", "invoice_id">>}
Ways(a, b) == {On(e[1], e[2], e[3], e[4]) : e \in {d \in Edges : {d[1], d[3]} = {a, b}}}

Names == {"suppliers", "invoices", "lines", "contracts", "history"}
Extend(chains) ==
    {Append(c, Join(t, j, on)) : <<c, t, j, on>> \in
        UNION {UNION {{<<c, t, j, on>> : j \in {"inner", "left"}, on \in UNION {Ways(c[i].table, t) : i \in DOMAIN c}} :
                        t \in Names \ {c[i].table : i \in DOMAIN c}} : c \in chains}}
Pairs == Extend({<<From(t)>> : t \in Names})
Chains == {<<From(t)>> : t \in Names} \cup Pairs
          \cup {c \in Extend(Pairs) : c[2].join = "inner"}

In(chain) == {chain[i].table : i \in DOMAIN chain}
Amounts == {<<"suppliers", "rating">>, <<"invoices", "total">>, <<"lines", "amount">>, <<"contracts", "value">>}
Read(chain) == {Col(c[1], c[2]) : c \in {d \in Amounts : d[1] \in In(chain)}}

InnerJoined(a, b) == {<<From(a), Join(b, "inner", on)>> : on \in Ways(a, b)}

Calls(chain) == {Agg("sum", c) : c \in Read(chain)} \cup {Star("count")}
Small(chain) == {Agg("avg", c) : c \in Read(chain)} \cup Read(chain) \cup
                {AggDistinct("count", Col(t, "id")) : t \in In(chain)}

Closed == {Filter("history", "status", {Text("CLOSED")})}
Never == {Filter(None, "status", {Text("PAID")})}
(* No filter, CLOSED where it is asked of the rows or of the join, a       *)
(* disjunction, and a value the column never holds.                        *)
Restricted(chain) ==
    LET last == Len(chain)
        joined == {[chain EXCEPT ![last].on = With(@, f)] : f \in {g \in {Closed, Never} : last > 1 /\ chain[last].table = "history"}}
        wheres == {NoCondition} \cup (IF "history" \in In(chain) THEN {With(NoCondition, Closed), With(NoCondition, Never),
                   [With(NoCondition, Closed \cup {Filter("history", "status", {Text("OPEN")})}) EXCEPT !.disjunction = TRUE]} ELSE {})
    IN  {<<chain, w>> : w \in wheres} \cup {<<c, NoCondition>> : c \in joined}

FlatStatements ==
    UNION {UNION {{<<Select(r[1], r[2], <<Item("n", e)>>)>> :
        e \in Calls(c) \cup (IF Len(c) < 3 /\ r[2] = NoCondition THEN Small(c) ELSE {})} : r \in Restricted(c)} : c \in Chains}

(* What one row is counted with beside it, and keys nobody showed.         *)
Shaped ==
    {<<[Select(<<From("invoices"), Join("lines", "inner", On("lines", "invoice_id", "invoices", "id"))>>, NoCondition,
               <<Item("supplier", Col("invoices", "supplier_id")), Item("invoice_count", e)>>) EXCEPT !.group = <<1>>]>> :
        e \in {Star("count"), AggDistinct("count", Col("lines", "invoice_id"))}}
    \cup {<<Select(<<From("history")>>, NoCondition, <<Item(a, Star("count"))>>)>> : a \in {"invoice_count", "paid_invoice_count"}}
    \cup {<<Select(<<From("invoices")>>, With(NoCondition, {Filter(None, "supplier_id", {Num(k)})}), <<Item("total", e)>>)>> :
            k \in {1, 9}, e \in {Col("invoices", "total"), Agg("sum", Col("invoices", "total"))}}
    \cup {<<Select(<<From("invoices")>>, NoCondition, <<Item("share", Arith("/", Agg("count", Col("invoices", "paid")), Star("count")))>>)>>}
    \cup {<<Select(<<From("invoices")>>, NoCondition, <<Item("received", Col("invoices", "received"))>>)>>}

(* Aliases, two of one table, keys made by an expression, and arguments    *)
(* that are more than a column.                                            *)
As(source, a) == [source EXCEPT !.alias = a]
ClosedAs(a) == With(NoCondition, {Filter(a, "status", {Text("CLOSED")})})
Twice(on_second) ==
    <<As(From("history"), "h"), As(Join("history", "inner", With(On("h", "invoice_id", "g", "invoice_id"), on_second.filters)), "g")>>
Derived == [NoCondition EXCEPT !.derives = TRUE]
Unusual ==
    {<<Select(Twice(on), w, <<Item("n", e)>>)>> :
        on \in {NoCondition, ClosedAs("g")}, w \in {NoCondition, ClosedAs("h")}, e \in {Star("count"), Agg("count", Col("h", "id"))}}
    \cup {<<Select(<<From("invoices"), Join("suppliers", "inner", Derived)>>, NoCondition, <<Item("n", Agg("sum", Col("invoices", "total")))>>)>>}
    \cup {<<Select(c, NoCondition, <<Item("n", e)>>)>> :
            c \in {<<From("contracts")>>} \cup InnerJoined("contracts", "suppliers") \cup InnerJoined("suppliers", "contracts"),
            e \in {Agg("sum", Coalesce(Col("contracts", "value"), 0)), AggDistinct("sum", Col("contracts", "value")),
                   Agg("count", Col("contracts", "value")), AggDistinct("count", Col("contracts", "value")),
                   Agg("sum", Arith("*", Col("contracts", "value"), Number(2))),
                   Arith("-", Agg("sum", Col(None, "value")), Agg("avg", Col(None, "value")))}}
    \cup {<<[Select(<<From("lines")>>, NoCondition, <<Item("invoice_id", Col(None, "invoice_id")), Item("share", e)>>) EXCEPT !.group = <<1>>]>> :
            e \in {Arith("/", Agg("sum", Col(None, "amount")), Number(4)), Agg("sum", Arith("*", Col(None, "amount"), Number(100)))}}
    \cup {<<Select(c, NoCondition, <<Item("n", e)>>)>> :
            c \in {<<From("invoices")>>} \cup InnerJoined("invoices", "lines"),
            e \in {Agg("sum", Number(1)), Agg("sum", Arith("*", Number(2), Number(3)))}}

(* The status compared with what it holds and with what it never does,     *)
(* beside each other, here and in a named scope, and under an alias that   *)
(* has stood for another table.                                            *)
Both == <<Item("n", Star("count")), Item("last", Agg("max", Col(None, "invoice_id")))>>
Compares(qualifier) ==
    LET asked(values) == Filter(qualifier, "status", {Text(v) : v \in values})
        one(values) == With(NoCondition, {asked(values)})
        two(v, w) == With(NoCondition, {asked({v}), asked({w})})
    IN  {one({"CLOSED", "PAID"}), one({"PAID", "VOID"}), two("CLOSED", "PAID"),
         [two("CLOSED", "PAID") EXCEPT !.disjunction = TRUE], [two("PAID", "VOID") EXCEPT !.disjunction = TRUE]}
Comparisons ==
    {<<Select(<<From("history")>>, w, Both)>> : w \in Compares(None) \cup Compares("history")}
    \cup {<<[Select(<<From("history")>>, w, <<Item("invoice_id", Col(None, "invoice_id"))>>) EXCEPT !.name = "part", !.kind = "cte"],
             Select(<<From("part")>>, NoCondition, Both)>> : w \in Compares(None)}
    \cup {<<[Select(<<As(From(t), "h")>>, NoCondition, <<Item("key", Col("h", "id"))>>) EXCEPT !.name = "part", !.kind = "cte"],
             Select(<<As(From("history"), "h")>>, w, Both)>> : t \in {"invoices", "history"}, w \in Compares("h")}

(* A wait, plain or as a number of seconds, scaled or not, and the same    *)
(* out of a named scope.                                                   *)
Wait == Arith("-", Col(None, "paid"), Col(None, "received"))
Waited(e) == {e, Arith("/", e, Number(3600)), Arith("/", e, Number(86400)), Arith("*", Number(2), e),
              Opaque(<<e>>), Opaque(<<Arith("/", e, Number(3600))>>), Opaque(<<Arith("/", e, Number(86400))>>),
              Opaque(<<Arith("*", e, Number(2))>>),
              Arith("/", Numeric("epoch", <<e>>), Number(3600))}
Durations ==
    {<<Select(<<From("invoices")>>, NoCondition, <<Item(a, e)>> \o more)>> :
        a \in {"wait", "wait_hours", "wait_days"}, e \in UNION {Waited(Agg(f, Wait)) : f \in {"avg", "sum", "max"}},
        more \in {<<>>, <<Item("n", Star("count"))>>}}
    \cup {<<[Select(<<From("invoices")>>, NoCondition, <<Item("invoice", Col(None, "id")), Item("wait", w)>>) EXCEPT !.name = "waits", !.kind = "cte"],
            Select(<<From("waits")>>, NoCondition, <<Item(a, e)>>)>> :
            a \in {"wait", "wait_days"}, w \in {Wait, Arith("/", Wait, Number(3600))}, e \in Waited(Agg("avg", Col(None, "wait")))}

(* A named scope of one or two tables - its rows, grouped by its key, or   *)
(* grouped by its amount - read alone or joined with a table.              *)
Inner(chain, key, amount, kind) ==
    LET of(e) == <<Item("key", key), Item("amount_of", e)>>
        plain == Select(chain, NoCondition, of(amount))
    IN  CASE kind = "rows" -> [plain EXCEPT !.name = "part", !.kind = "cte"]
          [] kind = "distinct" -> [plain EXCEPT !.name = "part", !.kind = "derived", !.distinct = TRUE]
          [] kind = "grouped" -> [Select(chain, NoCondition, of(Agg("sum", amount))) EXCEPT !.name = "part", !.kind = "cte", !.group = <<1>>]
          [] kind = "by both" -> [plain EXCEPT !.name = "part", !.kind = "cte", !.group = <<1, 2>>]

Inners ==
    {Inner(c, Col("lines", "invoice_id"), Col("lines", "amount"), k) :
        c \in {<<From("lines")>>} \cup InnerJoined("lines", "invoices") \cup InnerJoined("invoices", "lines"),
        k \in {"rows", "distinct", "grouped", "by both"}}
    \cup {Inner(c, Col("invoices", "id"), Col("invoices", "total"), k) :
        c \in {<<From("invoices")>>} \cup InnerJoined("invoices", "lines") \cup InnerJoined("history", "invoices"),
        k \in {"rows", "distinct", "grouped", "by both"}}

Outers ==
    {<<From("part")>>}
    \cup {<<From(t), Join("part", "inner", On("part", "key", t, IF t = "invoices" THEN "id" ELSE "invoice_id"))>> :
            t \in {"invoices", "lines"}}
    \cup {<<From("part"), Join("history", "left", On("part", "key", "history", "invoice_id"))>>}

Nested ==
    {<<i, Select(o, NoCondition, <<Item("n", e)>>)>> : i \in Inners, o \in {p \in Outers : Len(p) = 1},
        e \in {Agg("sum", Col("part", "amount_of")), Agg("sum", Col(None, "amount_of")), Star("count")}}
    \cup UNION {{<<i, Select(o, NoCondition, <<Item("n", e)>>)>> : i \in Inners,
        e \in {Agg("sum", Col("part", "amount_of")), Star("count")} \cup {Agg("sum", c) : c \in Read(o)}} :
            o \in {p \in Outers : Len(p) = 2}}

MCDrafts == FlatStatements \cup Shaped \cup Unusual \cup Comparisons \cup Durations \cup Nested
=============================================================================
