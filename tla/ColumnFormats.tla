----------------------------- MODULE ColumnFormats -----------------------------
(***************************************************************************)
(* Which result columns carry a display format (tools/column_formats.py,   *)
(* tools/durations.py) and the interval lint (tools/interval_lint.py): all *)
(* read one parse of the select list.                                      *)
(***************************************************************************)
EXTENDS SqlRows

CONSTANTS
    MoneyColumns,   \* column names the map declares as money
    Spelled         \* [name -> [money, duration, rate]]: what the pack's globs make of a name;
                    \* duration a unit, "clock" or None, rate a scale or None

(***************************************************************************)
(* Formats                                                                 *)
(***************************************************************************)
Format(kind, of) == [kind |-> kind, of |-> of]
Plain == Format("plain", None)
Money == Format("money", None)

SpelledAs(name) == IF name \in DOMAIN Spelled THEN Spelled[name] ELSE [money |-> FALSE, duration |-> None, rate |-> None]

(* By the name alone: money, else duration, else rate.                     *)
ByName(name, allow_money) ==
    LET as == SpelledAs(name)
    IN  IF allow_money /\ (name \in MoneyColumns \/ as.money) THEN Money
        ELSE IF as.duration # None THEN Format("duration", as.duration)
        ELSE IF as.rate # None THEN Format("rate", as.rate)
        ELSE Plain

(* Whether an expression is dollars: "yes", "no", or "unclear".            *)
RECURSIVE MoneyClass(_)
MoneyClass(e) ==
    LET left == MoneyClass(e.args[1])
        right == MoneyClass(e.args[2])
        both == left = "yes" /\ right = "yes"
        neither == left = "no" /\ right = "no"
        sum == IF both THEN "yes" ELSE IF neither THEN "no" ELSE "unclear"
        product == IF both THEN "unclear" ELSE IF neither THEN "no" ELSE "yes"
        quotient == IF both \/ neither THEN "no" ELSE IF left = "yes" THEN "yes" ELSE "unclear"
    IN  CASE e.op = "column" -> IF e.column \in MoneyColumns THEN "yes" ELSE "no"
          [] e.op \in {"number", "numeric"} -> "no"
          [] IsAggregate(e) -> IF e.func = "count" \/ e.args = <<>> THEN "no" ELSE left
          [] e.op = "arith" -> IF "unclear" \in {left, right} THEN "unclear"
                               ELSE IF e.func \in {"+", "-"} THEN sum
                               ELSE IF e.func = "*" THEN product ELSE quotient
          [] OTHER -> "unclear"

(* The one real column an expression is a reading or an aggregate of.      *)
RECURSIVE SourceColumn(_)
SourceColumn(e) ==
    IF e.op = "column" THEN e.column
    ELSE IF IsAggregate(e) /\ e.args # <<>> THEN SourceColumn(e.args[1])
    ELSE None

(* The parse first; the alias's spelling when the parse gives no hint, and *)
(* never money where the parse ruled it out.                               *)
FormatOf(item, alias) ==
    LET class == IF item = None THEN "unclear" ELSE MoneyClass(item)
        source == IF item = None THEN None ELSE SourceColumn(item)
        parsed == IF class = "yes" THEN Money
                  ELSE IF source # None THEN ByName(source, class # "no") ELSE Plain
    IN  IF parsed # Plain THEN parsed ELSE ByName(alias, class # "no")

ColumnFormat(statement, alias) == FormatOf(SelectItem(statement, alias), alias)

(***************************************************************************)
(* Durations                                                               *)
(***************************************************************************)
UnitSeconds(unit) == CASE unit = "seconds" -> 1 [] unit = "minutes" -> 60 [] unit = "hours" -> 3600 [] OTHER -> 86400

(* An interval travels as text, and only one of less than a day reads as a *)
(* clock string; it carries its own unit, a number counts in the column's. *)
IsClock(cell) == cell.kind = "clock" /\ cell.q[1] >= 0 /\ cell.q[1] \div cell.q[2] < UnitSeconds("days")
IsDuration(cell, unit) == IsClock(cell) \/ (cell.kind = "num" /\ unit # "clock")
Seconds(cell, unit) == IF cell.kind = "clock" THEN cell.q ELSE Times(cell.q, <<UnitSeconds(unit), 1>>)

(***************************************************************************)
(* The interval lint                                                       *)
(***************************************************************************)
TypeOf(column) == (CHOOSE row \in Rows : row.column = column).type
Typed(name) == {c \in KnownColumns : c[2] = name}

IsTimestamp(e) ==
    /\ e.op = "column"
    /\ IF e.qualifier # None THEN <<e.qualifier, e.column>> \in KnownColumns /\ TypeOf(<<e.qualifier, e.column>>) = "timestamp"
       ELSE Typed(e.column) # {} /\ \A c \in Typed(e.column) : TypeOf(c) = "timestamp"

(* A difference of instants, or an aggregate of one.                       *)
RECURSIVE IsInterval(_)
IsInterval(e) ==
    \/ e.op = "arith" /\ e.func = "-" /\ IsTimestamp(e.args[1]) /\ IsTimestamp(e.args[2])
    \/ IsAggregate(e) /\ e.func # "count" /\ e.args # <<>> /\ IsInterval(e.args[1])

ScalesInterval(e) ==
    \E t \in Visible(e) :
        /\ t.op = "arith" /\ t.func \in {"*", "/"}
        /\ \/ t.args[2].op = "number" /\ IsInterval(t.args[1])
           \/ t.args[1].op = "number" /\ IsInterval(t.args[2])

(* A slip: the select list as it is written, not what it reads.            *)
LintIntervalAsWritten(statement) ==
    \E i \in DOMAIN Columns(statement) : ScalesInterval(Shape(Parsed(ItemNamed(Outer(statement), Columns(statement)[i]))))

LintInterval(statement) ==
    \E i \in DOMAIN Columns(statement) : ScalesInterval(SelectItem(statement, Columns(statement)[i]))
================================================================================
