----------------------------- MODULE LiteralLints -----------------------------
(***************************************************************************)
(* The lints of the literals a statement compares columns with: values an  *)
(* enum column never holds (tools/enum_lint.py), and keys the conversation *)
(* never showed (tools/key_lint.py).                                       *)
(***************************************************************************)
EXTENDS Statement

CONSTANT Known      \* the values the conversation put before the model

Conditions(scope) == {scope.where} \cup {scope.sources[i].on : i \in DOMAIN scope.sources}
FiltersOf(scope) == UNION {c.filters : c \in Conditions(scope)}

DictionaryTables == {c[1] : c \in KnownColumns}
EnumOf(column) == (CHOOSE row \in Rows : row.column = column).enum

(***************************************************************************)
(* Values never held                                                       *)
(***************************************************************************)
(* Every alias of the statement that stands for a table of the dictionary: *)
(* the first scope to introduce an alias has it.                           *)
StatementAliases(statement) ==
    LET of(i) == {a \in DOMAIN Aliases(statement[i]) : Aliases(statement[i])[a] \in DictionaryTables}
    IN  [a \in UNION {of(i) : i \in DOMAIN statement} |->
            Aliases(statement[Min({i \in DOMAIN statement : a \in of(i)})])[a]]

(* A slip: a column with no qualifier is not looked for.                   *)
FilteredWhenQualified(statement, filter) ==
    LET aliases == StatementAliases(statement)
    IN  IF filter.qualifier \in DOMAIN aliases THEN {<<aliases[filter.qualifier], filter.column>>} ELSE {}

(* The columns a filter restricts: none, when more than one could be meant.*)
Filtered(statement, filter) ==
    LET aliases == StatementAliases(statement)
        owners == OwnersOf(filter.column, Range(aliases))
    IN  IF filter.qualifier # None
        THEN IF filter.qualifier \in DOMAIN aliases THEN {<<aliases[filter.qualifier], filter.column>>} ELSE {}
        ELSE IF Cardinality(owners) = 1 THEN {<<t, filter.column>> : t \in owners} ELSE {}

(* The column is the unit of judgement: what it is compared with anywhere  *)
(* in the statement is one list.                                           *)
Compared(statement, column) ==
    UNION {f.values : f \in {g \in UNION {FiltersOf(statement[i]) : i \in DOMAIN statement} :
                                column \in Filtered(statement, g)}}

LintEnum(statement) ==
    \E column \in KnownColumns :
        /\ EnumOf(column) # {}
        /\ Compared(statement, column) # {}
        /\ Compared(statement, column) \cap EnumOf(column) = {}

(***************************************************************************)
(* Keys never shown                                                        *)
(***************************************************************************)
IsKey(column) == column \in PrimaryKeys \/ FkOf(column) # None

(* The real column a filter of this scope names.                           *)
KeyFiltered(scope, filter) ==
    LET owners == OwnersOf(filter.column, Tables(scope))
    IN  IF filter.qualifier # None THEN {<<TableOf(scope, filter.qualifier), filter.column>>} \cap KnownColumns
        ELSE IF Cardinality(owners) = 1 THEN {<<t, filter.column>> : t \in owners} ELSE {}

LintKeys(statement) ==
    \E i \in DOMAIN statement : \E f \in FiltersOf(statement[i]) :
        \E column \in KeyFiltered(statement[i], f) : IsKey(column) /\ ~(f.values \subseteq Known)
===============================================================================
