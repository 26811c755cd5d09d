------------------------------- MODULE Statements -------------------------------
(***************************************************************************)
(* One statement through run_sql, with its lints, its result and the       *)
(* Verifier's plausibility suite as the code computes them.  RunSql is the *)
(* same call with its attempts, its repair rounds and its errors, and a    *)
(* lint there is only whether it fires; here a lint reads the statement.   *)
(***************************************************************************)
EXTENDS FanOut, LiteralLints, Plausibility

CONSTANT Drafts     \* the statements the model may write

ASSUME DraftsAssumption == \A draft \in Drafts : IsStatement(draft)

VARIABLES
    stage,      \* "idle", "written", "challenged", "ready", "executed", "checked"
    statement,
    trips,      \* the lints that object to it
    table,      \* its result
    findings    \* what the plausibility suite says of the result

vars == <<stage, statement, trips, table, findings>>

NoTable == [columns |-> {}, rows |-> <<>>, truncated |-> FALSE]

Init ==
    /\ stage = "idle" /\ statement = <<>> /\ trips = {}
    /\ table = NoTable /\ findings = {}

Write ==
    /\ stage = "idle"
    /\ statement' \in Drafts
    /\ stage' = "written"
    /\ UNCHANGED <<trips, table, findings>>

Tripped(s) ==
    {l \in {"fan_out"} : LintFanOut(s)} \cup {l \in {"interval"} : LintInterval(s)}
    \cup {l \in {"enum"} : LintEnum(s)} \cup {l \in {"key"} : LintKeys(s)}

Lint ==
    /\ stage = "written"
    /\ trips' = Tripped(statement)
    /\ stage' = IF trips' = {} THEN "ready" ELSE "challenged"
    /\ UNCHANGED <<statement, table, findings>>

(* The model resends the statement unchanged: each lint has had its word.  *)
Resend ==
    /\ stage = "challenged"
    /\ stage' = "ready"
    /\ UNCHANGED <<statement, trips, table, findings>>

(* The model gives it up, and writes another.                              *)
GiveUp ==
    /\ stage = "challenged"
    /\ stage' = "idle"
    /\ statement' = <<>> /\ trips' = {}
    /\ UNCHANGED <<table, findings>>

Execute ==
    /\ stage = "ready"
    /\ table' = TableOfResult(statement)
    /\ stage' = "executed"
    /\ UNCHANGED <<statement, trips, findings>>

(* What the statement that ran still trips is on its attempt.              *)
Check ==
    /\ stage = "executed"
    /\ findings' = PlausibilityFindings(statement, table, trips)
    /\ stage' = "checked"
    /\ UNCHANGED <<statement, trips, table>>

Return ==
    /\ stage = "checked"
    /\ stage' = "idle"
    /\ statement' = <<>> /\ trips' = {} /\ table' = NoTable /\ findings' = {}

Next == Write \/ Lint \/ Resend \/ GiveUp \/ Execute \/ Check \/ Return

Spec == Init /\ [][Next]_vars
-------------------------------------------------------------------------------
(* Nothing objected to the statement and nothing to its result: the answer *)
(* keeps its badge.                                                        *)
Clean == stage = "checked" /\ trips = {} /\ findings = {}

(* Some joins of a scope are vouched one row for one row and some are not. *)
Mixed(scope, grains) ==
    LET vouched(i) == StepsOf(statement, grains, scope, scope.sources[i]) = {}
        joins == 2 .. Len(scope.sources)
    IN  {vouched(i) : i \in joins} = BOOLEAN

(* Every COUNT, SUM and AVG names a column it reads or counts rows: none   *)
(* adds up a figure made of literals, SUM(2 * 3).                          *)
ArgumentsRead ==
    \A at \in DOMAIN statement : \A call \in CallsOf(statement[at]) :
        call.args # <<>> => Refs(call.args[1]) # {} \/ CountsRows(call.args[1])

(* A statement whose COUNT, SUM or AVG reads a row more than once, because *)
(* its joins repeat the row here or inside a scope it reads through, is    *)
(* challenged before it runs (sql_lint.py) - where the joins of a scope    *)
(* are vouched one row for one row all or none, and where no aggregate     *)
(* adds up literals: the lint reads no table for SUM(2 * 3).               *)
FannedIsChallenged ==
    /\ stage = "ready" /\ "fan_out" \notin trips
    /\ ArgumentsRead /\ \A i \in DOMAIN statement : ~Mixed(statement[i], Grains(statement))
    => CountedOnce(statement)

(* One scope over real tables.                                             *)
Flat == Len(statement) = 1

(* COUNT of a column that is null in some row.                             *)
CountsNullable ==
    \E call \in CallsOf(Outer(statement)) :
        /\ call.op = "agg" /\ call.func = "count" /\ call.args # <<>>
        /\ \E ref \in Refs(call.args[1]) : \E c \in {d \in KnownColumns : d[2] = ref.column} : NonNull(c) # Cells(c)

IsScaled(alias) == ItemNamed(Outer(statement), alias).op = "arith"

(* In one scope over real tables, an aggregate that reads every row it     *)
(* reads once is what its column can reach: no bound of the suite refuses  *)
(* it, and its sum, joined count or distinct count does not lose the badge *)
(* either (run_sql.py: sum_cap, _joined_count_findings).  There are two    *)
(* exceptions: a COUNT of a column with nulls is refused for not being the *)
(* table's row count, and a wait that is scaled may be refused, for its    *)
(* name need not be its unit.                                              *)
HonestKeepsTheBadge ==
    stage = "checked" /\ Flat /\ CountedOnce(statement) =>
        \A f \in findings :
            /\ f.check \notin {"sum_vs_stats", "joined_count_vs_stats", "distinct_vs_stats"}
            /\ f.severity = "fail" => \/ f.check = "count_vs_stats" /\ CountsNullable
                                      \/ f.check = "duration_span_bound" /\ IsScaled(f.column)

(* The lengths of time a row of one of the queried tables can show.        *)
Waits ==
    LET stamps(t) == {c \in KnownColumns : c[1] = t /\ TypeOf(c) = "timestamp"}
        at(t, i, c) == Database[t][i][c[2]]
    IN  UNION {UNION {{Minus(at(t, i, c).q, at(t, i, d).q) :
                        <<c, d>> \in {p \in stamps(t) \X stamps(t) : ~IsNull(at(t, i, p[1])) /\ ~IsNull(at(t, i, p[2]))}} :
                        i \in DOMAIN Database[t]} : t \in ToSet(Queried(statement)) \cap StatTables}

Positive(S) == {q \in S : q[1] > 0}

(* The lengths an interval may be shown with when nothing objects to it:   *)
(* no less than the shortest wait there is and, unless it is a sum, no     *)
(* more than the longest.  In an item the parse cannot read it is at least *)
(* a second and no more than the tables' timestamps span.                  *)
ShownLength(item, q) ==
    IF item.op = "opaque" THEN ~Less(q, <<1, 1>>) /\ ~Less(Span(Queried(statement)), q)
    ELSE /\ ~Less(q, Least(Positive(Waits)))
         /\ "sum" \in AggregateNames(item) \/ ~Less(Greatest(Waits), q)

(* An interval multiplied or divided as if it were a number of seconds,    *)
(* here or in the scope it is read out of, is not shown clean: the lint    *)
(* sees it scaled, wherever the parse reads the item (interval_lint.py).   *)
(* One it cannot read is told only by its value: below the floor of a      *)
(* second or, while it is less than a day, over the span                   *)
(* (run_sql.py _duration_findings) - divided by 3600 it can be neither.    *)
IntervalsKeepTheirScale ==
    Clean =>
        \A i \in DOMAIN table.rows : \A c \in table.columns :
            IsClock(table.rows[i][c]) => ShownLength(SelectItem(statement, c), table.rows[i][c].q)

(* An alias stands for one table throughout.                               *)
OneTableAnAlias ==
    \A i, j \in DOMAIN statement : \A a \in DOMAIN Aliases(statement[i]) \cap DOMAIN Aliases(statement[j]) :
        Aliases(statement[i])[a] = Aliases(statement[j])[a]

(* What the statement asks of a column, in every scope of it.              *)
AskedOf(column) ==
    UNION {UNION {f.values : f \in {g \in FiltersOf(statement[i]) : column \in KeyFiltered(statement[i], g)}} :
            i \in DOMAIN statement}

(* A column of listed values that is compared only with values no row has  *)
(* has no part in a clean answer, wherever in the statement it is filtered *)
(* and whatever else is shown (enum_lint.py).  One value it does hold      *)
(* beside them is enough for silence: the column is what is judged.        *)
ImpossibleFilterIsTold ==
    Clean /\ OneTableAnAlias =>
        \A column \in {c \in KnownColumns : EnumOf(c) # {} /\ AskedOf(c) # {}} :
            AskedOf(column) \cap {c[2] : c \in Cells(column)} # {}
================================================================================
