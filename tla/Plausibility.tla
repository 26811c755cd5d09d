------------------------------ MODULE Plausibility ------------------------------
(***************************************************************************)
(* The plausibility suite over a run_sql result                            *)
(* (verifier/checks/run_sql.py), and the statistics it reads               *)
(* (generators/stats.py).  A finding is [check, severity, column].         *)
(***************************************************************************)
EXTENDS ColumnFormats

CONSTANTS
    Unit,           \* 10 ^ STATS_DECIMALS: a stored figure is a count of 1/Unit
    Nouns,          \* [alias -> the tables its noun could spell, its last segment's after]
    RowTolerance,   \* row_count_tolerance_pct
    BoundTolerance, \* aggregate_bound_tolerance_pct
    WarnFactor, FailFactor,     \* joined_count_warn_factor, joined_count_fail_factor
    MinBasis,       \* saturated_rate_min_basis, degenerate_duration_min_basis
    SampleRows,     \* aggregate_cell_sample_rows
    Grace,          \* date_bound_grace_days
    MaxRows         \* the rows a result shows

ASSUME UnitAssumption == Unit \in Nat \ {0}

(***************************************************************************)
(* Statistics, rounded once when they are generated                        *)
(***************************************************************************)
Cells(column) == {<<i, Database[column[1]][i][column[2]]>> : i \in DOMAIN Database[column[1]]}
NonNull(column) == {c \in Cells(column) : ~IsNull(c[2])}
RoundedUnits(q) == (2 * Unit * q[1] + q[2]) \div (2 * q[2])
RoundedTo(q) == Frac(RoundedUnits(q), Unit)

StatsOf(column) ==
    LET count == Len(Database[column[1]])
        known == NonNull(column)
        all == {c[2].q : c \in known}
        numeric == known # {} /\ \A c \in known : c[2].kind = "num"
    IN  [column |-> column, row_count |-> count,
         null_units |-> IF count = 0 THEN 0 ELSE RoundedUnits(Frac(count - Cardinality(known), count)),
         distinct_count |-> Cardinality({c[2] : c \in known}),
         kind |-> IF known = {} THEN "null" ELSE (CHOOSE c \in known : TRUE)[2].kind,
         min |-> IF known = {} THEN <<0, 1>> ELSE IF numeric THEN RoundedTo(Least(all)) ELSE Least(all),
         max |-> IF known = {} THEN <<0, 1>> ELSE IF numeric THEN RoundedTo(Greatest(all)) ELSE Greatest(all),
         mean_units |-> IF numeric THEN RoundedUnits(Over(Total(known), <<Cardinality(known), 1>>)) ELSE None]

Stats == [c \in KnownColumns |-> StatsOf(c)]
StatTables == {c[1] : c \in KnownColumns}
RowCount(table) == <<Len(Database[table]), 1>>

(* A slip: the figures as written, without the half-unit they were rounded *)
(* by.                                                                     *)
SumCapAsWritten(stat) ==
    Times(<<stat.mean_units, Unit>>, Frac(stat.row_count * (Unit - stat.null_units), Unit))

(* The largest non-null count and mean that round to the stored figures.   *)
NonNullCountUpper(stat) ==
    Min({stat.row_count, (stat.row_count * (2 * Unit - 2 * stat.null_units + 1)) \div (2 * Unit)})

SumCap(stat) == Times(<<2 * stat.mean_units + 1, 2 * Unit>>, <<NonNullCountUpper(stat), 1>>)

(***************************************************************************)
(* Reading the result                                                      *)
(***************************************************************************)
Finding(check, severity, column) == [check |-> check, severity |-> severity, column |-> column]
Percent(n) == Frac(n, 100)
Raised(q, pct) == Times(q, Plus(<<1, 1>>, Percent(pct)))

(* A result: its columns, and the rows shown of all.                       *)
Shown(columns, rows) ==
    [columns |-> columns, rows |-> SubSeq(rows, 1, Min({MaxRows, Len(rows)})),
     truncated |-> Len(rows) > MaxRows]
TableOfResult(statement) == Shown(ToSet(Columns(statement)), Results(statement)[Len(statement)].rows)

IsNumber(cell) == cell.kind = "num"
NumbersIn(table, column) == {<<i, table.rows[i][column]>> : i \in {j \in DOMAIN table.rows : IsNumber(table.rows[j][column])}}
SumOf(table, column) == Total(NumbersIn(table, column))
IsSingleCell(table) == Len(table.rows) = 1 /\ Cardinality(table.columns) = 1
Lone(table) == table.rows[1][CHOOSE c \in table.columns : TRUE]

IsCount(item) == item # None /\ IsAggregate(item) /\ item.func = "count"

(* The lone cell's expression when it is a count, else None.               *)
LoneCount(statement, table) ==
    LET counts(item) == IF IsCount(item) THEN item ELSE None
    IN  IF IsSingleCell(table) THEN counts(SelectItem(statement, CHOOSE c \in table.columns : TRUE)) ELSE None

(* The other whole, non-negative numbers of a row: what its rate or        *)
(* duration may be a rate of.                                              *)
Bases(row, column) == {row[c].q : c \in {d \in DOMAIN row \ {column} : IsNumber(row[d]) /\ row[d].q[1] >= 0 /\ row[d].q[2] = 1}}
SmallBasis(row, column) == Bases(row, column) # {} /\ Less(Greatest(Bases(row, column)), <<MinBasis, 1>>)

(***************************************************************************)
(* Nothing, and objections overridden                                      *)
(***************************************************************************)
ZeroFindings(table) ==
    IF table.rows = <<>> THEN {Finding("empty_result", "warn", None)}
    ELSE IF IsSingleCell(table) /\ (IsNull(Lone(table)) \/ (IsNumber(Lone(table)) /\ Lone(table).q[1] = 0))
      THEN {Finding("zero_scalar", "warn", None)} ELSE {}

(* An objection of a lint that the statement still ran under.              *)
OverrideFindings(trips) ==
    LET check == [fan_out |-> "fan_out_override", enum |-> "enum_literal_override",
                  interval |-> "interval_arithmetic_override", key |-> "ungrounded_key_override"]
    IN  {Finding(check[lint], "warn", None) : lint \in trips}

(***************************************************************************)
(* Counts                                                                  *)
(***************************************************************************)
(* Unfiltered, a count is the known figure; filtered, it is no more.       *)
AgainstKnown(statement, counted, known, check, bound) ==
    LET off == IF Less(counted, known) THEN Minus(known, counted) ELSE Minus(counted, known)
        refused == IF HasWhere(statement) THEN Less(Raised(known, RowTolerance), counted)
                   ELSE Less(Times(known, Percent(RowTolerance)), off)
    IN  IF refused THEN {Finding(IF HasWhere(statement) THEN bound ELSE check, "fail", None)} ELSE {}

CountFindings(statement, queried, count, table) ==
    LET column == <<queried[1], count.args[1].column>>
    IN  IF Len(queried) # 1 \/ count = None \/ queried[1] \notin StatTables \/ ~IsNumber(Lone(table)) THEN {}
        ELSE IF count.op = "agg"
          THEN AgainstKnown(statement, Lone(table).q, RowCount(queried[1]), "count_vs_stats", "filtered_count_bound")
        ELSE IF count.args[1].op = "column" /\ column \in KnownColumns
          THEN AgainstKnown(statement, Lone(table).q, <<Stats[column].distinct_count, 1>>,
                               "distinct_vs_stats", "distinct_vs_stats")
        ELSE {}

(* The first plain COUNT of the statement's text, wherever it stands.      *)
FirstCountAlias(statement) ==
    LET items == FlattenSeq([at \in DOMAIN statement |-> statement[at].items])
        plain == {i \in DOMAIN items : items[i].expr.op = "agg" /\ items[i].expr.func = "count"}
    IN  IF plain = {} THEN None ELSE items[Min(plain)].alias

(* Over joined tables a count is at most the largest of them: a filter     *)
(* lowers it, and only a fanning join raises it.                           *)
JoinedCountFindings(statement, queried, lone, table) ==
    LET sizes == {RowCount(t) : t \in ToSet(queried) \cap StatTables}
        largest == Greatest(sizes)
        alias == FirstCountAlias(statement)
        counted ==
            IF lone # None /\ lone.op = "agg" THEN IF IsNumber(Lone(table)) THEN {Lone(table).q} ELSE {}
            ELSE IF ~table.truncated /\ alias \in table.columns /\ NumbersIn(table, alias) # {}
              THEN {SumOf(table, alias)} ELSE {}
        over(factor) == \E q \in counted : Less(Times(largest, <<factor, 1>>), q)
    IN  IF Len(queried) < 2 \/ sizes = {} \/ largest[1] = 0 \/ ~over(WarnFactor) THEN {}
        ELSE {Finding("joined_count_vs_stats", IF over(FailFactor) THEN "fail" ELSE "warn", None)}

(* The one table an alias's noun spells: the whole noun's before its last  *)
(* segment's, and none when two could be meant.                            *)
EntityTable(alias) ==
    LET spelled == IF alias \in DOMAIN Nouns THEN Nouns[alias] ELSE <<>>
        hit == {i \in DOMAIN spelled : spelled[i] # {}}
        tables == spelled[Min(hit)]
    IN  IF hit = {} \/ (hit # {} /\ Cardinality(tables) # 1) THEN None ELSE CHOOSE t \in tables : TRUE

EntityCountFindings(statement, table) ==
    LET bounded(c) == /\ IsCount(SelectItem(statement, c)) /\ EntityTable(c) # None /\ RowCount(EntityTable(c))[1] > 0
                      /\ NumbersIn(table, c) # {} /\ (Len(table.rows) = 1 \/ ~table.truncated)
    IN  {Finding("entity_count_exceeds_table", "warn", c) : c \in {d \in table.columns :
            /\ bounded(d)
            /\ Less(Raised(RowCount(EntityTable(d)), RowTolerance), SumOf(table, d))}}

(***************************************************************************)
(* Rates and durations                                                     *)
(***************************************************************************)
OfKind(formats, kind) == {c \in DOMAIN formats : formats[c].kind = kind}
Top(format) == IF format.of = "percent" THEN <<100, 1>> ELSE <<1, 1>>

SaturatedRateFindings(table, formats) ==
    {Finding("rate_saturated", "warn", c) : c \in {d \in OfKind(formats, "rate") :
        \E cell \in NumbersIn(table, d) : /\ cell[2].q \in {<<0, 1>>, Top(formats[d])}
                                          /\ ~SmallBasis(table.rows[cell[1]], d)}}

(* A fraction written under a percent alias.                               *)
RateScaleFindings(table, formats) ==
    {Finding("rate_scale_suspect", "warn", c) : c \in {d \in OfKind(formats, "rate") :
        LET cells == NumbersIn(table, d)
        IN  /\ formats[d].of = "percent" /\ cells # {}
            /\ \A cell \in cells : AtMost(cell[2].q, <<1, 1>>)
            /\ ~(Cardinality(cells) = 1 /\ \A cell \in cells : cell[2].q \in {<<0, 1>>, <<1, 1>>})}}

(* The longest time the queried tables' timestamps span, or None.          *)
Span(queried) ==
    LET stamps == {c \in KnownColumns : c[1] \in ToSet(queried) /\ TypeOf(c) = "timestamp" /\ NonNull(c) # {}}
        span == Minus(Greatest({Stats[c].max : c \in stamps}), Least({Stats[c].min : c \in stamps}))
    IN  IF stamps = {} \/ (stamps # {} /\ span[1] <= 0) THEN None ELSE span

AggregateNames(item) ==
    IF item = None THEN {}
    ELSE {t.func : t \in {u \in IF item.op = "opaque" THEN Subtrees(item) ELSE Visible(item) : IsAggregate(u)}}

DurationFindings(statement, span, table, formats) ==
    LET unit(c) == formats[c].of
        item(c) == SelectItem(statement, c)
        opaque(c) == item(c) = None \/ (item(c) # None /\ item(c).op = "opaque")
        summed(c) == "sum" \in AggregateNames(item(c)) /\ ~opaque(c)
        lasting(c) == {i \in DOMAIN table.rows : IsDuration(table.rows[i][c], unit(c))}
        seconds(i, c) == Seconds(table.rows[i][c], unit(c))
        small(q) == Less(<<-1, 1>>, q) /\ Less(q, <<1, 1>>)
        floored(c) == /\ AggregateNames(item(c)) \cap {"avg", "sum", "min", "max"} # {}
                      /\ \E i \in lasting(c) : small(seconds(i, c)) /\ ~SmallBasis(table.rows[i], c)
        exceeds(c) == span # None /\ ~summed(c) /\ \E i \in lasting(c) : Less(span, seconds(i, c))
    IN  {Finding("duration_degenerate", "warn", c) : c \in {d \in OfKind(formats, "duration") : floored(d)}}
        \cup {Finding("duration_span_bound", IF opaque(c) THEN "warn" ELSE "fail", c) :
                c \in {d \in OfKind(formats, "duration") : exceeds(d)}}

(***************************************************************************)
(* Cells and aggregates against a column's statistics                      *)
(***************************************************************************)
(* The traced column's statistics: its table's, else those of the first    *)
(* queried table that has a column of the name.                            *)
StatFor(statement, resolved) ==
    LET tables == IF resolved.table # None THEN <<resolved.table>> ELSE Queried(statement)
        having == {i \in DOMAIN tables : <<tables[i], resolved.column>> \in KnownColumns}
    IN  IF having = {} THEN None ELSE Stats[<<tables[Min(having)], resolved.column>>]

SumFindings(alias, stat, table) ==
    LET cells == NumbersIn(table, alias)
        cap == SumCap(stat)
        severity(q) == IF Less(Raised(cap, BoundTolerance), q) THEN "fail" ELSE "warn"
        over == {c[2].q : c \in {d \in cells : Less(cap, d[2].q)}}
        total == SumOf(table, alias)
    IN  IF stat.mean_units = None \/ Less(stat.min, <<0, 1>>) THEN {}
        ELSE {Finding("sum_vs_stats", severity(q), alias) : q \in over}
             \cup {Finding("sum_vs_stats", severity(q), alias) :
                    q \in {t \in {total} : Cardinality(cells) > 1 /\ Less(cap, t)}}

AvgFindings(alias, stat, table) ==
    LET slack == Times(Minus(stat.max, stat.min), Percent(BoundTolerance))
        outside(q) == IF Less(q, stat.min) THEN Minus(stat.min, q) ELSE Minus(q, stat.max)
        out == {c[2].q : c \in {d \in NumbersIn(table, alias) : Less(d[2].q, stat.min) \/ Less(stat.max, d[2].q)}}
    IN  IF stat.kind # "num" THEN {}
        ELSE {Finding("avg_vs_stats", IF Less(slack, outside(q)) THEN "fail" ELSE "warn", alias) : q \in out}

(* One cell: its rate's bounds, and its column's known range.              *)
RateBounds(column, cell, format) ==
    IF format.kind = "rate" /\ IsNumber(cell) /\ (cell.q[1] < 0 \/ Less(Top(format), cell.q))
    THEN {Finding("rate_bounds", "fail", column)} ELSE {}

RangeBounds(column, cell, stat, aggregated) ==
    LET out == Less(cell.q, stat.min) \/ Less(stat.max, cell.q)
        beyond == \/ Less(cell.q, Minus(stat.min, <<Grace, 1>>)) \/ Less(Plus(stat.max, <<Grace, 1>>), cell.q)
    IN  IF IsNumber(cell) /\ stat.kind = "num" /\ ~aggregated /\ out
          THEN {Finding("min_max_bounds", "fail", column)}
        ELSE IF cell.kind = "time" /\ stat.kind = "time" /\ out
          THEN {Finding("date_bounds", IF beyond THEN "fail" ELSE "warn", column)} ELSE {}

CellFindings(column, cell, stat, aggregated, format) ==
    RateBounds(column, cell, format)
    \cup IF stat = None THEN {} ELSE RangeBounds(column, cell, stat, aggregated)

TracedFindings(alias, aggregate, stat, table, format) ==
    IF stat = None THEN {}
    ELSE IF aggregate = "sum" THEN SumFindings(alias, stat, table)
    ELSE IF aggregate = "avg" THEN AvgFindings(alias, stat, table)
    ELSE IF alias = stat.column[2] THEN {}
    ELSE UNION {CellFindings(alias, table.rows[i][alias], stat, FALSE, format) :
                  i \in 1 .. Min({SampleRows, Len(table.rows)})}

AggregateFindings(statement, table, formats) ==
    LET of(alias, resolved) ==
            IF resolved = None THEN {}
            ELSE TracedFindings(alias, resolved.aggregate, StatFor(statement, resolved), table, formats[alias])
    IN  UNION {of(alias, ResolvedColumn(statement, alias)) : alias \in table.columns}

(* Columns that are a queried table's by name.                             *)
NamedFindings(statement, table, formats) ==
    LET stat(c) == StatFor(statement, [table |-> None, column |-> c])
    IN  UNION {UNION {CellFindings(c, table.rows[i][c], stat(c), HasAggregate(statement), formats[c]) :
                        i \in DOMAIN table.rows} : c \in table.columns}

(***************************************************************************)
(* The suite                                                               *)
(***************************************************************************)
Suite(statement, table, trips, queried, lone, formats) ==
    ZeroFindings(table) \cup OverrideFindings(trips)
    \cup CountFindings(statement, queried, lone, table)
    \cup JoinedCountFindings(statement, queried, lone, table)
    \cup EntityCountFindings(statement, table)
    \cup SaturatedRateFindings(table, formats) \cup RateScaleFindings(table, formats)
    \cup DurationFindings(statement, Span(queried), table, formats)
    \cup AggregateFindings(statement, table, formats)
    \cup NamedFindings(statement, table, formats)

PlausibilityFindings(statement, table, trips) ==
    Suite(statement, table, trips, Queried(statement), LoneCount(statement, table),
          [c \in table.columns |-> ColumnFormat(statement, c)])
================================================================================
