-------------------------------- MODULE FanOut --------------------------------
(***************************************************************************)
(* The fan-out lint (tools/sql_lint.py): which statements risk counting a  *)
(* row once per row it joins to.  The challenge's wording is left out;     *)
(* what is kept is when it fires and for which aggregate.                  *)
(***************************************************************************)
EXTENDS Statement

CONSTANT JoinPaths  \* the map's paths: [steps : set of column pairs, one_to_one,
                    \*                   when : set of [column, values]]

(***************************************************************************)
(* What the map vouches for                                                *)
(***************************************************************************)
Declared121(pair) == \E p \in JoinPaths : p.one_to_one /\ pair \in p.steps

ConditionsOn(pair) ==
    UNION {{w \in p.when : w.column[1] \in {c[1] : c \in pair}} : p \in {q \in JoinPaths : pair \in q.steps}}

(* The scope restricts this alias's column to the declared values: in the  *)
(* step's own ON or in WHERE, where no OR stands at the top.               *)
Restricts(scope, condition, alias, table, declared) ==
    /\ ~condition.disjunction
    /\ \E f \in condition.filters :
        /\ f.column = declared.column[2]
        /\ IF f.qualifier # None
           THEN \/ f.qualifier = alias
                \/ ReferencedOnce(scope, table) /\ TableOf(scope, f.qualifier) = table
           ELSE OwnersOf(f.column, Tables(scope)) = {table} /\ ReferencedOnce(scope, table)
        /\ f.values # {} /\ f.values \subseteq declared.values

VouchedWhen(scope, on, pair, sides) ==
    \E w \in ConditionsOn(pair), side \in sides :
        /\ w.column[1] = TableOf(scope, side)
        /\ \E condition \in {on, scope.where} : Restricts(scope, condition, side, w.column[1], w)

Column(scope, side) == <<TableOf(scope, side[1]), side[2]>>

(* one_to_one always, or under a filter the scope applies.                 *)
OneToOne(scope, on, eq) ==
    LET pair == {Column(scope, side) : side \in eq}
    IN  Declared121(pair) \/ VouchedWhen(scope, on, pair, {side[1] : side \in eq})

(***************************************************************************)
(* Join steps                                                              *)
(***************************************************************************)
Unvouched(tables) == [kind |-> "unvouched", one |-> None, many |-> None, tables |-> tables]
OneToMany(one, many, tables) == [kind |-> "one_to_many", one |-> one, many |-> many, tables |-> tables]

(* By the foreign keys of the columns two sides read, under the names the  *)
(* scope has for them.                                                     *)
ByForeignKey(a, read_a, b, read_b, tables) ==
    CASE FkOf(read_a) = read_b /\ FkOf(read_b) = read_a -> {Unvouched(tables)}
      [] FkOf(read_a) = read_b /\ FkOf(read_b) # read_a -> {OneToMany(b, a, tables)}
      [] FkOf(read_b) = read_a /\ FkOf(read_a) # read_b -> {OneToMany(a, b, tables)}
      [] OTHER -> {Unvouched(tables)}

(* Two many sides of one target, each vouched one row per target key.      *)
SharesTargetVouched(scope, on, a, b) ==
    LET target == FkOf(Column(scope, a))
    IN  /\ target # None /\ target = FkOf(Column(scope, b))
        /\ VouchedWhen(scope, on, {Column(scope, a), target}, {a[1]})
        /\ VouchedWhen(scope, on, {Column(scope, b), target}, {b[1]})

TableStep(scope, on, eq, a, b) ==
    IF OneToOne(scope, on, eq) \/ SharesTargetVouched(scope, on, a, b) THEN {}
    ELSE ByForeignKey(TableOf(scope, a[1]), Column(scope, a), TableOf(scope, b[1]), Column(scope, b),
                      {TableOf(scope, a[1]), TableOf(scope, b[1])})

(* One row per value of its join columns: a table on its primary key, a    *)
(* scope whose projection is unique on a subset of them.                   *)
UniqueSide(scope, side, on_columns, grain) ==
    IF grain = None THEN Column(scope, side) \in PrimaryKeys
    ELSE grain.unique_on # None /\ grain.unique_on \subseteq on_columns

(* The real column a side reads: a scope's plain column is its table's.    *)
Behind(scope, side, grain) ==
    IF grain = None THEN Column(scope, side)
    ELSE IF side[2] \in DOMAIN grain.passthrough THEN grain.passthrough[side[2]] ELSE None

ScopeStep(scope, a, grain_a, on_a, b, grain_b, on_b) ==
    LET ta == TableOf(scope, a[1])
        tb == TableOf(scope, b[1])
        a_unique == UniqueSide(scope, a, on_a, grain_a)
        b_unique == UniqueSide(scope, b, on_b, grain_b)
        behind_a == Behind(scope, a, grain_a)
        behind_b == Behind(scope, b, grain_b)
        closed(grain, behind) == grain # None /\ (behind = None \/ behind[1] \in grain.repeated)
    IN  CASE a_unique /\ b_unique -> {}
          [] a_unique /\ ~b_unique -> {OneToMany(ta, tb, {ta, tb})}
          [] b_unique /\ ~a_unique -> {OneToMany(tb, ta, {ta, tb})}
          [] OTHER -> IF closed(grain_a, behind_a) \/ closed(grain_b, behind_b)
                      THEN {Unvouched({ta, tb})}
                      ELSE ByForeignKey(ta, behind_a, tb, behind_b, {ta, tb, behind_a[1], behind_b[1]})

GrainOf(statement, grains, table) ==
    IF ScopeNamed(statement, table) = None THEN None ELSE grains[ScopeNamed(statement, table)]

(* Every join the map, the foreign keys or the scopes do not vouch for; a  *)
(* condition with no plain equality that derives its key is one more.      *)
StepsOf(statement, grains, scope, source) ==
    LET on_columns(alias) == {side[2] : side \in {s \in UNION source.on.equalities : s[1] = alias}}
        step(eq) ==
            LET a == CHOOSE s \in eq : TRUE
                b == CHOOSE s \in eq : s # a
                grain(s) == GrainOf(statement, grains, TableOf(scope, s[1]))
            IN  IF grain(a) = None /\ grain(b) = None THEN TableStep(scope, source.on, eq, a, b)
                ELSE ScopeStep(scope, a, grain(a), on_columns(a[1]), b, grain(b), on_columns(b[1]))
    IN  IF source.on.equalities = {} /\ source.on.derives THEN {Unvouched(Tables(scope))}
        ELSE UNION {step(eq) : eq \in source.on.equalities}

JoinSteps(statement, grains, scope) ==
    UNION {StepsOf(statement, grains, scope, scope.sources[i]) : i \in 2 .. Len(scope.sources)}

(***************************************************************************)
(* The tables a scope's joins repeat                                       *)
(***************************************************************************)
(* A slip: siblings are taken for independent of each other.               *)
RepeatedOneSides(steps, in_scope) ==
    IF \E s \in steps : s.kind = "unvouched" THEN in_scope ELSE {s.one : s \in steps}

(* Every table when a step is unvouched; else the one sides, and the many  *)
(* sides that share a one side.                                            *)
Repeated(steps, in_scope) ==
    IF \E s \in steps : s.kind = "unvouched" THEN in_scope
    ELSE {s.one : s \in steps}
         \cup {s.many : s \in {r \in steps : \E q \in steps : q.one = r.one /\ q.many # r.many}}

(***************************************************************************)
(* What the rows of a named scope are                                      *)
(***************************************************************************)
RowGrain == "row grain"
Unknown == "?"

(* The argument of COUNT, SUM or AVG that counts rows, * being a number    *)
(* here; one made of numbers, 2 * 3, is not one.                           *)
CountsRows(e) == e.op = "number"

(* The tables an expression reads: none, for one that names no column and  *)
(* does not count rows.                                                    *)
TablesRead(scope, e) ==
    LET owners(ref) == OwnersOf(ref.column, Tables(scope))
        read(ref) == IF ref.qualifier # None THEN TableOf(scope, ref.qualifier)
                     ELSE IF Cardinality(owners(ref)) = 1 THEN CHOOSE t \in owners(ref) : TRUE ELSE Unknown
    IN  IF CountsRows(e) THEN {RowGrain} ELSE {read(ref) : ref \in Refs(e)}

(* The output columns that are a table's own, and what they are.           *)
PassedThrough(scope) ==
    LET plain(e) == /\ e.op = "column" /\ Unknown \notin TablesRead(scope, e)
        of(name) == ItemNamed(scope, name)
    IN  [name \in {scope.items[i].alias : i \in {j \in DOMAIN scope.items : plain(scope.items[j].expr)}} |->
            <<CHOOSE t \in TablesRead(scope, of(name)) : TRUE, of(name).column>>]

(* A key that carries a table's primary key beside other columns of that   *)
(* table is that primary key alone.                                        *)
GroupKey(scope, passthrough) ==
    LET names == {scope.items[i].alias : i \in ToSet(scope.group)}
        alone == {n \in names \cap DOMAIN passthrough :
                    /\ passthrough[n] \in PrimaryKeys
                    /\ \A m \in names \ {n} : m \in DOMAIN passthrough /\ passthrough[m][1] = passthrough[n][1]}
    IN  IF scope.group = <<>> \/ 0 \in ToSet(scope.group) THEN None
        ELSE IF alone # {} THEN {CHOOSE n \in alone : TRUE} ELSE names

UniqueOn(scope, passthrough) ==
    IF scope.union THEN None
    ELSE IF scope.distinct THEN {scope.items[i].alias : i \in DOMAIN scope.items}
    ELSE GroupKey(scope, passthrough)

Grain(statement, grains, scope) ==
    LET steps == JoinSteps(statement, grains, scope)
        passthrough == PassedThrough(scope)
        names == {scope.items[i].alias : i \in DOMAIN scope.items}
    IN  [from_table |-> FromTable(scope),
         unique_on |-> UniqueOn(scope, passthrough),
         reads |-> [n \in names |-> IF scope.union THEN {Unknown} ELSE TablesRead(scope, ItemNamed(scope, n))],
         passthrough |-> passthrough,
         repeated |-> Repeated(steps, Tables(scope))]

(* Post-order: the grains of the scopes before it are known.               *)
Grains(statement) == FoldLeft(LAMBDA grains, scope : Append(grains, Grain(statement, grains, scope)), <<>>, statement)

(***************************************************************************)
(* What an aggregate reads                                                 *)
(***************************************************************************)
OrRowGrain(read, grain) ==
    (read \ {RowGrain, Unknown}) \cup (IF RowGrain \in read /\ grain.from_table # None THEN {grain.from_table} ELSE {})
                                 \cup (IF Unknown \in read THEN grain.repeated ELSE {})

Nothing == [tables |-> {}, repeated |-> {}]

(* Through a scope that is not deduplicated: the tables its rows come      *)
(* from, and those its joins repeat.                                       *)
RECURSIVE ReadThrough(_, _, _, _)
ReadThrough(statement, grains, name, columns) ==
    LET at == ScopeNamed(statement, name)
        grain == grains[at]
        of(c) == IF c \notin DOMAIN grain.reads THEN {Unknown}
                 ELSE IF grain.reads[c] = {} THEN {RowGrain} ELSE grain.reads[c]
        read == IF columns = {} THEN {RowGrain} ELSE UNION {of(c) : c \in columns}
        sources == OrRowGrain(read, grain)
        deep == {s \in sources : /\ ScopeNamed(statement, s) # None
                                 /\ grains[ScopeNamed(statement, s)].unique_on = None}
        deeper == {ReadThrough(statement, grains, s, {}) : s \in deep}
    IN  IF at = None \/ (at # None /\ grain.unique_on # None) THEN Nothing
        ELSE [tables |-> (sources \ deep) \cup UNION {d.tables : d \in deeper},
              repeated |-> grain.repeated \cup UNION {d.repeated : d \in deeper}]

(* The output columns of a named scope that an aggregate's argument reads. *)
ScopeColumnsRead(statement, grains, scope, e, name) ==
    LET bare(ref) == /\ ref.qualifier = None /\ OwnersOf(ref.column, Tables(scope)) = {}
                     /\ {n \in Tables(scope) : /\ ScopeNamed(statement, n) # None
                                               /\ ref.column \in DOMAIN grains[ScopeNamed(statement, n)].reads} = {name}
    IN  {ref.column : ref \in {r \in Refs(e) :
            (r.qualifier # None /\ TableOf(scope, r.qualifier) = name) \/ bare(r)}}

NamedIn(statement, scope) == {t \in Tables(scope) : ScopeNamed(statement, t) # None}

(* An aggregate adds join combinations when a table it reads is repeated   *)
(* here, or inside the scope it reads.                                     *)
Fans(statement, grains, at, call) ==
    LET scope == statement[at]
        arg == IF call.args = <<>> THEN Number(1) ELSE call.args[1]
        reads == OrRowGrain(TablesRead(scope, arg), grains[at])
        columns(name) == IF Refs(arg) = {} THEN {} ELSE ScopeColumnsRead(statement, grains, scope, arg, name)
        throughs == {ReadThrough(statement, grains, n, columns(n)) :
                        n \in {m \in NamedIn(statement, scope) : m \in reads \/ columns(m) # {}}}
    IN  /\ ~(call.op = "agg_distinct" /\ call.func = "count")
        /\ \/ reads \cap grains[at].repeated # {}
           \/ \E t \in throughs : t.tables \cap t.repeated # {}

LintFan(statement) ==
    LET grains == Grains(statement)
    IN  \E at \in DOMAIN statement : \E call \in CallsOf(statement[at]) : Fans(statement, grains, at, call)

(***************************************************************************)
(* LEFT JOINs                                                              *)
(***************************************************************************)
LeftJoins(scope) ==
    {i \in DOMAIN scope.sources :
        /\ scope.sources[i].join = "left"
        /\ ~\E eq \in scope.sources[i].on.equalities : OneToOne(scope, scope.sources[i].on, eq)}

NamesOf(source) == {source.table, source.alias} \ {None}

(* Everything the scope says outside source i's own ON.                    *)
RefsBeyond(scope, i) ==
    LET conditions == {scope.where} \cup {scope.sources[j].on : j \in DOMAIN scope.sources \ {i}}
    IN  {<<r.qualifier, r.column>> : r \in UNION {Refs(e) : e \in ExprsOf(scope)}}
        \cup UNION {UNION c.equalities : c \in conditions}
        \cup UNION {{<<f.qualifier, f.column>> : f \in c.filters} : c \in conditions}
        \cup {<<None, scope.items[j].alias>> : j \in DOMAIN scope.items}

(* A LEFT JOIN nothing reads keeps every row and adds nothing.             *)
LintDead(statement) ==
    \E at \in DOMAIN statement :
        LET scope == statement[at]
        IN  /\ CallsOf(scope) # {}
            /\ \E i \in LeftJoins(scope) :
                /\ scope.sources[i].table \notin DerivedTables(statement)
                /\ \A r \in RefsBeyond(scope, i) :
                    /\ r[1] \notin NamesOf(scope.sources[i])
                    /\ ~(r[1] = None /\ <<scope.sources[i].table, r[2]>> \in KnownColumns)

(* AVG over the nullable side skips the unmatched rows.                    *)
LintAvgNull(statement) ==
    \E at \in DOMAIN statement : \E i \in LeftJoins(statement[at]) : \E call \in CallsOf(statement[at]) :
        /\ call.op = "agg" /\ call.func = "avg" /\ call.args[1].op = "column"
        /\ call.args[1].qualifier \in NamesOf(statement[at].sources[i])

LintFanOut(statement) == LintFan(statement) \/ LintDead(statement) \/ LintAvgNull(statement)
===============================================================================
