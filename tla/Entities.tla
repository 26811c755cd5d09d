------------------------------- MODULE Entities -------------------------------
(***************************************************************************)
(* Entity kinds at work (tools/entities.py): the pack's declarations       *)
(* resolved against the dictionary, and what a turn's SQL evidence says of *)
(* the entities of each kind.                                              *)
(*                                                                         *)
(* A column is <<table, column>>.  A statement is its scopes, each with    *)
(* the tables its aliases stand for and the predicates that bind a column  *)
(* to literals; a result is where each of its columns comes from, as far   *)
(* as the select list can be read, and the values in it.                   *)
(***************************************************************************)
EXTENDS Naturals, Sequences, FiniteSets, SequencesExt

CONSTANTS
    None,           \* Python's None
    Dictionary,     \* sequence of [column, primary, fk]: rows, fk None or a column
    Declared        \* sequence of [kind, columns, keys]: the pack's entities

(***************************************************************************)
(* The catalog                                                             *)
(***************************************************************************)
Kinds == [i \in DOMAIN Declared |-> Declared[i].kind]
KnownColumns == {Dictionary[i].column : i \in DOMAIN Dictionary}
KnownTables == {c[1] : c \in KnownColumns}
DeclaredColumns == UNION {Declared[i].columns : i \in DOMAIN Declared}

(* The first declaration of a column has its kind.                         *)
DeclaredKind(c) ==
    Declared[CHOOSE i \in DOMAIN Declared :
                c \in Declared[i].columns /\ \A j \in 1 .. i - 1 : c \notin Declared[j].columns].kind

(* A foreign key to a column that has a kind is that column by another     *)
(* name; the dictionary is read once, in order.                            *)
Resolve1(known, row) ==
    IF row.fk # None /\ row.column \notin DOMAIN known /\ row.fk \in DOMAIN known
    THEN [c \in DOMAIN known \cup {row.column} |->
            IF c = row.column THEN known[row.fk] ELSE known[c]]
    ELSE known

Resolved ==
    FoldLeft(Resolve1, [c \in DeclaredColumns |-> [kind |-> DeclaredKind(c), canonical |-> c]],
             Dictionary)

KindOf(column) == IF column \in DOMAIN Resolved THEN Resolved[column].kind ELSE None
Canonical(column) == IF column \in DOMAIN Resolved THEN Resolved[column].canonical ELSE column

IdLike(column) ==
    \/ \E i \in DOMAIN Dictionary :
         Dictionary[i].column = column /\ (Dictionary[i].primary \/ Dictionary[i].fk # None)
    \/ \E i \in DOMAIN Declared : column \in Declared[i].keys

(* The one declared column spelled so, or None.                            *)
Sole(set) == IF Cardinality(set) = 1 THEN CHOOSE x \in set : TRUE ELSE None
EntityColumnNamed(name) == Sole({c \in DOMAIN Resolved : c[2] = name})

(* No kind is None, and a column that has a kind stands for a column.      *)
ASSUME CatalogAssumption ==
    /\ None \notin ToSet(Kinds)
    /\ \A c \in DOMAIN Resolved : Resolved[c].canonical # None

(***************************************************************************)
(* Reading a statement                                                     *)
(***************************************************************************)
(* The real table of a predicate's column: the alias's, or the sole owner  *)
(* in scope of a bare column.                                              *)
TableOf(scope, qualifier, column) ==
    IF qualifier # None
    THEN IF qualifier \in DOMAIN scope.tables /\ scope.tables[qualifier] \in KnownTables
         THEN scope.tables[qualifier] ELSE None
    ELSE Sole({scope.tables[a] : a \in {b \in DOMAIN scope.tables :
                                          <<scope.tables[b], column>> \in KnownColumns}})

(* A predicate binds when its right side ends with its literals and its    *)
(* column is a real table's.                                               *)
LiteralsOf(scope) ==
    {[column |-> Canonical(<<TableOf(scope, p.qualifier, p.column), p.column>>),
      kind |-> KindOf(<<TableOf(scope, p.qualifier, p.column), p.column>>),
      id_like |-> IdLike(<<TableOf(scope, p.qualifier, p.column), p.column>>),
      values |-> p.values] :
        p \in {q \in scope.predicates :
                 /\ ~q.continues /\ q.values # {}
                 /\ <<TableOf(scope, q.qualifier, q.column), q.column>> \in KnownColumns}}

EqualityLiterals(statement) == UNION {LiteralsOf(statement.scopes[i]) : i \in DOMAIN statement.scopes}

(* Where a result column comes from: the parse's table, else the sole      *)
(* owner among the tables read, else the one entity column of its name.    *)
PlacedAt(statement, alias) ==
    LET item == statement.items[alias]
        referenced == UNION {{s.tables[a] : a \in DOMAIN s.tables} : s \in ToSet(statement.scopes)}
        owner == Sole({t \in referenced \cap KnownTables : <<t, item.column>> \in KnownColumns})
        read == IF item = None THEN None
                ELSE IF item.table # None /\ item.table \in KnownTables THEN <<item.table, item.column>>
                ELSE IF owner # None THEN <<owner, item.column>> ELSE None
    IN  IF read # None THEN read ELSE EntityColumnNamed(alias)

(***************************************************************************)
(* What the turn's evidence established                                    *)
(***************************************************************************)
Sql(evidence) == SelectSeq(evidence, LAMBDA e : e.tool = "run_sql" /\ e.status = "ok")
Statements(evidence) == {e.output : e \in ToSet(Sql(evidence))}

Placed(s) == {a \in DOMAIN s.items : PlacedAt(s, a) # None}

(* Values by canonical column, from the cells and from the filters.        *)
CellsOf(s) ==
    UNION {{[column |-> Canonical(PlacedAt(s, a)), kind |-> KindOf(PlacedAt(s, a)),
             id_like |-> IdLike(PlacedAt(s, a)), value |-> v] : v \in s.values[a]} : a \in Placed(s)}

FiltersOf(s) ==
    UNION {{[column |-> l.column, kind |-> l.kind, id_like |-> l.id_like, value |-> v] : v \in l.values} :
           l \in EqualityLiterals(s)}

Bindings(evidence) == UNION {CellsOf(s) \cup FiltersOf(s) : s \in Statements(evidence)}

(* A kind is determinate when no column of it has two values.              *)
Determinate(bindings, kind) ==
    \A b, c \in bindings : b.kind = kind /\ c.kind = kind /\ b.column = c.column => b.value = c.value

Established(evidence) ==
    LET bindings == Bindings(evidence)
        shown == UNION {CellsOf(s) : s \in Statements(evidence)}
    IN  {[kind |-> b.kind, column |-> b.column, value |-> b.value,
          source |-> IF b \in shown THEN "cell" ELSE "filter"] :
           b \in {c \in bindings : c.kind \in ToSet(Kinds) /\ Determinate(bindings, c.kind)}}

KeysSeen(evidence) == {[column |-> b.column, value |-> b.value] : b \in {c \in Bindings(evidence) : c.id_like}}

(* An about is its parts, joined as the transcript joins the columns of an *)
(* anchor, each perhaps with a kind noun in front.  A value is written as  *)
(* the tuple of what it is made of.                                        *)
Written(part) == IF part.noun = None THEN <<part.value>> ELSE <<part.noun, part.value>>

StripKindNoun(part, kind) ==
    IF kind # None /\ part.noun = kind THEN <<part.value>> ELSE Written(part)

StripAbout(about, kind) ==
    FlattenSeq([i \in DOMAIN about |->
        IF i = 1 THEN StripKindNoun(about[i], kind) ELSE Written(about[i])])

DeclaredAnchors(about, kind) ==
    IF about = <<>> THEN {}
    ELSE {[kind |-> kind, column |-> None, value |-> StripAbout(about, kind), source |-> "declared"]}

(* A slip: a contradicted turn's entities count.                           *)
HarvestContradicted(evidence, about, kind, turn, answered, contradicted) ==
    [turn |-> turn, contradicted |-> contradicted,
     entities |-> IF ~answered THEN {}
                  ELSE Established(evidence) \cup DeclaredAnchors(about, kind),
     keys |-> KeysSeen(evidence)]

(* Only an answer that was not contradicted establishes an entity; the     *)
(* keys were seen whatever came of the turn.                               *)
HarvestTurnAnchors(evidence, about, kind, turn, answered, contradicted) ==
    [turn |-> turn, contradicted |-> contradicted,
     entities |-> IF ~answered \/ contradicted # None THEN {}
                  ELSE Established(evidence) \cup DeclaredAnchors(about, kind),
     keys |-> KeysSeen(evidence)]
===============================================================================
