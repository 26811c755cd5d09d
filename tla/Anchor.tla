-------------------------------- MODULE Anchor --------------------------------
(***************************************************************************)
(* What a follow-up is held to (verifier/anchor.py): a conversation's      *)
(* turns establish entities, a later question refers back to one, and the  *)
(* answer must be about it.  One action is one turn: the verifier reads    *)
(* the anchor, the ladder ships or refuses, and finalize harvests what the *)
(* turn established for the turns after it.                                *)
(***************************************************************************)
EXTENDS Entities

CONSTANTS
    Evidences,      \* the run_sql evidence a turn can have
    Abouts,         \* what the router can declare; <<>> is nothing
    Texts,          \* what a prose draft names: [whole, part], sets of values
    MaxTurns

ASSUME TurnsAssumption == MaxTurns \in Nat

VARIABLES
    prior,          \* the TurnAnchors of the conversation so far
    facts           \* each turn as it went (history): see Fact

vars == <<prior, facts>>

(* A question: the kind of its back-reference, a kindless pronoun, neither. *)
Questions == [kind : ToSet(Kinds), pronoun : {FALSE}] \cup [kind : {None}, pronoun : BOOLEAN]

Newest(S) == CHOOSE i \in S : \A j \in S : j <= i

(***************************************************************************)
(* The reading                                                             *)
(***************************************************************************)
EvidenceAnchors(record, kind) == {a \in record.entities : a.kind = kind /\ a.column # None}
DeclaredAnchorsOf(record, kind) == {a \in record.entities : a.kind = kind /\ a.source = "declared"}

(* A turn's anchors of a kind: its evidence's, else its declaration.       *)
AnchorsOf(record, kind) ==
    IF EvidenceAnchors(record, kind) # {} THEN EvidenceAnchors(record, kind)
    ELSE DeclaredAnchorsOf(record, kind)

TurnsEstablishing(kind) == {i \in DOMAIN prior : AnchorsOf(prior[i], kind) # {}}

(* A slip: any established entity closes the window, a declaration too.    *)
DecidesWindowByAny(record) == record.contradicted # None \/ record.entities # {}

(* The newest record that was warned, or established a column's value.     *)
DecidesWindow(record) ==
    record.contradicted # None \/ \E a \in record.entities : a.column # None

OpenWindow ==
    LET deciding == {i \in DOMAIN prior : DecidesWindow(prior[i])}
    IN  IF deciding = {} THEN None
        ELSE prior[Newest(deciding)].contradicted

ReferentKind(question) ==
    IF question.kind # None THEN question.kind
    ELSE IF question.pronoun THEN OpenWindow ELSE None

DeclaredMatches(about, kind, names) ==
    \/ StripAbout(about, kind) \in names
    \/ /\ Len(about) > 1
       /\ \A i \in DOMAIN about : StripKindNoun(about[i], kind) \in names

(* The equality filters of the turn's statements on one of the anchor's    *)
(* columns.                                                                *)
FiltersOn(evidence, kind, anchors) ==
    {l \in UNION {EqualityLiterals(s) : s \in Statements(evidence)} :
        /\ l.kind = kind /\ Cardinality(l.values) = 1
        /\ l.column \in {a.column : a \in {b \in anchors : b.column # None}}}

Value(literal) == CHOOSE v \in literal.values : TRUE
ValuesAt(anchors, column) == {a.value : a \in {b \in anchors : b.column = column}}

Read(kind, turn, finding, confirmed_by, values) ==
    [kind |-> kind, turn |-> turn, finding |-> finding, confirmed_by |-> confirmed_by, values |-> values]
NoReading == Read(None, 0, FALSE, "none", {})

(* Which arm decides: the declared about; a filter; the prose.  Of several *)
(* filters the first in the statement decides, and the set has no order.   *)
Readings(question, about, evidence, draft) ==
    LET kind == ReferentKind(question)
        turn == Newest(TurnsEstablishing(kind))
        anchors == AnchorsOf(prior[turn], kind)
        names == {a.value : a \in anchors}
        By(arm, values) == Read(kind, prior[turn].turn, FALSE, arm, values)
        Warn == Read(kind, prior[turn].turn, TRUE, "none", {})
        filters == FiltersOn(evidence, kind, anchors)
    IN  IF kind = None \/ TurnsEstablishing(kind) = {} THEN {NoReading}
        ELSE IF about # <<>>
          THEN {IF DeclaredMatches(about, kind, names) THEN By("declared", {}) ELSE Warn}
        ELSE IF filters # {}
          THEN {IF Value(l) \in ValuesAt(anchors, l.column)
                THEN By("filter", ValuesAt(anchors, l.column)) ELSE Warn : l \in filters}
        ELSE IF draft.kind = "table" THEN {By("none", {})}
        ELSE IF draft.text.whole \cap names # {}
          THEN {By("prose", {v}) : v \in draft.text.whole \cap names}
        ELSE IF draft.text.part \cap names # {} THEN {By("none", {})}
        ELSE {Warn}

(***************************************************************************)
(* A turn                                                                  *)
(***************************************************************************)
Init == prior = <<>> /\ facts = <<>>

(* The about that ships: the router's, or the anchor value the reading     *)
(* confirmed, bare.                                                        *)
ShippedAbout(about, read) ==
    IF about # <<>> \/ read.finding \/ read.confirmed_by \notin {"filter", "prose"} THEN about
    ELSE <<[noun |-> None, value |-> (CHOOSE v \in read.values : TRUE)[1]]>>

(* What the turn's evidence says, whatever became of the turn.             *)
Fact(kind, evidence, about, answered, warned, read) ==
    [kind |-> kind, shown |-> Established(evidence), declared |-> about # <<>>,
     answered |-> answered, warned |-> warned, held |-> read.turn]

(* verify reads the anchor for a draft; finalize reads the kind again and  *)
(* harvests.  An answer can also be refused for its claims or findings.    *)
AnswerTurn ==
    /\ Len(prior) < MaxTurns
    /\ \E question \in Questions, about \in Abouts, evidence \in Evidences,
         draft \in {[kind |-> "table", text |-> [whole |-> {}, part |-> {}]]}
                   \cup {[kind |-> "prose", text |-> t] : t \in Texts},
         shipped \in BOOLEAN :
        \E read \in Readings(question, about, evidence, draft) :
            LET kind == ReferentKind(question)
                contradicted == IF read.finding THEN kind ELSE None
                says == IF shipped THEN ShippedAbout(about, read) ELSE <<>>
            IN  /\ prior' = Append(prior, HarvestTurnAnchors(evidence, says, kind, Len(prior) + 1,
                                                             shipped, contradicted))
                /\ facts' = Append(facts, Fact(kind, evidence, says, shipped, read.finding, read))

(* A turn that drafts nothing: the router refuses, asks or escalates.      *)
OtherTurn ==
    /\ Len(prior) < MaxTurns
    /\ \E question \in Questions, evidence \in Evidences :
        /\ prior' = Append(prior, HarvestTurnAnchors(evidence, <<>>, ReferentKind(question),
                                                     Len(prior) + 1, FALSE, None))
        /\ facts' = Append(facts, Fact(ReferentKind(question), evidence, <<>>, FALSE, FALSE, NoReading))

Rest == Len(prior) = MaxTurns /\ UNCHANGED vars

Next == AnswerTurn \/ OtherTurn \/ Rest

Spec == Init /\ [][Next]_vars

(***************************************************************************)
(* Properties                                                              *)
(***************************************************************************)
Turns == DOMAIN facts

(* A turn that gave its user an entity of the kind: answered, and not      *)
(* contradicted.                                                           *)
Gave(t, kind) ==
    /\ facts[t].answered /\ ~facts[t].warned
    /\ \/ \E a \in facts[t].shown : a.kind = kind
       \/ facts[t].declared /\ facts[t].kind = kind

(* read_anchor: a follow-up is held to the newest turn that gave an entity *)
(* of its kind; refusals and contradicted turns in between do not count,   *)
(* and a follow-up that has such a turn is never left unread.              *)
HeldToNewestGiven ==
    \A t \in Turns :
        LET before == {s \in 1 .. t - 1 : facts[t].kind # None /\ Gave(s, facts[t].kind)}
        IN  facts[t].answered \/ facts[t].warned =>
               facts[t].held = IF before = {} THEN 0 ELSE Newest(before)

(* open_window: from a contradicted turn on, until an answered turn shows  *)
(* an entity, a bare "it" is read against the contradicted kind; a refusal *)
(* or a declaration does not close the window.                             *)
PronounFollowsWarning ==
    LET warned == {t \in Turns : facts[t].warned}
        showed == {t \in Turns : facts[t].answered /\ ~facts[t].warned /\ facts[t].shown # {}}
        open == {t \in warned : \A s \in showed : s < t}
    IN  ReferentKind([kind |-> None, pronoun |-> TRUE]) =
            IF open = {} THEN None ELSE facts[Newest(open)].kind
===============================================================================
