------------------------------ MODULE AnchorProofs ------------------------------
(***************************************************************************)
(* What a follow-up is held to, for every dictionary and declaration of    *)
(* entities, every evidence, and conversations of any length.              *)
(***************************************************************************)
EXTENDS Anchor, NaturalsInduction, WellFoundedInduction, TLAPS

(* The newest of some turns is one of them.                                *)
LEMMA NewestIsOne ==
    ASSUME NEW S \in SUBSET Nat, S # {}, NEW bound \in Nat, \A i \in S : i <= bound
    PROVE  Newest(S) \in S /\ \A i \in S : i <= Newest(S)
<1>. DEFINE R == OpToRel(<, Nat)
            Left == {n \in Nat : bound - n \in S}
<1>1. \A i, j \in Nat : <<i, j>> \in R <=> i < j
  BY DEF OpToRel
<1>2. ASSUME NEW i \in S PROVE bound - i \in Left /\ i = bound - (bound - i)
  BY <1>2
<1>3. IsWellFoundedOn(R, Nat)
  BY NatLessThanWellFounded
<1>4. Left \subseteq Nat /\ Left # {}
  BY <1>2
<1>. HIDE DEF R, Left
<1>5. PICK n \in Left : \A k \in Left : ~(<<k, n>> \in R)
  BY <1>3, <1>4, WFMin
<1>6. n \in Nat /\ bound - n \in S
  BY <1>5 DEF Left
<1>7. ASSUME NEW i \in S PROVE i <= bound - n
  <2>1. bound - i \in Left /\ bound - i \in Nat
    BY <1>2, <1>4
  <2>2. ~(bound - i < n)
    BY <1>1, <1>5, <1>6, <2>1
  <2>. QED  BY <1>6, <2>2
<1>8. \E m \in S : \A i \in S : i <= m
  BY <1>6, <1>7
<1>. QED  BY <1>8 DEF Newest

LEMMA NewestIs ==
    ASSUME NEW S \in SUBSET Nat, NEW m \in S, \A i \in S : i <= m
    PROVE  Newest(S) = m
<1>1. Newest(S) \in S /\ \A i \in S : i <= Newest(S)
  BY DEF Newest
<1>2. Newest(S) <= m /\ m <= Newest(S) /\ Newest(S) \in Nat /\ m \in Nat
  BY <1>1
<1>. QED  BY <1>2

(* What the evidence establishes has a kind, and a column it is a value of.*)
LEMMA KnownKind ==
    ASSUME NEW column, KindOf(column) \in ToSet(Kinds)
    PROVE  Canonical(column) # None
<1>1. column \in DOMAIN Resolved
  BY CatalogAssumption DEF KindOf
<1>. QED  BY <1>1, CatalogAssumption DEF Canonical

LEMMA EstablishedEntities ==
    ASSUME NEW evidence, NEW a \in Established(evidence)
    PROVE  a.kind \in ToSet(Kinds) /\ a.column # None /\ a.source # "declared"
<1>1. PICK b \in Bindings(evidence) :
         /\ b.kind \in ToSet(Kinds) /\ a.kind = b.kind /\ a.column = b.column
         /\ a.source \in {"cell", "filter"}
  BY DEF Established
<1>2. PICK s \in Statements(evidence) : b \in CellsOf(s) \cup FiltersOf(s)
  BY DEF Bindings
<1>3. \E column : b.kind = KindOf(column) /\ b.column = Canonical(column)
  <2>1. CASE b \in CellsOf(s)
    BY <2>1 DEF CellsOf
  <2>2. CASE b \in FiltersOf(s)
    <3>1. PICK l \in EqualityLiterals(s) : b.kind = l.kind /\ b.column = l.column
      BY <2>2 DEF FiltersOf
    <3>2. PICK scope : l \in LiteralsOf(scope)
      BY <3>1 DEF EqualityLiterals
    <3>3. PICK p : l = [column |-> Canonical(<<TableOf(scope, p.qualifier, p.column), p.column>>),
                        kind |-> KindOf(<<TableOf(scope, p.qualifier, p.column), p.column>>),
                        id_like |-> IdLike(<<TableOf(scope, p.qualifier, p.column), p.column>>),
                        values |-> p.values]
      BY <3>2, Zenon DEF LiteralsOf
    <3> DEFINE c == <<TableOf(scope, p.qualifier, p.column), p.column>>
    <3>4. l = [column |-> Canonical(c), kind |-> KindOf(c), id_like |-> IdLike(c),
               values |-> p.values]
      BY <3>3
    <3> HIDE DEF c
    <3>5. l.column = Canonical(c) /\ l.kind = KindOf(c)
      BY <3>4
    <3>. QED  BY <3>1, <3>5
  <2>. QED  BY <1>2, <2>1, <2>2
<1>. QED  BY <1>1, <1>3, KnownKind
-------------------------------------------------------------------------------
(* Each record tells of its turn: who it contradicts, whether it shows an  *)
(* entity, and of which kinds it gives one.                                *)
KindsOrNone == ToSet(Kinds) \cup {None}

Tells(t) ==
    /\ prior[t].turn = t
    /\ facts[t].kind \in KindsOrNone
    /\ facts[t].warned => facts[t].kind # None
    /\ prior[t].contradicted = IF facts[t].warned THEN facts[t].kind ELSE None
    /\ (\E a \in prior[t].entities : a.column # None) <=>
          facts[t].answered /\ ~facts[t].warned /\ facts[t].shown # {}
    /\ \A kind \in KindsOrNone : AnchorsOf(prior[t], kind) # {} <=> Gave(t, kind)

(* A turn of the kind that gave an entity, before turn t; and what the     *)
(* first property says of one turn.                                        *)
Before(t, kind) == {s \in 1 .. t - 1 : kind # None /\ Gave(s, kind)}

HeldRight(t) ==
    facts[t].answered \/ facts[t].warned =>
       facts[t].held = IF Before(t, facts[t].kind) = {} THEN 0
                       ELSE Newest(Before(t, facts[t].kind))

Sequence(s) == s \in Seq(ToSet(s))

AnchorInv ==
    /\ Sequence(prior) /\ Sequence(facts) /\ Len(facts) = Len(prior)
    /\ \A t \in DOMAIN prior : Tells(t)
    /\ HeldToNewestGiven

LEMMA AppendedTurn ==
    ASSUME NEW s, Sequence(s), NEW e
    PROVE  /\ Sequence(Append(s, e)) /\ Len(s) \in Nat /\ DOMAIN s = 1..Len(s)
           /\ Len(Append(s, e)) = Len(s) + 1
           /\ DOMAIN Append(s, e) = 1..(Len(s) + 1)
           /\ \A i \in 1..Len(s) : Append(s, e)[i] = s[i]
           /\ Append(s, e)[Len(s) + 1] = e
<1> DEFINE S == ToSet(s) \cup {e}
           t == Append(s, e)
<1>1. s \in Seq(S) /\ e \in S
  BY DEF Sequence
<1> HIDE DEF S
<1>2. /\ Len(s) \in Nat /\ DOMAIN s = 1..Len(s) /\ Len(t) = Len(s) + 1
      /\ DOMAIN t = 1..(Len(s) + 1) /\ \A i \in 1..Len(s) : t[i] = s[i]
      /\ t[Len(s) + 1] = e /\ t \in Seq(S)
  BY <1>1
<1> HIDE DEF t
<1>3. \A i \in 1..Len(t) : t[i] \in {t[j] : j \in DOMAIN t}
  BY <1>2
<1>4. t \in Seq({t[j] : j \in DOMAIN t})
  BY <1>2, <1>3
<1>5. Sequence(t)
  BY <1>4 DEF Sequence, ToSet
<1>. QED  BY <1>2, <1>5 DEF t

(* A record without entities has no anchors; one with what its turn showed *)
(* and declared has those of the shown kinds and of the declared one.      *)
LEMMA NothingHarvested ==
    ASSUME NEW record, record.entities = {}
    PROVE  \A k : AnchorsOf(record, k) = {}
BY DEF AnchorsOf, EvidenceAnchors, DeclaredAnchorsOf

LEMMA Harvested ==
    ASSUME NEW evidence, NEW says, NEW kind, NEW record,
           record.entities = Established(evidence) \cup DeclaredAnchors(says, kind)
    PROVE  /\ (\E a \in record.entities : a.column # None) <=> Established(evidence) # {}
           /\ \A k : AnchorsOf(record, k) # {} <=>
                 \/ \E a \in Established(evidence) : a.kind = k
                 \/ says # <<>> /\ kind = k
<1>1. /\ \A a \in DeclaredAnchors(says, kind) :
            a.kind = kind /\ a.column = None /\ a.source = "declared" /\ says # <<>>
      /\ says # <<>> => \E a \in DeclaredAnchors(says, kind) : TRUE
  <2> DEFINE a == [kind |-> kind, column |-> None, value |-> StripAbout(says, kind),
                   source |-> "declared"]
  <2>1. a.kind = kind /\ a.column = None /\ a.source = "declared"
    OBVIOUS
  <2>2. DeclaredAnchors(says, kind) = IF says = <<>> THEN {} ELSE {a}
    BY DEF DeclaredAnchors
  <2> HIDE DEF a
  <2>. QED  BY <2>1, <2>2
<1>2. \A a \in Established(evidence) : a.column # None /\ a.source # "declared"
  BY EstablishedEntities
<1>3. (\E a \in record.entities : a.column # None) <=> Established(evidence) # {}
  BY <1>1, <1>2
<1>4. ASSUME NEW k
      PROVE  AnchorsOf(record, k) # {} <=>
                \/ \E a \in Established(evidence) : a.kind = k
                \/ says # <<>> /\ kind = k
  <2>1. AnchorsOf(record, k) # {} <=>
           \E a \in record.entities : a.kind = k /\ (a.column # None \/ a.source = "declared")
    BY DEF AnchorsOf, EvidenceAnchors, DeclaredAnchorsOf
  <2>. QED  BY <1>1, <1>2, <2>1
<1>. QED  BY <1>3, <1>4

(* What a reading holds the turn to.                                       *)
HeldTurn(kind) ==
    IF kind = None \/ TurnsEstablishing(kind) = {} THEN 0
    ELSE prior[Newest(TurnsEstablishing(kind))].turn

LEMMA ReadingHolds ==
    ASSUME NEW question, NEW about, NEW evidence, NEW draft,
           NEW read \in Readings(question, about, evidence, draft)
    PROVE  /\ read.turn = HeldTurn(ReferentKind(question))
           /\ read.finding \in BOOLEAN
           /\ read.finding => ReferentKind(question) # None
<1> DEFINE kind == ReferentKind(question)
           held == prior[Newest(TurnsEstablishing(kind))].turn
<1>1. CASE kind = None \/ TurnsEstablishing(kind) = {}
  <2>1. read = NoReading
    BY <1>1 DEF Readings
  <2>. QED  BY <1>1, <2>1 DEF NoReading, Read, HeldTurn
<1>2. CASE ~(kind = None \/ TurnsEstablishing(kind) = {})
  <2>1. PICK arm, values : \/ read = Read(kind, held, FALSE, arm, values)
                            \/ read = Read(kind, held, TRUE, "none", {})
    BY <1>2 DEF Readings
  <2>2. held = HeldTurn(kind)
    BY <1>2 DEF HeldTurn
  <2>3. kind # None
    BY <1>2
  <2> HIDE DEF held, kind
  <2>4. read.turn = held /\ read.finding \in BOOLEAN
    <3>1. CASE read = Read(kind, held, FALSE, arm, values)
      BY <3>1 DEF Read
    <3>2. CASE read = Read(kind, held, TRUE, "none", {})
      BY <3>2 DEF Read
    <3>. QED  BY <2>1, <3>1, <3>2
  <2>. QED  BY <2>2, <2>3, <2>4 DEF kind
<1>. QED  BY <1>1, <1>2

LEMMA KnownReferent ==
    ASSUME AnchorInv, NEW question \in Questions
    PROVE  ReferentKind(question) \in KindsOrNone
<1>1. question.kind \in KindsOrNone
  BY DEF Questions, KindsOrNone
<1>2. OpenWindow \in KindsOrNone
  <2> DEFINE deciding == {i \in DOMAIN prior : DecidesWindow(prior[i])}
  <2>1. CASE deciding = {}
    BY <2>1 DEF OpenWindow, KindsOrNone
  <2>2. CASE deciding # {}
    <3>1. /\ DOMAIN prior = 1..Len(prior) /\ Len(prior) \in Nat
      BY DEF AnchorInv, Sequence
    <3>2. deciding \in SUBSET Nat /\ \A i \in deciding : i <= Len(prior)
      BY <3>1
    <3>3. Newest(deciding) \in DOMAIN prior
      <4>1. Newest(deciding) \in deciding
        BY <2>2, <3>1, <3>2, NewestIsOne
      <4>. QED  BY <4>1
    <3>4. prior[Newest(deciding)].contradicted \in KindsOrNone
      BY <3>3 DEF AnchorInv, Tells, KindsOrNone
    <3>. QED  BY <2>2, <3>4 DEF OpenWindow
  <2>. QED  BY <2>1, <2>2
<1>. QED  BY <1>1, <1>2 DEF ReferentKind, KindsOrNone

(* What the model notes of a turn, and what the turn leaves of itself.     *)
Describes(fact, evidence, says) ==
    /\ fact.kind \in KindsOrNone /\ fact.shown = Established(evidence)
    /\ fact.declared <=> says # <<>>
    /\ fact.warned => fact.kind # None
    /\ fact.answered \/ fact.warned => fact.held = HeldTurn(fact.kind)

Records(record, fact, evidence, says) ==
    /\ record.turn = Len(prior) + 1
    /\ record.contradicted = IF fact.warned THEN fact.kind ELSE None
    /\ record.entities = IF fact.answered /\ ~fact.warned
                         THEN Established(evidence) \cup DeclaredAnchors(says, fact.kind) ELSE {}

LEMMA GivenHeld ==
    ASSUME HeldToNewestGiven, NEW t \in DOMAIN facts
    PROVE  HeldRight(t)
BY DEF HeldToNewestGiven, HeldRight, Before, Turns

LEMMA HeldRightNext ==
    ASSUME NEW t,
           \A k : k = facts'[t].kind /\ (facts'[t].answered \/ facts'[t].warned) =>
                    facts'[t].held = IF Before(t, k)' = {} THEN 0 ELSE Newest(Before(t, k)')
    PROVE  HeldRight(t)'
BY DEF HeldRight, Before, Gave

(* A turn joins the conversation: its record tells of it, it is held to    *)
(* the newest turn that gave an entity, and nothing told before changes.   *)
LEMMA TurnJoins ==
    ASSUME AnchorInv, NEW evidence, NEW says, NEW fact, NEW record,
           Describes(fact, evidence, says), Records(record, fact, evidence, says),
           prior' = Append(prior, record), facts' = Append(facts, fact)
    PROVE  AnchorInv'
<1> DEFINE kind == fact.kind
           shipped == fact.answered
           warned == fact.warned
           n == Len(prior) + 1
<1>1. /\ record.turn = n
      /\ record.contradicted = IF warned THEN kind ELSE None
      /\ (\E a \in record.entities : a.column # None) <=>
            shipped /\ ~warned /\ Established(evidence) # {}
      /\ \A k : AnchorsOf(record, k) # {} <=>
            /\ shipped /\ ~warned
            /\ \/ \E a \in Established(evidence) : a.kind = k
               \/ says # <<>> /\ kind = k
  <2>1. record.turn = n /\ record.contradicted = IF warned THEN kind ELSE None
    BY DEF Records
  <2>2. CASE shipped /\ ~warned
    <3>1. record.entities = Established(evidence) \cup DeclaredAnchors(says, kind)
      BY <2>2 DEF Records
    <3>2. (\E a \in record.entities : a.column # None) <=> Established(evidence) # {}
      BY <3>1, Harvested
    <3>3. \A k : AnchorsOf(record, k) # {} <=>
             \/ \E a \in Established(evidence) : a.kind = k
             \/ says # <<>> /\ kind = k
      BY <3>1, Harvested
    <3>. QED  BY <2>1, <2>2, <3>2, <3>3
  <2>3. CASE ~(shipped /\ ~warned)
    <3>1. record.entities = {}
      BY <2>3 DEF Records
    <3>. QED  BY <2>1, <2>3, <3>1, NothingHarvested
  <2>. QED  BY <2>2, <2>3
<1>2. /\ kind \in KindsOrNone /\ fact.shown = Established(evidence)
      /\ fact.declared <=> says # <<>>
      /\ warned => kind # None
      /\ shipped \/ warned => fact.held = HeldTurn(kind)
  BY DEF Describes
<1>3. prior' = Append(prior, record) /\ facts' = Append(facts, fact)
  OBVIOUS
<1>4. /\ Sequence(prior') /\ Sequence(facts') /\ Len(prior') = n /\ Len(facts') = n
      /\ n \in Nat /\ DOMAIN prior = 1..(n - 1) /\ DOMAIN facts = 1..(n - 1)
      /\ DOMAIN prior' = 1..n /\ DOMAIN facts' = 1..n
      /\ \A i \in 1..(n - 1) : prior'[i] = prior[i] /\ facts'[i] = facts[i]
      /\ prior'[n] = record /\ facts'[n] = fact
  <2>1. /\ Sequence(prior') /\ Len(prior) \in Nat /\ DOMAIN prior = 1..Len(prior)
        /\ Len(prior') = Len(prior) + 1 /\ DOMAIN prior' = 1..(Len(prior) + 1)
        /\ \A i \in 1..Len(prior) : prior'[i] = prior[i]
        /\ prior'[Len(prior) + 1] = record
    BY <1>3, AppendedTurn DEF AnchorInv
  <2>2. /\ Sequence(facts') /\ DOMAIN facts = 1..Len(facts)
        /\ Len(facts') = Len(facts) + 1 /\ DOMAIN facts' = 1..(Len(facts) + 1)
        /\ \A i \in 1..Len(facts) : facts'[i] = facts[i]
        /\ facts'[Len(facts) + 1] = fact
    BY <1>3, AppendedTurn DEF AnchorInv
  <2>3. Len(facts) = Len(prior)
    BY DEF AnchorInv
  <2>4. n - 1 = Len(prior)
    BY <2>1
  <2>. QED  BY <2>1, <2>2, <2>3, <2>4
<1> HIDE DEF n
<1>5. \A i \in 1..(n - 1) : \A k : Gave(i, k)' <=> Gave(i, k)
  BY <1>4 DEF Gave
<1>6. \A i, k : i = n => (Gave(i, k)' <=>
         /\ shipped /\ ~warned
         /\ \/ \E a \in Established(evidence) : a.kind = k
            \/ says # <<>> /\ kind = k)
  BY <1>2, <1>4 DEF Gave
<1>7. ASSUME NEW t \in 1..n PROVE Tells(t)'
  <2>1. CASE t \in 1..(n - 1)
    <3>1. Tells(t) /\ prior'[t] = prior[t] /\ facts'[t] = facts[t]
      BY <1>4, <2>1 DEF AnchorInv
    <3>. QED  BY <1>5, <2>1, <3>1 DEF Tells
  <2>2. CASE t = n
    <3>1. /\ prior'[t] = record /\ facts'[t] = fact
      BY <1>4, <2>2
    <3>2. \A k \in KindsOrNone : AnchorsOf(prior'[t], k) # {} <=> Gave(t, k)'
      BY <1>1, <1>6, <2>2, <3>1
    <3>3. /\ prior'[t].turn = t
          /\ prior'[t].contradicted = IF facts'[t].warned THEN facts'[t].kind ELSE None
      <4>1. prior'[t].turn = t /\ prior'[t].contradicted = IF warned THEN kind ELSE None
        BY <1>1, <2>2, <3>1
      <4>2. facts'[t].warned = warned /\ facts'[t].kind = kind
        BY <1>2, <3>1
      <4>. QED  BY <4>1, <4>2
    <3>4. facts'[t].kind \in KindsOrNone /\ (facts'[t].warned => facts'[t].kind # None)
      BY <1>2, <3>1
    <3>5. (\E a \in prior'[t].entities : a.column # None) <=>
             facts'[t].answered /\ ~facts'[t].warned /\ facts'[t].shown # {}
      BY <1>1, <1>2, <3>1
    <3>. QED  BY <3>2, <3>3, <3>4, <3>5 DEF Tells
  <2>. QED  BY <1>4, <2>1, <2>2
<1>8. ASSUME NEW t \in 1..n PROVE HeldRight(t)'
  <2>1. \A k : Before(t, k)' = Before(t, k)
    BY <1>4, <1>5 DEF Before
  <2>2. SUFFICES ASSUME NEW k, k = facts'[t].kind, facts'[t].answered \/ facts'[t].warned
                 PROVE  facts'[t].held = IF Before(t, k) = {} THEN 0 ELSE Newest(Before(t, k))
    <3>1. SUFFICES ASSUME NEW k, k = facts'[t].kind, facts'[t].answered \/ facts'[t].warned
                   PROVE  facts'[t].held = IF Before(t, k)' = {} THEN 0 ELSE Newest(Before(t, k)')
      BY HeldRightNext
    <3>. QED  BY <2>1, <3>1
  <2>3. CASE t \in 1..(n - 1)
    <3>1. facts'[t] = facts[t] /\ HeldRight(t)
      BY <1>4, <2>3, GivenHeld DEF AnchorInv
    <3>. QED  BY <2>2, <3>1 DEF HeldRight
  <2>4. CASE t = n
    <3>1. k = kind /\ facts'[t].held = HeldTurn(kind)
      BY <1>2, <1>4, <2>2, <2>4
    <3>2. kind = None => Before(t, kind) = {}
      BY DEF Before
    <3>3. kind # None => Before(t, kind) = TurnsEstablishing(kind)
      <4>1. \A s \in 1..(n - 1) : AnchorsOf(prior[s], kind) # {} <=> Gave(s, kind)
        BY <1>2, <1>4 DEF AnchorInv, Tells
      <4>. QED  BY <1>4, <2>4, <4>1 DEF TurnsEstablishing, Before
    <3>4. ASSUME kind # None, TurnsEstablishing(kind) # {}
          PROVE  HeldTurn(kind) = Newest(TurnsEstablishing(kind))
      <4> DEFINE S == TurnsEstablishing(kind)
                 m == Newest(S)
      <4>1. S \subseteq 1..(n - 1) /\ S # {}
        BY <1>4, <3>4 DEF TurnsEstablishing
      <4>2. HeldTurn(kind) = prior[m].turn
        BY <3>4 DEF HeldTurn
      <4> HIDE DEF S
      <4>3. S \in SUBSET Nat /\ n \in Nat /\ \A i \in S : i <= n
        BY <1>4, <4>1
      <4>4. m \in S
        BY <4>1, <4>3, NewestIsOne
      <4>5. m \in DOMAIN prior
        BY <1>4, <4>1, <4>4
      <4> HIDE DEF m
      <4>6. prior[m].turn = m
        BY <4>5 DEF AnchorInv, Tells
      <4>. QED  BY <4>2, <4>6 DEF m, S
    <3>. QED  BY <2>2, <3>1, <3>2, <3>3, <3>4 DEF HeldTurn
  <2>. QED  BY <1>4, <2>3, <2>4
<1>9. HeldToNewestGiven'
  BY <1>4, <1>8 DEF HeldToNewestGiven, HeldRight, Before, Turns
<1>10. \A t \in DOMAIN prior' : Tells(t)'
  BY <1>4, <1>7
<1>. QED  BY <1>4, <1>9, <1>10 DEF AnchorInv

LEMMA StepKeepsAnchors == AnchorInv /\ [Next]_vars => AnchorInv'
<1>. SUFFICES ASSUME AnchorInv, [Next]_vars PROVE AnchorInv'
  OBVIOUS
<1>1. CASE AnswerTurn
  <2>1. PICK question \in Questions, about \in Abouts, evidence \in Evidences,
             draft \in {[kind |-> "table", text |-> [whole |-> {}, part |-> {}]]}
                       \cup {[kind |-> "prose", text |-> t] : t \in Texts},
             shipped \in BOOLEAN :
          \E read \in Readings(question, about, evidence, draft) :
            LET kind == ReferentKind(question)
                contradicted == IF read.finding THEN kind ELSE None
                says == IF shipped THEN ShippedAbout(about, read) ELSE <<>>
            IN  /\ prior' = Append(prior, HarvestTurnAnchors(evidence, says, kind, Len(prior) + 1,
                                                             shipped, contradicted))
                /\ facts' = Append(facts, Fact(kind, evidence, says, shipped, read.finding, read))
    BY <1>1, Zenon DEF AnswerTurn
  <2>2. PICK read \in Readings(question, about, evidence, draft) :
          LET kind == ReferentKind(question)
              contradicted == IF read.finding THEN kind ELSE None
              says == IF shipped THEN ShippedAbout(about, read) ELSE <<>>
          IN  /\ prior' = Append(prior, HarvestTurnAnchors(evidence, says, kind, Len(prior) + 1,
                                                           shipped, contradicted))
              /\ facts' = Append(facts, Fact(kind, evidence, says, shipped, read.finding, read))
    BY <2>1
  <2> DEFINE kind == ReferentKind(question)
             says == IF shipped THEN ShippedAbout(about, read) ELSE <<>>
  <2>3. /\ read.turn = HeldTurn(kind)
        /\ read.finding \in BOOLEAN
        /\ read.finding => kind # None
    BY ReadingHolds
  <2>4. kind \in KindsOrNone
    BY KnownReferent
  <2> DEFINE contradicted == IF read.finding THEN kind ELSE None
             record == HarvestTurnAnchors(evidence, says, kind, Len(prior) + 1, shipped,
                                          contradicted)
             fact == Fact(kind, evidence, says, shipped, read.finding, read)
  <2>5. prior' = Append(prior, record) /\ facts' = Append(facts, fact)
    BY <2>2
  <2> HIDE DEF kind, says
  <2>6. Describes(fact, evidence, says)
    <3>1. /\ fact.kind = kind /\ fact.shown = Established(evidence)
          /\ fact.declared = (says # <<>>) /\ fact.answered = shipped
          /\ fact.warned = read.finding /\ fact.held = read.turn
      BY DEF Fact
    <3> HIDE DEF fact
    <3>. QED  BY <2>3, <2>4, <3>1 DEF Describes
  <2>7. Records(record, fact, evidence, says)
    <3>1. /\ record.turn = Len(prior) + 1 /\ record.contradicted = contradicted
          /\ record.entities = IF ~shipped \/ contradicted # None THEN {}
                               ELSE Established(evidence) \cup DeclaredAnchors(says, kind)
      BY DEF HarvestTurnAnchors
    <3>2. fact.kind = kind /\ fact.answered = shipped /\ fact.warned = read.finding
      BY DEF Fact
    <3> HIDE DEF fact, record
    <3>. QED  BY <2>3, <3>1, <3>2 DEF Records
  <2> HIDE DEF record, fact
  <2>. QED  BY <2>5, <2>6, <2>7, TurnJoins
<1>2. CASE OtherTurn
  <2>1. PICK question \in Questions, evidence \in Evidences :
          /\ prior' = Append(prior, HarvestTurnAnchors(evidence, <<>>, ReferentKind(question),
                                                       Len(prior) + 1, FALSE, None))
          /\ facts' = Append(facts, Fact(ReferentKind(question), evidence, <<>>, FALSE, FALSE,
                                         NoReading))
    BY <1>2 DEF OtherTurn
  <2> DEFINE kind == ReferentKind(question)
             record == HarvestTurnAnchors(evidence, <<>>, kind, Len(prior) + 1, FALSE, None)
             fact == Fact(kind, evidence, <<>>, FALSE, FALSE, NoReading)
  <2>2. prior' = Append(prior, record) /\ facts' = Append(facts, fact)
    BY <2>1
  <2>3. kind \in KindsOrNone
    BY KnownReferent
  <2> HIDE DEF kind
  <2>4. Describes(fact, evidence, <<>>)
    BY <2>3 DEF Describes, Fact
  <2>5. Records(record, fact, evidence, <<>>)
    BY DEF Records, HarvestTurnAnchors, Fact
  <2> HIDE DEF record, fact
  <2>. QED  BY <2>2, <2>4, <2>5, TurnJoins
<1>3. CASE UNCHANGED vars
  <2>1. prior' = prior /\ facts' = facts
    BY <1>3 DEF vars
  <2>2. \A t, kind : Gave(t, kind)' <=> Gave(t, kind)
    BY <2>1 DEF Gave
  <2>3. \A t : Tells(t)' <=> Tells(t)
    BY <2>1, <2>2 DEF Tells
  <2>4. HeldToNewestGiven'
    <3>1. \A t \in DOMAIN facts' : HeldRight(t)'
      <4>1. \A t \in DOMAIN facts : HeldRight(t)
        BY GivenHeld DEF AnchorInv
      <4>2. \A t : HeldRight(t)' <=> HeldRight(t)
        BY <2>1 DEF HeldRight, Before, Gave
      <4>. QED  BY <2>1, <4>1, <4>2
    <3>. QED  BY <3>1 DEF HeldToNewestGiven, HeldRight, Before, Turns
  <2>. QED  BY <2>1, <2>3, <2>4 DEF AnchorInv, Sequence
<1>. QED  BY <1>1, <1>2, <1>3 DEF Next, Rest

LEMMA AnchorInvariant == Spec => []AnchorInv
<1>1. Init => AnchorInv
  BY DEF Init, AnchorInv, Sequence, ToSet, HeldToNewestGiven, Turns
<1>. QED  BY <1>1, StepKeepsAnchors, PTL DEF Spec

(* A follow-up is held to the newest turn that gave an entity of its kind, *)
(* past the refusals and the contradicted turns in between, however long   *)
(* the conversation.                                                       *)
THEOREM HeldToNewestGivenHolds == Spec => []HeldToNewestGiven
<1>1. AnchorInv => HeldToNewestGiven
  BY DEF AnchorInv
<1>. QED  BY <1>1, AnchorInvariant, PTL

(* From a contradicted turn until an answered one shows an entity, a bare  *)
(* "it" is read against the kind of the newest contradicted turn.          *)
THEOREM PronounFollowsWarningHolds == Spec => []PronounFollowsWarning
<1>1. AnchorInv => PronounFollowsWarning
  <2>. SUFFICES ASSUME AnchorInv PROVE PronounFollowsWarning
    OBVIOUS
  <2> DEFINE n == Len(prior)
             deciding == {i \in DOMAIN prior : DecidesWindow(prior[i])}
             warned == {t \in Turns : facts[t].warned}
             showed == {t \in Turns : facts[t].answered /\ ~facts[t].warned /\ facts[t].shown # {}}
             open == {t \in warned : \A s \in showed : s < t}
  <2>1. n \in Nat /\ DOMAIN prior = 1..n /\ Turns = 1..n
    BY DEF AnchorInv, Sequence, Turns
  <2>2. \A t \in 1..n : /\ facts[t].warned => facts[t].kind # None
                        /\ prior[t].contradicted = IF facts[t].warned THEN facts[t].kind ELSE None
                        /\ t \in deciding <=> t \in warned \/ t \in showed
                        /\ ~(t \in warned /\ t \in showed)
    BY <2>1 DEF AnchorInv, Tells, DecidesWindow
  <2>3. ReferentKind([kind |-> None, pronoun |-> TRUE]) = OpenWindow
    BY DEF ReferentKind
  <2>4. OpenWindow = IF deciding = {} THEN None ELSE prior[Newest(deciding)].contradicted
    BY DEF OpenWindow
  <2>5. /\ deciding \in SUBSET (1..n) /\ warned \in SUBSET (1..n) /\ showed \in SUBSET (1..n)
        /\ open \subseteq warned
    BY <2>1
  <2>6. CASE deciding = {}
    BY <2>2, <2>3, <2>4, <2>5, <2>6 DEF PronounFollowsWarning
  <2>7. CASE deciding # {}
    <3> DEFINE m == Newest(deciding)
    <3>1. m \in deciding /\ \A i \in deciding : i <= m
      <4>1. deciding \in SUBSET Nat /\ n \in Nat /\ \A i \in deciding : i <= n
        BY <2>1, <2>5
      <4> HIDE DEF deciding, n
      <4>. QED  BY <2>7, <4>1, NewestIsOne
    <3> HIDE DEF m
    <3>2. CASE m \in warned
      <4>1. m \in open
        <5>1. \A s \in showed : s <= m /\ s # m /\ s \in Nat /\ m \in Nat
          BY <2>2, <2>5, <3>1, <3>2
        <5>. QED  BY <3>2, <5>1
      <4>2. Newest(open) = m
        <5>1. open \in SUBSET Nat /\ \A i \in open : i <= m
          BY <2>2, <2>5, <3>1
        <5>. QED  BY <4>1, <5>1, NewestIs
      <4>. QED  BY <2>2, <2>3, <2>4, <2>5, <2>7, <3>1, <3>2, <4>1, <4>2
                DEF PronounFollowsWarning, m
    <3>3. CASE m \notin warned
      <4>1. m \in showed
        BY <2>2, <2>5, <3>1, <3>3
      <4>2. open = {}
        <5>1. SUFFICES ASSUME NEW t \in open PROVE FALSE
          OBVIOUS
        <5>2. t <= m /\ m < t /\ t \in Nat /\ m \in Nat
          BY <2>2, <2>5, <3>1, <4>1
        <5>. QED  BY <5>2
      <4>3. prior[m].contradicted = None
        BY <2>2, <2>5, <3>1, <3>3, <4>1
      <4>. QED  BY <2>3, <2>4, <2>7, <4>2, <4>3 DEF PronounFollowsWarning, m
    <3>. QED  BY <3>2, <3>3
  <2>. QED  BY <2>6, <2>7
<1>. QED  BY <1>1, AnchorInvariant, PTL
=============================================================================
