------------------------------- MODULE Matching -------------------------------
(***************************************************************************)
(* Mechanical matching of a claim against the pools of evidence            *)
(* (verifier/matching.py).  Pure code, in a fixed order; what it cannot    *)
(* settle of a number is "fuzzy" and goes to the judge.                    *)
(*                                                                         *)
(* Amounts are integers in hundredths, so a fraction of 0.15 is 15 and 15% *)
(* is 1500; a float round-trip is equality.  A date is <<year, day>>, or   *)
(* <<day>> where the prose gives no year.  A name is [text, folded]: as    *)
(* written, and casefolded.                                                *)
(***************************************************************************)
EXTENDS Integers, Sequences, FiniteSets, SequencesExt

CONSTANTS
    None,                   \* Python's None
    MaxDerivationPairs      \* verifier.max_derivation_pairs

ASSUME PairsAssumption == MaxDerivationPairs \in Nat

(***************************************************************************)
(* Evidence.  A number has the row it came from (or None) and whether it   *)
(* is a column's sum; a passage is the lines of a text and its words.      *)
(***************************************************************************)
EmptyPools ==
    [numbers |-> <<>>, line_refs |-> {}, vocabulary |-> {}, strings |-> {}, corpus |-> {}]

MergeTwo(a, b) ==
    [numbers |-> a.numbers \o b.numbers, line_refs |-> a.line_refs \cup b.line_refs,
     vocabulary |-> a.vocabulary \cup b.vocabulary, strings |-> a.strings \cup b.strings,
     corpus |-> a.corpus \cup b.corpus]

MergeContributions(contributions) == FoldLeft(MergeTwo, EmptyPools, contributions)

Outcome(status, method) == [status |-> status, method |-> method]
NoOutcome == Outcome("none", "none")
Fuzzy == Outcome("fuzzy", "none")
Unmatched == Outcome("unmatched", "none")

(* The first matcher with something to say.                                *)
FirstOf(outcomes) ==
    LET first == SelectInSeq(outcomes, LAMBDA o : o # NoOutcome)
    IN  IF first = 0 THEN NoOutcome ELSE outcomes[first]
When(condition, status, method) ==
    IF condition THEN Outcome(status, method) ELSE NoOutcome

(***************************************************************************)
(* Numbers                                                                 *)
(***************************************************************************)
Abs(n) == IF n < 0 THEN -n ELSE n

(* A slip: any fraction supports a percent, a result cell's too.           *)
ComparableToAll(claim, number) ==
    {number.value} \cup
    (IF claim.percent /\ number.value \in 0..100 THEN {100 * number.value} ELSE {})

Comparable(claim, number) ==
    {number.value} \cup
    (IF claim.percent /\ number.value \in 0..100 /\ number.salience \in {"stat", "literal"}
     THEN {100 * number.value} ELSE {})

WithinOf(claim, numbers, distance) ==
    \E i \in DOMAIN numbers : \E v \in Comparable(claim, numbers[i]) :
        Abs(claim.value - v) <= distance

MatchDate(claim, strings) ==
    FirstOf(<<When(claim.date \in strings, "matched_exact", "date"),
              When(/\ Len(claim.date) = 1
                   /\ \E s \in strings : Len(s) = 2 /\ s[2] = claim.date[1],
                   "matched_derived", "date-yearless"),
              Unmatched>>)

(* The pairs of distinct positions, and the order the double loop has.     *)
Pairs(numbers) == {p \in (DOMAIN numbers) \X (DOMAIN numbers) : p[1] # p[2]}
Before(p, q) == p[1] < q[1] \/ (p[1] = q[1] /\ p[2] < q[2])

(* A denominator of one would reopen the percent bridge for any cell.      *)
Related(a, b) ==
    /\ b.value \notin {0, 100}
    /\ \/ a.row # None /\ a.row = b.row
       \/ a.sum /\ b.sum
       \/ a.salience \in {"cell", "count"} /\ b.salience = "count"

RatioPairs(numbers) == {p \in Pairs(numbers) : Related(numbers[p[1]], numbers[p[2]])}

Resolution(claim) == IF claim.resolution = None THEN 50 ELSE claim.resolution

(* |claim - a / b| <= resolution, cleared of the denominator.              *)
IsRatio(claim, a, b) ==
    Abs(claim.value * b.value - (IF claim.percent THEN 10000 ELSE 100) * a.value)
        <= Resolution(claim) * Abs(b.value)

(* The pairs are tried in order, and the cap is on the pairs tried: past   *)
(* it the claim is the judge's.                                            *)
Search(pairs, hits, method) ==
    IF \E p \in hits : Cardinality({q \in pairs : Before(q, p)}) < MaxDerivationPairs
      THEN Outcome("matched_derived", method)
    ELSE IF Cardinality(pairs) > MaxDerivationPairs THEN Fuzzy ELSE NoOutcome

MayBeRatio(claim) == claim.percent \/ claim.value \in 1..100
MayBeDifference(claim) == ~claim.percent /\ claim.value % 100 = 0

IsCount(number) == number.salience = "count" /\ number.value % 100 = 0
CountPairs(numbers) ==
    {p \in Pairs(numbers) : IsCount(numbers[p[1]]) /\ IsCount(numbers[p[2]])}

IsDifference(claim, a, b) == Abs(b.value - a.value - claim.value) <= 50

DeriveRatio(claim, numbers) ==
    IF MayBeRatio(claim)
    THEN Search(RatioPairs(numbers),
                {p \in RatioPairs(numbers) : IsRatio(claim, numbers[p[1]], numbers[p[2]])}, "ratio")
    ELSE NoOutcome

DeriveDifference(claim, numbers) ==
    IF MayBeDifference(claim)
    THEN Search(CountPairs(numbers),
                {p \in CountPairs(numbers) : IsDifference(claim, numbers[p[1]], numbers[p[2]])},
                "difference")
    ELSE NoOutcome

Derive(claim, numbers) ==
    FirstOf(<<DeriveRatio(claim, numbers), DeriveDifference(claim, numbers)>>)

MatchNumeric(claim, pools) ==
    IF claim.date # None THEN MatchDate(claim, pools.strings)
    ELSE FirstOf(<<When(WithinOf(claim, pools.numbers, 0), "matched_exact", "exact"),
                   When(/\ claim.resolution # None
                        /\ WithinOf(claim, pools.numbers, claim.resolution),
                        "matched_derived", "rounding"),
                   Derive(claim, pools.numbers),
                   When(claim.spelled # None /\ \E c \in pools.corpus : claim.spelled \in c.words,
                        "matched_derived", "spelled-quote"),
                   Fuzzy>>)

(***************************************************************************)
(* Entities and quotes, which are never judged                             *)
(***************************************************************************)
(* A path is its parts, and a claimed path a suffix of the retrieved one.  *)
InRange(claim, ref) ==
    /\ IsSuffix(claim.file, ref.file)
    /\ claim.first >= ref.first /\ claim.last <= ref.last

MatchEntity(claim, pools) ==
    IF claim.location
    THEN FirstOf(<<When(\E r \in pools.line_refs : InRange(claim, r), "matched_exact", "location"),
                   Unmatched>>)
    ELSE FirstOf(<<When(claim.name \in pools.vocabulary, "matched_exact", "vocabulary"),
                   When(claim.name.folded \in {n.folded : n \in pools.vocabulary},
                        "matched_derived", "vocabulary-casefold"),
                   Unmatched>>)

Blank == ""
Elision == "..."

(* whole inside text, line breaks normalized away.                         *)
IsPassage(whole, text) ==
    \E i \in 0 .. Len(text) - Len(whole) : \A j \in DOMAIN whole : whole[j] = text[i + j]

(* The whole keeps its elisions, which only the line by line reading drops.*)
WholeOf(claim) == SelectSeq(claim.text, LAMBDA l : l # Blank)
LinesOf(claim) == SelectSeq(WholeOf(claim), LAMBDA l : l # Elision)

MatchQuote(claim, pools) ==
    LET whole == WholeOf(claim)
        lines == LinesOf(claim)
    IN  FirstOf(<<
          When(lines = <<>>, "matched_exact", "quote-empty"),
          When(\E c \in pools.corpus : IsPassage(whole, c.lines), "matched_exact", "quote"),
          When(/\ Len(lines) > 1
               /\ \E c \in pools.corpus : ToSet(lines) \subseteq ToSet(c.lines),
               "matched_exact", "quote-lines"),
          When(~claim.fenced /\ claim.text \in {<<n.text>> : n \in pools.vocabulary},
               "matched_derived", "quote-vocabulary"),
          When(~claim.fenced /\ claim.text \in pools.strings, "matched_derived", "quote-string"),
          Unmatched>>)

MatchClaim(kind, claim, pools) ==
    CASE kind = "numeric" -> MatchNumeric(claim, pools)
      [] kind = "entity" -> MatchEntity(claim, pools)
      [] OTHER -> MatchQuote(claim, pools)

(***************************************************************************)
(* A reference for the matcher: what a status asserts of the evidence,     *)
(* whatever the order and the cap; first of a number.                      *)
(***************************************************************************)
IsFraction(number) == number.value \in 0..100 /\ number.salience \in {"stat", "literal"}

States(claim, number, slack) ==
    \/ Abs(claim.value - number.value) <= slack
    \/ claim.percent /\ IsFraction(number) /\ Abs(claim.value - 100 * number.value) <= slack

Follows(claim, numbers) ==
    \/ /\ MayBeRatio(claim)
       /\ \E i, j \in DOMAIN numbers :
            LET a == numbers[i] b == numbers[j] IN
            /\ i # j /\ b.value \notin {0, 100}
            /\ \/ a.row # None /\ a.row = b.row
               \/ a.sum /\ b.sum
               \/ a.salience \in {"cell", "count"} /\ b.salience = "count"
            /\ IsRatio(claim, a, b)
    \/ /\ MayBeDifference(claim)
       /\ \E i, j \in DOMAIN numbers :
            /\ i # j /\ {numbers[i].salience, numbers[j].salience} = {"count"}
            /\ numbers[i].value % 100 = 0 /\ numbers[j].value % 100 = 0
            /\ Abs(numbers[j].value - numbers[i].value - claim.value) <= 50

Quotable(claim, pools) == claim.spelled # None /\ \E c \in pools.corpus : claim.spelled \in c.words

Asserts(claim, pools, status) ==
    CASE status = "matched_exact" ->
             \E i \in DOMAIN pools.numbers : States(claim, pools.numbers[i], 0)
      [] status = "matched_derived" ->
             \/ /\ claim.resolution # None
                /\ \E i \in DOMAIN pools.numbers : States(claim, pools.numbers[i], claim.resolution)
             \/ Follows(claim, pools.numbers)
             \/ Quotable(claim, pools)
      [] OTHER -> TRUE

(* The rest: a date, a name, a location, a quote.                          *)
DateReturned(claim, pools) ==
    \E s \in pools.strings :
        s = claim.date \/ (Len(claim.date) = 1 /\ Len(s) = 2 /\ s[2] = claim.date[1])

NameReturned(claim, pools) == \E n \in pools.vocabulary : n.folded = claim.name.folded

LinesRead(claim, pools) == \E r \in pools.line_refs : InRange(claim, r)

TextReturned(claim, pools) ==
    \/ LinesOf(claim) = <<>>
    \/ \E c \in pools.corpus : \/ IsPassage(WholeOf(claim), c.lines)
                               \/ ToSet(LinesOf(claim)) \subseteq ToSet(c.lines)
    \/ /\ ~claim.fenced
       /\ claim.text \in pools.strings \cup {<<n.text>> : n \in pools.vocabulary}

Warranted(kind, claim, pools, status) ==
    CASE kind = "numeric" -> IF claim.date = None THEN Asserts(claim, pools, status)
                             ELSE DateReturned(claim, pools)
      [] kind = "entity" -> IF claim.location THEN LinesRead(claim, pools)
                            ELSE NameReturned(claim, pools)
      [] OTHER -> TextReturned(claim, pools)

(* A number is passed on to the judge only for want of a warrant, or       *)
(* because there were more pairs to try than the cap allows.               *)
Capped(numbers) ==
    \/ Cardinality(RatioPairs(numbers)) > MaxDerivationPairs
    \/ Cardinality(CountPairs(numbers)) > MaxDerivationPairs
===============================================================================
