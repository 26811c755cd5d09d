--------------------------- MODULE VerificationProofs ---------------------------
(***************************************************************************)
(* The matcher and the judge, the text and the claims, for every evidence, *)
(* every draft and every cap: what a status asserts, what is left for the  *)
(* judge, what was injected and what is claimed.                           *)
(***************************************************************************)
EXTENDS Verification, NaturalsInduction, WellFoundedInduction, FiniteSetTheorems,
        SequenceTheorems, TLAPS

(* The first with something to say, wherever it stands.                    *)
LEMMA FirstSays ==
    ASSUME NEW outcomes, Len(outcomes) \in Nat, NEW m \in 1..Len(outcomes),
           outcomes[m] # NoOutcome, \A i \in 1..(m - 1) : outcomes[i] = NoOutcome
    PROVE  FirstOf(outcomes) = outcomes[m]
<1> DEFINE said == {i \in 1..Len(outcomes) : outcomes[i] # NoOutcome}
<1>1. m \in said /\ \A i \in said : m <= i
  OBVIOUS
<1>2. said # {}
  BY <1>1
<1>3. \A x \in said : (\A y \in said : x =< y) => x = m
  BY <1>1
<1>4. Min(said) = m
  <2> HIDE DEF said
  <2>1. \E x \in said : \A y \in said : x =< y
    BY <1>1
  <2>. QED  BY <1>3, <2>1 DEF Min
<1>5. SelectInSeq(outcomes, LAMBDA o : o # NoOutcome) = m
  BY <1>2, <1>4 DEF SelectInSeq
<1>. QED  BY <1>5 DEF FirstOf

LEMMA NoneSays ==
    ASSUME NEW outcomes, \A i \in 1..Len(outcomes) : outcomes[i] = NoOutcome
    PROVE  FirstOf(outcomes) = NoOutcome
BY DEF FirstOf, SelectInSeq

LEMMA FirstIsOne ==
    ASSUME NEW outcomes, Len(outcomes) \in Nat
    PROVE  \/ \A i \in 1..Len(outcomes) : outcomes[i] = NoOutcome
           \/ \E i \in 1..Len(outcomes) : outcomes[i] # NoOutcome /\ FirstOf(outcomes) = outcomes[i]
<1> DEFINE said == {i \in 1..Len(outcomes) : outcomes[i] # NoOutcome}
           R == OpToRel(<, Nat)
<1>1. CASE said = {}
  BY <1>1
<1>2. CASE said # {}
  <2>1. \A i, j \in Nat : <<i, j>> \in R <=> i < j
    BY DEF OpToRel
  <2>2. IsWellFoundedOn(R, Nat)
    BY NatLessThanWellFounded
  <2>3. said \in SUBSET Nat
    OBVIOUS
  <2>4. PICK m \in said : \A i \in said : ~(<<i, m>> \in R)
    <3> HIDE DEF R, said
    <3>. QED  BY <1>2, <2>2, <2>3, WFMin
  <2>5. m \in 1..Len(outcomes) /\ outcomes[m] # NoOutcome
    BY <2>4
  <2>6. \A i \in 1..(m - 1) : outcomes[i] = NoOutcome
    <3>1. ASSUME NEW i \in 1..(m - 1), outcomes[i] # NoOutcome PROVE FALSE
      <4>1. i \in said /\ i < m /\ i \in Nat /\ m \in Nat
        BY <2>5, <3>1
      <4> HIDE DEF R
      <4>. QED  BY <2>1, <2>4, <4>1
    <3>. QED  BY <3>1
  <2>. QED  BY <2>5, <2>6, FirstSays
<1>. QED  BY <1>1, <1>2

LEMMA FirstOfTwo ==
    ASSUME NEW a, NEW b
    PROVE  /\ a # NoOutcome => FirstOf(<<a, b>>) = a
           /\ a = NoOutcome => FirstOf(<<a, b>>) = b
<1> DEFINE s == <<a, b>>
<1>1. Len(s) = 2 /\ s[1] = a /\ s[2] = b
  OBVIOUS
<1> HIDE DEF s
<1>2. a # NoOutcome => FirstOf(s) = a
  BY <1>1, FirstSays
<1>3. a = NoOutcome /\ b # NoOutcome => FirstOf(s) = b
  BY <1>1, FirstSays
<1>4. a = NoOutcome /\ b = NoOutcome => FirstOf(s) = NoOutcome
  BY <1>1, NoneSays
<1>. QED  BY <1>2, <1>3, <1>4, Zenon DEF s

LEMMA FirstOfThree ==
    ASSUME NEW a, NEW b, NEW c
    PROVE  /\ a # NoOutcome => FirstOf(<<a, b, c>>) = a
           /\ a = NoOutcome /\ b # NoOutcome => FirstOf(<<a, b, c>>) = b
           /\ a = NoOutcome /\ b = NoOutcome => FirstOf(<<a, b, c>>) = c
<1> DEFINE s == <<a, b, c>>
<1>1. Len(s) = 3 /\ s[1] = a /\ s[2] = b /\ s[3] = c
  OBVIOUS
<1> HIDE DEF s
<1>2. a # NoOutcome => FirstOf(s) = a
  BY <1>1, FirstSays
<1>3. a = NoOutcome /\ b # NoOutcome => FirstOf(s) = b
  BY <1>1, FirstSays
<1>4. a = NoOutcome /\ b = NoOutcome /\ c # NoOutcome => FirstOf(s) = c
  BY <1>1, FirstSays
<1>5. a = NoOutcome /\ b = NoOutcome /\ c = NoOutcome => FirstOf(s) = NoOutcome
  BY <1>1, NoneSays
<1>. QED  BY <1>2, <1>3, <1>4, <1>5, Zenon DEF s

LEMMA FirstOfFive ==
    ASSUME NEW a, NEW b, NEW c, NEW d, NEW e
    PROVE  /\ a # NoOutcome => FirstOf(<<a, b, c, d, e>>) = a
           /\ a = NoOutcome /\ b # NoOutcome => FirstOf(<<a, b, c, d, e>>) = b
           /\ a = NoOutcome /\ b = NoOutcome /\ c # NoOutcome => FirstOf(<<a, b, c, d, e>>) = c
           /\ a = NoOutcome /\ b = NoOutcome /\ c = NoOutcome /\ d # NoOutcome => FirstOf(<<a, b, c, d, e>>) = d
           /\ a = NoOutcome /\ b = NoOutcome /\ c = NoOutcome /\ d = NoOutcome => FirstOf(<<a, b, c, d, e>>) = e
<1> DEFINE s == <<a, b, c, d, e>>
<1>1. Len(s) = 5 /\ s[1] = a /\ s[2] = b /\ s[3] = c /\ s[4] = d /\ s[5] = e
  OBVIOUS
<1> HIDE DEF s
<1>2. a # NoOutcome => FirstOf(s) = a
  BY <1>1, FirstSays
<1>3. a = NoOutcome /\ b # NoOutcome => FirstOf(s) = b
  BY <1>1, FirstSays
<1>4. a = NoOutcome /\ b = NoOutcome /\ c # NoOutcome => FirstOf(s) = c
  <2>1. ASSUME a = NoOutcome, b = NoOutcome, c # NoOutcome PROVE FirstOf(s) = s[3]
    <3>1. \A i \in 1..(3 - 1) : s[i] = NoOutcome
      <4>1. \A i \in 1..(3 - 1) : i = 1 \/ i = 2
        OBVIOUS
      <4>. QED  BY <1>1, <2>1, <4>1
    <3>. QED  BY <1>1, <2>1, <3>1, FirstSays
  <2>. QED  BY <1>1, <2>1
<1>5. a = NoOutcome /\ b = NoOutcome /\ c = NoOutcome /\ d # NoOutcome => FirstOf(s) = d
  <2>1. ASSUME a = NoOutcome, b = NoOutcome, c = NoOutcome, d # NoOutcome PROVE FirstOf(s) = s[4]
    <3>1. \A i \in 1..(4 - 1) : s[i] = NoOutcome
      <4>1. \A i \in 1..(4 - 1) : i = 1 \/ i = 2 \/ i = 3
        OBVIOUS
      <4>. QED  BY <1>1, <2>1, <4>1
    <3>. QED  BY <1>1, <2>1, <3>1, FirstSays
  <2>. QED  BY <1>1, <2>1
<1>6. a = NoOutcome /\ b = NoOutcome /\ c = NoOutcome /\ d = NoOutcome /\ e # NoOutcome => FirstOf(s) = e
  <2>1. ASSUME a = NoOutcome, b = NoOutcome, c = NoOutcome, d = NoOutcome, e # NoOutcome PROVE FirstOf(s) = s[5]
    <3>1. \A i \in 1..(5 - 1) : s[i] = NoOutcome
      <4>1. \A i \in 1..(5 - 1) : i = 1 \/ i = 2 \/ i = 3 \/ i = 4
        OBVIOUS
      <4>. QED  BY <1>1, <2>1, <4>1
    <3>. QED  BY <1>1, <2>1, <3>1, FirstSays
  <2>. QED  BY <1>1, <2>1
<1>7. a = NoOutcome /\ b = NoOutcome /\ c = NoOutcome /\ d = NoOutcome /\ e = NoOutcome => FirstOf(s) = NoOutcome
  BY <1>1, NoneSays
<1>. QED  BY <1>2, <1>3, <1>4, <1>5, <1>6, <1>7, Zenon DEF s

(* The statuses are told apart.                                            *)
LEMMA Statuses ==
    /\ NoOutcome.status = "none" /\ Fuzzy.status = "fuzzy" /\ Unmatched.status = "unmatched"
    /\ \A status, method : Outcome(status, method).status = status
    /\ \A condition, status, method :
          When(condition, status, method) = IF condition THEN Outcome(status, method) ELSE NoOutcome
BY DEF NoOutcome, Fuzzy, Unmatched, Outcome, When
-------------------------------------------------------------------------------
(* The pairs of a list are finitely many, and before one of them there are *)
(* fewer than all.                                                         *)
LEMMA PairsFinite ==
    ASSUME NEW numbers, Len(numbers) \in Nat, DOMAIN numbers = 1..Len(numbers)
    PROVE  IsFiniteSet(Pairs(numbers))
<1>1. IsFiniteSet(1..Len(numbers))
  BY FS_Interval
<1>2. IsFiniteSet((DOMAIN numbers) \X (DOMAIN numbers))
  BY <1>1, FS_Product
<1>3. Pairs(numbers) \subseteq (DOMAIN numbers) \X (DOMAIN numbers)
  BY DEF Pairs
<1>. QED  BY <1>2, <1>3, FS_Subset

LEMMA FewerBefore ==
    ASSUME NEW numbers, Len(numbers) \in Nat, DOMAIN numbers = 1..Len(numbers),
           NEW pairs \in SUBSET Pairs(numbers), NEW p \in pairs
    PROVE  /\ Cardinality(pairs) \in Nat
           /\ Cardinality({q \in pairs : Before(q, p)}) < Cardinality(pairs)
<1> DEFINE earlier == {q \in pairs : Before(q, p)}
<1>1. IsFiniteSet(pairs) /\ Cardinality(pairs) \in Nat
  BY PairsFinite, FS_Subset, FS_CardinalityType
<1>2. p[1] \in Nat /\ p[2] \in Nat
  BY DEF Pairs
<1>3. earlier \subseteq pairs /\ earlier # pairs
  <2>1. ~Before(p, p)
    BY <1>2 DEF Before
  <2>. QED  BY <2>1
<1>4. Cardinality(earlier) < Cardinality(pairs)
  <2> HIDE DEF earlier
  <2>1. /\ IsFiniteSet(earlier) /\ Cardinality(earlier) <= Cardinality(pairs)
        /\ Cardinality(pairs) = Cardinality(earlier) => pairs = earlier
    BY <1>1, <1>3, FS_Subset
  <2>2. Cardinality(earlier) \in Nat
    BY <2>1, FS_CardinalityType
  <2>. QED  BY <1>1, <1>3, <2>1, <2>2
<1>. QED  BY <1>1, <1>4

(* Search settles on a pair that hits, or says the cap was too small, or   *)
(* there was nothing to find.                                              *)
LEMMA SearchFinds ==
    ASSUME NEW pairs, NEW hits, NEW method
    PROVE  /\ Search(pairs, hits, method) \in {Outcome("matched_derived", method), Fuzzy, NoOutcome}
           /\ Search(pairs, hits, method).status = "matched_derived" => hits # {}
BY DEF Search, NoOutcome, Fuzzy, Outcome

LEMMA SearchIsThorough ==
    ASSUME NEW numbers, Len(numbers) \in Nat, DOMAIN numbers = 1..Len(numbers),
           NEW pairs \in SUBSET Pairs(numbers), NEW hits \in SUBSET pairs, NEW method,
           Search(pairs, hits, method).status # "matched_derived"
    PROVE  hits = {} \/ Cardinality(pairs) > MaxDerivationPairs
<1>. SUFFICES ASSUME NEW p \in hits, ~(Cardinality(pairs) > MaxDerivationPairs)
              PROVE  FALSE
  OBVIOUS
<1>1. /\ Cardinality(pairs) \in Nat
      /\ Cardinality({q \in pairs : Before(q, p)}) < Cardinality(pairs)
  BY FewerBefore
<1>2. IsFiniteSet(pairs) /\ IsFiniteSet({q \in pairs : Before(q, p)})
  BY PairsFinite, FS_Subset
<1>3. Cardinality({q \in pairs : Before(q, p)}) < MaxDerivationPairs
  BY <1>1, <1>2, FS_CardinalityType, PairsAssumption
<1>. QED  BY <1>3, Statuses DEF Search
-------------------------------------------------------------------------------
(* A number within some distance of a figure, as it stands or bridged to   *)
(* percent, is one the figure states.                                      *)
LEMMA WithinMeansStated ==
    ASSUME NEW claim, NEW numbers, NEW distance
    PROVE  WithinOf(claim, numbers, distance)
              <=> \E i \in DOMAIN numbers : States(claim, numbers[i], distance)
BY DEF WithinOf, States, Comparable, IsFraction

(* A derivation that hits is one the reference allows, and the reference   *)
(* allows no other.                                                        *)
LEMMA RatioFollows ==
    ASSUME NEW claim, NEW numbers, MayBeRatio(claim),
           NEW p \in RatioPairs(numbers), IsRatio(claim, numbers[p[1]], numbers[p[2]])
    PROVE  Follows(claim, numbers)
BY DEF RatioPairs, Pairs, Related, Follows

LEMMA DifferenceFollows ==
    ASSUME NEW claim, NEW numbers, MayBeDifference(claim),
           NEW p \in CountPairs(numbers), IsDifference(claim, numbers[p[1]], numbers[p[2]])
    PROVE  Follows(claim, numbers)
<1>1. /\ p[1] \in DOMAIN numbers /\ p[2] \in DOMAIN numbers /\ p[1] # p[2]
      /\ IsCount(numbers[p[1]]) /\ IsCount(numbers[p[2]])
  BY DEF CountPairs, Pairs
<1>2. {numbers[p[1]].salience, numbers[p[2]].salience} = {"count"}
  BY <1>1 DEF IsCount
<1>. QED  BY <1>1, <1>2 DEF IsCount, IsDifference, Follows

LEMMA FollowsByAPair ==
    ASSUME NEW claim, NEW numbers, Follows(claim, numbers)
    PROVE  \/ /\ MayBeRatio(claim)
              /\ \E p \in RatioPairs(numbers) : IsRatio(claim, numbers[p[1]], numbers[p[2]])
           \/ /\ MayBeDifference(claim)
              /\ \E p \in CountPairs(numbers) : IsDifference(claim, numbers[p[1]], numbers[p[2]])
<1>1. CASE /\ MayBeRatio(claim)
           /\ \E i, j \in DOMAIN numbers : /\ i # j /\ Related(numbers[i], numbers[j])
                                            /\ IsRatio(claim, numbers[i], numbers[j])
  <2>1. PICK i \in DOMAIN numbers, j \in DOMAIN numbers :
           i # j /\ Related(numbers[i], numbers[j]) /\ IsRatio(claim, numbers[i], numbers[j])
    BY <1>1
  <2>2. <<i, j>> \in RatioPairs(numbers)
    BY <2>1 DEF RatioPairs, Pairs
  <2>. QED  BY <1>1, <2>1, <2>2
<1>2. CASE /\ MayBeDifference(claim)
           /\ \E i, j \in DOMAIN numbers : /\ i # j /\ IsCount(numbers[i]) /\ IsCount(numbers[j])
                                            /\ IsDifference(claim, numbers[i], numbers[j])
  <2>1. PICK i \in DOMAIN numbers, j \in DOMAIN numbers :
           /\ i # j /\ IsCount(numbers[i]) /\ IsCount(numbers[j])
           /\ IsDifference(claim, numbers[i], numbers[j])
    BY <1>2
  <2>2. <<i, j>> \in CountPairs(numbers)
    BY <2>1 DEF CountPairs, Pairs
  <2>. QED  BY <1>2, <2>1, <2>2
<1>3. \A x, y : {x, y} = {"count"} => x = "count" /\ y = "count"
  OBVIOUS
<1>. QED  BY <1>1, <1>2, <1>3 DEF Follows, Related, IsCount, IsDifference

(* _derive: what it matches follows, and if nothing it can match is found  *)
(* nothing follows, or there were too many pairs.                          *)
LEMMA DeriveIsSound ==
    ASSUME NEW claim, NEW numbers
    PROVE  /\ Derive(claim, numbers).status \in {"matched_derived", "fuzzy", "none"}
           /\ Derive(claim, numbers) = NoOutcome \/ Derive(claim, numbers).status # "none"
           /\ Derive(claim, numbers).status = "matched_derived" => Follows(claim, numbers)
<1>1. /\ DeriveRatio(claim, numbers) \in {Outcome("matched_derived", "ratio"), Fuzzy, NoOutcome}
      /\ DeriveRatio(claim, numbers).status = "matched_derived" => Follows(claim, numbers)
  <2> DEFINE hits == {p \in RatioPairs(numbers) : IsRatio(claim, numbers[p[1]], numbers[p[2]])}
             found == Search(RatioPairs(numbers), hits, "ratio")
  <2>1. /\ found \in {Outcome("matched_derived", "ratio"), Fuzzy, NoOutcome}
        /\ found.status = "matched_derived" => hits # {}
    <3> HIDE DEF hits
    <3>. QED  BY SearchFinds
  <2>2. CASE MayBeRatio(claim)
    <3>1. DeriveRatio(claim, numbers) = found
      BY <2>2 DEF DeriveRatio
    <3>2. hits # {} => Follows(claim, numbers)
      BY <2>2, RatioFollows
    <3> HIDE DEF found, hits
    <3>. QED  BY <2>1, <3>1, <3>2
  <2>3. CASE ~MayBeRatio(claim)
    BY <2>3, Statuses DEF DeriveRatio
  <2>. QED  BY <2>2, <2>3
<1>2. /\ DeriveDifference(claim, numbers) \in {Outcome("matched_derived", "difference"), Fuzzy, NoOutcome}
      /\ DeriveDifference(claim, numbers).status = "matched_derived" => Follows(claim, numbers)
  <2> DEFINE hits == {p \in CountPairs(numbers) : IsDifference(claim, numbers[p[1]], numbers[p[2]])}
             found == Search(CountPairs(numbers), hits, "difference")
  <2>1. /\ found \in {Outcome("matched_derived", "difference"), Fuzzy, NoOutcome}
        /\ found.status = "matched_derived" => hits # {}
    <3> HIDE DEF hits
    <3>. QED  BY SearchFinds
  <2>2. CASE MayBeDifference(claim)
    <3>1. DeriveDifference(claim, numbers) = found
      BY <2>2 DEF DeriveDifference
    <3>2. hits # {} => Follows(claim, numbers)
      BY <2>2, DifferenceFollows
    <3> HIDE DEF found, hits
    <3>. QED  BY <2>1, <3>1, <3>2
  <2>3. CASE ~MayBeDifference(claim)
    BY <2>3, Statuses DEF DeriveDifference
  <2>. QED  BY <2>2, <2>3
<1>3. Derive(claim, numbers) \in {DeriveRatio(claim, numbers), DeriveDifference(claim, numbers)}
  BY FirstOfTwo DEF Derive
<1>. QED  BY <1>1, <1>2, <1>3, Statuses

LEMMA DerivedOutcomes ==
    ASSUME NEW claim, NEW numbers, Derive(claim, numbers).status = "fuzzy"
    PROVE  Derive(claim, numbers) = Fuzzy
<1>1. /\ DeriveRatio(claim, numbers) \in {Outcome("matched_derived", "ratio"), Fuzzy, NoOutcome}
      /\ DeriveDifference(claim, numbers) \in {Outcome("matched_derived", "difference"), Fuzzy, NoOutcome}
  BY SearchFinds DEF DeriveRatio, DeriveDifference
<1>2. Derive(claim, numbers) \in {DeriveRatio(claim, numbers), DeriveDifference(claim, numbers)}
  BY FirstOfTwo DEF Derive
<1>. QED  BY <1>1, <1>2, Statuses

LEMMA DeriveIsThorough ==
    ASSUME NEW claim, NEW numbers, Len(numbers) \in Nat, DOMAIN numbers = 1..Len(numbers),
           Derive(claim, numbers).status # "matched_derived"
    PROVE  ~Follows(claim, numbers) \/ Capped(numbers)
<1>. SUFFICES ASSUME ~Capped(numbers) PROVE ~Follows(claim, numbers)
  OBVIOUS
<1> DEFINE ratios == {p \in RatioPairs(numbers) : IsRatio(claim, numbers[p[1]], numbers[p[2]])}
           differences == {p \in CountPairs(numbers) : IsDifference(claim, numbers[p[1]], numbers[p[2]])}
<1>1. /\ RatioPairs(numbers) \in SUBSET Pairs(numbers)
      /\ CountPairs(numbers) \in SUBSET Pairs(numbers)
      /\ ratios \in SUBSET RatioPairs(numbers) /\ differences \in SUBSET CountPairs(numbers)
  BY DEF RatioPairs, CountPairs
<1>2. MayBeRatio(claim) => DeriveRatio(claim, numbers) = Search(RatioPairs(numbers), ratios, "ratio")
  BY DEF DeriveRatio
<1>3. MayBeDifference(claim) =>
         DeriveDifference(claim, numbers) = Search(CountPairs(numbers), differences, "difference")
  BY DEF DeriveDifference
<1>4. ratios = {} /\ differences = {} => \/ ~Follows(claim, numbers)
  BY FollowsByAPair
<1>5. MayBeRatio(claim) /\ ratios = {} /\ ~MayBeDifference(claim) => ~Follows(claim, numbers)
  BY FollowsByAPair
<1>6. MayBeDifference(claim) /\ differences = {} /\ ~MayBeRatio(claim) => ~Follows(claim, numbers)
  BY FollowsByAPair
<1>7. ~MayBeDifference(claim) /\ ~MayBeRatio(claim) => ~Follows(claim, numbers)
  BY FollowsByAPair
<1> HIDE DEF ratios, differences
<1>8. DeriveRatio(claim, numbers).status # "matched_derived"
  <2>1. DeriveRatio(claim, numbers) = NoOutcome \/ Derive(claim, numbers) = DeriveRatio(claim, numbers)
    BY FirstOfTwo DEF Derive
  <2>. QED  BY <2>1, Statuses
<1>9. MayBeRatio(claim) => ratios = {}
  BY <1>1, <1>2, <1>8, SearchIsThorough DEF Capped
(* Nothing was past the cap, so the ratios had nothing to say.             *)
<1>10. DeriveRatio(claim, numbers) = NoOutcome
  <2>1. MayBeRatio(claim) =>
           DeriveRatio(claim, numbers) \in {Outcome("matched_derived", "ratio"), NoOutcome}
    BY <1>2 DEF Search, Capped
  <2>. QED  BY <1>8, <2>1, Statuses DEF DeriveRatio
<1>11. DeriveDifference(claim, numbers).status # "matched_derived"
  BY <1>10, FirstOfTwo DEF Derive
<1>12. MayBeDifference(claim) => differences = {}
  BY <1>1, <1>3, <1>11, SearchIsThorough DEF Capped
<1>. QED  BY <1>4, <1>5, <1>6, <1>7, <1>9, <1>12
-------------------------------------------------------------------------------
(* match_claim.  A matched number is one the evidence asserts, and nothing *)
(* but the cap on pairs keeps one it asserts from being matched.           *)
LEMMA NumberMatch ==
    ASSUME NEW claim, NEW pools, claim.date = None
    PROVE  /\ MatchNumeric(claim, pools).status \in {"matched_exact", "matched_derived", "fuzzy"}
           /\ Asserts(claim, pools, MatchNumeric(claim, pools).status)
<1> DEFINE exact == When(WithinOf(claim, pools.numbers, 0), "matched_exact", "exact")
           rounded == When(/\ claim.resolution # None
                           /\ WithinOf(claim, pools.numbers, claim.resolution),
                           "matched_derived", "rounding")
           derived == Derive(claim, pools.numbers)
           spelled == When(claim.spelled # None /\ \E c \in pools.corpus : claim.spelled \in c.words,
                           "matched_derived", "spelled-quote")
           found == MatchNumeric(claim, pools)
<1>1. found = FirstOf(<<exact, rounded, derived, spelled, Fuzzy>>)
  BY DEF MatchNumeric
<1>2. exact # NoOutcome => exact.status = "matched_exact" /\ Asserts(claim, pools, "matched_exact")
  BY Statuses, WithinMeansStated DEF Asserts
<1>3. rounded # NoOutcome => rounded.status = "matched_derived" /\ Asserts(claim, pools, "matched_derived")
  BY Statuses, WithinMeansStated DEF Asserts
<1>4. derived # NoOutcome =>
         /\ derived.status \in {"matched_derived", "fuzzy"}
         /\ derived.status = "matched_derived" => Asserts(claim, pools, "matched_derived")
  BY DeriveIsSound DEF Asserts
<1>5. spelled # NoOutcome => spelled.status = "matched_derived" /\ Asserts(claim, pools, "matched_derived")
  BY Statuses DEF Asserts, Quotable
<1>6. Asserts(claim, pools, "fuzzy")
  BY DEF Asserts
<1> HIDE DEF exact, rounded, derived, spelled, found
<1>7. \/ found = exact /\ exact # NoOutcome
      \/ found = rounded /\ rounded # NoOutcome
      \/ found = derived /\ derived # NoOutcome
      \/ found = spelled /\ spelled # NoOutcome
      \/ found = Fuzzy
  BY <1>1, FirstOfFive
<1>8. found.status \in {"matched_exact", "matched_derived", "fuzzy"} /\ Asserts(claim, pools, found.status)
  BY <1>2, <1>3, <1>4, <1>5, <1>6, <1>7, Statuses
<1>. QED  BY <1>8 DEF found

LEMMA NumberResidue ==
    ASSUME NEW claim, NEW pools, claim.date = None,
           Len(pools.numbers) \in Nat, DOMAIN pools.numbers = 1..Len(pools.numbers),
           MatchNumeric(claim, pools).status = "fuzzy"
    PROVE  ~Asserts(claim, pools, "matched_derived") \/ Capped(pools.numbers)
<1> DEFINE exact == When(WithinOf(claim, pools.numbers, 0), "matched_exact", "exact")
           rounded == When(/\ claim.resolution # None
                           /\ WithinOf(claim, pools.numbers, claim.resolution),
                           "matched_derived", "rounding")
           derived == Derive(claim, pools.numbers)
           spelled == When(claim.spelled # None /\ \E c \in pools.corpus : claim.spelled \in c.words,
                           "matched_derived", "spelled-quote")
           found == MatchNumeric(claim, pools)
<1>1. found = FirstOf(<<exact, rounded, derived, spelled, Fuzzy>>)
  BY DEF MatchNumeric
<1>2. exact # NoOutcome => exact.status = "matched_exact"
  BY Statuses
<1>3. rounded # NoOutcome => rounded.status = "matched_derived"
  BY Statuses
<1>4. spelled # NoOutcome => spelled.status = "matched_derived"
  BY Statuses
<1>5. rounded = NoOutcome =>
         ~ (/\ claim.resolution # None
            /\ \E i \in DOMAIN pools.numbers : States(claim, pools.numbers[i], claim.resolution))
  BY Statuses, WithinMeansStated DEF When
<1>6. spelled = NoOutcome => ~Quotable(claim, pools)
  BY Statuses DEF Quotable, When
<1>7. derived.status # "matched_derived" => ~Follows(claim, pools.numbers) \/ Capped(pools.numbers)
  BY DeriveIsThorough
<1>8. found.status = "fuzzy"
  OBVIOUS
(* A derivation stopped by the cap says so itself.                         *)
<1>9. derived = Fuzzy => Capped(pools.numbers)
  <2>1. DeriveRatio(claim, pools.numbers) = Fuzzy => Capped(pools.numbers)
    BY DEF DeriveRatio, Search, Capped, Fuzzy, NoOutcome, Outcome
  <2>2. DeriveDifference(claim, pools.numbers) = Fuzzy => Capped(pools.numbers)
    BY DEF DeriveDifference, Search, Capped, Fuzzy, NoOutcome, Outcome
  <2>. QED  BY <2>1, <2>2, FirstOfTwo DEF Derive
<1> HIDE DEF exact, rounded, derived, spelled, found
<1>10. exact = NoOutcome /\ rounded = NoOutcome
  BY <1>1, <1>2, <1>3, <1>8, FirstOfFive
<1>11. CASE derived = NoOutcome
  <2>1. spelled = NoOutcome
    BY <1>1, <1>4, <1>8, <1>10, <1>11, FirstOfFive
  <2>2. ~Follows(claim, pools.numbers) \/ Capped(pools.numbers)
    BY <1>7, <1>11, Statuses
  <2>. QED  BY <1>5, <1>6, <1>10, <2>1, <2>2 DEF Asserts
<1>12. CASE derived # NoOutcome
  <2>1. found = derived
    BY <1>1, <1>10, <1>12, FirstOfFive
  <2>2. derived = Fuzzy
    BY <1>8, <2>1, DerivedOutcomes DEF derived
  <2>. QED  BY <1>9, <2>2
<1>. QED  BY <1>11, <1>12

(* A date, a name, a location and a quote are never the judge's, and are   *)
(* matched only by what was returned.                                      *)
Settlings == {"matched_exact", "matched_derived", "unmatched"}

LEMMA DateMatch ==
    ASSUME NEW claim, NEW pools, claim.date # None
    PROVE  /\ MatchNumeric(claim, pools).status \in Settlings
           /\ MatchNumeric(claim, pools).status # "unmatched" => DateReturned(claim, pools)
<1> DEFINE full == When(claim.date \in pools.strings, "matched_exact", "date")
           yearless == When(/\ Len(claim.date) = 1
                            /\ \E s \in pools.strings : Len(s) = 2 /\ s[2] = claim.date[1],
                            "matched_derived", "date-yearless")
<1>1. MatchNumeric(claim, pools) = FirstOf(<<full, yearless, Unmatched>>)
  BY DEF MatchNumeric, MatchDate
<1>2. /\ full # NoOutcome => full.status = "matched_exact" /\ DateReturned(claim, pools)
      /\ yearless # NoOutcome => yearless.status = "matched_derived" /\ DateReturned(claim, pools)
  BY Statuses DEF When, DateReturned
<1> HIDE DEF full, yearless
<1>. QED  BY <1>1, <1>2, FirstOfThree, Statuses DEF Settlings

LEMMA EntityMatch ==
    ASSUME NEW claim, NEW pools
    PROVE  /\ MatchEntity(claim, pools).status \in Settlings
           /\ MatchEntity(claim, pools).status # "unmatched" =>
                 IF claim.location THEN LinesRead(claim, pools) ELSE NameReturned(claim, pools)
<1>1. CASE claim.location
  <2> DEFINE located == When(\E r \in pools.line_refs : InRange(claim, r), "matched_exact", "location")
  <2>1. MatchEntity(claim, pools) = FirstOf(<<located, Unmatched>>)
    BY <1>1 DEF MatchEntity
  <2>2. located # NoOutcome => located.status = "matched_exact" /\ LinesRead(claim, pools)
    BY Statuses DEF When, LinesRead
  <2> HIDE DEF located
  <2>. QED  BY <1>1, <2>1, <2>2, FirstOfTwo, Statuses DEF Settlings
<1>2. CASE ~claim.location
  <2> DEFINE same == When(claim.name \in pools.vocabulary, "matched_exact", "vocabulary")
             folded == When(claim.name.folded \in {n.folded : n \in pools.vocabulary},
                            "matched_derived", "vocabulary-casefold")
  <2>1. MatchEntity(claim, pools) = FirstOf(<<same, folded, Unmatched>>)
    BY <1>2 DEF MatchEntity
  <2>2. same # NoOutcome => same.status = "matched_exact" /\ NameReturned(claim, pools)
    BY Statuses DEF NameReturned
  <2>3. folded # NoOutcome => folded.status = "matched_derived" /\ NameReturned(claim, pools)
    BY Statuses DEF NameReturned
  <2> HIDE DEF same, folded
  <2>. QED  BY <1>2, <2>1, <2>2, <2>3, FirstOfThree, Statuses DEF Settlings
<1>. QED  BY <1>1, <1>2

LEMMA QuoteMatch ==
    ASSUME NEW claim, NEW pools
    PROVE  /\ MatchQuote(claim, pools).status \in Settlings
           /\ MatchQuote(claim, pools).status # "unmatched" => TextReturned(claim, pools)
<1> DEFINE whole == WholeOf(claim)
           lines == LinesOf(claim)
           empty == When(lines = <<>>, "matched_exact", "quote-empty")
           quoted == When(\E c \in pools.corpus : IsPassage(whole, c.lines), "matched_exact", "quote")
           byline == When(/\ Len(lines) > 1
                          /\ \E c \in pools.corpus : ToSet(lines) \subseteq ToSet(c.lines),
                          "matched_exact", "quote-lines")
           named == When(~claim.fenced /\ claim.text \in {<<n.text>> : n \in pools.vocabulary},
                         "matched_derived", "quote-vocabulary")
           found == When(~claim.fenced /\ claim.text \in pools.strings, "matched_derived", "quote-string")
           s == <<empty, quoted, byline, named, found, Unmatched>>
<1>1. MatchQuote(claim, pools) = FirstOf(s)
  BY DEF MatchQuote
<1> DEFINE Says(o) == o = NoOutcome \/ (o.status \in Settlings /\ (o.status # "unmatched" => TextReturned(claim, pools)))
<1>2. Says(empty)
  BY Statuses DEF Settlings, TextReturned
<1>3. Says(quoted) /\ Says(byline)
  BY Statuses DEF Settlings, TextReturned
<1>4. Says(named)
  <2>1. ~claim.fenced /\ claim.text \in {<<n.text>> : n \in pools.vocabulary} => TextReturned(claim, pools)
    BY DEF TextReturned
  <2>. QED  BY <2>1, Statuses DEF Settlings
<1>5. Says(found)
  <2>1. ~claim.fenced /\ claim.text \in pools.strings => TextReturned(claim, pools)
    BY DEF TextReturned
  <2>. QED  BY <2>1, Statuses DEF Settlings
<1>6. Says(Unmatched) /\ Unmatched # NoOutcome
  BY Statuses DEF Settlings
<1> HIDE DEF empty, quoted, byline, named, found, Says
<1>7. Len(s) = 6 /\ s[6] # NoOutcome /\ \A i \in 1..6 : Says(s[i])
  BY <1>2, <1>3, <1>4, <1>5, <1>6
<1> HIDE DEF s
<1>8. PICK i \in 1..6 : s[i] # NoOutcome /\ FirstOf(s) = s[i]
  <2>1. 6 \in 1..Len(s)
    BY <1>7
  <2>. QED  BY <1>7, <2>1, FirstIsOne
<1>. QED  BY <1>1, <1>7, <1>8 DEF Says

(* match_claim: a match asserts of the pools what the reference asks.      *)
LEMMA MatchIsWarranted ==
    ASSUME NEW kind, NEW claim, NEW pools,
           MatchClaim(kind, claim, pools).status \in {"matched_exact", "matched_derived"}
    PROVE  Warranted(kind, claim, pools, MatchClaim(kind, claim, pools).status)
<1>1. CASE kind = "numeric"
  <2>1. MatchClaim(kind, claim, pools) = MatchNumeric(claim, pools)
    BY <1>1 DEF MatchClaim
  <2>2. claim.date = None => Asserts(claim, pools, MatchNumeric(claim, pools).status)
    BY NumberMatch
  <2>3. claim.date # None => DateReturned(claim, pools)
    BY <2>1, DateMatch
  <2>. QED  BY <1>1, <2>1, <2>2, <2>3 DEF Warranted
<1>2. CASE kind = "entity"
  <2>1. MatchClaim(kind, claim, pools) = MatchEntity(claim, pools)
    BY <1>2 DEF MatchClaim
  <2>2. IF claim.location THEN LinesRead(claim, pools) ELSE NameReturned(claim, pools)
    BY <2>1, EntityMatch
  <2>. QED  BY <1>2, <2>2 DEF Warranted
<1>3. CASE kind \notin {"numeric", "entity"}
  <2>1. MatchClaim(kind, claim, pools) = MatchQuote(claim, pools)
    BY <1>3 DEF MatchClaim
  <2>2. TextReturned(claim, pools)
    BY <2>1, QuoteMatch
  <2>. QED  BY <1>3, <2>2 DEF Warranted
<1>. QED  BY <1>1, <1>2, <1>3
-------------------------------------------------------------------------------
(* Only a number is ever left over; and what the judge and the span settle *)
(* the matcher does not.                                                   *)
LEMMA OnlyNumbers ==
    ASSUME NEW kind, NEW claim, NEW pools, MatchClaim(kind, claim, pools).status = "fuzzy"
    PROVE  kind = "numeric" /\ claim.date = None
<1>1. kind = "numeric"
  BY EntityMatch, QuoteMatch DEF MatchClaim, Settlings
<1>. QED  BY <1>1, DateMatch DEF MatchClaim, Settlings

LEMMA MatcherOnly ==
    ASSUME NEW kind, NEW claim, NEW pools
    PROVE  MatchClaim(kind, claim, pools).status \notin {"matched_judge", "matched_injected"}
<1>1. CASE kind = "numeric"
  <2>1. MatchClaim(kind, claim, pools) = MatchNumeric(claim, pools)
    BY <1>1 DEF MatchClaim
  <2>. QED  BY <2>1, NumberMatch, DateMatch DEF Settlings
<1>2. CASE kind = "entity"
  BY <1>2, EntityMatch DEF MatchClaim, Settlings
<1>3. CASE kind \notin {"numeric", "entity"}
  BY <1>3, QuoteMatch DEF MatchClaim, Settlings
<1>. QED  BY <1>1, <1>2, <1>3

(* How a record came by its status: in a span that code wrote, as the      *)
(* matcher found, or by the judge or in want of one.                       *)
Settlement(r, pools) ==
    LET found == MatchClaim(r.kind, r.claim.says, pools).status
    IN  \/ r.status = "matched_injected"
        \/ found # "fuzzy" /\ r.status = found
        \/ found = "fuzzy" /\ r.status \in {"unmatched", "matched_judge"}

ByJudge(settled) == {i \in DOMAIN settled : settled[i].status = "matched_judge"}

VInv ==
    /\ evidence \in Evidences
    /\ judge_calls \in Nat /\ judge_calls <= MaxJudgeCalls /\ judge_calls <= Len(records)
    /\ \E S : records \in Seq(S)
    /\ \A i \in DOMAIN records : Settlement(records[i], Pools(evidence))
    /\ Cardinality(ByJudge(records)) <= judge_calls

LEMMA VInitially == Init => VInv
<1>. SUFFICES ASSUME Init PROVE VInv
  OBVIOUS
<1>1. records = <<>> /\ judge_calls = 0 /\ evidence \in Evidences
  BY DEF Init
<1>2. <<>> \in Seq({})
  OBVIOUS
<1>3. ByJudge(records) = {}
  BY <1>1 DEF ByJudge
<1>. QED  BY <1>1, <1>2, <1>3, FS_EmptySet, JudgeAssumption DEF VInv

(* One more record, and a judge's call more if the judge made it a match.  *)
LEMMA OneMore ==
    ASSUME VInv, NEW r, records' = Append(records, r), evidence' = evidence,
           Settlement(r, Pools(evidence)),
           judge_calls' \in Nat, judge_calls' <= MaxJudgeCalls, judge_calls <= judge_calls',
           judge_calls' <= judge_calls + 1,
           r.status = "matched_judge" => judge_calls' = judge_calls + 1
    PROVE  VInv'
<1>1. PICK S : records \in Seq(S)
  BY DEF VInv
<1> DEFINE n == Len(records) + 1
<1>2. /\ records' \in Seq(S \cup {r}) /\ n \in Nat
      /\ DOMAIN records = 1..(n - 1) /\ DOMAIN records' = 1..n
      /\ \A i \in 1..(n - 1) : records'[i] = records[i]
      /\ records'[n] = r
  <2>1. records \in Seq(S \cup {r}) /\ r \in S \cup {r}
    BY <1>1
  <2>. QED  BY <2>1
<1> HIDE DEF n
<1>3. \A i \in DOMAIN records' : i \in DOMAIN records \/ i = n
  BY <1>2
<1>4. \A i \in DOMAIN records' : Settlement(records'[i], Pools(evidence))
  BY <1>2, <1>3 DEF VInv
<1>5. Cardinality(ByJudge(records')) <= judge_calls'
  <2>1. IsFiniteSet(ByJudge(records)) /\ Cardinality(ByJudge(records)) \in Nat
    <3>1. IsFiniteSet(1..(n - 1)) /\ ByJudge(records) \subseteq 1..(n - 1)
      BY <1>2, FS_Interval DEF ByJudge
    <3>. QED  BY <3>1, FS_Subset, FS_CardinalityType
  <2>2. CASE r.status = "matched_judge"
    <3>1. ByJudge(records') = ByJudge(records) \cup {n}
      BY <1>2, <1>3, <2>2 DEF ByJudge
    <3>2. Cardinality(ByJudge(records')) = Cardinality(ByJudge(records)) + 1
      <4> DEFINE before == ByJudge(records)
      <4>1. n \notin before
        BY <1>2 DEF ByJudge
      <4>2. IsFiniteSet(before)
        BY <2>1
      <4> HIDE DEF before
      <4>3. Cardinality(before \cup {n}) = Cardinality(before) + 1
        BY <4>1, <4>2, FS_AddElement
      <4>. QED  BY <3>1, <4>3 DEF before
    <3>3. Cardinality(ByJudge(records)) <= judge_calls /\ judge_calls \in Nat
      BY DEF VInv
    <3>. QED  BY <2>1, <2>2, <3>2, <3>3
  <2>3. CASE r.status # "matched_judge"
    <3>1. ByJudge(records') = ByJudge(records)
      BY <1>2, <1>3, <2>3 DEF ByJudge
    <3>. QED  BY <2>1, <3>1 DEF VInv
  <2>. QED  BY <2>2, <2>3
<1>6. \E T : records' \in Seq(T)
  BY <1>2
<1>7. judge_calls' <= Len(records')
  <2>1. Len(records) \in Nat /\ Len(records') = Len(records) + 1
    BY <1>1, <1>2
  <2>. QED  BY <2>1 DEF VInv
<1>. QED  BY <1>4, <1>5, <1>6, <1>7 DEF VInv

LEMMA SettledIs ==
    ASSUME NEW claim, NEW status, NEW method, Settled(claim, status, method)
    PROVE  /\ \E r : /\ records' = Append(records, r) /\ r.status = status
                     /\ r.kind = claim.kind /\ r.claim = claim
                     /\ r.from = claim.from /\ r.to = claim.to
           /\ evidence' = evidence
<1>1. LET r == Record(claim, status, method)
      IN  /\ r.status = status /\ r.kind = claim.kind /\ r.claim = claim
          /\ r.from = claim.from /\ r.to = claim.to
  BY DEF Record
<1>. QED  BY <1>1 DEF Settled

LEMMA VKept == VInv /\ [Next]_vars => VInv'
<1>. SUFFICES ASSUME VInv, [Next]_vars PROVE VInv'
  OBVIOUS
<1>1. CASE UNCHANGED <<evidence, records, judge_calls>>
  <2>1. evidence' = evidence /\ records' = records /\ judge_calls' = judge_calls
    BY <1>1
  <2>. QED  BY <2>1 DEF VInv
<1>2. CASE Verify
  <2>1. records' = <<>> /\ judge_calls' = 0 /\ evidence' = evidence
    BY <1>2 DEF Verify
  <2>2. <<>> \in Seq({})
    OBVIOUS
  <2>3. ByJudge(records') = {} /\ DOMAIN records' = {}
    BY <2>1 DEF ByJudge
  <2>4. Cardinality(ByJudge(records')) = 0
    BY <2>3, FS_EmptySet
  <2>5. \E S : records' \in Seq(S)
    BY <2>1, <2>2
  <2>. QED  BY <2>1, <2>3, <2>4, <2>5, JudgeAssumption DEF VInv
<1>3. CASE SettleInjected
  <2>1. PICK claim : Settled(claim, "matched_injected", "injected")
    BY <1>3 DEF SettleInjected
  <2>2. PICK r : records' = Append(records, r) /\ r.status = "matched_injected"
    BY <2>1, SettledIs
  <2>3. evidence' = evidence /\ judge_calls' = judge_calls
    BY <1>3, <2>1, SettledIs DEF SettleInjected
  <2>4. Settlement(r, Pools(evidence))
    BY <2>2 DEF Settlement
  <2>. QED  BY <2>2, <2>3, <2>4, OneMore DEF VInv
<1>4. CASE SettleMechanically
  <2>1. PICK claim : /\ Settled(claim, Matched(claim).status, Matched(claim).method)
                     /\ Matched(claim).status # "fuzzy"
    BY <1>4 DEF SettleMechanically
  <2>2. PICK r : /\ records' = Append(records, r) /\ r.status = Matched(claim).status
                 /\ r.kind = claim.kind /\ r.claim = claim
    BY <2>1, SettledIs
  <2>3. evidence' = evidence /\ judge_calls' = judge_calls
    BY <1>4, <2>1, SettledIs DEF SettleMechanically
  <2>4. Settlement(r, Pools(evidence)) /\ r.status # "matched_judge"
    <3>1. MatchClaim(r.kind, r.claim.says, Pools(evidence)) = Matched(claim)
      BY <2>2 DEF Matched
    <3>2. Matched(claim).status # "matched_judge"
      BY MatcherOnly DEF Matched
    <3>. QED  BY <2>1, <2>2, <3>1, <3>2 DEF Settlement
  <2>. QED  BY <2>2, <2>3, <2>4, OneMore DEF VInv
<1>5. ASSUME NEW claim, Residue(claim), NEW status \in {"unmatched", "matched_judge"}, NEW method,
             Settled(claim, status, method),
             judge_calls' \in Nat, judge_calls' <= MaxJudgeCalls, judge_calls <= judge_calls',
             judge_calls' <= judge_calls + 1,
             status = "matched_judge" => judge_calls' = judge_calls + 1
      PROVE  VInv'
  <2>1. PICK r : /\ records' = Append(records, r) /\ r.status = status
                 /\ r.kind = claim.kind /\ r.claim = claim
    BY <1>5, SettledIs
  <2>2. evidence' = evidence
    BY <1>5, SettledIs
  <2>3. Settlement(r, Pools(evidence))
    <3>1. MatchClaim(r.kind, r.claim.says, Pools(evidence)) = Matched(claim) /\ Matched(claim).status = "fuzzy"
      BY <1>5, <2>1 DEF Matched, Residue
    <3>. QED  BY <2>1, <3>1 DEF Settlement
  <2>. QED  BY <1>5, <2>1, <2>2, <2>3, OneMore
<1>6. CASE JudgeRefuses
  <2>1. PICK claim : Residue(claim) /\ Settled(claim, "unmatched", "none")
    BY <1>6 DEF JudgeRefuses
  <2>. QED  BY <1>5, <1>6, <2>1 DEF JudgeRefuses, VInv
<1>7. CASE JudgeAnswers
  <2>1. MayAsk /\ judge_calls' = judge_calls + 1
    BY <1>7 DEF JudgeAnswers
  <2>2. PICK claim : /\ Residue(claim)
                     /\ Settled(claim, "matched_judge", "judge") \/ Settled(claim, "unmatched", "none")
    BY <1>7 DEF JudgeAnswers, Judged
  <2>3. /\ judge_calls' \in Nat /\ judge_calls' <= MaxJudgeCalls
        /\ judge_calls <= judge_calls' /\ judge_calls' <= judge_calls + 1
    BY <2>1, JudgeAssumption DEF MayAsk, VInv
  <2>. QED  BY <1>5, <2>1, <2>2, <2>3
<1>8. CASE PutPiece \/ Draft \/ DraftPassagesInline \/ Redraft \/ ExtractPass \/ Return \/ Rest \/ UNCHANGED vars
  BY <1>1, <1>8 DEF PutPiece, Draft, DraftPassagesInline, Redraft, ExtractPass, Return, Rest, vars
<1>. QED  BY <1>2, <1>3, <1>4, <1>6, <1>7, <1>8 DEF Next

LEMMA VHolds == Spec => []VInv
BY VInitially, VKept, PTL DEF Spec
-------------------------------------------------------------------------------
(* JudgeRunner: the judge sees numbers only, and of those only what the    *)
(* evidence does not assert, or what more pairs than the cap stood in the  *)
(* way of, for every evidence, cap and budget.                             *)
THEOREM JudgeHasTheResidueHolds == Spec => []JudgeHasTheResidue
<1>1. VInv => JudgeHasTheResidue
  <2>. SUFFICES ASSUME VInv PROVE JudgeHasTheResidue
    OBVIOUS
  <2>1. ASSUME NEW i \in DOMAIN records, NEW r, r = records[i],
               \/ r.status = "matched_judge"
               \/ r.kind = "numeric" /\ r.status = "unmatched" /\ r.claim.says.date = None
        PROVE  /\ r.kind = "numeric" /\ r.claim.says.date = None
               /\ \/ ~Asserts(r.claim.says, Pools(evidence), "matched_derived")
                  \/ Capped(Pools(evidence).numbers)
    <3> DEFINE found == MatchClaim(r.kind, r.claim.says, Pools(evidence)).status
    <3>1. found = "fuzzy"
      <4>1. Settlement(r, Pools(evidence))
        BY <2>1 DEF VInv
      <4>2. found # "matched_judge"
        BY MatcherOnly
      <4>3. r.kind = "numeric" /\ r.claim.says.date = None => found # "unmatched"
        BY NumberMatch DEF MatchClaim
      <4>. QED  BY <2>1, <4>1, <4>2, <4>3 DEF Settlement
    <3>2. r.kind = "numeric" /\ r.claim.says.date = None
      BY <3>1, OnlyNumbers
    <3>3. MatchNumeric(r.claim.says, Pools(evidence)).status = "fuzzy"
      BY <3>1, <3>2 DEF MatchClaim
    <3>4. Len(Pools(evidence).numbers) \in Nat
          /\ DOMAIN Pools(evidence).numbers = 1..Len(Pools(evidence).numbers)
      BY EvidenceAssumption DEF VInv
    <3>. QED  BY <3>2, <3>3, <3>4, NumberResidue
  <2>2. \A i \in DOMAIN records :
           \/ records[i].status = "matched_judge"
           \/ (records[i].kind = "numeric" /\ records[i].status = "unmatched"
                                         /\ records[i].claim.says.date = None)
           => /\ records[i].kind = "numeric" /\ records[i].claim.says.date = None
              /\ \/ ~Asserts(records[i].claim.says, Pools(evidence), "matched_derived")
                 \/ Capped(Pools(evidence).numbers)
    BY <2>1
  <2>3. /\ judge_calls <= MaxJudgeCalls /\ judge_calls <= Len(records)
        /\ Cardinality(ByJudge(records)) <= judge_calls
    BY DEF VInv
  <2>. QED  BY <2>2, <2>3 DEF JudgeHasTheResidue, ByJudge
<1>. QED  BY <1>1, VHolds, PTL

(* A failed call adds nothing to the pools.                                *)
LEMMA FailedCallsAddNothing ==
    ASSUME NEW calls
    PROVE  Pools(OkOnly(calls)) = Pools(calls)
<1> DEFINE Adds(e, i) == IF Supports(e) THEN MergeTwo(HarvestInvocation(e), HarvestOutput(e, i))
                         ELSE EmptyPools
<1>1. /\ Pools(calls) = MergeContributions([i \in DOMAIN calls |-> Adds(calls[i], i)])
      /\ Pools(OkOnly(calls)) =
            MergeContributions([i \in DOMAIN OkOnly(calls) |-> Adds(OkOnly(calls)[i], i)])
  BY DEF Pools
<1>2. DOMAIN OkOnly(calls) = DOMAIN calls
  BY DEF OkOnly
<1>3. \A i \in DOMAIN calls : Adds(OkOnly(calls)[i], i) = Adds(calls[i], i)
  <2>1. ASSUME NEW i \in DOMAIN calls PROVE Adds(OkOnly(calls)[i], i) = Adds(calls[i], i)
    <3>1. CASE calls[i].status = "ok"
      BY <3>1 DEF OkOnly
    <3>2. CASE calls[i].status # "ok"
      <4>1. ~Supports(calls[i]) /\ ~Supports(OkOnly(calls)[i])
        BY <3>2 DEF Supports, OkOnly, NoCall
      <4>. QED  BY <4>1
    <3>. QED  BY <3>1, <3>2
  <2>. QED  BY <2>1
<1> HIDE DEF Adds
<1>4. [i \in DOMAIN OkOnly(calls) |-> Adds(OkOnly(calls)[i], i)] = [i \in DOMAIN calls |-> Adds(calls[i], i)]
  BY <1>2, <1>3
<1>. QED  BY <1>1, <1>4

(* match_claim: what is matched is what the ok calls of this turn returned *)
(* or assert, whatever its kind, for every evidence and cap.               *)
THEOREM MatchedIsWarrantedHolds == Spec => []MatchedIsWarranted
<1>1. VInv => MatchedIsWarranted
  <2>. SUFFICES ASSUME VInv, NEW i \in DOMAIN records, NEW r, r = records[i],
                       r.status \in {"matched_exact", "matched_derived"}
                PROVE  Warranted(r.kind, r.claim.says, Pools(OkOnly(evidence)), r.status)
    BY DEF MatchedIsWarranted
  <2> DEFINE found == MatchClaim(r.kind, r.claim.says, Pools(evidence)).status
  <2>1. Settlement(r, Pools(evidence))
    BY DEF VInv
  <2>2. r.status = found
    BY <2>1 DEF Settlement
  <2>3. Pools(OkOnly(evidence)) = Pools(evidence)
    BY FailedCallsAddNothing
  <2>4. Warranted(r.kind, r.claim.says, Pools(evidence), found)
    BY <2>2, MatchIsWarranted
  <2> HIDE DEF found
  <2>. QED  BY <2>2, <2>3, <2>4
<1>. QED  BY <1>1, VHolds, PTL
-------------------------------------------------------------------------------
Writers == {"drafter", "code"}

(* A text of which the spans are code's alone, counted as it is.           *)
Honest(r) ==
    /\ r = [text |-> r.text, length |-> r.length, spans |-> r.spans, failures |-> r.failures,
            pathed_into_text |-> r.pathed_into_text, misplaced |-> r.misplaced]
    /\ r.text \in Seq(Writers) /\ r.length = Len(r.text)
    /\ r.spans \subseteq [from : Nat, to : Nat]
    /\ \A span \in r.spans :
          /\ span.to <= Len(r.text)
          /\ \A c \in span.from + 1 .. span.to : r.text[c] = "code"

(* What stands in a text stands there when it has grown.                   *)
LEMMA Longer ==
    ASSUME NEW text, text \in Seq(Writers), NEW width \in Nat,
           NEW writer, writer \in Writers,
           NEW grown, grown = text \o [c \in 1..width |-> writer]
    PROVE  /\ grown \in Seq(Writers) /\ Len(grown) = Len(text) + width
           /\ \A c \in 1..Len(text) : grown[c] = text[c]
           /\ \A c \in Len(text) + 1 .. Len(text) + width : grown[c] = writer
<1> DEFINE more == [c \in 1..width |-> writer]
<1>1. /\ more \in Seq(Writers) /\ Len(more) = width
      /\ \A c \in 1..width : more[c] = writer
  OBVIOUS
<1>2. grown = text \o more
  OBVIOUS
<1> HIDE DEF more
<1>3. /\ grown \in Seq(Writers) /\ Len(grown) = Len(text) + Len(more)
      /\ \A c \in 1 .. Len(text) + Len(more) :
            grown[c] = IF c <= Len(text) THEN text[c] ELSE more[c - Len(text)]
  <2>1. /\ text \o more \in Seq(Writers) /\ Len(text \o more) = Len(text) + Len(more)
        /\ \A c \in 1 .. Len(text) + Len(more) :
              (text \o more)[c] = IF c <= Len(text) THEN text[c] ELSE more[c - Len(text)]
    BY <1>1, ConcatProperties
  <2>. QED  BY <1>2, <2>1
<1>4. Len(text) \in Nat
  OBVIOUS
<1>5. ASSUME NEW c \in 1..Len(text) PROVE grown[c] = text[c]
  BY <1>1, <1>3, <1>4
<1>6. ASSUME NEW c \in Len(text) + 1 .. Len(text) + width PROVE grown[c] = writer
  <2>1. c \in 1 .. Len(text) + Len(more) /\ ~(c <= Len(text)) /\ c - Len(text) \in 1..width
    BY <1>1, <1>4
  <2>. QED  BY <1>1, <1>3, <2>1
<1>. QED  BY <1>1, <1>3, <1>5, <1>6

LEMMA Kept ==
    ASSUME NEW so_far, Honest(so_far), NEW piece, piece.width \in Nat
    PROVE  Honest(P!Keep(so_far, piece))
<1> DEFINE grown == so_far.text \o P!Written("drafter", piece.width)
           kept == P!Keep(so_far, piece)
<1>1. kept = [so_far EXCEPT !.text = grown, !.length = @ + piece.width]
  BY DEF P!Keep
<1>2. grown = so_far.text \o P!Written("drafter", piece.width)
  OBVIOUS
<1> HIDE DEF grown, kept
<1>3. /\ kept.text = grown /\ kept.length = so_far.length + piece.width /\ kept.spans = so_far.spans
      /\ kept = [text |-> kept.text, length |-> kept.length, spans |-> kept.spans,
                 failures |-> kept.failures, pathed_into_text |-> kept.pathed_into_text,
                 misplaced |-> kept.misplaced]
  BY <1>1 DEF Honest
<1>4. so_far.text \in Seq(Writers) /\ so_far.length = Len(so_far.text) /\ Len(so_far.text) \in Nat
  BY DEF Honest
<1>5. /\ grown \in Seq(Writers) /\ Len(grown) = Len(so_far.text) + piece.width
      /\ \A c \in 1..Len(so_far.text) : grown[c] = so_far.text[c]
  <2>1. "drafter" \in Writers
    BY DEF Writers
  <2> DEFINE text == so_far.text
             width == piece.width
  <2>2. text \in Seq(Writers) /\ width \in Nat /\ grown = text \o [c \in 1..width |-> "drafter"]
    BY <1>2, <1>4 DEF P!Written
  <2> HIDE DEF text, width
  <2>3. /\ grown \in Seq(Writers) /\ Len(grown) = Len(text) + width
        /\ \A c \in 1..Len(text) : grown[c] = text[c]
    BY <2>1, <2>2, Longer
  <2>. QED  BY <2>3 DEF text, width
<1>6. ASSUME NEW span \in so_far.spans
      PROVE  /\ span.to <= Len(grown)
             /\ \A c \in span.from + 1 .. span.to : grown[c] = "code"
  <2>1. /\ span.from \in Nat /\ span.to \in Nat /\ span.to <= Len(so_far.text)
        /\ \A c \in span.from + 1 .. span.to : so_far.text[c] = "code"
    BY DEF Honest
  <2>2. \A c \in span.from + 1 .. span.to : c \in 1..Len(so_far.text)
    BY <1>4, <2>1
  <2>. QED  BY <1>4, <1>5, <2>1, <2>2
<1>7. Honest(kept)
  BY <1>3, <1>4, <1>5, <1>6 DEF Honest
<1>. QED  BY <1>7 DEF kept

(* Each piece leaves the text honest, whatever its value.                  *)
LEMMA PutHonest ==
    ASSUME NEW so_far, Honest(so_far), NEW piece, NEW calls, NEW inline, piece.width \in Nat,
           piece.kind # "typed" =>
               \/ P!Value(piece, calls) \in {P!Lost, P!IntoText}
               \/ P!Value(piece, calls).width \in Nat
    PROVE  Honest(P!Put(so_far, piece, calls, inline))
<1> DEFINE value == P!Value(piece, calls)
           kept == P!Keep(so_far, piece)
<1>1. Honest(kept)
  BY Kept
<1>2. CASE piece.kind = "typed"
  BY <1>1, <1>2 DEF P!Put
<1>3. CASE piece.kind # "typed" /\ value \in {P!Lost, P!IntoText}
  <2> DEFINE pathed == IF value = P!IntoText THEN {piece} ELSE {}
  <2>1. P!Put(so_far, piece, calls, inline) =
          [kept EXCEPT !.failures = @ \cup {piece}, !.pathed_into_text = @ \cup pathed]
    BY <1>3 DEF P!Put, P!PutValue
  <2> HIDE DEF kept, pathed
  <2>. QED  BY <1>1, <2>1 DEF Honest
<1>4. CASE piece.kind # "typed" /\ value \notin {P!Lost, P!IntoText} /\ P!Misplaced(piece, value, inline)
  <2>1. P!Put(so_far, piece, calls, inline) = [kept EXCEPT !.misplaced = @ \cup {piece}]
    BY <1>4 DEF P!Put, P!PutValue
  <2> HIDE DEF kept
  <2>. QED  BY <1>1, <2>1 DEF Honest
<1>5. CASE piece.kind # "typed" /\ value \notin {P!Lost, P!IntoText} /\ ~P!Misplaced(piece, value, inline)
  <2> DEFINE grown == so_far.text \o P!Written("code", value.width)
             here == [from |-> so_far.length, to |-> so_far.length + value.width]
             put == P!Put(so_far, piece, calls, inline)
  <2>1. put = [so_far EXCEPT !.text = grown, !.length = @ + value.width, !.spans = @ \cup {here}]
    BY <1>5 DEF P!Put, P!PutValue, P!Added
  <2>2. value.width \in Nat
    BY <1>5
  <2>3. grown = so_far.text \o P!Written("code", value.width)
    OBVIOUS
  <2>4. /\ so_far.text \in Seq(Writers) /\ so_far.length = Len(so_far.text)
        /\ Len(so_far.text) \in Nat
    BY DEF Honest
  <2>5. here \in [from : Nat, to : Nat] /\ here.from = Len(so_far.text) /\ here.to = Len(so_far.text) + value.width
    BY <2>2, <2>4
  <2> HIDE DEF grown, here, value, put
  <2>6. /\ grown \in Seq(Writers) /\ Len(grown) = Len(so_far.text) + value.width
        /\ \A c \in 1..Len(so_far.text) : grown[c] = so_far.text[c]
        /\ \A c \in Len(so_far.text) + 1 .. Len(so_far.text) + value.width : grown[c] = "code"
    <3>1. "code" \in Writers
      BY DEF Writers
    <3> DEFINE text == so_far.text
               width == value.width
    <3>2. text \in Seq(Writers) /\ width \in Nat /\ grown = text \o [c \in 1..width |-> "code"]
      BY <2>2, <2>3, <2>4 DEF P!Written
    <3> HIDE DEF text, width
    <3>3. /\ grown \in Seq(Writers) /\ Len(grown) = Len(text) + width
          /\ \A c \in 1..Len(text) : grown[c] = text[c]
          /\ \A c \in Len(text) + 1 .. Len(text) + width : grown[c] = "code"
      BY <3>1, <3>2, Longer
    <3>. QED  BY <3>3 DEF text, width
  <2>7. /\ put.text = grown /\ put.length = so_far.length + value.width
        /\ put.spans = so_far.spans \cup {here}
        /\ put = [text |-> put.text, length |-> put.length, spans |-> put.spans,
                  failures |-> put.failures, pathed_into_text |-> put.pathed_into_text,
                  misplaced |-> put.misplaced]
    BY <2>1 DEF Honest
  <2>8. ASSUME NEW span \in so_far.spans
        PROVE  /\ span.to <= Len(grown)
               /\ \A c \in span.from + 1 .. span.to : grown[c] = "code"
    <3>1. /\ span.from \in Nat /\ span.to \in Nat /\ span.to <= Len(so_far.text)
          /\ \A c \in span.from + 1 .. span.to : so_far.text[c] = "code"
      BY DEF Honest
    <3>2. \A c \in span.from + 1 .. span.to : c \in 1..Len(so_far.text)
      BY <2>4, <3>1
    <3>3. \A c \in span.from + 1 .. span.to : grown[c] = "code"
      BY <2>6, <3>1, <3>2
    <3>4. span.to <= Len(grown)
      BY <2>2, <2>6, <2>4, <3>1
    <3>. QED  BY <3>3, <3>4
  <2>9. /\ here.to <= Len(grown)
        /\ \A c \in here.from + 1 .. here.to : grown[c] = "code"
    <3>1. here.to <= Len(grown)
      BY <2>2, <2>4, <2>5, <2>6
    <3>2. here.from + 1 .. here.to = Len(so_far.text) + 1 .. Len(so_far.text) + value.width
      BY <2>5
    <3>. QED  BY <2>6, <3>1, <3>2
  <2>10. Honest(put)
    BY <2>6, <2>4, <2>5, <2>7, <2>8, <2>9 DEF Honest
  <2>. QED  BY <2>10 DEF put
<1>. QED  BY <1>2, <1>3, <1>4, <1>5
-------------------------------------------------------------------------------
(* Resolution ends before the first record is made, and what is recorded   *)
(* as injected was in a span.                                              *)
InjectionInv ==
    /\ draft \in Drafts /\ evidence \in Evidences /\ cursor \in Nat
    /\ Honest(resolved)
    /\ pc = "draft" => records = <<>>
    /\ \E S : records \in Seq(S)
    /\ \A i \in DOMAIN records :
          /\ records[i].from = records[i].claim.from /\ records[i].to = records[i].claim.to
          /\ records[i].status = "matched_injected" => ContainedInSpan(records[i].claim)

LEMMA InjectionInitially == Init => InjectionInv
<1>. SUFFICES ASSUME Init PROVE InjectionInv
  OBVIOUS
<1>1. Honest(resolved)
  <2>1. resolved = P!Nothing
    BY DEF Init
  <2>2. P!Nothing.text = <<>> /\ P!Nothing.length = 0 /\ P!Nothing.spans = {}
    BY DEF P!Nothing
  <2>3. <<>> \in Seq(Writers) /\ Len(<<>>) = 0
    OBVIOUS
  <2>. QED  BY <2>1, <2>2, <2>3 DEF Honest, P!Nothing
<1>2. records = <<>> /\ <<>> \in Seq({}) /\ cursor = 0 /\ draft \in Drafts /\ evidence \in Evidences
  BY DEF Init
<1>. QED  BY <1>1, <1>2 DEF InjectionInv

LEMMA AppendIs ==
    ASSUME NEW list, \E S : list \in Seq(S), NEW r, NEW longer, longer = Append(list, r)
    PROVE  /\ \E S : longer \in Seq(S)
           /\ Len(list) \in Nat /\ DOMAIN list = 1..Len(list)
           /\ Len(longer) = Len(list) + 1 /\ DOMAIN longer = 1..(Len(list) + 1)
           /\ \A i \in 1..Len(list) : longer[i] = list[i]
           /\ longer[Len(list) + 1] = r
<1>1. PICK S : list \in Seq(S)
  OBVIOUS
<1>2. list \in Seq(S \cup {r}) /\ r \in S \cup {r}
  BY <1>1
<1>. QED  BY <1>2

LEMMA InjectionKept == InjectionInv /\ [Next]_vars => InjectionInv'
<1>. SUFFICES ASSUME InjectionInv, [Next]_vars PROVE InjectionInv'
  OBVIOUS
<1>1. draft' = draft /\ evidence' = evidence
  BY DEF Next, vars, drafting, extraction, PutPiece, Draft, DraftPassagesInline, Redraft, Verify,
         ExtractPass, SettleInjected, SettleMechanically, JudgeRefuses, JudgeAnswers, Judged,
         Settled, Return, Rest
<1>2. ASSUME resolved' = resolved, cursor' = cursor, NEW claim, NEW r,
             records' = Append(records, r), r.claim = claim, r.from = claim.from, r.to = claim.to,
             r.status = "matched_injected" => ContainedInSpan(claim), pc' # "draft"
      PROVE  InjectionInv'
  <2>1. /\ \E S : records' \in Seq(S)
        /\ DOMAIN records = 1..Len(records) /\ DOMAIN records' = 1..(Len(records) + 1)
        /\ Len(records) \in Nat
        /\ \A i \in 1..Len(records) : records'[i] = records[i]
        /\ records'[Len(records) + 1] = r
    BY <1>2, AppendIs DEF InjectionInv
  <2>3. ASSUME NEW i \in DOMAIN records'
        PROVE  /\ records'[i].from = records'[i].claim.from /\ records'[i].to = records'[i].claim.to
               /\ records'[i].status = "matched_injected" => ContainedInSpan(records'[i].claim)
    <3>1. CASE i \in DOMAIN records
      BY <2>1, <3>1 DEF InjectionInv
    <3>2. CASE i = Len(records) + 1
      BY <1>2, <2>1, <3>2
    <3>. QED  BY <2>1, <3>1, <3>2
  <2>4. /\ draft' \in Drafts /\ evidence' \in Evidences /\ cursor' \in Nat /\ Honest(resolved')
    BY <1>1, <1>2 DEF InjectionInv
  <2>. QED  BY <1>2, <2>1, <2>3, <2>4 DEF InjectionInv, ContainedInSpan, Honest
<1>3. CASE UNCHANGED <<resolved, cursor, records>> /\ (pc' = "draft" => pc = "draft")
  <2>1. resolved' = resolved /\ cursor' = cursor /\ records' = records
    BY <1>3
  <2>. QED  BY <1>1, <1>3, <2>1 DEF InjectionInv, ContainedInSpan
<1>4. CASE PutPiece
  <2> DEFINE piece == draft.raw[cursor + 1]
  <2>1. SoundDraft(draft) /\ cursor \in Nat /\ cursor < Len(draft.raw)
    BY <1>4, DraftAssumption DEF InjectionInv, PutPiece
  <2>2. piece \in Range(draft.raw)
    <3>1. draft.raw \in Seq(Range(draft.raw))
      BY <2>1 DEF SoundDraft
    <3>2. cursor + 1 \in DOMAIN draft.raw
      BY <2>1, <3>1
    <3>. QED  BY <3>2 DEF Range
  <2>3. /\ piece.width \in Nat
        /\ piece.kind # "typed" =>
              \/ P!Value(piece, evidence) \in {P!Lost, P!IntoText}
              \/ P!Value(piece, evidence).width \in Nat
    BY <2>1, <2>2 DEF SoundDraft, InjectionInv
  <2>4. resolved' = P!Put(resolved, piece, evidence, allow_passages_inline)
    BY <1>4 DEF PutPiece
  <2> HIDE DEF piece
  <2>5. Honest(resolved')
    BY <2>3, <2>4, PutHonest DEF InjectionInv
  <2>6. records = <<>> /\ records' = <<>> /\ cursor' \in Nat
    BY <1>4 DEF PutPiece, InjectionInv
  <2>. QED  BY <1>1, <2>5, <2>6 DEF InjectionInv, Honest
<1>5. CASE DraftPassagesInline
  <2>1. resolved' = P!Nothing /\ cursor' = 0 /\ records = <<>> /\ records' = <<>>
    BY <1>5 DEF DraftPassagesInline, InjectionInv, AllPut
  <2>2. Honest(P!Nothing)
    BY DEF Honest, P!Nothing
  <2>. QED  BY <1>1, <2>1, <2>2 DEF InjectionInv, Honest
<1>6. CASE Verify
  <2>1. records' = <<>> /\ resolved' = resolved /\ cursor' = cursor /\ <<>> \in Seq({})
    BY <1>6 DEF Verify, drafting
  <2>. QED  BY <1>1, <2>1 DEF InjectionInv, Honest
<1>7. ASSUME NEW claim, NEW status, NEW method, Settled(claim, status, method),
             status = "matched_injected" => ContainedInSpan(claim)
      PROVE  InjectionInv'
  <2>1. PICK r : /\ records' = Append(records, r) /\ r.status = status /\ r.claim = claim
                 /\ r.from = claim.from /\ r.to = claim.to
    BY <1>7, SettledIs
  <2>2. resolved' = resolved /\ cursor' = cursor /\ pc' # "draft"
    BY <1>7 DEF Settled, drafting
  <2>. QED  BY <1>2, <1>7, <2>1, <2>2
<1>8. CASE SettleInjected
  BY <1>7, <1>8 DEF SettleInjected
<1>9. CASE SettleMechanically
  <2>1. PICK claim : Settled(claim, Matched(claim).status, Matched(claim).method)
    BY <1>9 DEF SettleMechanically
  <2>2. Matched(claim).status # "matched_injected"
    BY MatcherOnly DEF Matched
  <2>. QED  BY <1>7, <2>1, <2>2
<1>10. CASE JudgeRefuses
  BY <1>7, <1>10 DEF JudgeRefuses
<1>11. CASE JudgeAnswers
  BY <1>7, <1>11 DEF JudgeAnswers, Judged
<1>12. CASE Draft \/ Redraft \/ ExtractPass \/ Return \/ Rest \/ UNCHANGED vars
  BY <1>3, <1>12 DEF Draft, Redraft, ExtractPass, Return, Rest, vars, drafting
<1>. QED  BY <1>4, <1>5, <1>6, <1>8, <1>9, <1>10, <1>11, <1>12 DEF Next

LEMMA InjectionHolds == Spec => []InjectionInv
BY InjectionInitially, InjectionKept, PTL DEF Spec

-------------------------------------------------------------------------------
Interval(c) == c.from \in Nat /\ c.to \in Nat /\ c.from < c.to

(* A claim begins where it is read.                                        *)
Begun(c) == Interval(c) /\ c.from \in Own(c)

Scaffolded(x) == \E t \in draft.text : t.pass \in Scaffolding /\ x \in Own(t)
InTodo(x) == \E c \in todo : x \in Own(c)
InRecords(x) == \E i \in DOMAIN records : x \in Own(records[i].claim)

(* What the passes made so far have taken is read for a claim or as        *)
(* scaffolding, each character once; and after the last of them no number  *)
(* is left.                                                                *)
ExtractInv ==
    /\ draft \in Drafts /\ passes \in Nat /\ \E S : records \in Seq(S)
    /\ pc = "extract" => passes < Len(Passes) /\ records = <<>>
    /\ Done => todo = {}
    /\ (pc = "claims" \/ Done) /\ draft.kind = "prose" => passes = Len(Passes)
    /\ \A c \in todo : Begun(c) /\ Chars(c) \subseteq blanked
    /\ \A c, d \in todo : c # d => Own(c) \cap Own(d) = {}
    /\ \A i \in DOMAIN records :
          /\ Begun(records[i].claim)
          /\ records[i].from = records[i].claim.from /\ records[i].to = records[i].claim.to
          /\ \A c \in todo : /\ records[i].claim.from < c.from
                             /\ Own(records[i].claim) \cap Own(c) = {}
    /\ ReadOnce(ClaimsOf(records))
    /\ \A x \in blanked : Scaffolded(x) \/ InTodo(x) \/ InRecords(x)
    /\ passes = Len(Passes) =>
          \A s \in draft.text :
              s.pass = "number" /\ s.sound /\ s.over = {} => Chars(s) \cap blanked # {}

LEMMA LastPass == Len(Passes) = 17 /\ Passes[17] = "number"
BY DEF Passes

(* A pass takes sightings of which nothing it reads has been blanked, and  *)
(* that share no character.                                                *)
LEMMA TakenIs ==
    ASSUME NEW d \in Drafts, NEW pass, NEW B
    PROVE  /\ \A s \in Taken(d.text, pass, B) :
                 /\ s \in d.text /\ s.pass = pass /\ s.sound /\ Interval(s)
                 /\ Own(s) \cap B = {} /\ s.over \subseteq B
                 /\ pass \notin Scaffolding => Begun(s)
           /\ \A s, t \in Taken(d.text, pass, B) : s # t => Own(s) \cap Own(t) = {}
           /\ \A s \in Taken(d.text, pass, B) :
                 /\ ClaimOf(s).from = s.from /\ ClaimOf(s).to = s.to
                 /\ Chars(ClaimOf(s)) = Chars(s) /\ Own(ClaimOf(s)) = Own(s)
<1>1. SoundDraft(d)
  BY DraftAssumption
<1>2. ASSUME NEW s \in Taken(d.text, pass, B)
      PROVE  /\ s \in d.text /\ s.pass = pass /\ s.sound /\ Interval(s)
             /\ Reads(s) \cap B = {} /\ Own(s) \cap B = {} /\ s.over \subseteq B
             /\ pass \notin Scaffolding => Begun(s)
  <2>1. s \in d.text /\ s.pass = pass /\ s.sound /\ Reads(s) \cap B = {} /\ s.over \subseteq B
    BY <1>2 DEF Taken, Matches
  <2>2. Interval(s) /\ (pass \notin Scaffolding => s.from \notin s.over)
    BY <1>1, <2>1 DEF SoundDraft, Interval
  <2>3. s.from \in Chars(s)
    BY <2>2 DEF Interval, Chars
  <2>. QED  BY <2>1, <2>2, <2>3 DEF Begun, Own, Reads
<1>3. ASSUME NEW s \in Taken(d.text, pass, B), NEW t \in Taken(d.text, pass, B), s # t
      PROVE  Own(s) \cap Own(t) = {}
  <2>1. ~Overlap(s, t)
    <3>1. ~(s.over \cap Reads(t) # {} \/ t.over \cap Reads(s) # {})
      BY <1>2
    <3>. QED  BY <1>1, <1>2, <1>3, <3>1 DEF SoundDraft
  <2>2. Interval(s) /\ Interval(t)
    BY <1>2
  <2>3. ASSUME NEW x \in Chars(s), x \in Chars(t) PROVE FALSE
    BY <2>1, <2>2, <2>3 DEF Overlap, Interval, Chars
  <2>. QED  BY <2>3 DEF Own
<1>4. \A s \in Taken(d.text, pass, B) :
         /\ ClaimOf(s).from = s.from /\ ClaimOf(s).to = s.to
         /\ Chars(ClaimOf(s)) = Chars(s) /\ Own(ClaimOf(s)) = Own(s)
  BY DEF ClaimOf, Own, Chars
<1>. QED  BY <1>2, <1>3, <1>4

LEMMA ExtractInitially == Init => ExtractInv
<1>. SUFFICES ASSUME Init PROVE ExtractInv
  OBVIOUS
<1>1. /\ pc = "draft" /\ draft \in Drafts /\ passes = 0 /\ blanked = {} /\ todo = {} /\ records = <<>>
      /\ <<>> \in Seq({})
  BY DEF Init
<1>. QED  BY <1>1, LastPass DEF ExtractInv, Done, ReadOnce, ClaimsOf

(* One pass.                                                               *)
LEMMA PassKept == ExtractInv /\ ExtractPass => ExtractInv'
<1>. SUFFICES ASSUME ExtractInv, ExtractPass PROVE ExtractInv'
  OBVIOUS
<1> DEFINE pass == Passes[passes + 1]
           taken == Taken(draft.text, pass, blanked)
<1>1. /\ draft' = draft /\ draft \in Drafts /\ records = <<>> /\ records' = <<>>
      /\ passes \in Nat /\ passes < Len(Passes) /\ passes' = passes + 1 /\ pc = "extract"
  BY DEF ExtractInv, ExtractPass
<1>2. /\ todo' = todo \cup (IF pass \in Scaffolding THEN {} ELSE {ClaimOf(s) : s \in taken})
      /\ blanked' = blanked \cup UNION {Chars(s) : s \in taken}
      /\ pc' = IF passes' < Len(Passes) THEN "extract" ELSE IF todo' = {} THEN "findings" ELSE "claims"
  BY <1>1 DEF ExtractPass, Claimed, Blanked
<1> HIDE DEF pass
<1>3. /\ \A s \in taken :
            /\ s \in draft.text /\ s.pass = pass /\ s.sound /\ Interval(s)
            /\ Own(s) \cap blanked = {} /\ s.over \subseteq blanked
            /\ pass \notin Scaffolding => Begun(s)
      /\ \A s, t \in taken : s # t => Own(s) \cap Own(t) = {}
      /\ \A s \in taken :
            /\ ClaimOf(s).from = s.from /\ ClaimOf(s).to = s.to
            /\ Chars(ClaimOf(s)) = Chars(s) /\ Own(ClaimOf(s)) = Own(s)
  BY <1>1, TakenIs
(* A number as written that the last pass does not take was read already.  *)
<1>4. passes' = Len(Passes) =>
         \A s \in draft.text :
             s.pass = "number" /\ s.sound /\ s.over = {} => Chars(s) \cap blanked' # {}
  <2>1. ASSUME passes' = Len(Passes), NEW s \in draft.text, s.pass = "number", s.sound, s.over = {}
        PROVE  Chars(s) \cap blanked' # {}
    <3>1. pass = "number"
      BY <1>1, <2>1, LastPass DEF pass
    <3>2. Reads(s) = Chars(s)
      <4>1. SoundDraft(draft)
        BY <1>1, DraftAssumption
      <4>. QED  BY <2>1, <4>1 DEF SoundDraft, Reads, Own
    <3>3. CASE Chars(s) \cap blanked = {}
      <4>1. s \in taken
        BY <2>1, <3>1, <3>2, <3>3 DEF Taken, Matches
      <4>2. s.from \in Chars(s)
        BY <1>3, <4>1 DEF Interval, Chars
      <4>. QED  BY <1>2, <4>1, <4>2
    <3>. QED  BY <1>2, <3>3
  <2>. QED  BY <2>1
<1> HIDE DEF taken
<1>5. \A c \in todo' : c \in todo \/ (pass \notin Scaffolding /\ \E s \in taken : c = ClaimOf(s))
  BY <1>2
<1>6. \A c \in todo' : Begun(c) /\ Chars(c) \subseteq blanked'
  <2>1. ASSUME NEW s \in taken, pass \notin Scaffolding
        PROVE  Begun(ClaimOf(s)) /\ Chars(ClaimOf(s)) \subseteq blanked'
    <3>1. Begun(ClaimOf(s))
      BY <1>3, <2>1 DEF Begun, Interval
    <3>. QED  BY <1>2, <1>3, <3>1
  <2>2. \A c \in todo : Begun(c) /\ Chars(c) \subseteq blanked'
    BY <1>2 DEF ExtractInv
  <2>. QED  BY <1>5, <2>1, <2>2
<1>7. \A c, d \in todo' : c # d => Own(c) \cap Own(d) = {}
  <2>1. ASSUME NEW c \in todo, NEW s \in taken
        PROVE  Own(c) \cap Own(ClaimOf(s)) = {} /\ Own(ClaimOf(s)) \cap Own(c) = {}
    <3>1. Own(c) \subseteq blanked
      BY DEF ExtractInv, Own
    <3>. QED  BY <1>3, <3>1
  <2>2. ASSUME NEW s \in taken, NEW t \in taken, s # t PROVE Own(ClaimOf(s)) \cap Own(ClaimOf(t)) = {}
    BY <1>3, <2>2
  <2>3. \A c, d \in todo : c # d => Own(c) \cap Own(d) = {}
    BY DEF ExtractInv
  <2>. QED  BY <1>5, <2>1, <2>2, <2>3
(* What a match runs over was blanked before it, and by another.           *)
<1>8. \A x \in blanked' : Scaffolded(x)' \/ InTodo(x)' \/ InRecords(x)'
  <2>1. ASSUME NEW x \in blanked PROVE Scaffolded(x)' \/ InTodo(x)'
    <3>1. Scaffolded(x) \/ InTodo(x)
      BY <1>1 DEF ExtractInv, InRecords
    <3>. QED  BY <1>1, <1>2, <3>1 DEF Scaffolded, InTodo
  <2>2. ASSUME NEW s \in taken, NEW x \in Chars(s) PROVE Scaffolded(x)' \/ InTodo(x)'
    <3>1. CASE x \in s.over
      BY <1>3, <2>1, <2>2, <3>1
    <3>2. CASE x \notin s.over /\ pass \in Scaffolding
      <4>1. x \in Own(s)
        BY <2>2, <3>2 DEF Own
      <4>. QED  BY <1>1, <1>3, <3>2, <4>1 DEF Scaffolded
    <3>3. CASE x \notin s.over /\ pass \notin Scaffolding
      <4>1. ClaimOf(s) \in todo' /\ x \in Own(s)
        BY <1>2, <2>2, <3>3 DEF Own
      <4>2. x \in Own(ClaimOf(s))
        BY <1>3, <4>1
      <4>. QED  BY <4>1, <4>2 DEF InTodo
    <3>. QED  BY <3>1, <3>2, <3>3
  <2>. QED  BY <1>2, <2>1, <2>2
<1>9. /\ passes' \in Nat /\ draft' \in Drafts /\ \E S : records' \in Seq(S)
      /\ pc' = "extract" => passes' < Len(Passes) /\ records' = <<>>
      /\ Done' => todo' = {}
      /\ pc' = "claims" \/ Done' => passes' = Len(Passes)
      /\ ReadOnce(ClaimsOf(records')) /\ DOMAIN records' = {}
  <2>1. <<>> \in Seq({})
    OBVIOUS
  <2>2. pc' # "extract" => passes' = Len(Passes)
    BY <1>1, <1>2, LastPass
  <2>3. Done' => pc' = "findings" /\ todo' = {}
    BY <1>2 DEF Done
  <2>4. Done' => pc' # "extract"
    BY DEF Done
  <2>5. ReadOnce(ClaimsOf(records'))
    BY <1>1 DEF ReadOnce, ClaimsOf
  <2>. QED  BY <1>1, <1>2, <2>1, <2>2, <2>3, <2>4, <2>5
<1>. QED  BY <1>1, <1>4, <1>6, <1>7, <1>8, <1>9 DEF ExtractInv

(* The next claim becomes the next record.                                 *)
LEMMA SettledKept ==
    ASSUME ExtractInv, NEW claim \in todo, IsNext(claim), NEW status, NEW method,
           Settled(claim, status, method), pc = "claims"
    PROVE  ExtractInv'
<1>1. /\ draft' = draft /\ draft \in Drafts /\ passes' = passes /\ blanked' = blanked
      /\ todo' = todo \ {claim} /\ pc' = IF todo = {claim} THEN "findings" ELSE "claims"
  BY DEF Settled, extraction, ExtractInv
<1>2. PICK r : records' = Append(records, r) /\ r.claim = claim /\ r.from = claim.from /\ r.to = claim.to
  BY SettledIs
<1> DEFINE n == Len(records)
<1>3. /\ \E S : records' \in Seq(S)
      /\ n \in Nat /\ DOMAIN records = 1..n /\ DOMAIN records' = 1..(n + 1)
      /\ \A i \in 1..n : records'[i] = records[i]
      /\ records'[n + 1] = r
  <2>1. \E S : records \in Seq(S)
    BY DEF ExtractInv
  <2>. QED  BY <1>2, <2>1, AppendIs
<1> HIDE DEF n
<1>4. Begun(claim)
  BY DEF ExtractInv
<1>5. \A c \in todo' : claim.from < c.from /\ Own(claim) \cap Own(c) = {}
  <2>1. ASSUME NEW c \in todo, c # claim PROVE claim.from < c.from /\ Own(claim) \cap Own(c) = {}
    <3>1. Begun(claim) /\ Begun(c) /\ claim.from <= c.from /\ Own(claim) \cap Own(c) = {}
      BY <2>1 DEF ExtractInv, IsNext
    <3>2. claim.from # c.from
      BY <3>1 DEF Begun
    <3>. QED  BY <3>1, <3>2 DEF Begun, Interval
  <2>. QED  BY <1>1, <2>1
<1>6. \A i \in DOMAIN records' :
         /\ Begun(records'[i].claim)
         /\ records'[i].from = records'[i].claim.from /\ records'[i].to = records'[i].claim.to
         /\ \A c \in todo' : /\ records'[i].claim.from < c.from
                             /\ Own(records'[i].claim) \cap Own(c) = {}
  <2>1. ASSUME NEW i \in 1..n
        PROVE  /\ Begun(records'[i].claim)
               /\ records'[i].from = records'[i].claim.from /\ records'[i].to = records'[i].claim.to
               /\ \A c \in todo' : /\ records'[i].claim.from < c.from
                                   /\ Own(records'[i].claim) \cap Own(c) = {}
    BY <1>1, <1>3, <2>1 DEF ExtractInv
  <2>2. \A i \in 1..(n + 1) : i \in 1..n \/ i = n + 1
    BY <1>3
  <2>. QED  BY <1>2, <1>3, <1>4, <1>5, <2>1, <2>2
<1>7. ReadOnce(ClaimsOf(records'))
  <2>1. /\ DOMAIN ClaimsOf(records') = 1..(n + 1) /\ DOMAIN ClaimsOf(records) = 1..n
        /\ \A i \in 1..n : ClaimsOf(records')[i] = records[i].claim /\ ClaimsOf(records)[i] = records[i].claim
        /\ ClaimsOf(records')[n + 1] = claim
    BY <1>2, <1>3 DEF ClaimsOf
  <2>2. ASSUME NEW i \in 1..(n + 1), NEW j \in 1..(n + 1), i < j
        PROVE  /\ ClaimsOf(records')[i].from < ClaimsOf(records')[j].from
               /\ Own(ClaimsOf(records')[i]) \cap Own(ClaimsOf(records')[j]) = {}
    <3>1. i \in 1..n /\ (j \in 1..n \/ j = n + 1)
      BY <1>3, <2>2
    <3>2. CASE j \in 1..n
      <4>1. /\ ClaimsOf(records)[i].from < ClaimsOf(records)[j].from
            /\ Own(ClaimsOf(records)[i]) \cap Own(ClaimsOf(records)[j]) = {}
        BY <2>1, <2>2, <3>1, <3>2 DEF ExtractInv, ReadOnce
      <4>. QED  BY <2>1, <3>1, <3>2, <4>1
    <3>3. CASE j = n + 1
      <4>1. records[i].claim.from < claim.from /\ Own(records[i].claim) \cap Own(claim) = {}
        BY <1>3, <3>1 DEF ExtractInv
      <4>. QED  BY <2>1, <3>1, <3>3, <4>1
    <3>. QED  BY <3>1, <3>2, <3>3
  <2>. QED  BY <2>1, <2>2 DEF ReadOnce
<1>8. \A x \in blanked' : Scaffolded(x)' \/ InTodo(x)' \/ InRecords(x)'
  <2>1. ASSUME NEW x \in blanked PROVE Scaffolded(x)' \/ InTodo(x)' \/ InRecords(x)'
    <3>1. CASE Scaffolded(x)
      BY <1>1, <3>1 DEF Scaffolded
    <3>2. CASE InRecords(x)
      <4>1. PICK i \in DOMAIN records : x \in Own(records[i].claim)
        BY <3>2 DEF InRecords
      <4>2. i \in DOMAIN records' /\ records'[i] = records[i]
        BY <1>3
      <4>. QED  BY <4>1, <4>2 DEF InRecords
    <3>3. CASE InTodo(x)
      <4>1. PICK c \in todo : x \in Own(c)
        BY <3>3 DEF InTodo
      <4>2. CASE c = claim
        <5>1. n + 1 \in DOMAIN records' /\ x \in Own(records'[n + 1].claim)
          BY <1>2, <1>3, <4>1, <4>2
        <5>. QED  BY <5>1 DEF InRecords
      <4>3. CASE c # claim
        BY <1>1, <4>1, <4>3 DEF InTodo
      <4>. QED  BY <4>2, <4>3
    <3>. QED  BY <3>1, <3>2, <3>3 DEF ExtractInv
  <2>. QED  BY <1>1, <2>1
<1>9. /\ Done' => todo' = {}
      /\ pc' # "extract" /\ (draft'.kind = "prose" => passes' = Len(Passes))
  BY <1>1 DEF Done, ExtractInv
<1>10. /\ \A c \in todo' : Begun(c) /\ Chars(c) \subseteq blanked'
       /\ \A c, d \in todo' : c # d => Own(c) \cap Own(d) = {}
       /\ passes' = Len(Passes) =>
             \A s \in draft'.text :
                 s.pass = "number" /\ s.sound /\ s.over = {} => Chars(s) \cap blanked' # {}
       /\ passes' \in Nat
  BY <1>1 DEF ExtractInv
<1>. QED  BY <1>1, <1>3, <1>6, <1>7, <1>8, <1>9, <1>10 DEF ExtractInv

LEMMA ExtractKept == ExtractInv /\ [Next]_vars => ExtractInv'
<1>. SUFFICES ASSUME ExtractInv, [Next]_vars PROVE ExtractInv'
  OBVIOUS
<1>1. CASE UNCHANGED <<draft, passes, blanked, todo, records>> /\ (pc' = "extract" => pc = "extract")
           /\ (pc' = "claims" \/ Done' => pc = "claims" \/ Done) /\ (Done' => Done)
  <2>1. draft' = draft /\ passes' = passes /\ blanked' = blanked /\ todo' = todo /\ records' = records
    BY <1>1
  <2>2. \A x \in blanked' : Scaffolded(x)' \/ InTodo(x)' \/ InRecords(x)'
    BY <2>1 DEF ExtractInv, Scaffolded, InTodo, InRecords
  <2>3. ReadOnce(ClaimsOf(records'))
    BY <2>1 DEF ExtractInv
  <2>. QED  BY <1>1, <2>1, <2>2, <2>3 DEF ExtractInv
<1>2. CASE Verify
  <2>1. /\ draft' = draft /\ passes' = 0 /\ blanked' = {} /\ todo' = {} /\ records' = <<>>
        /\ pc' = IF ClaimsNothing(draft, Pools(evidence)) THEN "findings" ELSE "extract"
        /\ <<>> \in Seq({}) /\ draft \in Drafts
    BY <1>2 DEF Verify, ExtractInv
  <2>2. pc' # "claims" /\ (Done' => draft.kind # "prose")
    BY <2>1 DEF Done, ClaimsNothing
  <2>. QED  BY <2>1, <2>2, LastPass DEF ExtractInv, ReadOnce, ClaimsOf
<1>3. CASE ExtractPass
  BY <1>3, PassKept
<1>4. CASE SettleInjected
  BY <1>4, SettledKept DEF SettleInjected
<1>5. CASE SettleMechanically
  BY <1>5, SettledKept DEF SettleMechanically
<1>6. CASE JudgeRefuses
  BY <1>6, SettledKept DEF JudgeRefuses, Residue
<1>7. CASE JudgeAnswers
  BY <1>7, SettledKept DEF JudgeAnswers, Judged, Residue
<1>8. CASE PutPiece \/ Draft \/ DraftPassagesInline \/ Redraft
  BY <1>1, <1>8 DEF PutPiece, Draft, DraftPassagesInline, Redraft, extraction, Done, AllPut
<1>9. CASE Return \/ Rest \/ UNCHANGED vars
  BY <1>1, <1>9 DEF Return, Rest, vars, extraction, Done
<1>. QED  BY <1>2, <1>3, <1>4, <1>5, <1>6, <1>7, <1>8, <1>9 DEF Next

LEMMA ExtractHolds == Spec => []ExtractInv
BY ExtractInitially, ExtractKept, PTL DEF Spec

(* extract_claims: no character of a draft is read for two claims, and no  *)
(* number written outside what scaffolding can read goes without a record, *)
(* for every draft and every way its patterns run across each other.       *)
THEOREM FiguresAnsweredHolds == Spec => []FiguresAnswered
<1>1. ExtractInv => FiguresAnswered
  <2>. SUFFICES ASSUME ExtractInv, Done, draft.kind = "prose"
                PROVE  ReadOnce(ClaimsOf(records)) /\ FiguresClaimed(draft.text, ClaimsOf(records))
    BY DEF FiguresAnswered
  <2>1. todo = {} /\ passes = Len(Passes) /\ ReadOnce(ClaimsOf(records))
    BY DEF ExtractInv
  <2>2. ASSUME NEW s \in draft.text, s.pass = "number", s.sound, s.over = {},
               \A t \in draft.text : t.pass \in Scaffolding => Own(t) \cap Chars(s) = {}
        PROVE  \E i \in DOMAIN ClaimsOf(records) : Own(ClaimsOf(records)[i]) \cap Chars(s) # {}
    <3>1. PICK x \in Chars(s) : x \in blanked
      BY <2>1, <2>2 DEF ExtractInv
    <3>2. ~Scaffolded(x)
      BY <2>2, <3>1 DEF Scaffolded
    <3>3. PICK i \in DOMAIN records : x \in Own(records[i].claim)
      BY <2>1, <3>1, <3>2 DEF ExtractInv, InTodo, InRecords
    <3>. QED  BY <3>1, <3>3 DEF ClaimsOf
  <2>. QED  BY <2>1, <2>2 DEF FiguresClaimed
<1>. QED  BY <1>1, ExtractHolds, PTL

(* Inside a span, every character is code's.                               *)
LEMMA InjectedIsCode ==
    ASSUME InjectionInv, ExtractInv, NEW i \in DOMAIN records,
           records[i].status = "matched_injected"
    PROVE  PutByCode(records[i])
<1> DEFINE r == records[i]
<1>. SUFFICES ASSUME NEW c \in r.from + Ticks(r.claim) + 1 .. r.to - Ticks(r.claim)
              PROVE  resolved.text[c] = "code"
  BY DEF PutByCode
<1>1. PICK span \in resolved.spans :
         span.from <= r.claim.from + Ticks(r.claim) /\ r.claim.to - Ticks(r.claim) <= span.to
  BY DEF InjectionInv, ContainedInSpan
<1>2. r.from = r.claim.from /\ r.to = r.claim.to
  BY DEF InjectionInv
<1>3. /\ span.from \in Nat /\ span.to \in Nat
      /\ \A k \in span.from + 1 .. span.to : resolved.text[k] = "code"
  BY DEF InjectionInv, Honest
<1>4. r.from \in Nat /\ r.to \in Nat /\ Ticks(r.claim) \in Nat
  BY <1>2 DEF ExtractInv, Begun, Interval, Ticks
<1>5. c \in span.from + 1 .. span.to
  BY <1>1, <1>2, <1>3, <1>4
<1>. QED  BY <1>3, <1>5

(* resolve_placeholders, verify: what passes as injected was typed by      *)
(* nobody, for every draft, evidence and inline limit.                     *)
THEOREM InjectedNeverTypedHolds == Spec => []InjectedNeverTyped
<1>1. InjectionInv /\ ExtractInv => InjectedNeverTyped
  BY InjectedIsCode DEF InjectedNeverTyped
<1>. QED  BY <1>1, InjectionHolds, ExtractHolds, PTL
-------------------------------------------------------------------------------
(* "verified" is for attempts that leave nothing unmatched.                *)
Earned == pc = "returned" /\ result.disposition = "verified" => UnmatchedCount = 0

LEMMA OnlyAllMatchedVerifies ==
    \A unmatched, findings, n : Decide(unmatched, findings, n) = "verified" => unmatched = 0
BY DEF Decide

LEMMA EarnedHolds == Spec => []Earned
<1>1. Init => Earned
  BY DEF Init, Earned
<1>2. Earned /\ [Next]_vars => Earned'
  <2>. SUFFICES ASSUME Earned, [Next]_vars PROVE Earned'
    OBVIOUS
  <2>1. CASE Return
    <3>1. records' = records /\ \E findings : result'.disposition = Decide(UnmatchedCount, findings, attempt)
      BY <2>1 DEF Return
    <3>2. UnmatchedCount' = UnmatchedCount
      BY <3>1 DEF UnmatchedCount
    <3>. QED  BY <3>1, <3>2, OnlyAllMatchedVerifies DEF Earned
  <2>2. CASE UNCHANGED <<pc, records, result>>
    BY <2>2 DEF Earned, UnmatchedCount
  <2>3. CASE Rest \/ UNCHANGED vars
    BY <2>2, <2>3 DEF Rest, vars
  <2>4. CASE \/ PutPiece \/ Draft \/ DraftPassagesInline \/ Redraft \/ Verify \/ ExtractPass
             \/ SettleInjected \/ SettleMechanically \/ JudgeRefuses \/ JudgeAnswers
    <3>1. pc' # "returned"
      BY <2>4 DEF PutPiece, Draft, DraftPassagesInline, Redraft, AllPut, Verify, ExtractPass,
                  SettleInjected, SettleMechanically, JudgeRefuses, JudgeAnswers, Judged, Settled
    <3>. QED  BY <3>1 DEF Earned
  <2>. QED  BY <2>1, <2>3, <2>4 DEF Next
<1>. QED  BY <1>1, <1>2, PTL DEF Spec

(* verify: a verified attempt has behind each of its claims code, the      *)
(* judge, or what this turn's ok calls returned, whatever the claim's      *)
(* kind, and no number without a claim, for every draft, evidence, judge   *)
(* and cap.                                                                *)
THEOREM VerifiedIsBackedHolds == Spec => []VerifiedIsBacked
<1>1. VInv /\ InjectionInv /\ ExtractInv /\ Earned /\ FiguresAnswered /\ MatchedIsWarranted
      => VerifiedIsBacked
  <2>. SUFFICES ASSUME VInv, InjectionInv, ExtractInv, Earned, FiguresAnswered, MatchedIsWarranted,
                       pc = "returned", result.disposition = "verified"
                PROVE  /\ \A i \in DOMAIN records : Backed(records[i])
                       /\ draft.kind = "prose" => FiguresClaimed(draft.text, ClaimsOf(records))
    BY DEF VerifiedIsBacked
  <2>1. ASSUME NEW i \in DOMAIN records PROVE records[i].status # "unmatched"
    <3> DEFINE unmatched == {j \in DOMAIN records : records[j].status = "unmatched"}
    <3>1. Cardinality(unmatched) = 0
      BY DEF Earned, UnmatchedCount
    <3>2. IsFiniteSet(unmatched)
      <4>1. PICK S : records \in Seq(S)
        BY DEF VInv
      <4>2. DOMAIN records = 1..Len(records) /\ Len(records) \in Nat
        BY <4>1
      <4>3. IsFiniteSet(DOMAIN records)
        BY <4>2, FS_Interval
      <4>. QED  BY <4>3, FS_Subset
    <3>3. unmatched = {}
      <4> HIDE DEF unmatched
      <4>. QED  BY <3>1, <3>2, FS_EmptySet
    <3>. QED  BY <3>3
  <2>2. ASSUME NEW i \in DOMAIN records PROVE Backed(records[i])
    <3> DEFINE r == records[i]
               found == MatchClaim(r.kind, r.claim.says, Pools(evidence)).status
    <3>1. Settlement(r, Pools(evidence))
      BY DEF VInv
    <3>2. CASE r.status = "matched_injected"
      BY <3>2, InjectedIsCode DEF Backed
    <3>3. CASE r.status = "matched_judge"
      BY <3>3 DEF Backed
    <3>4. CASE r.status \notin {"matched_injected", "matched_judge"}
      <4>1. found # "fuzzy" /\ r.status = found
        BY <2>1, <3>1, <3>4 DEF Settlement
      <4>2. found \in {"matched_exact", "matched_derived", "unmatched", "fuzzy"}
        BY NumberMatch, DateMatch, EntityMatch, QuoteMatch DEF MatchClaim, Settlings
      <4> HIDE DEF found
      <4>3. r.status \in {"matched_exact", "matched_derived"}
        BY <2>1, <4>1, <4>2
      <4>. QED  BY <4>3 DEF Backed, MatchedIsWarranted
    <3>. QED  BY <3>2, <3>3, <3>4
  <2>. QED  BY <2>2 DEF FiguresAnswered, Done
<1>. QED  BY <1>1, VHolds, InjectionHolds, ExtractHolds, EarnedHolds, FiguresAnsweredHolds,
             MatchedIsWarrantedHolds, PTL
===============================================================================
