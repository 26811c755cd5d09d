---------------------------- MODULE Verification ----------------------------
(***************************************************************************)
(* One draft, resolved and verified.  The placeholders of a prose draft    *)
(* become values, piece by piece (harness/graph.py, draft); one that does  *)
(* not resolve goes back to the drafter.  Then verify()                    *)
(* (verifier/verify.py): the evidence is pooled, the claims are extracted, *)
(* pass by pass, each is settled in reading order, by the span that        *)
(* injected it, by the matcher or by the judge, and the attempt's          *)
(* disposition follows.  What the plausibility checks and the              *)
(* anchor check find is any of what they can return; they are models of    *)
(* their own.                                                              *)
(***************************************************************************)
EXTENDS Claims, Harvest, VerdictLadder

CONSTANTS
    Drafts,             \* the drafts to verify
    Evidences,          \* the turns' evidence
    JudgeEnabled,       \* judge.enabled
    MaxJudgeCalls,      \* judge.max_calls_per_turn
    InlineValueMaxChars \* harness.inline_value_max_chars

ASSUME JudgeAssumption == JudgeEnabled \in BOOLEAN /\ MaxJudgeCalls \in Nat

(* The figures a turn returned are a list.                                 *)
ASSUME EvidenceAssumption ==
    \A calls \in Evidences :
        LET numbers == Pools(calls).numbers
        IN  Len(numbers) \in Nat /\ DOMAIN numbers = 1..Len(numbers)

P == INSTANCE Placeholders

(* Pieces and values have widths.  A claim begins at a character it reads, *)
(* a number needs nothing beside it, and of two spans of one pattern that  *)
(* overlap, what the one reads must be blanked before the other matches.   *)
SoundDraft(d) ==
    /\ d.raw \in Seq(Range(d.raw))
    /\ \A piece \in Range(d.raw) :
          /\ piece.width \in Nat
          /\ piece.kind # "typed" =>
                \A calls \in Evidences :
                    LET value == P!Value(piece, calls)
                    IN  value \in {P!Lost, P!IntoText} \/ value.width \in Nat
    /\ \A s \in d.text :
          /\ s.from \in Nat /\ s.to \in Nat /\ s.from < s.to
          /\ s.pass \notin Scaffolding => s.from \notin s.over
          /\ s.pass = "number" => s.cue = {}
          /\ \A t \in d.text :
                t.pass = s.pass /\ t # s /\ Overlap(s, t) =>
                    s.over \cap Reads(t) # {} \/ t.over \cap Reads(s) # {}

ASSUME DraftAssumption == \A d \in Drafts : SoundDraft(d)

VARIABLES
    pc,             \* "draft", "call", "extract", "claims", "findings", "returned"; "redraft"
    draft,          \* [kind, raw, text, caption]: pieces, and what the resolved text says
    cursor,         \* the pieces put
    resolved,       \* what they became
    allow_passages_inline,
    evidence,       \* the turn's invocations
    attempt,
    passes,         \* the passes made over the text
    blanked,        \* the characters they took
    todo,           \* the claims not yet settled
    records,        \* one per settled claim
    judge_calls,    \* JudgeRunner.calls_made
    result

drafting == <<cursor, resolved, allow_passages_inline>>
extraction == <<passes, blanked>>
vars == <<pc, draft, drafting, evidence, attempt, extraction, todo, records, judge_calls, result>>

NoResult == [disposition |-> "none", unmatched |-> 0, feedback |-> FALSE, about_default |-> FALSE]

(* The claim without the backticks around it, which are markup.            *)
Ticks(claim) == CASE claim.pass = "inline" -> 1 [] claim.pass = "fenced" -> 3 [] OTHER -> 0

(* Wholly inside a span that code wrote: what extends past it was typed.   *)
ContainedInSpan(claim) ==
    \E span \in resolved.spans :
        span.from <= claim.from + Ticks(claim) /\ claim.to - Ticks(claim) <= span.to

(* A caption that is itself a passage of the evidence claims nothing.      *)
ClaimsNothing(d, pools) ==
    /\ d.kind = "table_passthrough"
    /\ \/ d.caption = <<>>
       \/ MatchQuote([text |-> d.caption, fenced |-> FALSE], pools).status = "matched_exact"

Record(claim, status, method) ==
    [from |-> claim.from, to |-> claim.to, kind |-> claim.kind, claim |-> claim,
     status |-> status, method |-> method,
     injected |-> \E span \in resolved.spans : Overlap(claim, span)]

(* The claims are settled in the order they are read in.                   *)
IsNext(claim) == \A other \in todo : claim.from <= other.from

Settled(claim, status, method) ==
    /\ records' = Append(records, Record(claim, status, method))
    /\ todo' = todo \ {claim}
    /\ pc' = IF todo = {claim} THEN "findings" ELSE "claims"
    /\ UNCHANGED <<draft, drafting, evidence, attempt, extraction, result>>

Matched(claim) == MatchClaim(claim.kind, claim.says, Pools(evidence))

Init ==
    /\ pc = "draft" /\ draft \in Drafts
    /\ cursor = 0 /\ resolved = P!Nothing /\ allow_passages_inline = FALSE
    /\ evidence \in Evidences /\ attempt \in {1, 2}
    /\ passes = 0 /\ blanked = {} /\ todo = {}
    /\ records = <<>> /\ judge_calls = 0 /\ result = NoResult

(* resolve_placeholders: left to right, a piece at a time.                 *)
PutPiece ==
    /\ pc = "draft" /\ cursor < Len(draft.raw)
    /\ resolved' = P!Put(resolved, draft.raw[cursor + 1], evidence, allow_passages_inline)
    /\ cursor' = cursor + 1
    /\ UNCHANGED <<pc, draft, allow_passages_inline, evidence, attempt, extraction, todo,
                   records, judge_calls, result>>

AllPut == pc = "draft" /\ cursor = Len(draft.raw)

(* Every placeholder resolves, to a value or a passage in a fence.         *)
Draft ==
    /\ AllPut /\ ~P!Unresolved(resolved)
    /\ pc' = "call"
    /\ UNCHANGED <<draft, drafting, evidence, attempt, extraction, todo, records, judge_calls,
                   result>>

(* Its retries spent, a draft whose one fault is a passage mid-sentence is *)
(* resolved once more, with the passage where it was written.              *)
DraftPassagesInline ==
    /\ AllPut /\ P!Unresolved(resolved) /\ resolved.failures = {}
    /\ cursor' = 0 /\ resolved' = P!Nothing /\ allow_passages_inline' = TRUE
    /\ UNCHANGED <<pc, draft, evidence, attempt, extraction, todo, records, judge_calls, result>>

(* Otherwise the drafter is asked again, or gives up.                      *)
Redraft ==
    /\ AllPut /\ P!Unresolved(resolved) /\ pc' = "redraft"
    /\ UNCHANGED <<draft, drafting, evidence, attempt, extraction, todo, records, judge_calls,
                   result>>

(* Pools, claims if there are any to look for, and a judge with a fresh    *)
(* budget.                                                                 *)
Verify ==
    /\ pc = "call"
    /\ judge_calls' = 0 /\ records' = <<>> /\ todo' = {} /\ passes' = 0 /\ blanked' = {}
    /\ pc' = IF ClaimsNothing(draft, Pools(evidence)) THEN "findings" ELSE "extract"
    /\ UNCHANGED <<draft, drafting, evidence, attempt, result>>

(* extract_claims: one pass over what the passes before it left.           *)
ExtractPass ==
    /\ pc = "extract"
    /\ passes' = passes + 1
    /\ todo' = todo \cup Claimed(draft.text, Passes[passes'], blanked)
    /\ blanked' = blanked \cup Blanked(draft.text, Passes[passes'], blanked)
    /\ pc' = IF passes' < Len(Passes) THEN "extract"
             ELSE IF todo' = {} THEN "findings" ELSE "claims"
    /\ UNCHANGED <<draft, drafting, evidence, attempt, records, judge_calls, result>>

SettleInjected ==
    /\ pc = "claims"
    /\ \E claim \in todo :
          /\ IsNext(claim) /\ ContainedInSpan(claim)
          /\ Settled(claim, "matched_injected", "injected")
    /\ UNCHANGED judge_calls

SettleMechanically ==
    /\ pc = "claims"
    /\ \E claim \in todo :
          /\ IsNext(claim) /\ ~ContainedInSpan(claim) /\ Matched(claim).status # "fuzzy"
          /\ Settled(claim, Matched(claim).status, Matched(claim).method)
    /\ UNCHANGED judge_calls

Residue(claim) == IsNext(claim) /\ ~ContainedInSpan(claim) /\ Matched(claim).status = "fuzzy"

(* A slip: the budget is looked at after the call is counted.              *)
MayAskLate == JudgeEnabled /\ judge_calls <= MaxJudgeCalls

MayAsk == JudgeEnabled /\ judge_calls < MaxJudgeCalls

JudgeRefuses ==
    /\ pc = "claims" /\ ~MayAsk
    /\ \E claim \in todo : Residue(claim) /\ Settled(claim, "unmatched", "none")
    /\ UNCHANGED judge_calls

(* YES supports; NO, prose, nothing and a failed call do not.              *)
Judged(claim, answer) ==
    IF answer = "YES" THEN Settled(claim, "matched_judge", "judge")
    ELSE Settled(claim, "unmatched", "none")

JudgeAnswers ==
    /\ pc = "claims" /\ MayAsk
    /\ judge_calls' = judge_calls + 1
    /\ \E claim \in todo, answer \in {"YES", "NO", "prose", "empty", "raised"} :
          Residue(claim) /\ Judged(claim, answer)

UnmatchedCount == Cardinality({i \in DOMAIN records : records[i].status = "unmatched"})

(* What the anchor check can have read: nothing, a contradiction, or a     *)
(* confirmation, by the declared about or by a filter or the prose.        *)
AnchorReadings == {"none", "contradicted", "silent", "declared", "filter", "prose"}

(* Plausibility, the anchor check, the ladder, and what goes back with a   *)
(* retry.  The about is written for the router only when it declared none. *)
Return ==
    /\ pc = "findings"
    /\ \E found \in SUBSET {"fail", "warn"}, declared \in BOOLEAN, reading \in AnchorReadings :
        LET findings == found \cup (IF reading = "contradicted" THEN {"anchor"} ELSE {})
            disposition == Decide(UnmatchedCount, findings, attempt)
        IN  /\ reading \in {"filter", "prose", "silent"} => ~declared
            /\ reading = "declared" => declared
            /\ result' = [disposition |-> disposition, unmatched |-> UnmatchedCount,
                          feedback |-> disposition = "retry",
                          about_default |-> ~declared /\ reading \in {"filter", "prose"}]
    /\ pc' = "returned"
    /\ UNCHANGED <<draft, drafting, evidence, attempt, extraction, todo, records, judge_calls>>

Rest == pc \in {"returned", "redraft"} /\ UNCHANGED vars

Next ==
    \/ PutPiece \/ Draft \/ DraftPassagesInline \/ Redraft
    \/ Verify \/ ExtractPass
    \/ SettleInjected \/ SettleMechanically \/ JudgeRefuses \/ JudgeAnswers
    \/ Return \/ Rest

Spec == Init /\ [][Next]_vars

(***************************************************************************)
(* Properties                                                              *)
(***************************************************************************)
Done == pc \in {"findings", "returned"}

ClaimsOf(settled) == [i \in DOMAIN settled |-> settled[i].claim]

(* extract_claims: no character of a draft is read for two claims, and no  *)
(* digit number that was written outside what the scaffolding patterns can *)
(* read goes without a record, whatever the passes before the number pass  *)
(* turned down and however they read across what was blanked.              *)
FiguresAnswered ==
    (Done /\ draft.kind = "prose") =>
        ReadOnce(ClaimsOf(records)) /\ FiguresClaimed(draft.text, ClaimsOf(records))

(* The evidence as it would be had the failed calls never been made.       *)
NoCall == [tool |-> "none", status |-> "error", output |-> None, arguments |-> {}, fields |-> {}]
OkOnly(calls) == [i \in DOMAIN calls |-> IF calls[i].status = "ok" THEN calls[i] ELSE NoCall]

(* match_claim: what was typed is matched only by what an ok invocation of *)
(* this turn returned: a number by the value itself, a statistic or        *)
(* literal fraction for a percent, its rounding, a ratio of related        *)
(* values, a difference of counts or the word; a date only by a returned   *)
(* text that is that date, or that day where the prose gives no year; a    *)
(* name by a returned name, a location by lines that were read, a quote by *)
(* a returned text or, unfenced, a name or a value.                        *)
MatchedIsWarranted ==
    \A i \in DOMAIN records :
        LET r == records[i]
        IN  r.status \in {"matched_exact", "matched_derived"} =>
                Warranted(r.kind, r.claim.says, Pools(OkOnly(evidence)), r.status)

(* But for the marks around it, code put each character of the claim.      *)
PutByCode(r) ==
    \A c \in r.from + Ticks(r.claim) + 1 .. r.to - Ticks(r.claim) : resolved.text[c] = "code"

(* resolve_placeholders, verify: what passes as injected was typed by      *)
(* nobody.  Each character of it, but for the marks around it, was put     *)
(* there by code, however many values of other lengths than their          *)
(* placeholders stand before it.                                           *)
InjectedNeverTyped ==
    \A i \in DOMAIN records :
        records[i].status = "matched_injected" => PutByCode(records[i])

(* JudgeRunner: only numeric residue reaches the judge, residue that has   *)
(* no warrant or more pairs than the cap, and no other number is left      *)
(* unmatched; never more calls than the budget.                            *)
JudgeHasTheResidue ==
    /\ judge_calls <= MaxJudgeCalls
    /\ \A i \in DOMAIN records :
         LET r == records[i] IN
         r.status = "matched_judge" \/ (r.kind = "numeric" /\ r.status = "unmatched"
                                        /\ r.claim.says.date = None) =>
            /\ r.kind = "numeric" /\ r.claim.says.date = None
            /\ \/ ~Asserts(r.claim.says, Pools(evidence), "matched_derived")
               \/ Capped(Pools(evidence).numbers)
    /\ Cardinality({i \in DOMAIN records : records[i].status = "matched_judge"}) <= judge_calls

(* What stands behind a record: code put the words there, the judge let    *)
(* them pass, or this turn's ok calls returned what it says.               *)
Backed(r) ==
    \/ r.status = "matched_injected" /\ PutByCode(r)
    \/ r.status = "matched_judge"
    \/ /\ r.status \in {"matched_exact", "matched_derived"}
       /\ Warranted(r.kind, r.claim.says, Pools(OkOnly(evidence)), r.status)

(* verify: whatever the placeholders resolved to, the passes took and the  *)
(* judge said, an attempt returns "verified" only when something stands    *)
(* behind every claim, and no number of a prose draft that was written     *)
(* outside what the scaffolding patterns can read is without such a claim. *)
VerifiedIsBacked ==
    pc = "returned" /\ result.disposition = "verified" =>
        /\ \A i \in DOMAIN records : Backed(records[i])
        /\ draft.kind = "prose" => FiguresClaimed(draft.text, ClaimsOf(records))
===============================================================================
