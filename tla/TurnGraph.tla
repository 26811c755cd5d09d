------------------------------- MODULE TurnGraph -------------------------------
(***************************************************************************)
(* The turn graph: one question, from begin to summarize, as the LangGraph *)
(* nodes of the harness run it.  pc names the node that runs next.  The    *)
(* language model, the tools and the verifier's matching are the           *)
(* environment: each answer they may give is a choice of the action that   *)
(* asks them.                                                              *)
(*                                                                         *)
(* A drafter reply is its number within the turn, and so is whatever text  *)
(* or injected spans were resolved from it.  Evidence entry i (counted     *)
(* from 0, as the prompts do) is evidence[i + 1].                          *)
(***************************************************************************)
EXTENDS Integers, Sequences, FiniteSets, VerdictLadder

CONSTANTS
    MaxRouterIterations,  \* harness.max_router_iterations
    MaxDraftRetries,      \* harness.max_draft_retries
    PackContext,          \* harness.context: the pack's [last_n, refresh_after]
    Contexts,             \* the windows a caller of ask() may name
    MaxJudgeCalls,        \* verifier.judge.max_calls_per_turn
    MaxTurns,             \* bound: questions asked of the conversation
    MaxCalls,             \* bound: tool calls in one router response
    ProviderIds,          \* ids a provider sends with a response's calls, in order, 0 for none
    MaxClaims             \* bound: claims extracted from one draft

ASSUME TurnAssumption ==
    /\ MaxRouterIterations \in Nat
    /\ MaxDraftRetries \in Nat
    /\ MaxJudgeCalls \in Nat
    /\ MaxTurns \in Nat
    /\ MaxCalls \in Nat \ {0}
    /\ ProviderIds \subseteq [1..MaxCalls -> Nat]
    /\ MaxClaims \in Nat

ContextSettings == [last_n : Nat \ {0}, refresh_after : Nat \ {0}]

ASSUME ContextAssumption ==
    /\ Contexts \subseteq ContextSettings
    /\ PackContext \in Contexts

VARIABLES
    pc, supersteps,
    \* durable across turns; disturbed is a history variable
    turn, history, summary, summary_through_turn, context, disturbed,
    \* the router loop
    iterations, decision, scratch, evidence,
    \* drafting; replies is a history variable counting the drafter's calls
    draft, draft_raw, injected_spans, draft_feedback, draft_attempts, replies,
    \* the verifier ladder
    verify_attempt, verifier_attempts, verifier_plausibility, judge_calls_total, verdict,
    outcome

control == <<pc, supersteps>>
durable == <<turn, history, summary, summary_through_turn, context, disturbed>>
loop == <<iterations, decision, scratch, evidence>>
drafting == <<draft, draft_raw, injected_spans, draft_feedback, draft_attempts, replies>>
ladder == <<verify_attempt, verifier_attempts, verifier_plausibility,
            judge_calls_total, verdict>>
vars == <<control, durable, loop, drafting, ladder, outcome>>
-------------------------------------------------------------------------------
(* The state's records.                                                    *)

Nodes == {"route", "act", "draft", "verify", "finalize", "summarize"}

(* What an invocation is to the draft node: a table that declares readings,*)
(* a table that does not, an ok result that is no table, a failed call.    *)
EvidenceKinds == {"readings", "table", "text", "error"}
Projectable(kind) == kind \in {"readings", "table"}

(* call_{step}_{position}, steps counted from 1, or under step 0 an id the *)
(* provider gave; a provider is taken never to spell an id call_N_M.       *)
CallIds == Nat \X Nat
Synthesized(id) == id[1] > 0

Decision == [kind : {"none", "tools", "answer", "refuse", "clarify", "escalate"},
             selections : Seq(CallIds),
             shape : {"prose", "table"},
             index : Nat,
             reading : {"none", "listed", "unlisted"}]
NoDecision == [kind |-> "none", selections |-> <<>>, shape |-> "prose",
               index |-> 0, reading |-> "none"]

(* ids: the calls an assistant message makes, or the call a tool message   *)
(* answers; index: the evidence index a tool message shows, -1 for none.   *)
Messages == [role : {"user", "assistant", "tool"}, ids : Seq(CallIds), index : Nat \cup {-1}]
Nudge == [role |-> "user", ids |-> <<>>, index |-> -1]

Drafts == [kind : {"none", "markdown", "table"}, reply : Nat, index : Nat]
NoDraft == [kind |-> "none", reply |-> 0, index |-> 0]
Markdown(reply) == [kind |-> "markdown", reply |-> reply, index |-> 0]
Table(index) == [kind |-> "table", reply |-> 0, index |-> index]

Feedback == [from : {"none", "placeholders", "verifier"}, reply : Nat]
NoFeedback == [from |-> "none", reply |-> 0]

(* An attempt record, with what it was an attempt at: the draft, and how   *)
(* much evidence it was matched against.                                   *)
Attempts == [attempt : Nat, claims : Nat, unmatched : Nat, of : Drafts, seen : Nat]

Verdicts == [disposition : {"none"} \cup Dispositions,
             mode : {"prose", "table_passthrough"},
             reason : Reasons, judge_calls : Nat]
NoVerdict == [disposition |-> "none", mode |-> "prose", reason |-> "none", judge_calls |-> 0]

Outcomes == [kind : {"none", "answer", "refuse", "clarify", "escalate"},
             body : Drafts,
             verification : {"none"} \cup Dispositions,
             cause : {"none", "router", "budget", "placeholders", "verifier",
                      "contentfree", "unreachable"}]
NoOutcome == [kind |-> "none", body |-> NoDraft, verification |-> "none", cause |-> "none"]
Refusal(cause) == [NoOutcome EXCEPT !.kind = "refuse", !.cause = cause]
Answer(body, verification) ==
    [NoOutcome EXCEPT !.kind = "answer", !.body = body, !.verification = verification]

HistoryTurns == [turn : Nat,
                 kind : {"prose", "table", "refuse", "clarify", "escalate"},
                 contradicted : BOOLEAN]

Last(s) == s[Len(s)]
-------------------------------------------------------------------------------
Init ==
    /\ pc = "end"
    /\ supersteps = 0
    /\ turn = 0 /\ history = <<>> /\ summary = {} /\ summary_through_turn = 0
    /\ context = PackContext /\ disturbed = {}
    /\ iterations = 0 /\ decision = NoDecision /\ scratch = <<>> /\ evidence = <<>>
    /\ draft = NoDraft /\ draft_raw = 0 /\ injected_spans = 0
    /\ draft_feedback = NoFeedback /\ draft_attempts = 0 /\ replies = 0
    /\ verify_attempt = 0 /\ verifier_attempts = <<>> /\ verifier_plausibility = {}
    /\ judge_calls_total = 0 /\ verdict = NoVerdict
    /\ outcome = NoOutcome

(* The edges: where the graph goes after a node wrote its update.          *)
AfterRoute(d) ==
    CASE d.kind = "none"   -> "route"
      [] d.kind = "tools"  -> "act"
      [] d.kind = "answer" -> "draft"
      [] OTHER             -> "finalize"

AfterDraft(o, dr, d) ==
    CASE o.kind # "none"                     -> "finalize"
      [] o.kind = "none" /\ dr.kind # "none" -> "verify"
      [] o.kind = "none" /\ dr.kind = "none" /\ d.kind = "none" -> "route"
      [] OTHER                               -> "draft"

(* A slip: a retry goes back to the node that asked for it.                *)
AfterVerifyStays(o) == IF o.kind # "none" THEN "finalize" ELSE "verify"

AfterVerify(o) == IF o.kind # "none" THEN "finalize" ELSE "draft"

Goto(node) == pc' = node /\ supersteps' = supersteps + 1
-------------------------------------------------------------------------------
(* begin: every per-turn field is reset, the turn number spent.  The       *)
(* session names the context settings just before it starts the graph.     *)
ResetDrafting ==
    /\ draft' = NoDraft /\ draft_raw' = 0 /\ injected_spans' = 0
    /\ draft_feedback' = NoFeedback /\ draft_attempts' = 0 /\ replies' = 0

ResetLadder ==
    /\ verify_attempt' = 0 /\ verifier_attempts' = <<>> /\ verifier_plausibility' = {}
    /\ judge_calls_total' = 0 /\ verdict' = NoVerdict

Begin(settings) ==
    /\ pc \in {"end", "raised"}
    /\ turn < MaxTurns
    /\ turn' = turn + 1
    /\ context' = settings
    /\ disturbed' = disturbed \cup (IF settings = PackContext THEN {} ELSE {"override"})
    /\ iterations' = 0 /\ decision' = NoDecision /\ scratch' = <<>> /\ evidence' = <<>>
    /\ ResetDrafting
    /\ ResetLadder
    /\ outcome' = NoOutcome
    /\ pc' = "route" /\ supersteps' = 1
    /\ UNCHANGED <<history, summary, summary_through_turn>>
-------------------------------------------------------------------------------
(* route: refuse when the budget is spent, else ask the router.            *)
BudgetSpentLate == iterations > MaxRouterIterations    \* a slip

BudgetSpent == iterations >= MaxRouterIterations

RouteRefusesOnBudget ==
    /\ pc = "route"
    /\ BudgetSpent
    /\ decision' = [NoDecision EXCEPT !.kind = "refuse"]
    /\ outcome' = Refusal("budget")
    /\ Goto(AfterRoute(decision'))
    /\ UNCHANGED <<durable, iterations, scratch, evidence, drafting, ladder>>

(* parse_route raised: nudge and ask again.                                *)
RouteViolation ==
    /\ pc = "route"
    /\ ~BudgetSpent
    /\ iterations' = iterations + 1
    /\ scratch' = Append(scratch, Nudge)
    /\ Goto(AfterRoute(decision))
    /\ UNCHANGED <<durable, decision, evidence, drafting, ladder, outcome>>

(* A real call wins over any control call; every call has its id before    *)
(* the echo replays it: the one the provider sent with it, whatever that   *)
(* id is and wherever it was sent before, and one of the graph's own where *)
(* the provider sent none (0).                                             *)
WithCallIds(sent) ==
    [k \in DOMAIN sent |-> IF sent[k] # 0 THEN <<0, sent[k]>> ELSE <<iterations + 1, k>>]

ToolsDecision(calls) == [NoDecision EXCEPT !.kind = "tools", !.selections = calls]
Echo(calls) == [role |-> "assistant", ids |-> calls, index |-> -1]

RouteTools ==
    /\ pc = "route"
    /\ ~BudgetSpent
    /\ \E n \in 1..MaxCalls, sent \in ProviderIds :
          LET calls == WithCallIds(SubSeq(sent, 1, n))
          IN  /\ decision' = ToolsDecision(calls)
              /\ scratch' = Append(scratch, Echo(calls))
    /\ iterations' = iterations + 1
    /\ Goto(AfterRoute(decision'))
    /\ UNCHANGED <<durable, evidence, drafting, ladder, outcome>>

(* A control call, real or spelled as text.  An evidence index is the      *)
(* model's to choose: Len(evidence) stands for every one out of range.     *)
Plain(kind) == [NoDecision EXCEPT !.kind = kind]
TableAnswer(i, reading) ==
    [NoDecision EXCEPT !.kind = "answer", !.shape = "table", !.index = i, !.reading = reading]

TerminalDecisions ==
    {Plain(k) : k \in {"answer", "refuse", "clarify", "escalate"}}
    \cup {TableAnswer(i, r) : i \in 0..Len(evidence), r \in {"none", "listed", "unlisted"}}

RouteTerminal ==
    /\ pc = "route"
    /\ ~BudgetSpent
    /\ decision' \in TerminalDecisions
    /\ iterations' = iterations + 1
    /\ Goto(AfterRoute(decision'))
    /\ UNCHANGED <<durable, scratch, evidence, drafting, ladder, outcome>>
-------------------------------------------------------------------------------
(* A slip: an unknown tool takes an evidence index too.                    *)
EvidenceIndexByPosition(unknown, k) == Len(evidence) + k - 1

(* act: run the selections in order.  The positions in unknown name no     *)
(* tool; the others are invoked and join the evidence.                     *)
EvidenceIndex(unknown, k) == Len(evidence) + Cardinality({j \in 1..(k - 1) : j \notin unknown})

ToolMessage(calls, unknown, k) ==
    [role |-> "tool", ids |-> <<calls[k]>>,
     index |-> IF k \in unknown THEN -1 ELSE EvidenceIndex(unknown, k)]

(* A slip: an unknown tool is skipped without a message.                   *)
ToolResultsOfInvocations(calls, unknown) ==
    LET kept == {k \in DOMAIN calls : k \notin unknown}
    IN  [n \in 1..Cardinality(kept) |->
            ToolMessage(calls, unknown,
                        CHOOSE k \in kept : Cardinality({j \in kept : j <= k}) = n)]

ToolResults(calls, unknown) == [k \in DOMAIN calls |-> ToolMessage(calls, unknown, k)]

Act ==
    /\ pc = "act"
    /\ \E unknown \in SUBSET (DOMAIN decision.selections) :
        LET calls == decision.selections
        IN  /\ \E invocations \in [1..(Len(calls) - Cardinality(unknown)) -> EvidenceKinds] :
                  evidence' = evidence \o invocations
            /\ scratch' = scratch \o ToolResults(calls, unknown)
    /\ decision' = NoDecision
    /\ Goto("route")
    /\ UNCHANGED <<durable, iterations, drafting, ladder, outcome>>
-------------------------------------------------------------------------------
(* draft, prose: one drafter reply and its placeholder resolution.  It     *)
(* resolves (DraftReady), or some placeholder fails or some passage sits   *)
(* mid-sentence: a retry, until the retries are spent.  cites counts the   *)
(* failed placeholders by the evidence index they name (Len(evidence): an  *)
(* index that is not there).                                               *)
Cites == [0..Len(evidence) -> 0..2]
NoCites == [i \in 0..Len(evidence) |-> 0]
Spent == draft_attempts + 1 > MaxDraftRetries

Prose == pc = "draft" /\ decision.shape = "prose"

DraftReady ==
    /\ Prose
    /\ replies' = replies + 1
    /\ draft' = Markdown(replies')
    /\ draft_raw' = replies'
    /\ injected_spans' = replies'
    /\ draft_feedback' = NoFeedback
    /\ Goto(AfterDraft(outcome, draft', decision))
    /\ UNCHANGED <<durable, loop, draft_attempts, ladder, outcome>>

DraftRetry ==
    /\ Prose
    /\ ~Spent
    /\ replies' = replies + 1
    /\ draft_raw' = replies'
    /\ draft_attempts' = draft_attempts + 1
    /\ draft_feedback' = [from |-> "placeholders", reply |-> replies']
    /\ Goto(AfterDraft(outcome, draft, decision))
    /\ UNCHANGED <<durable, loop, draft, injected_spans, ladder, outcome>>

(* Retries spent and every placeholder resolves: the passages ship as      *)
(* written, their spans taken from a second resolution of the same reply.  *)
InlineSpans(reply) == reply

DraftPassagesInline ==
    /\ Prose
    /\ Spent
    /\ replies' = replies + 1
    /\ draft' = Markdown(replies')
    /\ draft_raw' = replies'
    /\ injected_spans' = InlineSpans(replies')
    /\ draft_feedback' = NoFeedback
    /\ Goto(AfterDraft(outcome, draft', decision))
    /\ UNCHANGED <<durable, loop, draft_attempts, ladder, outcome>>

(* The evidence to ship as a table instead: the most cited by the failed   *)
(* placeholders, ties to the latest, among those that project.             *)
TableEvidence == {i \in 0..(Len(evidence) - 1) : Projectable(evidence[i + 1])}

IsFallback(i, cites) ==
    /\ i \in TableEvidence
    /\ \A j \in TableEvidence :
          cites[j] < cites[i] \/ (cites[j] = cites[i] /\ j <= i)

DraftFallbackTable ==
    /\ Prose
    /\ Spent
    /\ \E cites \in Cites \ {NoCites} : \E i \in 0..(Len(evidence) - 1) :
          IsFallback(i, cites) /\ draft' = Table(i)
    /\ replies' = replies + 1
    /\ draft_feedback' = NoFeedback
    /\ Goto(AfterDraft(outcome, draft', decision))
    /\ UNCHANGED <<durable, loop, draft_raw, injected_spans, draft_attempts, ladder, outcome>>

DraftRefusesUnresolved ==
    /\ Prose
    /\ Spent
    /\ TableEvidence = {}
    /\ replies' = replies + 1
    /\ outcome' = Refusal("placeholders")
    /\ Goto(AfterDraft(outcome', draft, decision))
    /\ UNCHANGED <<durable, loop, draft, draft_raw, injected_spans, draft_feedback,
                   draft_attempts, ladder>>

(* draft, table: the chosen evidence must project, and a reading named for *)
(* a result that declares readings must be one of them.                    *)
TableAccepted ==
    /\ decision.index \in TableEvidence
    /\ ~(evidence[decision.index + 1] = "readings" /\ decision.reading = "unlisted")

TableDraft == pc = "draft" /\ decision.shape = "table"

DraftTableNudge ==
    /\ TableDraft
    /\ ~TableAccepted
    /\ decision' = NoDecision
    /\ iterations' = iterations + 1
    /\ scratch' = Append(scratch, Nudge)
    /\ Goto(AfterDraft(outcome, draft, decision'))
    /\ UNCHANGED <<durable, evidence, drafting, ladder, outcome>>

DraftTableReady ==
    /\ TableDraft
    /\ TableAccepted
    /\ draft' = Table(decision.index)
    /\ Goto(AfterDraft(outcome, draft', decision))
    /\ UNCHANGED <<durable, loop, draft_raw, injected_spans, draft_feedback, draft_attempts,
                   replies, ladder, outcome>>
-------------------------------------------------------------------------------
(* verify: one ladder attempt.  A table's caption is the SQL the evidence  *)
(* holds, so it makes no claims.  The evidence-side findings are a         *)
(* function of the evidence, which a redraft leaves as it is; the anchor   *)
(* finding may come and go with the text, and needs an earlier answer that *)
(* established an entity: one not itself contradicted.                     *)
EntityEstablished ==
    \E i \in DOMAIN history : history[i].kind \in {"prose", "table"} /\ ~history[i].contradicted

Examinations ==
    {x \in [claims : 0..MaxClaims, unmatched : 0..MaxClaims, judged : 0..MaxJudgeCalls,
            plausibility : SUBSET Findings] :
        /\ x.unmatched <= x.claims /\ x.judged <= x.claims
        /\ draft.kind = "table" => x.claims = 0
        /\ "anchor" \in x.plausibility => EntityEstablished
        /\ verify_attempt > 0 => x.plausibility \ {"anchor"} = verifier_plausibility \ {"anchor"}}

Mode == IF draft.kind = "table" THEN "table_passthrough" ELSE "prose"

Disposition(x) == Decide(x.unmatched, x.plausibility, verify_attempt + 1)

(* The base update of every branch: the attempt is recorded, its findings  *)
(* replace the last attempt's.                                             *)
RecordAttempt(x) ==
    /\ verify_attempt' = verify_attempt + 1
    /\ verifier_attempts' = Append(verifier_attempts,
          [attempt |-> verify_attempt + 1, claims |-> x.claims, unmatched |-> x.unmatched,
           of |-> draft, seen |-> Len(evidence)])
    /\ verifier_plausibility' = x.plausibility
    /\ judge_calls_total' = judge_calls_total + x.judged

FinalVerdict(x) ==
    [disposition |-> Disposition(x), mode |-> Mode,
     reason |-> FinalReason(x.unmatched, x.plausibility, Disposition(x)),
     judge_calls |-> judge_calls_total + x.judged]

VerifyRetry ==
    /\ pc = "verify"
    /\ draft.kind # "none"
    /\ \E x \in Examinations : Disposition(x) = "retry" /\ RecordAttempt(x)
    /\ draft' = NoDraft
    /\ draft_feedback' = [from |-> "verifier", reply |-> draft.reply]
    /\ Goto(AfterVerify(outcome))
    /\ UNCHANGED <<durable, loop, draft_raw, injected_spans, draft_attempts, replies,
                   verdict, outcome>>

VerifyRefuses ==
    /\ pc = "verify"
    /\ draft.kind # "none"
    /\ \E x \in Examinations :
          Disposition(x) = "refused" /\ RecordAttempt(x) /\ verdict' = FinalVerdict(x)
    /\ outcome' = Refusal("verifier")
    /\ Goto(AfterVerify(outcome'))
    /\ UNCHANGED <<durable, loop, drafting>>

(* No claim at all and insufficiency prose: the draft is a refusal.        *)
VerifyContentFree ==
    /\ pc = "verify"
    /\ draft.kind = "markdown"
    /\ \E x \in Examinations :
          /\ Disposition(x) \in {"verified", "unverified"} /\ x.claims = 0
          /\ RecordAttempt(x) /\ verdict' = FinalVerdict(x)
    /\ outcome' = Refusal("contentfree")
    /\ Goto(AfterVerify(outcome'))
    /\ UNCHANGED <<durable, loop, drafting>>

VerifyAnswers ==
    /\ pc = "verify"
    /\ draft.kind # "none"
    /\ \E x \in Examinations :
          /\ Disposition(x) \in {"verified", "unverified"}
          /\ RecordAttempt(x) /\ verdict' = FinalVerdict(x)
          /\ outcome' = Answer(draft, Disposition(x))
    /\ Goto(AfterVerify(outcome'))
    /\ UNCHANGED <<durable, loop, drafting>>
-------------------------------------------------------------------------------
(* finalize: the outcome, if no node wrote one, is the router's decision;  *)
(* the turn joins the history.                                             *)
FinalOutcome ==
    IF outcome.kind # "none" THEN outcome
    ELSE IF decision.kind = "refuse" THEN Refusal("router")
    ELSE IF decision.kind \in {"clarify", "escalate"}
      THEN [NoOutcome EXCEPT !.kind = decision.kind]
    ELSE Refusal("unreachable")

KindOf(o) ==
    IF o.kind # "answer" THEN o.kind
    ELSE IF o.body.kind = "table" THEN "table" ELSE "prose"

Finalize ==
    /\ pc = "finalize"
    /\ outcome' = FinalOutcome
    /\ history' = Append(history,
          [turn |-> turn, kind |-> KindOf(outcome'),
           contradicted |-> "anchor" \in verifier_plausibility])
    /\ Goto("summarize")
    /\ UNCHANGED <<turn, summary, summary_through_turn, context, disturbed,
                   loop, drafting, ladder>>

(* summarize: fold what fell past the window, once enough of it has.       *)
FoldThrough == turn - context.last_n
RefreshDue == FoldThrough - summary_through_turn >= context.refresh_after
(* A slip: the last record of the range is left out.                       *)
RecordsOffByOne ==
    {history[n].turn : n \in {m \in DOMAIN history :
        summary_through_turn < history[m].turn /\ history[m].turn < FoldThrough}}

Records == {history[i].turn : i \in {j \in DOMAIN history :
                summary_through_turn < history[j].turn /\ history[j].turn <= FoldThrough}}

SummarizeNotDue ==
    /\ pc = "summarize"
    /\ ~RefreshDue
    /\ Goto("end")
    /\ UNCHANGED <<durable, loop, drafting, ladder, outcome>>

SummarizeFold ==
    /\ pc = "summarize"
    /\ RefreshDue
    /\ summary' = summary \cup Records
    /\ summary_through_turn' = FoldThrough
    /\ Goto("end")
    /\ UNCHANGED <<turn, history, context, disturbed, loop, drafting, ladder, outcome>>

SummarizeFails ==
    /\ pc = "summarize"
    /\ RefreshDue
    /\ Records # {}
    /\ disturbed' = disturbed \cup {"refresh_failed"}
    /\ Goto("end")
    /\ UNCHANGED <<turn, history, summary, summary_through_turn, context,
                   loop, drafting, ladder, outcome>>
-------------------------------------------------------------------------------
(* A node raised, or the process was stopped: the checkpoint keeps what    *)
(* the nodes before it wrote.                                              *)
Raise ==
    /\ pc \in Nodes
    /\ pc' = "raised"
    /\ disturbed' = disturbed \cup
          (IF pc = "summarize" THEN {"refresh_failed"} ELSE {"raised"})
    /\ UNCHANGED <<supersteps, turn, history, summary, summary_through_turn, context,
                   loop, drafting, ladder, outcome>>

(* Nobody asks anything more. *)
Rest == pc \in {"end", "raised"} /\ UNCHANGED vars

Route == RouteRefusesOnBudget \/ RouteViolation \/ RouteTools \/ RouteTerminal

Draft == \/ DraftReady \/ DraftRetry \/ DraftPassagesInline \/ DraftFallbackTable
         \/ DraftRefusesUnresolved \/ DraftTableNudge \/ DraftTableReady

Verify == VerifyRetry \/ VerifyRefuses \/ VerifyContentFree \/ VerifyAnswers

Summarize == SummarizeNotDue \/ SummarizeFold \/ SummarizeFails

Step == Route \/ Act \/ Draft \/ Verify \/ Finalize \/ Summarize

Next == (\E settings \in Contexts : Begin(settings)) \/ Step \/ Raise \/ Rest

Spec == Init /\ [][Next]_vars

(* The caller's thread runs the graph: a node that can run does, and every *)
(* call it makes returns or raises.                                        *)
FairSpec == Spec /\ WF_vars(Step)
-------------------------------------------------------------------------------
(* Properties.                                                             *)

(* The state is well typed. *)
TypeOK ==
    /\ pc \in Nodes \cup {"end", "raised"}
    /\ supersteps \in Nat
    /\ turn \in 0..MaxTurns
    /\ history \in Seq(HistoryTurns)
    /\ summary \subseteq Nat
    /\ summary_through_turn \in Nat
    /\ context \in Contexts
    /\ disturbed \subseteq {"raised", "refresh_failed", "override"}
    /\ iterations \in Nat
    /\ decision \in Decision
    /\ scratch \in Seq(Messages)
    /\ evidence \in Seq(EvidenceKinds)
    /\ draft \in Drafts
    /\ draft_raw \in Nat
    /\ injected_spans \in Nat
    /\ draft_feedback \in Feedback
    /\ draft_attempts \in Nat
    /\ replies \in Nat
    /\ verify_attempt \in Nat
    /\ verifier_attempts \in Seq(Attempts)
    /\ verifier_plausibility \subseteq Findings
    /\ judge_calls_total \in Nat
    /\ verdict \in Verdicts
    /\ outcome \in Outcomes

(* The transcript invariant of act: when the router is consulted, every    *)
(* assistant message is followed by exactly one tool message per call, in  *)
(* order, each under its call's id, and no tool message stands anywhere    *)
(* else, so an answer is told from the others by its place alone. Its id   *)
(* does so only where the graph made it: no two answers of a turn share an *)
(* id of the graph's own, while the provider's are kept as sent, and it    *)
(* may repeat one.                                                         *)
TranscriptAnswered ==
    pc = "route" =>
        LET said(role) == {p \in DOMAIN scratch : scratch[p].role = role}
        IN  /\ \A p \in said("assistant") : \A k \in DOMAIN scratch[p].ids :
                 /\ p + k \in said("tool")
                 /\ scratch[p + k].ids = <<scratch[p].ids[k]>>
            /\ \A q \in said("tool") :
                 \E p \in said("assistant") : q - p \in DOMAIN scratch[p].ids
            /\ \A p, q \in said("tool") :
                 scratch[p].ids = scratch[q].ids /\ Synthesized(scratch[p].ids[1]) => p = q

(* One numbering everywhere: the evidence indices the tool messages show   *)
(* are, in order, those of the evidence the draft node and the drafter     *)
(* read.                                                                   *)
EvidenceNumbering ==
    pc = "route" =>
        LET shown == {p \in DOMAIN scratch : scratch[p].role = "tool" /\ scratch[p].index >= 0}
        IN  /\ {scratch[p].index : p \in shown} = 0..(Len(evidence) - 1)
            /\ \A p, q \in shown : p < q => scratch[p].index < scratch[q].index

(* No draft skips the verifier: an answer is exactly the draft the last    *)
(* ladder attempt judged, over all the evidence of the turn, under the     *)
(* label the ladder gave it; no failed plausibility check ever ships, an   *)
(* unmatched claim ships only with the redrafts spent in a pack that does  *)
(* not refuse, and "verified" means no unmatched claim and no finding.     *)
AnswerIsVerified ==
    outcome.kind = "answer" =>
        /\ verifier_attempts # <<>>
        /\ outcome.body = Last(verifier_attempts).of
        /\ Last(verifier_attempts).seen = Len(evidence)
        /\ outcome.verification = verdict.disposition
        /\ verdict.mode = IF outcome.body.kind = "table" THEN "table_passthrough" ELSE "prose"
        /\ "fail" \notin verifier_plausibility
        /\ Last(verifier_attempts).unmatched > 0 =>
              verify_attempt > MaxRegenerateRetries /\ UnmatchedFinal = "unverified"
        /\ outcome.verification = "verified" <=>
              Last(verifier_attempts).unmatched = 0 /\ verifier_plausibility = {}
        /\ outcome.body.kind = "table" => outcome.body.index \in TableEvidence

(* The verdict the turn log stores beside the outcome tells the same       *)
(* story: a refused verdict is a refusal by the verifier, an accepting one *)
(* is an answer or the content-free refusal, a turn without one never      *)
(* answered; a verdict short of "verified" always prints why. And so does  *)
(* the newest record of the history, once finalize has written it.         *)
VerdictAgreesWithOutcome ==
    /\ verdict.disposition = "refused" <=> outcome.cause = "verifier"
    /\ verdict.disposition \in {"verified", "unverified"} <=>
          (outcome.kind = "answer" \/ outcome.cause = "contentfree")
    /\ verdict.disposition # "retry"
    /\ verdict.disposition \in {"unverified", "refused"} =>
          verdict.reason = IF "fail" \in verifier_plausibility THEN "implausible"
                           ELSE IF verdict.disposition = "refused" THEN "pack_refuses"
                           ELSE IF Last(verifier_attempts).unmatched > 0 THEN "unsupported"
                           ELSE "warning"
    /\ outcome.cause # "unreachable"
    /\ pc \in {"summarize", "end"} /\ turn > 0 =>
          /\ history # <<>> /\ Last(history).turn = turn
          /\ outcome.kind # "none" /\ Last(history).kind = KindOf(outcome)
          /\ outcome.kind = "answer" =>
                (Last(history).contradicted => outcome.verification = "unverified")

(* The attempts of one turn are a ladder: numbered in order, each on a new *)
(* draft, all over the same evidence, only the last one without unmatched  *)
(* claims; implausible evidence is never redrafted. The drafter is always  *)
(* corrected on the reply it is shown, and the verifier always reads a     *)
(* text with the spans injected into that text.                            *)
AttemptsAreALadder ==
    /\ Len(verifier_attempts) = verify_attempt
    /\ \A n \in DOMAIN verifier_attempts :
          /\ verifier_attempts[n].attempt = n
          /\ verifier_attempts[n].seen = Len(evidence)
          /\ n < verify_attempt => verifier_attempts[n].unmatched > 0
          /\ \A m \in 1..(n - 1) : verifier_attempts[m].of.reply # verifier_attempts[n].of.reply
    /\ "fail" \in verifier_plausibility => verify_attempt = 1 /\ outcome.cause = "verifier"
    /\ pc = "draft" /\ draft_feedback.from # "none" =>
          draft_raw > 0 /\ draft_feedback.reply = draft_raw
    /\ draft.kind = "markdown" => draft.reply = injected_spans /\ draft.reply = draft_raw

(* The budgets bound the turn: the router's, the drafter's (a placeholder  *)
(* retry and a verifier redraft draw on separate ones), the judge's, and   *)
(* with them the supersteps the graph takes; and a turn is refused for a   *)
(* spent budget only when this turn spent it.                              *)
TurnBudget ==
    /\ iterations <= MaxRouterIterations + 1
    /\ replies <= MaxDraftRetries + MaxRegenerateRetries + 1
    /\ verify_attempt <= MaxRegenerateRetries + 1
    /\ judge_calls_total <= MaxJudgeCalls * verify_attempt
    /\ supersteps <= 2 * MaxRouterIterations + MaxDraftRetries + 2 * MaxRegenerateRetries + 4
    /\ outcome.cause = "placeholders" => replies > MaxDraftRetries
    /\ outcome.cause = "budget" => supersteps >= MaxRouterIterations + 2

(* Every turn ends: the graph reaches its end, or a node raised.           *)
EveryTurnEnds == pc \in Nodes ~> pc \in {"end", "raised"}

(* A turn keeps the conversation's promises about its window and summary.  *)
Conv == INSTANCE Conversation WITH
    phase <- IF pc \in {"end", "raised"} THEN "idle"
             ELSE IF pc = "summarize" THEN "finished" ELSE "asking",
    finished <- [i \in DOMAIN history |-> history[i].turn]

ImplementsConversation == Conv!Spec
===============================================================================
