---------------------------- MODULE TurnGraphProofs ----------------------------
(***************************************************************************)
(* What the turn graph promises for every budget, every window and every   *)
(* answer of the model, the tools and the verifier's matching.             *)
(***************************************************************************)
EXTENDS TurnGraph, SequenceTheorems, FiniteSetTheorems, TLAPS

LEMMA FunctionsAreSequences ==
    ASSUME NEW S, NEW n \in Nat, NEW f \in [1..n -> S]
    PROVE  f \in Seq(S)
BY SeqDef

(* The records the nodes build are the records the state is made of.       *)
LEMMA RecordTypes ==
    /\ NoDecision \in Decision /\ Nudge \in Messages
    /\ NoDraft \in Drafts /\ NoFeedback \in Feedback
    /\ NoVerdict \in Verdicts /\ NoOutcome \in Outcomes
    /\ \A reply \in Nat : Markdown(reply) \in Drafts /\ Table(reply) \in Drafts
    /\ \A cause \in {"router", "budget", "placeholders", "verifier", "contentfree", "unreachable"} :
          Refusal(cause) \in Outcomes
    /\ \A body \in Drafts, d \in Dispositions : Answer(body, d) \in Outcomes
<1>1. NoDecision \in Decision /\ Nudge \in Messages
  BY DEF NoDecision, Decision, Nudge, Messages
<1>2. NoDraft \in Drafts /\ NoFeedback \in Feedback /\ NoVerdict \in Verdicts
  BY DEF NoDraft, Drafts, NoFeedback, Feedback, NoVerdict, Verdicts, Reasons, Dispositions
<1>3. NoOutcome \in Outcomes
  BY <1>2 DEF NoOutcome, Outcomes
<1>4. \A reply \in Nat : Markdown(reply) \in Drafts /\ Table(reply) \in Drafts
  BY DEF Markdown, Table, Drafts
<1>5. \A cause \in {"router", "budget", "placeholders", "verifier", "contentfree", "unreachable"} :
         Refusal(cause) \in Outcomes
  BY <1>2 DEF Refusal, NoOutcome, Outcomes
<1>6. \A body \in Drafts, d \in Dispositions : Answer(body, d) \in Outcomes
  BY <1>2 DEF Answer, NoOutcome, Outcomes
<1>. QED  BY <1>1, <1>2, <1>3, <1>4, <1>5, <1>6

LEMMA DecisionTypes ==
    /\ \A k \in {"answer", "refuse", "clarify", "escalate"} : Plain(k) \in Decision
    /\ \A calls \in Seq(CallIds) : ToolsDecision(calls) \in Decision /\ Echo(calls) \in Messages
    /\ \A i \in Nat, r \in {"none", "listed", "unlisted"} : TableAnswer(i, r) \in Decision
BY RecordTypes DEF NoDecision, Decision, ToolsDecision, Echo, Messages, Plain,
                   TableAnswer

LEMMA CallIdTypes ==
    ASSUME iterations \in Nat, NEW n \in Nat, NEW sent \in [1..n -> Nat]
    PROVE  /\ WithCallIds(sent) \in Seq(CallIds) /\ DOMAIN WithCallIds(sent) = 1..n
           /\ \A k \in 1..n : \/ WithCallIds(sent)[k] = <<iterations + 1, k>>
                             \/ WithCallIds(sent)[k][1] = 0
<1>1. \A k \in 1..n : sent[k] \in Nat
  OBVIOUS
<1>2. WithCallIds(sent) \in [1..n -> CallIds]
  BY <1>1 DEF WithCallIds, CallIds
<1>3. \A k \in 1..n : \/ WithCallIds(sent)[k] = <<iterations + 1, k>>
                     \/ WithCallIds(sent)[k][1] = 0
  BY <1>1 DEF WithCallIds
<1>. QED  BY <1>2, <1>3, FunctionsAreSequences

LEMMA FirstIds ==
    ASSUME NEW n \in 1..MaxCalls, NEW sent \in ProviderIds
    PROVE  n \in Nat /\ SubSeq(sent, 1, n) \in [1..n -> Nat]
<1>1. n \in Nat /\ MaxCalls \in Nat /\ sent \in [1..MaxCalls -> Nat]
  BY TurnAssumption
<1>2. sent \in Seq(Nat) /\ Len(sent) = MaxCalls
  BY <1>1, FunctionsAreSequences
<1>3. SubSeq(sent, 1, n) \in Seq(Nat) /\ Len(SubSeq(sent, 1, n)) = n
  BY <1>1, <1>2, SubSeqProperties
<1>. QED  BY <1>1, <1>3, LenProperties

LEMMA InitTypeOK == Init => TypeOK
BY ContextAssumption, TurnAssumption, RecordTypes DEF Init, TypeOK

LEMMA EdgeTypes ==
    /\ \A d \in Decision : AfterRoute(d) \in Nodes
    /\ \A o \in Outcomes, dr \in Drafts, d \in Decision : AfterDraft(o, dr, d) \in Nodes
    /\ \A o \in Outcomes : AfterVerify(o) \in Nodes
BY DEF AfterRoute, AfterDraft, AfterVerify, Nodes, Decision, Drafts

LEMMA BeginType == ASSUME TypeOK, NEW settings \in Contexts, Begin(settings) PROVE TypeOK'
BY TurnAssumption, RecordTypes
   DEF TypeOK, Begin, ResetDrafting, ResetLadder, Nodes, Findings

LEMMA RouteType == ASSUME TypeOK, Route PROVE TypeOK'
<1>. USE DEF Goto, durable, drafting, ladder
<1>1. CASE RouteRefusesOnBudget
  <2>1. decision' \in Decision /\ outcome' \in Outcomes
    BY <1>1, RecordTypes DEF RouteRefusesOnBudget, NoDecision, Decision
  <2>2. AfterRoute(decision') \in Nodes
    BY <2>1, EdgeTypes
  <2>. QED  BY <1>1, <2>1, <2>2 DEF RouteRefusesOnBudget, TypeOK
<1>2. CASE RouteViolation
  <2>1. AfterRoute(decision) \in Nodes
    BY EdgeTypes DEF TypeOK
  <2>. QED  BY <1>2, <2>1, RecordTypes DEF RouteViolation, TypeOK
<1>3. CASE RouteTools
  <2>a. PICK n \in 1..MaxCalls, all \in ProviderIds :
           /\ decision' = ToolsDecision(WithCallIds(SubSeq(all, 1, n)))
           /\ scratch' = Append(scratch, Echo(WithCallIds(SubSeq(all, 1, n))))
    BY <1>3 DEF RouteTools
  <2>b. n \in Nat /\ SubSeq(all, 1, n) \in [1..n -> Nat]
    BY FirstIds
  <2>1. PICK sent \in [1..n -> Nat] :
           /\ decision' = ToolsDecision(WithCallIds(sent))
           /\ scratch' = Append(scratch, Echo(WithCallIds(sent)))
    BY <2>a, <2>b
  <2>2. WithCallIds(sent) \in Seq(CallIds)
    <3>1. iterations \in Nat /\ n \in Nat
      BY TurnAssumption DEF TypeOK
    <3>. QED  BY <3>1, CallIdTypes
  <2>3. decision' \in Decision /\ scratch' \in Seq(Messages)
    BY <2>1, <2>2, DecisionTypes DEF TypeOK
  <2>4. AfterRoute(decision') \in Nodes
    BY <2>3, EdgeTypes
  <2>. QED  BY <1>3, <2>3, <2>4 DEF RouteTools, TypeOK
<1>4. CASE RouteTerminal
  <2>1. decision' \in Decision
    <3>1. 0..Len(evidence) \subseteq Nat
      BY DEF TypeOK
    <3>2. TerminalDecisions \subseteq Decision
      BY <3>1, DecisionTypes DEF TerminalDecisions
    <3>. QED  BY <1>4, <3>2 DEF RouteTerminal
  <2>2. AfterRoute(decision') \in Nodes
    BY <2>1, EdgeTypes
  <2>. QED  BY <1>4, <2>1, <2>2 DEF RouteTerminal, TypeOK
<1>. QED  BY <1>1, <1>2, <1>3, <1>4 DEF Route

(* The tool messages answer the calls one by one.                          *)
LEMMA ToolResultTypes ==
    ASSUME TypeOK, NEW calls \in Seq(CallIds), NEW unknown \in SUBSET DOMAIN calls
    PROVE  /\ ToolResults(calls, unknown) \in Seq(Messages)
           /\ Len(calls) - Cardinality(unknown) \in Nat
<1>1. Len(calls) \in Nat /\ DOMAIN calls = 1..Len(calls)
  OBVIOUS
<1>2. IsFiniteSet(1..Len(calls)) /\ Cardinality(1..Len(calls)) = Len(calls)
  <2>1. /\ IsFiniteSet(1..Len(calls))
        /\ Cardinality(1..Len(calls)) = IF 1 > Len(calls) THEN 0 ELSE Len(calls) - 1 + 1
    BY <1>1, FS_Interval
  <2>. QED  BY <1>1, <2>1
<1>3. \A T \in SUBSET (1..Len(calls)) : Cardinality(T) \in Nat /\ Cardinality(T) <= Len(calls)
  BY <1>2, FS_Subset, FS_CardinalityType
<1>4. ASSUME NEW k \in 1..Len(calls)
      PROVE  ToolMessage(calls, unknown, k) \in Messages
  <2>1. {j \in 1..(k - 1) : j \notin unknown} \in SUBSET (1..Len(calls))
    BY <1>1
  <2>2. EvidenceIndex(unknown, k) \in Nat
    BY <1>3, <2>1 DEF EvidenceIndex, TypeOK
  <2>3. <<calls[k]>> \in Seq(CallIds)
    BY <1>1
  <2>. QED  BY <2>2, <2>3 DEF ToolMessage, Messages
<1>5. ToolResults(calls, unknown) \in [1..Len(calls) -> Messages]
  BY <1>1, <1>4 DEF ToolResults
<1>6. ToolResults(calls, unknown) \in Seq(Messages)
  BY <1>1, <1>5, FunctionsAreSequences
<1>. QED  BY <1>1, <1>3, <1>6

LEMMA ActType == ASSUME TypeOK, Act PROVE TypeOK'
<1>1. decision.selections \in Seq(CallIds)
  BY DEF TypeOK, Decision
<1>2. PICK unknown \in SUBSET (DOMAIN decision.selections) :
         /\ \E invocations \in
                  [1..(Len(decision.selections) - Cardinality(unknown)) -> EvidenceKinds] :
               evidence' = evidence \o invocations
         /\ scratch' = scratch \o ToolResults(decision.selections, unknown)
  BY DEF Act
<1>3. scratch' \in Seq(Messages)
  BY <1>1, <1>2, ToolResultTypes DEF TypeOK
<1>4. evidence' \in Seq(EvidenceKinds)
  <2>1. PICK invocations \in
                [1..(Len(decision.selections) - Cardinality(unknown)) -> EvidenceKinds] :
             evidence' = evidence \o invocations
    BY <1>2
  <2>2. invocations \in Seq(EvidenceKinds)
    BY <1>1, <2>1, ToolResultTypes, FunctionsAreSequences
  <2>. QED  BY <2>1, <2>2 DEF TypeOK
<1>. QED  BY <1>3, <1>4, RecordTypes DEF Act, Goto, durable, drafting, ladder, TypeOK, Nodes

LEMMA DraftType == ASSUME TypeOK, Draft PROVE TypeOK'
<1>. USE RecordTypes, EdgeTypes DEF Goto, durable, drafting, ladder, loop
<1>1. CASE DraftReady
  <2>1. draft' \in Drafts /\ AfterDraft(outcome, draft', decision) \in Nodes
    BY <1>1 DEF DraftReady, TypeOK
  <2>. QED  BY <1>1, <2>1 DEF DraftReady, TypeOK
<1>2. CASE DraftRetry
  <2>1. draft_feedback' \in Feedback /\ AfterDraft(outcome, draft, decision) \in Nodes
    BY <1>2 DEF DraftRetry, TypeOK, Feedback
  <2>. QED  BY <1>2, <2>1 DEF DraftRetry, TypeOK
<1>3. CASE DraftPassagesInline
  <2>1. draft' \in Drafts /\ AfterDraft(outcome, draft', decision) \in Nodes
    BY <1>3 DEF DraftPassagesInline, TypeOK
  <2>. QED  BY <1>3, <2>1 DEF DraftPassagesInline, TypeOK, InlineSpans
<1>4. CASE DraftFallbackTable
  <2>1. PICK i \in 0..(Len(evidence) - 1) : draft' = Table(i)
    BY <1>4 DEF DraftFallbackTable
  <2>2. draft' \in Drafts /\ AfterDraft(outcome, draft', decision) \in Nodes
    BY <2>1 DEF TypeOK
  <2>. QED  BY <1>4, <2>2 DEF DraftFallbackTable, TypeOK
<1>5. CASE DraftRefusesUnresolved
  <2>1. outcome' \in Outcomes /\ AfterDraft(outcome', draft, decision) \in Nodes
    BY <1>5 DEF DraftRefusesUnresolved, TypeOK
  <2>. QED  BY <1>5, <2>1 DEF DraftRefusesUnresolved, TypeOK
<1>6. CASE DraftTableNudge
  <2>1. AfterDraft(outcome, draft, decision') \in Nodes
    BY <1>6 DEF DraftTableNudge, TypeOK
  <2>. QED  BY <1>6, <2>1 DEF DraftTableNudge, TypeOK
<1>7. CASE DraftTableReady
  <2>1. draft' \in Drafts /\ AfterDraft(outcome, draft', decision) \in Nodes
    BY <1>7 DEF DraftTableReady, TypeOK, Decision
  <2>. QED  BY <1>7, <2>1 DEF DraftTableReady, TypeOK
<1>. QED  BY <1>1, <1>2, <1>3, <1>4, <1>5, <1>6, <1>7 DEF Draft

(* What one ladder attempt writes is well typed.                           *)
LEMMA ExaminationTypes ==
    ASSUME TypeOK, NEW x \in Examinations
    PROVE  /\ x.claims \in Nat /\ x.unmatched \in Nat /\ x.judged \in Nat
           /\ x.judged <= MaxJudgeCalls
           /\ x.plausibility \subseteq Findings
           /\ Disposition(x) \in Dispositions
           /\ FinalVerdict(x) \in Verdicts
<1>1. /\ x.claims \in Nat /\ x.unmatched \in Nat /\ x.judged \in Nat
      /\ x.judged <= MaxJudgeCalls /\ x.plausibility \subseteq Findings
  BY TurnAssumption DEF Examinations
<1>2. Disposition(x) \in Dispositions
  BY DEF Disposition, Decide, Dispositions
<1>3. FinalReason(x.unmatched, x.plausibility, Disposition(x)) \in Reasons
  BY DEF FinalReason, Reasons
<1>4. judge_calls_total + x.judged \in Nat
  BY <1>1 DEF TypeOK
<1>. QED  BY <1>1, <1>2, <1>3, <1>4 DEF FinalVerdict, Verdicts, Mode

LEMMA AttemptType ==
    ASSUME TypeOK, NEW x \in Examinations, RecordAttempt(x)
    PROVE  /\ verify_attempt' \in Nat /\ judge_calls_total' \in Nat
           /\ verifier_attempts' \in Seq(Attempts)
           /\ verifier_plausibility' \subseteq Findings
<1>1. [attempt |-> verify_attempt + 1, claims |-> x.claims, unmatched |-> x.unmatched,
       of |-> draft, seen |-> Len(evidence)] \in Attempts
  <2>1. verify_attempt \in Nat /\ draft \in Drafts /\ evidence \in Seq(EvidenceKinds)
    BY DEF TypeOK
  <2>. QED  BY <2>1, ExaminationTypes DEF Attempts
<1>2. verifier_attempts \in Seq(Attempts) /\ verify_attempt \in Nat /\ judge_calls_total \in Nat
  BY DEF TypeOK
<1>. QED  BY <1>1, <1>2, ExaminationTypes DEF RecordAttempt

LEMMA VerifyType == ASSUME TypeOK, Verify PROVE TypeOK'
<1>. USE RecordTypes, EdgeTypes DEF Goto, durable, drafting, loop
<1>1. CASE VerifyRetry
  <2>1. PICK x \in Examinations : RecordAttempt(x)
    BY <1>1 DEF VerifyRetry
  <2>2. draft_feedback' \in Feedback /\ AfterVerify(outcome) \in Nodes
    BY <1>1 DEF VerifyRetry, Feedback, TypeOK, Drafts
  <2>. QED  BY <1>1, <2>1, <2>2, AttemptType DEF VerifyRetry, TypeOK
<1>2. CASE VerifyRefuses
  <2>1. PICK x \in Examinations : RecordAttempt(x) /\ verdict' = FinalVerdict(x)
    BY <1>2 DEF VerifyRefuses
  <2>2. outcome' \in Outcomes /\ AfterVerify(outcome') \in Nodes
    BY <1>2 DEF VerifyRefuses
  <2>. QED  BY <1>2, <2>1, <2>2, AttemptType, ExaminationTypes DEF VerifyRefuses, TypeOK
<1>3. CASE VerifyContentFree
  <2>1. PICK x \in Examinations : RecordAttempt(x) /\ verdict' = FinalVerdict(x)
    BY <1>3 DEF VerifyContentFree
  <2>2. outcome' \in Outcomes /\ AfterVerify(outcome') \in Nodes
    BY <1>3 DEF VerifyContentFree
  <2>. QED  BY <1>3, <2>1, <2>2, AttemptType, ExaminationTypes DEF VerifyContentFree, TypeOK
<1>4. CASE VerifyAnswers
  <2>1. PICK x \in Examinations : /\ RecordAttempt(x) /\ verdict' = FinalVerdict(x)
                                  /\ outcome' = Answer(draft, Disposition(x))
    BY <1>4 DEF VerifyAnswers
  <2>2. outcome' \in Outcomes /\ AfterVerify(outcome') \in Nodes
    BY <2>1, ExaminationTypes DEF TypeOK
  <2>. QED  BY <1>4, <2>1, <2>2, AttemptType, ExaminationTypes DEF VerifyAnswers, TypeOK
<1>. QED  BY <1>1, <1>2, <1>3, <1>4 DEF Verify

LEMMA FinalizeType == ASSUME TypeOK, Finalize PROVE TypeOK'
<1>1. FinalOutcome \in Outcomes
  BY RecordTypes DEF FinalOutcome, TypeOK, NoOutcome, Outcomes
<1>2. [turn |-> turn, kind |-> KindOf(outcome'),
       contradicted |-> "anchor" \in verifier_plausibility] \in HistoryTurns
  <2>1. turn \in Nat
    BY TurnAssumption DEF TypeOK
  <2>2. KindOf(outcome') \in {"prose", "table", "refuse", "clarify", "escalate"}
    BY <1>1 DEF Finalize, KindOf, Outcomes, FinalOutcome, NoOutcome, Refusal
  <2>. QED  BY <2>1, <2>2 DEF HistoryTurns
<1>. QED  BY <1>1, <1>2 DEF Finalize, Goto, loop, drafting, ladder, TypeOK, Nodes

(* A fold takes turn numbers of the history, and moves the mark forward.   *)
LEMMA FoldTypes ==
    ASSUME TypeOK, RefreshDue
    PROVE  FoldThrough \in Nat /\ Records \subseteq Nat
<1>1. context.last_n \in Nat \ {0} /\ context.refresh_after \in Nat \ {0}
  BY ContextAssumption DEF TypeOK, ContextSettings
<1>2. turn \in Nat /\ summary_through_turn \in Nat
  BY TurnAssumption DEF TypeOK
<1>3. FoldThrough \in Nat
  BY <1>1, <1>2 DEF RefreshDue, FoldThrough
<1>4. ASSUME NEW i \in DOMAIN history
      PROVE  history[i].turn \in Nat
  <2>1. history[i] \in HistoryTurns
    BY DEF TypeOK
  <2>. QED  BY <2>1 DEF HistoryTurns
<1>. QED  BY <1>3, <1>4 DEF Records

LEMMA SummarizeType == ASSUME TypeOK, Summarize PROVE TypeOK'
<1>. USE DEF Goto, loop, drafting, ladder
<1>1. CASE SummarizeNotDue
  <2>1. pc' = "end" /\ supersteps' = supersteps + 1
    BY <1>1 DEF SummarizeNotDue
  <2>2. UNCHANGED <<turn, history, summary, summary_through_turn, context, disturbed>>
    BY <1>1 DEF SummarizeNotDue, durable
  <2>3. UNCHANGED <<loop, drafting, ladder, outcome>>
    BY <1>1 DEF SummarizeNotDue
  <2>. QED  BY <2>1, <2>2, <2>3 DEF TypeOK
<1>2. CASE SummarizeFold
  <2>1. FoldThrough \in Nat /\ Records \subseteq Nat
    BY <1>2, FoldTypes DEF SummarizeFold
  <2>2. summary' \subseteq Nat /\ summary_through_turn' \in Nat
    BY <1>2, <2>1 DEF SummarizeFold, TypeOK
  <2>. QED  BY <1>2, <2>2 DEF SummarizeFold, TypeOK
<1>3. CASE SummarizeFails
  BY <1>3 DEF SummarizeFails, TypeOK
<1>. QED  BY <1>1, <1>2, <1>3 DEF Summarize

LEMMA StepTypeOK == TypeOK /\ [Next]_vars => TypeOK'
<1>. SUFFICES ASSUME TypeOK, [Next]_vars PROVE TypeOK'
  OBVIOUS
<1>1. CASE Step
  BY <1>1, RouteType, ActType, DraftType, VerifyType, FinalizeType, SummarizeType DEF Step
<1>2. CASE Raise
  BY <1>2 DEF Raise, TypeOK, loop, drafting, ladder
<1>3. CASE UNCHANGED vars
  BY <1>3 DEF vars, control, durable, loop, drafting, ladder, TypeOK
<1>. QED  BY <1>1, <1>2, <1>3, BeginType DEF Next, Rest

(* Type correctness of the turn's state, for every budget and window.      *)
THEOREM TypeCorrect == Spec => []TypeOK
BY InitTypeOK, StepTypeOK, PTL DEF Spec
-------------------------------------------------------------------------------
(* The refinement: what the conversation sees of the graph is its phase,   *)
(* the numbers of its records, and the durable fields as they are.         *)
Phase == IF pc \in {"end", "raised"} THEN "idle"
         ELSE IF pc = "summarize" THEN "finished" ELSE "asking"
Finished == [i \in DOMAIN history |-> history[i].turn]

LEMMA Appending ==
    ASSUME TypeOK, NEW record, history' = Append(history, record)
    PROVE  Finished' = Append(Finished, record.turn)
<1>1. /\ Len(history) \in Nat /\ DOMAIN history = 1..Len(history)
      /\ DOMAIN history' = 1..(Len(history) + 1)
      /\ \A i \in DOMAIN history : history'[i] = history[i]
      /\ history'[Len(history) + 1] = record
  BY DEF TypeOK
<1>. QED  BY <1>1 DEF Finished

LEMMA InitRefines == Init => Conv!Init
BY DEF Init, Conv!Init

(* A node that neither ends the turn nor records it is invisible.          *)
LEMMA Working ==
    ASSUME TypeOK, pc \in Nodes \ {"summarize"}, pc' \in Nodes \ {"summarize"}, UNCHANGED durable
    PROVE  UNCHANGED Conv!vars
BY DEF Nodes, durable, Conv!vars, Conv!conversation

LEMMA EdgesStayInTurn ==
    /\ \A d : AfterRoute(d) \in Nodes \ {"summarize"}
    /\ \A o, dr, d : AfterDraft(o, dr, d) \in Nodes \ {"summarize"}
    /\ \A o : AfterVerify(o) \in Nodes \ {"summarize"}
BY DEF AfterRoute, AfterDraft, AfterVerify, Nodes

LEMMA StepRefines == TypeOK /\ [Next]_vars => [Conv!Next]_Conv!vars
<1>. SUFFICES ASSUME TypeOK, [Next]_vars PROVE [Conv!Next]_Conv!vars
  OBVIOUS
<1>1. ASSUME NEW settings \in Contexts, Begin(settings)
      PROVE  Conv!Ask(settings)
  BY <1>1 DEF Begin, Conv!Ask
<1>2. CASE Route \/ Act \/ Draft \/ Verify
  <2>1. /\ pc \in Nodes \ {"summarize"} /\ pc' \in Nodes \ {"summarize"}
        /\ UNCHANGED durable
    <3>1. CASE Route
      BY <3>1, EdgesStayInTurn
         DEF Route, RouteRefusesOnBudget, RouteViolation, RouteTools, RouteTerminal, Goto, Nodes
    <3>2. CASE Act
      BY <3>2 DEF Act, Goto, Nodes
    <3>3. CASE Draft
      BY <3>3, EdgesStayInTurn
         DEF Draft, DraftReady, DraftRetry, DraftPassagesInline, DraftFallbackTable,
             DraftRefusesUnresolved, DraftTableNudge, DraftTableReady, Prose, TableDraft,
             Goto, Nodes
    <3>4. CASE Verify
      BY <3>4, EdgesStayInTurn
         DEF Verify, VerifyRetry, VerifyRefuses, VerifyContentFree, VerifyAnswers, Goto, Nodes
    <3>. QED  BY <1>2, <3>1, <3>2, <3>3, <3>4
  <2>. QED  BY <2>1, Working
<1>3. CASE Finalize
  <2>1. Finished' = Append(Finished, turn)
    BY <1>3, Appending DEF Finalize
  <2>. QED  BY <1>3, <2>1 DEF Finalize, Goto, Finished, Conv!Next, Conv!Finish
<1>4. CASE SummarizeNotDue
  BY <1>4 DEF SummarizeNotDue, Goto, durable, Conv!Next, Conv!SummarizeNotDue,
              Conv!conversation, RefreshDue, FoldThrough, Conv!RefreshDue, Conv!FoldThrough
<1>5. CASE SummarizeFold
  BY <1>5 DEF SummarizeFold, Goto, Conv!Next, Conv!SummarizeFold, RefreshDue, FoldThrough,
              Records, Conv!RefreshDue, Conv!FoldThrough, Conv!Records
<1>6. CASE SummarizeFails
  BY <1>6 DEF SummarizeFails, Goto, Conv!Next, Conv!SummarizeFails, RefreshDue, FoldThrough,
              Records, Conv!RefreshDue, Conv!FoldThrough, Conv!Records
<1>7. CASE Raise
  BY <1>7 DEF Raise, Nodes, Conv!Next, Conv!Raise
<1>8. CASE UNCHANGED vars
  BY <1>8 DEF vars, control, durable, Conv!vars, Conv!conversation
<1>. QED  BY <1>1, <1>2, <1>3, <1>4, <1>5, <1>6, <1>7, <1>8
          DEF Next, Step, Summarize, Rest, Conv!Next

(* The turn graph keeps the conversation's promises: every step of it is a *)
(* step of Conversation, or invisible to it.                               *)
THEOREM Refinement == Spec => ImplementsConversation
BY InitRefines, StepRefines, TypeCorrect, PTL DEF Spec, ImplementsConversation, Conv!Spec
-------------------------------------------------------------------------------
(* The budgets.  What is still untouched at each node ...                  *)
Untouched ==
    /\ draft = NoDraft /\ draft_attempts = 0 /\ replies = 0
    /\ verify_attempt = 0 /\ judge_calls_total = 0

Place ==
    /\ pc \in {"route", "act", "draft", "verify"} => outcome = NoOutcome
    /\ pc \in {"route", "act"} => Untouched
    /\ pc = "route" => decision = NoDecision
    /\ pc = "draft" => draft = NoDraft /\ decision.kind = "answer"
    /\ pc = "draft" /\ decision.shape = "table" => Untouched
    /\ pc = "verify" =>
          /\ draft.kind # "none" /\ decision.kind = "answer"
          /\ decision.shape = "table" => draft.kind = "table"

(* ... and what each node has left: every loop back to route costs an      *)
(* iteration, every loop back to draft a retry or a redraft.               *)
JudgedWithin(calls, attempts) == calls <= MaxJudgeCalls * attempts
Bound == 2 * MaxRouterIterations + MaxDraftRetries + 2 * MaxRegenerateRetries

Budget ==
    /\ iterations <= MaxRouterIterations + 1
    /\ draft_attempts <= MaxDraftRetries
    /\ verify_attempt <= MaxRegenerateRetries + 1
    /\ replies <= MaxDraftRetries + MaxRegenerateRetries + 1
    /\ JudgedWithin(judge_calls_total, verify_attempt)
    /\ pc \in Nodes => iterations + 1 <= supersteps
    /\ pc \in {"act", "draft", "verify"} => iterations <= MaxRouterIterations
    /\ pc \in {"draft", "verify"} => verify_attempt <= MaxRegenerateRetries
    /\ pc = "draft" => replies = draft_attempts + verify_attempt
    /\ pc = "verify" /\ decision.shape = "prose" =>
          replies = draft_attempts + verify_attempt + 1
    /\ pc = "verify" /\ decision.shape = "table" => verify_attempt = 0
    /\ supersteps <=
         CASE pc = "route"  -> 2 * (IF iterations < MaxRouterIterations THEN iterations
                                    ELSE MaxRouterIterations) + 1
           [] pc = "act"    -> 2 * iterations
           [] pc = "draft"  -> 2 * iterations + draft_attempts + 2 * verify_attempt
           [] pc = "verify" -> 2 * iterations + draft_attempts + 2 * verify_attempt + 1
           [] pc = "finalize"  -> Bound + 2
           [] pc = "summarize" -> Bound + 3
           [] OTHER            -> Bound + 4
    /\ outcome.cause = "placeholders" => replies > MaxDraftRetries
    /\ outcome.cause = "budget" => supersteps >= MaxRouterIterations + 2

BInv == TypeOK /\ Place /\ Budget

LEMMA Numbers ==
    ASSUME TypeOK
    PROVE  /\ MaxRouterIterations \in Nat /\ MaxDraftRetries \in Nat
           /\ MaxRegenerateRetries \in Nat /\ MaxJudgeCalls \in Nat
           /\ supersteps \in Nat /\ iterations \in Nat /\ draft_attempts \in Nat
           /\ replies \in Nat /\ verify_attempt \in Nat /\ judge_calls_total \in Nat
BY TurnAssumption, LadderAssumption DEF TypeOK

LEMMA NoOutcomeCause == NoOutcome.cause = "none" /\ NoOutcome.kind = "none"
BY DEF NoOutcome

LEMMA InitBInv == Init => Place /\ Budget
<1>. SUFFICES ASSUME Init PROVE Place /\ Budget
  OBVIOUS
<1>1. /\ pc = "end" /\ supersteps = 0 /\ iterations = 0 /\ draft_attempts = 0 /\ replies = 0
      /\ verify_attempt = 0 /\ judge_calls_total = 0 /\ outcome = NoOutcome
  BY DEF Init
<1>2. JudgedWithin(0, 0)
  BY TurnAssumption DEF JudgedWithin
<1>. QED  BY <1>1, <1>2, TurnAssumption, LadderAssumption, NoOutcomeCause
          DEF Place, Budget, Bound, Nodes

LEMMA BeginBudget ==
    ASSUME TypeOK, NEW settings \in Contexts, Begin(settings)
    PROVE  Place' /\ Budget'
BY Numbers, NoOutcomeCause
   DEF Begin, ResetDrafting, ResetLadder, Place, Budget, Bound, Nodes, Untouched, JudgedWithin

LEMMA RouteBudget == ASSUME BInv, Route PROVE Place' /\ Budget'
<1>. USE DEF Goto, durable, drafting, ladder, Nodes
<1>0. TypeOK /\ Place /\ Budget /\ pc = "route"
  BY DEF BInv, Route, RouteRefusesOnBudget, RouteViolation, RouteTools, RouteTerminal
<1>1. CASE RouteRefusesOnBudget
  <2>1. /\ pc' = "finalize" /\ outcome'.cause = "budget" /\ supersteps' = supersteps + 1
        /\ UNCHANGED <<iterations, drafting, ladder>>
    BY <1>1 DEF RouteRefusesOnBudget, AfterRoute, NoDecision, Refusal, NoOutcome
  <2>. QED  BY <1>0, <1>1, <2>1, Numbers
            DEF RouteRefusesOnBudget, BudgetSpent, Place, Budget, Bound, Untouched
<1>2. CASE RouteViolation
  <2>1. AfterRoute(decision) = "route"
    BY <1>0 DEF AfterRoute, Place, NoDecision
  <2>2. /\ iterations < MaxRouterIterations /\ pc' = "route"
        /\ iterations' = iterations + 1 /\ supersteps' = supersteps + 1
        /\ UNCHANGED <<decision, draft, draft_attempts, replies, verify_attempt,
                       judge_calls_total, outcome>>
    BY <1>0, <1>2, <2>1, Numbers DEF RouteViolation, BudgetSpent
  <2>3. Place'
    BY <1>0, <2>2 DEF Place, Untouched
  <2>4. Budget'
    BY <1>0, <2>2, Numbers, NoOutcomeCause DEF Place, Budget, Bound, Untouched
  <2>. QED  BY <2>3, <2>4
<1>3. CASE RouteTools
  <2>1. pc' = "act"
    BY <1>3 DEF RouteTools, AfterRoute, ToolsDecision, NoDecision
  <2>2. /\ iterations < MaxRouterIterations
        /\ iterations' = iterations + 1 /\ supersteps' = supersteps + 1
        /\ UNCHANGED <<draft, draft_attempts, replies, verify_attempt, judge_calls_total, outcome>>
    BY <1>0, <1>3, Numbers DEF RouteTools, BudgetSpent
  <2>3. Place'
    BY <1>0, <2>1, <2>2 DEF Place, Untouched
  <2>4. Budget'
    BY <1>0, <2>1, <2>2, Numbers, NoOutcomeCause DEF Place, Budget, Bound, Untouched
  <2>. QED  BY <2>3, <2>4
<1>4. CASE RouteTerminal
  <2>1. decision'.kind = "answer" \/ decision'.kind \in {"refuse", "clarify", "escalate"}
    <3>1. \A k \in {"answer", "refuse", "clarify", "escalate"} : Plain(k).kind = k
      BY DEF Plain, NoDecision
    <3>2. \A i, r : TableAnswer(i, r).kind = "answer"
      BY DEF TableAnswer, NoDecision
    <3>. QED  BY <1>4, <3>1, <3>2 DEF RouteTerminal, TerminalDecisions
  <2>2. CASE decision'.kind = "answer"
    <3>1. pc' = "draft"
      BY <1>4, <2>2 DEF RouteTerminal, AfterRoute
    <3>. QED  BY <1>0, <1>4, <2>2, <3>1, Numbers, NoOutcomeCause
              DEF RouteTerminal, BudgetSpent, Place, Budget, Bound, Untouched
  <2>3. CASE decision'.kind \in {"refuse", "clarify", "escalate"}
    <3>1. pc' = "finalize"
      BY <1>4, <2>3 DEF RouteTerminal, AfterRoute
    <3>. QED  BY <1>0, <1>4, <3>1, Numbers, NoOutcomeCause
              DEF RouteTerminal, BudgetSpent, Place, Budget, Bound, Untouched
  <2>. QED  BY <2>1, <2>2, <2>3
<1>. QED  BY <1>1, <1>2, <1>3, <1>4 DEF Route

LEMMA ActBudget == ASSUME BInv, Act PROVE Place' /\ Budget'
<1>1. /\ pc = "act" /\ pc' = "route" /\ supersteps' = supersteps + 1 /\ decision' = NoDecision
      /\ UNCHANGED <<iterations, draft, draft_attempts, replies, verify_attempt,
                     judge_calls_total, outcome>>
  BY DEF Act, Goto, drafting, ladder
<1>2. TypeOK /\ Place /\ Budget
  BY DEF BInv
<1>3. Place'
  BY <1>1, <1>2 DEF Place, Untouched
<1>4. Budget'
  BY <1>1, <1>2, Numbers, NoOutcomeCause DEF Place, Budget, Bound, Untouched, Nodes
<1>. QED  BY <1>3, <1>4
(* A drafter reply costs a superstep, and the node it leads to is known.   *)
Drafting == TypeOK /\ Place /\ Budget /\ pc = "draft" /\ supersteps' = supersteps + 1

LEMMA DraftBudget == ASSUME BInv, Draft PROVE Place' /\ Budget'
<1>0. Drafting
  BY DEF BInv, Drafting, Draft, DraftReady, DraftRetry, DraftPassagesInline, DraftFallbackTable,
         DraftRefusesUnresolved, DraftTableNudge, DraftTableReady, Prose, TableDraft, Goto
<1>1. outcome = NoOutcome /\ draft = NoDraft /\ NoDraft.kind = "none" /\ decision.kind = "answer"
  BY <1>0 DEF Drafting, Place, NoDraft
<1>2. /\ \A reply : Markdown(reply).kind = "markdown" /\ Table(reply).kind = "table"
      /\ \A dr, d : dr.kind # "none" => AfterDraft(NoOutcome, dr, d) = "verify"
      /\ \A d : d.kind = "answer" => AfterDraft(NoOutcome, NoDraft, d) = "draft"
      /\ AfterDraft(NoOutcome, NoDraft, NoDecision) = "route"
      /\ \A dr, d : AfterDraft(Refusal("placeholders"), dr, d) = "finalize"
      /\ Refusal("placeholders").cause = "placeholders"
  BY NoOutcomeCause
     DEF Markdown, Table, AfterDraft, NoDraft, NoDecision, Refusal, NoOutcome
<1>3. CASE DraftReady \/ DraftPassagesInline \/ DraftFallbackTable
  <2>1. /\ pc' = "verify" /\ decision.shape = "prose" /\ draft'.kind # "none"
        /\ replies' = replies + 1
        /\ UNCHANGED <<iterations, decision, draft_attempts, verify_attempt, judge_calls_total,
                       outcome>>
    BY <1>1, <1>2, <1>3
       DEF DraftReady, DraftPassagesInline, DraftFallbackTable, Prose, Goto, loop, ladder
  <2>2. Place'
    BY <1>0, <1>1, <2>1 DEF Drafting, Place
  <2>3. Budget'
    BY <1>0, <1>1, <2>1, Numbers, NoOutcomeCause DEF Drafting, Budget, Bound, Nodes
  <2>. QED  BY <2>2, <2>3
<1>4. CASE DraftRetry
  <2>1. /\ pc' = "draft" /\ decision.shape = "prose"
        /\ replies' = replies + 1 /\ draft_attempts' = draft_attempts + 1
        /\ draft_attempts + 1 <= MaxDraftRetries
        /\ UNCHANGED <<draft, iterations, decision, verify_attempt, judge_calls_total, outcome>>
    BY <1>0, <1>1, <1>2, <1>4, Numbers
       DEF Drafting, DraftRetry, Spent, Prose, Goto, loop, ladder
  <2>2. Place'
    BY <1>0, <1>1, <2>1 DEF Drafting, Place
  <2>3. Budget'
    BY <1>0, <1>1, <2>1, Numbers, NoOutcomeCause DEF Drafting, Budget, Bound, Nodes
  <2>. QED  BY <2>2, <2>3
<1>5. CASE DraftRefusesUnresolved
  <2>1. /\ pc' = "finalize" /\ outcome'.cause = "placeholders"
        /\ replies' = replies + 1 /\ draft_attempts + 1 > MaxDraftRetries
        /\ UNCHANGED <<iterations, decision, draft_attempts, verify_attempt, judge_calls_total>>
    BY <1>2, <1>5 DEF DraftRefusesUnresolved, Spent, Prose, Goto, loop, ladder
  <2>2. Place'
    BY <2>1 DEF Place
  <2>3. Budget'
    BY <1>0, <2>1, Numbers DEF Drafting, Budget, Bound, Nodes
  <2>. QED  BY <2>2, <2>3
<1>6. CASE DraftTableNudge
  <2>1. /\ pc' = "route" /\ decision' = NoDecision /\ iterations' = iterations + 1 /\ Untouched
        /\ UNCHANGED <<draft, draft_attempts, replies, verify_attempt, judge_calls_total, outcome>>
    BY <1>0, <1>1, <1>2, <1>6
       DEF Drafting, Place, DraftTableNudge, TableDraft, Goto, drafting, ladder
  <2>2. Place'
    BY <1>0, <1>1, <2>1 DEF Place, Untouched
  <2>3. Budget'
    BY <1>0, <1>1, <2>1, Numbers, NoOutcomeCause DEF Drafting, Budget, Bound, Nodes, Untouched
  <2>. QED  BY <2>2, <2>3
<1>7. CASE DraftTableReady
  <2>1. /\ pc' = "verify" /\ decision.shape = "table" /\ draft'.kind = "table" /\ Untouched
        /\ UNCHANGED <<iterations, decision, draft_attempts, replies, verify_attempt,
                       judge_calls_total, outcome>>
    BY <1>0, <1>1, <1>2, <1>7
       DEF Drafting, Place, DraftTableReady, TableDraft, Goto, loop, ladder
  <2>2. Place'
    BY <1>0, <1>1, <2>1 DEF Place
  <2>3. Budget'
    BY <1>0, <1>1, <2>1, Numbers, NoOutcomeCause DEF Drafting, Budget, Bound, Nodes, Untouched
  <2>. QED  BY <2>2, <2>3
<1>. QED  BY <1>3, <1>4, <1>5, <1>6, <1>7 DEF Draft

(* One more ladder attempt costs at most a turn's judge calls.             *)
LEMMA JudgeBudget ==
    ASSUME NEW v \in Nat, NEW total \in Nat,
           NEW judged \in 0..MaxJudgeCalls, JudgedWithin(total, v)
    PROVE  JudgedWithin(total + judged, v + 1)
<1>1. MaxJudgeCalls * v \in Nat /\ MaxJudgeCalls * (v + 1) = MaxJudgeCalls * v + MaxJudgeCalls
  BY TurnAssumption
<1>. QED  BY <1>1, TurnAssumption DEF JudgedWithin

(* A redraft is asked of a draft that claimed something, in prose, and     *)
(* while redrafts are left.                                                *)
LEMMA RetryOfProse ==
    ASSUME TypeOK, NEW x \in Examinations, Disposition(x) = "retry"
    PROVE  draft.kind # "table" /\ verify_attempt + 1 <= MaxRegenerateRetries
<1>1. x.unmatched # 0 /\ verify_attempt + 1 <= MaxRegenerateRetries
  BY DEF Disposition, Decide
<1>2. x.unmatched \in Nat /\ x.unmatched <= x.claims
  BY TurnAssumption DEF Examinations
<1>3. draft.kind = "table" => x.claims = 0
  BY DEF Examinations
<1>. QED  BY <1>1, <1>2, <1>3

LEMMA VerifyBudget == ASSUME BInv, Verify PROVE Place' /\ Budget'
<1>0. /\ TypeOK /\ Place /\ Budget /\ pc = "verify" /\ outcome = NoOutcome
      /\ decision.kind = "answer"
      /\ supersteps' = supersteps + 1
  BY DEF BInv, Place, Verify, VerifyRetry, VerifyRefuses, VerifyContentFree, VerifyAnswers, Goto
<1>1. PICK x \in Examinations :
         RecordAttempt(x) /\ (Disposition(x) = "retry" \/ ~VerifyRetry)
  BY DEF Verify, VerifyRetry, VerifyRefuses, VerifyContentFree, VerifyAnswers
<1>2. /\ x.judged \in 0..MaxJudgeCalls
      /\ verify_attempt' = verify_attempt + 1
      /\ judge_calls_total' = judge_calls_total + x.judged
  BY <1>1 DEF Examinations, RecordAttempt
<1>3. JudgedWithin(judge_calls_total', verify_attempt')
  BY <1>0, <1>2, Numbers, JudgeBudget DEF Budget
<1>4. CASE VerifyRetry
  <2>1. draft.kind # "table" /\ verify_attempt + 1 <= MaxRegenerateRetries
    BY <1>0, <1>1, <1>4, RetryOfProse
  <2>2. decision.shape = "prose"
    BY <1>0, <2>1 DEF Place, TypeOK, Decision
  <2>3. /\ pc' = "draft" /\ draft' = NoDraft
        /\ UNCHANGED <<iterations, decision, draft_attempts, replies, outcome>>
    BY <1>0, <1>4, NoOutcomeCause DEF VerifyRetry, AfterVerify, Goto, loop
  <2>4. Place'
    BY <1>0, <2>2, <2>3 DEF Place
  <2>5. Budget'
    BY <1>0, <1>2, <1>3, <2>1, <2>2, <2>3, Numbers, NoOutcomeCause
       DEF Budget, Bound, Nodes
  <2>. QED  BY <2>4, <2>5
<1>5. CASE VerifyRefuses \/ VerifyContentFree \/ VerifyAnswers
  <2>1. /\ pc' = "finalize" /\ outcome'.cause \notin {"placeholders", "budget"}
        /\ UNCHANGED <<iterations, draft_attempts, replies>>
    <3>1. /\ \A cause : Refusal(cause).kind = "refuse" /\ Refusal(cause).cause = cause
          /\ \A b, v : Answer(b, v).kind = "answer" /\ Answer(b, v).cause = "none"
      BY DEF Refusal, Answer, NoOutcome
    <3>2. /\ outcome'.kind # "none" /\ outcome'.cause \notin {"placeholders", "budget"}
          /\ pc' = AfterVerify(outcome')
      BY <1>5, <3>1 DEF VerifyRefuses, VerifyContentFree, VerifyAnswers, Goto
    <3>. QED  BY <1>5, <3>2
              DEF VerifyRefuses, VerifyContentFree, VerifyAnswers, AfterVerify, loop, drafting
  <2>2. Place'
    BY <2>1 DEF Place
  <2>3. Budget'
    BY <1>0, <1>2, <1>3, <2>1, Numbers DEF Budget, Bound, Nodes
  <2>. QED  BY <2>2, <2>3
<1>. QED  BY <1>4, <1>5 DEF Verify

(* finalize, summarize and a raise call nobody: only the step is counted.  *)
LEMMA EndBudget ==
    ASSUME BInv, Finalize \/ Summarize \/ Raise
    PROVE  Place' /\ Budget'
<1>0. TypeOK /\ Place /\ Budget
  BY DEF BInv
<1>1. UNCHANGED <<iterations, draft_attempts, replies, verify_attempt, judge_calls_total>>
  BY DEF Finalize, Summarize, SummarizeNotDue, SummarizeFold, SummarizeFails, Raise,
         loop, drafting, ladder
<1>2. CASE Finalize
  <2>1. /\ pc = "finalize" /\ pc' = "summarize" /\ supersteps' = supersteps + 1
        /\ outcome'.cause \in {outcome.cause, "router", "unreachable", "none"}
    <3>1. \A cause : Refusal(cause).cause = cause
      BY DEF Refusal, NoOutcome
    <3>2. FinalOutcome.cause \in {outcome.cause, "router", "unreachable", "none"}
      BY <3>1 DEF FinalOutcome, NoOutcome
    <3>. QED  BY <1>2, <3>2 DEF Finalize, Goto
  <2>. QED  BY <1>0, <1>1, <2>1, Numbers DEF Place, Budget, Bound, Nodes
<1>3. CASE Summarize
  <2>1. pc = "summarize" /\ pc' = "end" /\ supersteps' = supersteps + 1 /\ UNCHANGED outcome
    BY <1>3 DEF Summarize, SummarizeNotDue, SummarizeFold, SummarizeFails, Goto
  <2>. QED  BY <1>0, <1>1, <2>1, Numbers DEF Place, Budget, Bound, Nodes
<1>4. CASE Raise
  <2>1. pc \in Nodes /\ pc' = "raised" /\ UNCHANGED <<supersteps, outcome>>
    BY <1>4 DEF Raise
  <2>. QED  BY <1>0, <1>1, <2>1, Numbers DEF Place, Budget, Bound, Nodes
<1>. QED  BY <1>2, <1>3, <1>4

LEMMA StepBInv == BInv /\ [Next]_vars => BInv'
<1>. SUFFICES ASSUME BInv, [Next]_vars PROVE BInv'
  OBVIOUS
<1>1. TypeOK /\ TypeOK'
  BY StepTypeOK DEF BInv
<1>2. ASSUME NEW settings \in Contexts, Begin(settings) PROVE Place' /\ Budget'
  BY <1>1, <1>2, BeginBudget
<1>3. CASE Step \/ Raise
  <2>1. Place' /\ Budget'
    BY <1>3, RouteBudget, ActBudget, DraftBudget, VerifyBudget, EndBudget DEF Step
  <2>. QED  BY <1>1, <2>1 DEF BInv
<1>4. CASE UNCHANGED vars
  <2>1. Place' /\ Budget'
    BY <1>4 DEF BInv, vars, control, loop, drafting, ladder, Place, Budget, Untouched, Nodes
  <2>. QED  BY <1>1, <2>1 DEF BInv
<1>. QED  BY <1>1, <1>2, <1>3, <1>4 DEF Next, Rest, BInv

(* The budgets bound every turn, whatever the model and the tools answer:  *)
(* the router's iterations, the drafter's replies, the ladder's attempts,  *)
(* the judge's calls and the graph's supersteps; and a refusal for a spent *)
(* budget comes from a turn that spent it.                                 *)
THEOREM TurnBudgetHolds == Spec => []TurnBudget
<1>1. BInv => TurnBudget
  <2>. SUFFICES ASSUME BInv PROVE TurnBudget
    OBVIOUS
  <2>1. TypeOK /\ Budget /\ pc \in Nodes \cup {"end", "raised"}
    BY DEF BInv, TypeOK
  <2>2. supersteps <= Bound + 4
    BY <2>1, Numbers DEF Budget, Bound, Nodes
  <2>. QED  BY <2>1, <2>2, Numbers DEF Budget, Bound, TurnBudget, JudgedWithin
<1>2. Init => BInv
  BY InitTypeOK, InitBInv DEF BInv
<1>. QED  BY <1>1, <1>2, StepBInv, PTL DEF Spec
-------------------------------------------------------------------------------
(***************************************************************************)
(* What the turn graph promises of its answers: the ladder of attempts     *)
(* behind them, the verdict beside them, and the transcript and evidence   *)
(* numbering the router chose its tools with.                              *)
(***************************************************************************)
(* The text in hand: a draft keeps the spans and the raw reply it was made *)
(* of, and feedback is only ever about the reply the drafter is shown.     *)
Texts ==
    /\ draft.kind = "markdown" => draft.reply = injected_spans /\ draft.reply = draft_raw
    /\ draft.kind = "table" => draft.reply = 0 /\ draft.index \in TableEvidence
    /\ pc = "verify" /\ draft.kind = "markdown" => draft.reply = replies /\ replies > 0
    /\ pc = "verify" /\ draft.kind = "table" /\ decision.shape = "prose" => replies > 0
    /\ pc = "draft" /\ draft_feedback.from # "none" =>
          draft_raw > 0 /\ draft_feedback.reply = draft_raw
    /\ pc \in {"route", "act"} => draft_feedback = NoFeedback
    /\ pc = "draft" /\ decision.shape = "table" => draft_feedback = NoFeedback

(* The attempts so far ...                                                 *)
Ladder ==
    /\ Len(verifier_attempts) = verify_attempt
    /\ \A n \in DOMAIN verifier_attempts :
          /\ verifier_attempts[n].attempt = n
          /\ verifier_attempts[n].seen = Len(evidence)
          /\ n < verify_attempt => verifier_attempts[n].unmatched > 0
          /\ \A m \in 1..(n - 1) : verifier_attempts[m].of.reply # verifier_attempts[n].of.reply

(* ... which, while there is a draft to come, all asked for one, each on   *)
(* an earlier reply than the next.                                         *)
Redrafting ==
    \A n \in DOMAIN verifier_attempts :
       /\ verifier_attempts[n].unmatched > 0
       /\ verifier_attempts[n].of.reply > 0

Retried ==
    /\ pc \in {"draft", "verify"} => Redrafting
    /\ pc = "draft" => \A n \in DOMAIN verifier_attempts : verifier_attempts[n].of.reply <= replies
    /\ pc = "verify" => \A n \in DOMAIN verifier_attempts : verifier_attempts[n].of.reply < replies

(* The verdict, once there is one, is the ladder's on the last attempt,    *)
(* and the outcome is what the ladder made of that attempt's draft.        *)
Undecided ==
    /\ verdict = NoVerdict
    /\ "fail" \notin verifier_plausibility
    /\ outcome.kind # "answer"
    /\ outcome.cause \notin {"verifier", "contentfree", "unreachable"}

LastAttempt == verifier_attempts[verify_attempt]

Judged ==
    /\ verify_attempt > 0
    /\ verdict.disposition = Decide(LastAttempt.unmatched, verifier_plausibility, verify_attempt)
    /\ verdict.disposition # "retry"
    /\ verdict.mode = IF LastAttempt.of.kind = "table" THEN "table_passthrough" ELSE "prose"
    /\ verdict.reason =
          FinalReason(LastAttempt.unmatched, verifier_plausibility, verdict.disposition)
    /\ "fail" \in verifier_plausibility => verify_attempt = 1
    /\ LastAttempt.of.kind = "table" => LastAttempt.of.index \in TableEvidence
    /\ verdict.disposition = "refused" => outcome = Refusal("verifier")
    /\ verdict.disposition # "refused" =>
          outcome \in {Refusal("contentfree"), Answer(LastAttempt.of, verdict.disposition)}

Deliberating == pc \in {"route", "act", "draft", "verify"}

Story ==
    /\ Undecided \/ Judged
    /\ Deliberating => Undecided

(* What finalize and summarize leave behind.                               *)
Told ==
    /\ pc = "finalize" => outcome.kind # "none" \/ decision.kind \in {"refuse", "clarify", "escalate"}
    /\ pc \in {"summarize", "end"} /\ turn > 0 =>
          /\ history # <<>> /\ Last(history).turn = turn
          /\ outcome.kind # "none" /\ Last(history).kind = KindOf(outcome)
          /\ Last(history).contradicted <=> "anchor" \in verifier_plausibility

AInv == BInv /\ Texts /\ Ladder /\ Retried /\ Story /\ Told

LEMMA DraftFields ==
    /\ NoDraft.kind = "none" /\ NoFeedback.from = "none" /\ NoDecision.kind = "none"
    /\ NoVerdict.disposition = "none"
    /\ \A r : Markdown(r).kind = "markdown" /\ Markdown(r).reply = r
    /\ \A i : Table(i).kind = "table" /\ Table(i).reply = 0 /\ Table(i).index = i
BY DEF NoDraft, NoFeedback, NoDecision, NoVerdict, Markdown, Table

LEMMA OutcomeFields ==
    /\ NoOutcome.kind = "none" /\ NoOutcome.cause = "none"
    /\ \A cause : Refusal(cause).kind = "refuse" /\ Refusal(cause).cause = cause
    /\ \A b, v : /\ Answer(b, v).kind = "answer" /\ Answer(b, v).cause = "none"
                 /\ Answer(b, v).body = b /\ Answer(b, v).verification = v
BY DEF NoOutcome, Refusal, Answer

(* The ladder's promises read the attempts, the evidence, the verdict and  *)
(* the outcome: a node that writes none of them keeps them.                *)
LEMMA LadderKept ==
    ASSUME UNCHANGED <<ladder, evidence>>
    PROVE  /\ Ladder => Ladder'
           /\ Redrafting => Redrafting'
           /\ Undecided /\ UNCHANGED outcome => Undecided'
           /\ Judged /\ UNCHANGED outcome => Judged'
<1>1. TableEvidence' = TableEvidence
  BY DEF TableEvidence
<1>2. LastAttempt' = LastAttempt
  BY DEF LastAttempt, ladder
<1>3. Ladder => Ladder'
  BY DEF Ladder, ladder
<1>4. Redrafting => Redrafting'
  BY DEF Redrafting, ladder
<1>5. Undecided /\ UNCHANGED outcome => Undecided'
  BY DEF Undecided, ladder
<1>6. Judged /\ UNCHANGED outcome => Judged'
  BY <1>1, <1>2 DEF Judged, ladder
<1>. QED  BY <1>3, <1>4, <1>5, <1>6

(* Before the first attempt there is nothing to hold.                      *)
LEMMA NoAttemptYet ==
    ASSUME verifier_attempts = <<>>, verify_attempt = 0
    PROVE  Ladder /\ Redrafting /\ (\A n \in DOMAIN verifier_attempts : FALSE)
BY DEF Ladder, Redrafting

LEMMA UntouchedLadder ==
    ASSUME TypeOK, Ladder, Untouched
    PROVE  verifier_attempts = <<>> /\ verify_attempt = 0
BY DEF TypeOK, Ladder, Untouched

LEMMA InitAnswer == Init => Texts /\ Ladder /\ Retried /\ Story /\ Told
<1>. SUFFICES ASSUME Init PROVE Texts /\ Ladder /\ Retried /\ Story /\ Told
  OBVIOUS
<1>1. /\ pc = "end" /\ turn = 0 /\ draft = NoDraft /\ draft_feedback = NoFeedback
      /\ verify_attempt = 0 /\ verifier_attempts = <<>> /\ verifier_plausibility = {}
      /\ verdict = NoVerdict /\ outcome = NoOutcome
  BY DEF Init
<1>2. Ladder
  BY <1>1, NoAttemptYet
<1>3. Texts /\ Retried
  BY <1>1, DraftFields DEF Texts, Retried
<1>4. Story /\ Told
  BY <1>1, OutcomeFields DEF Story, Undecided, Deliberating, Told
<1>. QED  BY <1>2, <1>3, <1>4

LEMMA BeginAnswer ==
    ASSUME NEW settings \in Contexts, Begin(settings)
    PROVE  Texts' /\ Ladder' /\ Retried' /\ Story' /\ Told'
<1>1. /\ pc' = "route" /\ draft' = NoDraft /\ draft_feedback' = NoFeedback
      /\ verify_attempt' = 0 /\ verifier_attempts' = <<>> /\ verifier_plausibility' = {}
      /\ verdict' = NoVerdict /\ outcome' = NoOutcome
  BY DEF Begin, ResetDrafting, ResetLadder
<1>2. Ladder'
  BY <1>1 DEF Ladder
<1>3. Texts' /\ Retried'
  BY <1>1, DraftFields DEF Texts, Retried
<1>4. Story' /\ Told'
  BY <1>1, OutcomeFields DEF Story, Undecided, Deliberating, Told
<1>. QED  BY <1>2, <1>3, <1>4

(* The router neither drafts nor verifies: a turn it sends to the draft    *)
(* node has no attempt behind it.                                          *)
LEMMA RouteAnswer == ASSUME AInv, Route PROVE Texts' /\ Ladder' /\ Retried' /\ Story' /\ Told'
<1>0. /\ TypeOK /\ Place /\ Untouched /\ pc = "route" /\ outcome = NoOutcome
      /\ Ladder /\ Texts /\ Undecided /\ decision = NoDecision
  BY DEF AInv, BInv, Place, Story, Deliberating, Route, RouteRefusesOnBudget, RouteViolation,
         RouteTools, RouteTerminal
<1>1. UNCHANGED <<evidence, ladder, drafting>>
  BY DEF Route, RouteRefusesOnBudget, RouteViolation, RouteTools, RouteTerminal
<1>2. /\ draft' = NoDraft /\ draft_feedback' = NoFeedback
      /\ verify_attempt' = 0 /\ verifier_attempts' = <<>>
  BY <1>0, <1>1, UntouchedLadder DEF Untouched, Texts, drafting, ladder
<1>3. Ladder'
  BY <1>0, <1>1, LadderKept
<1>4. Texts' /\ Redrafting' /\ (\A n \in DOMAIN verifier_attempts' : FALSE)
  <2>1. pc' # "verify"
    BY DEF Route, RouteRefusesOnBudget, RouteViolation, RouteTools, RouteTerminal, Goto, AfterRoute
  <2>. QED  BY <1>2, <2>1, DraftFields DEF Texts, Redrafting
<1>5. Retried'
  BY <1>2, <1>4 DEF Retried
<1>6. Story' /\ Told'
  <2>1. CASE RouteRefusesOnBudget
    <3>1. outcome' = Refusal("budget") /\ pc' = "finalize"
      BY <2>1 DEF RouteRefusesOnBudget, Goto, AfterRoute, NoDecision
    <3>2. Undecided'
      BY <1>0, <1>1, <3>1, OutcomeFields DEF Undecided, ladder
    <3>. QED  BY <3>1, <3>2, OutcomeFields DEF Story, Told
  <2>2. CASE RouteViolation \/ RouteTools \/ RouteTerminal
    <3>1. UNCHANGED outcome /\ pc' = AfterRoute(decision')
      BY <1>0, <2>2 DEF RouteViolation, RouteTools, RouteTerminal, Goto
    <3>2. Undecided'
      BY <1>0, <1>1, <3>1, LadderKept
    <3>3. decision'.kind \in {"none", "tools", "answer", "refuse", "clarify", "escalate"}
      <4>1. decision' \in Decision
        BY <1>0, RouteType DEF TypeOK
      <4>. QED  BY <4>1 DEF Decision
    <3>. QED  BY <3>1, <3>2, <3>3 DEF Story, Told, AfterRoute
  <2>. QED  BY <2>1, <2>2 DEF Route
<1>. QED  BY <1>3, <1>4, <1>5, <1>6

(* Evidence is gathered before the first attempt, so it grows under none.  *)
LEMMA ActAnswer == ASSUME AInv, Act PROVE Texts' /\ Ladder' /\ Retried' /\ Story' /\ Told'
<1>0. /\ TypeOK /\ Place /\ Untouched /\ pc = "act" /\ outcome = NoOutcome
      /\ Ladder /\ Texts /\ Undecided
  BY DEF AInv, BInv, Place, Story, Deliberating, Act
<1>1. UNCHANGED <<ladder, drafting, outcome>> /\ pc' = "route"
  BY DEF Act, Goto
<1>2. /\ draft' = NoDraft /\ draft_feedback' = NoFeedback
      /\ verify_attempt' = 0 /\ verifier_attempts' = <<>>
  BY <1>0, <1>1, UntouchedLadder DEF Untouched, Texts, drafting, ladder
<1>3. Ladder'
  BY <1>2 DEF Ladder
<1>4. Texts' /\ Retried'
  BY <1>1, <1>2, DraftFields DEF Texts, Retried
<1>5. Undecided'
  BY <1>0, <1>1 DEF Undecided, ladder
<1>6. Story' /\ Told'
  BY <1>1, <1>5 DEF Story, Told
<1>. QED  BY <1>3, <1>4, <1>6

(* A reply of the drafter is newer than every attempt's.                   *)
LEMMA DraftAnswer == ASSUME AInv, Draft PROVE Texts' /\ Ladder' /\ Retried' /\ Story' /\ Told'
<1>0. /\ TypeOK /\ Place /\ pc = "draft" /\ outcome = NoOutcome /\ draft = NoDraft
      /\ decision.kind = "answer" /\ Ladder /\ Texts /\ Undecided /\ Redrafting
      /\ \A n \in DOMAIN verifier_attempts : verifier_attempts[n].of.reply <= replies
  BY DEF AInv, BInv, Place, Story, Deliberating, Retried, Draft, DraftReady, DraftRetry,
         DraftPassagesInline, DraftFallbackTable, DraftRefusesUnresolved, DraftTableNudge,
         DraftTableReady, Prose, TableDraft
<1>1. UNCHANGED <<evidence, ladder>>
  BY DEF loop, Draft, DraftReady, DraftRetry, DraftPassagesInline, DraftFallbackTable,
         DraftRefusesUnresolved, DraftTableNudge, DraftTableReady
<1>2. Ladder' /\ Redrafting'
  BY <1>0, <1>1, LadderKept
<1>3. replies \in Nat /\ TableEvidence' = TableEvidence
  BY <1>0, <1>1 DEF TypeOK, TableEvidence
<1>4. DOMAIN verifier_attempts' = DOMAIN verifier_attempts
      /\ verifier_attempts' = verifier_attempts
  BY <1>1 DEF ladder
<1>5. \A n \in DOMAIN verifier_attempts : verifier_attempts[n].of.reply \in Nat
  <2>1. \A n \in DOMAIN verifier_attempts : verifier_attempts[n] \in Attempts
    BY <1>0 DEF TypeOK
  <2>. QED  BY <2>1 DEF Attempts, Drafts
<1>6. CASE DraftReady \/ DraftPassagesInline \/ DraftFallbackTable
  <2>1. /\ replies' = replies + 1 /\ UNCHANGED <<decision, outcome, iterations>>
        /\ \/ /\ draft' = Markdown(replies') /\ draft_raw' = replies'
              /\ injected_spans' = replies'
           \/ \E i \in TableEvidence : draft' = Table(i)
    BY <1>6 DEF DraftReady, DraftPassagesInline, InlineSpans, DraftFallbackTable, IsFallback, loop
  <2>2. draft'.kind \in {"markdown", "table"} /\ pc' = "verify"
    <3>1. draft'.kind \in {"markdown", "table"}
      BY <2>1, DraftFields
    <3>2. pc' = AfterDraft(outcome, draft', decision)
      BY <1>6 DEF DraftReady, DraftPassagesInline, DraftFallbackTable, Goto
    <3>. QED  BY <1>0, <3>1, <3>2, OutcomeFields DEF AfterDraft
  <2>3. Texts'
    BY <1>3, <2>1, <2>2, DraftFields DEF Texts
  <2>4. Retried'
    BY <1>0, <1>2, <1>3, <1>4, <1>5, <2>1, <2>2 DEF Retried
  <2>5. Undecided'
    BY <1>0, <1>1, <2>1, LadderKept
  <2>6. Story' /\ Told'
    BY <2>2, <2>5 DEF Story, Told
  <2>. QED  BY <1>2, <2>3, <2>4, <2>6
<1>7. CASE DraftRetry
  <2>1. /\ replies' = replies + 1 /\ draft_raw' = replies' /\ UNCHANGED <<draft, decision, outcome>>
        /\ draft_feedback' = [from |-> "placeholders", reply |-> replies']
        /\ decision.shape = "prose" /\ pc' = AfterDraft(outcome, draft, decision)
    BY <1>7 DEF DraftRetry, Prose, Goto, loop
  <2>2. pc' = "draft"
    BY <1>0, <2>1, OutcomeFields, DraftFields DEF AfterDraft
  <2>3. Texts'
    BY <1>0, <1>3, <2>1, <2>2, DraftFields DEF Texts
  <2>4. Retried'
    BY <1>0, <1>2, <1>3, <1>4, <1>5, <2>1, <2>2 DEF Retried
  <2>5. Undecided'
    BY <1>0, <1>1, <2>1, LadderKept
  <2>6. Story' /\ Told'
    BY <2>2, <2>5 DEF Story, Told
  <2>. QED  BY <1>2, <2>3, <2>4, <2>6
<1>8. CASE DraftRefusesUnresolved
  <2>1. /\ outcome' = Refusal("placeholders") /\ UNCHANGED <<draft, decision>>
        /\ pc' = AfterDraft(outcome', draft, decision)
    BY <1>8 DEF DraftRefusesUnresolved, Goto, loop
  <2>2. pc' = "finalize"
    BY <2>1, OutcomeFields DEF AfterDraft
  <2>3. Texts' /\ Retried'
    BY <1>0, <1>2, <2>1, <2>2, DraftFields DEF Texts, Retried
  <2>4. Undecided'
    BY <1>0, <1>1, <2>1, OutcomeFields DEF Undecided, ladder
  <2>5. Story' /\ Told'
    BY <2>1, <2>2, <2>4, OutcomeFields DEF Story, Told, Deliberating
  <2>. QED  BY <1>2, <2>3, <2>5
<1>9. CASE DraftTableNudge
  <2>1. /\ decision' = NoDecision /\ UNCHANGED <<drafting, outcome>>
        /\ pc' = AfterDraft(outcome, draft, decision') /\ decision.shape = "table"
    BY <1>9 DEF DraftTableNudge, TableDraft, Goto
  <2>2. pc' = "route"
    BY <1>0, <2>1, OutcomeFields, DraftFields DEF AfterDraft
  <2>3. Texts' /\ Retried'
    BY <1>0, <1>2, <2>1, <2>2, DraftFields DEF Texts, Retried, drafting
  <2>4. Undecided'
    BY <1>0, <1>1, <2>1, LadderKept
  <2>5. Story' /\ Told'
    BY <2>2, <2>4 DEF Story, Told
  <2>. QED  BY <1>2, <2>3, <2>5
<1>10. CASE DraftTableReady
  <2>1. /\ draft' = Table(decision.index) /\ decision.index \in TableEvidence
        /\ UNCHANGED <<decision, outcome>> /\ decision.shape = "table"
        /\ pc' = AfterDraft(outcome, draft', decision)
    BY <1>10 DEF DraftTableReady, TableDraft, TableAccepted, Goto, loop
  <2>2. pc' = "verify"
    BY <1>0, <2>1, OutcomeFields, DraftFields DEF AfterDraft
  <2>3. Texts'
    BY <1>3, <2>1, <2>2, DraftFields DEF Texts
  <2>4. verifier_attempts' = <<>>
    BY <1>0, <1>4, <2>1, UntouchedLadder DEF Place
  <2>5. Retried'
    BY <1>2, <2>2, <2>4 DEF Retried
  <2>6. Undecided'
    BY <1>0, <1>1, <2>1, LadderKept
  <2>7. Story' /\ Told'
    BY <2>2, <2>6 DEF Story, Told
  <2>. QED  BY <1>2, <2>3, <2>5, <2>7
<1>. QED  BY <1>6, <1>7, <1>8, <1>9, <1>10 DEF Draft

(* The attempt recorded: the next rung, on a draft no rung below it had,   *)
(* with findings that fail only on the first one.                          *)
LEMMA NextRung ==
    ASSUME AInv, pc = "verify", NEW x \in Examinations, RecordAttempt(x), UNCHANGED evidence
    PROVE  /\ Ladder'
           /\ verify_attempt' = verify_attempt + 1
           /\ LastAttempt'.unmatched = x.unmatched /\ LastAttempt'.of = draft
           /\ verifier_plausibility' = x.plausibility
           /\ "fail" \in x.plausibility => verify_attempt = 0
           /\ x.unmatched > 0 => Redrafting' /\ draft.kind = "markdown"
           /\ \A n \in DOMAIN verifier_attempts' : verifier_attempts'[n].of.reply <= replies
<1>0. /\ TypeOK /\ Place /\ Ladder /\ Texts /\ Redrafting /\ Undecided /\ draft.kind # "none"
      /\ \A n \in DOMAIN verifier_attempts : verifier_attempts[n].of.reply < replies
  BY DEF AInv, BInv, Place, Story, Deliberating, Retried
<1>1. /\ x.claims \in Nat /\ x.unmatched \in Nat /\ x.unmatched <= x.claims
      /\ draft.kind = "table" => x.claims = 0
      /\ verify_attempt > 0 => x.plausibility \ {"anchor"} = verifier_plausibility \ {"anchor"}
  BY TurnAssumption DEF Examinations
<1>2. draft \in Drafts /\ verify_attempt \in Nat /\ replies \in Nat
      /\ verifier_attempts \in Seq(Attempts)
  BY <1>0 DEF TypeOK
<1>3. draft.reply \in Nat /\ draft.kind \in {"markdown", "table"}
  BY <1>0, <1>2 DEF Drafts
<1> DEFINE new == [attempt |-> verify_attempt + 1, claims |-> x.claims,
                   unmatched |-> x.unmatched, of |-> draft, seen |-> Len(evidence)]
<1>4. verifier_attempts' = Append(verifier_attempts, new)
      /\ verify_attempt' = verify_attempt + 1 /\ verifier_plausibility' = x.plausibility
  BY DEF RecordAttempt
<1>5. /\ new.attempt = verify_attempt + 1 /\ new.unmatched = x.unmatched
      /\ new.of = draft /\ new.seen = Len(evidence)
  OBVIOUS
<1> HIDE DEF new
<1>6. /\ Len(verifier_attempts) = verify_attempt
      /\ DOMAIN verifier_attempts = 1..verify_attempt
      /\ DOMAIN verifier_attempts' = 1..(verify_attempt + 1)
      /\ \A n \in 1..verify_attempt : verifier_attempts'[n] = verifier_attempts[n]
      /\ verifier_attempts'[verify_attempt + 1] = new
      /\ Len(verifier_attempts') = verify_attempt + 1
  BY <1>0, <1>2, <1>4 DEF Ladder
<1>7. draft.reply <= replies /\ (draft.kind = "markdown" => draft.reply = replies /\ replies > 0)
      /\ (draft.kind = "table" => draft.reply = 0)
  BY <1>0, <1>2, <1>3 DEF Texts
<1>8. \A n \in 1..verify_attempt : /\ verifier_attempts[n].of.reply > 0
                                   /\ verifier_attempts[n].of.reply < replies
                                   /\ verifier_attempts[n].of.reply \in Nat
                                   /\ verifier_attempts[n].unmatched > 0
  <2>1. \A n \in 1..verify_attempt : verifier_attempts[n] \in Attempts
    BY <1>2, <1>6
  <2>. QED  BY <1>0, <1>6, <2>1 DEF Redrafting, Attempts, Drafts
<1>9. \A n \in 1..verify_attempt : verifier_attempts[n].of.reply # draft.reply
  BY <1>2, <1>3, <1>7, <1>8
<1>10. Ladder'
  <2>1. ASSUME NEW n \in 1..(verify_attempt + 1)
        PROVE  /\ verifier_attempts'[n].attempt = n
               /\ verifier_attempts'[n].seen = Len(evidence')
               /\ n < verify_attempt' => verifier_attempts'[n].unmatched > 0
               /\ \A m \in 1..(n - 1) :
                     verifier_attempts'[m].of.reply # verifier_attempts'[n].of.reply
    <3>1. CASE n \in 1..verify_attempt
      <4>1. /\ verifier_attempts'[n] = verifier_attempts[n] /\ verifier_attempts[n].unmatched > 0
            /\ verifier_attempts[n].attempt = n /\ verifier_attempts[n].seen = Len(evidence)
        BY <1>0, <1>6, <1>8, <3>1 DEF Ladder
      <4>2. \A m \in 1..(n - 1) : verifier_attempts[m].of.reply # verifier_attempts[n].of.reply
        BY <1>0, <1>6, <3>1 DEF Ladder
      <4>3. \A m \in 1..(n - 1) : verifier_attempts'[m] = verifier_attempts[m]
        BY <1>2, <1>6, <3>1
      <4>. QED  BY <4>1, <4>2, <4>3
    <3>2. CASE n = verify_attempt + 1
      BY <1>2, <1>4, <1>5, <1>6, <1>9, <3>2
    <3>. QED  BY <1>2, <3>1, <3>2
  <2>. QED  BY <1>4, <1>6, <2>1 DEF Ladder
<1>11. LastAttempt'.unmatched = x.unmatched /\ LastAttempt'.of = draft
  BY <1>4, <1>5, <1>6 DEF LastAttempt
<1>12. "fail" \in x.plausibility => verify_attempt = 0
  BY <1>0, <1>1, <1>2 DEF Undecided
<1>13. ASSUME x.unmatched > 0 PROVE Redrafting' /\ draft.kind = "markdown"
  <2>1. draft.kind = "markdown"
    BY <1>1, <1>3, <1>13
  <2>2. ASSUME NEW n \in 1..(verify_attempt + 1)
        PROVE  verifier_attempts'[n].unmatched > 0 /\ verifier_attempts'[n].of.reply > 0
    BY <1>2, <1>5, <1>6, <1>7, <1>8, <1>13, <2>1
  <2>. QED  BY <1>6, <2>1, <2>2 DEF Redrafting
<1>14. \A n \in 1..(verify_attempt + 1) : verifier_attempts'[n].of.reply <= replies
  BY <1>2, <1>3, <1>5, <1>6, <1>7, <1>8
<1>. QED  BY <1>4, <1>6, <1>10, <1>11, <1>12, <1>13, <1>14

LEMMA VerifyAnswer == ASSUME AInv, Verify PROVE Texts' /\ Ladder' /\ Retried' /\ Story' /\ Told'
<1>0. /\ TypeOK /\ Place /\ pc = "verify" /\ outcome = NoOutcome /\ decision.kind = "answer"
      /\ Texts /\ Undecided /\ draft.kind # "none" /\ verify_attempt \in Nat /\ replies \in Nat
  BY DEF AInv, BInv, Place, Story, Deliberating, TypeOK, Verify, VerifyRetry, VerifyRefuses,
         VerifyContentFree, VerifyAnswers
<1>1. UNCHANGED loop
  BY DEF Verify, VerifyRetry, VerifyRefuses, VerifyContentFree, VerifyAnswers
<1>2. UNCHANGED evidence /\ TableEvidence' = TableEvidence
  BY <1>1 DEF loop, TableEvidence
<1>3. CASE VerifyRetry
  <2>1. PICK x \in Examinations : Disposition(x) = "retry" /\ RecordAttempt(x)
    BY <1>3 DEF VerifyRetry
  <2>2. x.unmatched > 0 /\ "fail" \notin x.plausibility
    <3>1. x.unmatched # 0 /\ x.unmatched \in Nat /\ "fail" \notin x.plausibility
      BY <2>1, TurnAssumption DEF Disposition, Decide, Fails, Examinations
    <3>. QED  BY <3>1
  <2>3. /\ draft' = NoDraft /\ draft_feedback' = [from |-> "verifier", reply |-> draft.reply]
        /\ pc' = "draft" /\ UNCHANGED <<draft_raw, replies, verdict, outcome, decision>>
    BY <1>0, <1>3, OutcomeFields DEF VerifyRetry, Goto, AfterVerify, loop
  <2>4. /\ Ladder' /\ Redrafting' /\ draft.kind = "markdown"
        /\ verifier_plausibility' = x.plausibility
        /\ \A n \in DOMAIN verifier_attempts' : verifier_attempts'[n].of.reply <= replies
    BY <1>0, <1>2, <2>1, <2>2, NextRung
  <2>5. Retried'
    BY <2>3, <2>4 DEF Retried
  <2>6. Texts'
    <3>1. draft.reply = draft_raw /\ draft_raw > 0
      BY <1>0, <2>4 DEF Texts
    <3>2. decision.shape # "table"
      BY <1>0, <2>4 DEF Place
    <3>. QED  BY <2>3, <3>1, <3>2, DraftFields DEF Texts
  <2>7. Story' /\ Told'
    BY <1>0, <2>2, <2>3, <2>4, OutcomeFields DEF Story, Undecided, Told
  <2>. QED  BY <2>4, <2>5, <2>6, <2>7
<1>4. CASE VerifyRefuses \/ VerifyContentFree \/ VerifyAnswers
  <2>1. PICK x \in Examinations :
           /\ RecordAttempt(x) /\ verdict' = FinalVerdict(x)
           /\ \/ Disposition(x) = "refused" /\ outcome' = Refusal("verifier")
              \/ /\ Disposition(x) \in {"verified", "unverified"}
                 /\ outcome' \in {Refusal("contentfree"), Answer(draft, Disposition(x))}
    BY <1>4 DEF VerifyRefuses, VerifyContentFree, VerifyAnswers
  <2>2. UNCHANGED drafting /\ pc' = "finalize" /\ outcome'.kind # "none"
    <3>1. outcome'.kind # "none"
      BY <2>1, OutcomeFields
    <3>. QED  BY <1>4, <3>1
              DEF VerifyRefuses, VerifyContentFree, VerifyAnswers, Goto, AfterVerify
  <2>3. /\ Ladder' /\ verify_attempt' = verify_attempt + 1
        /\ LastAttempt'.unmatched = x.unmatched /\ LastAttempt'.of = draft
        /\ verifier_plausibility' = x.plausibility
        /\ "fail" \in x.plausibility => verify_attempt = 0
    BY <1>0, <1>2, <2>1, NextRung
  <2>4. Texts' /\ Retried'
    <3>1. UNCHANGED <<draft, draft_raw, injected_spans>>
      BY <2>2 DEF drafting
    <3>. QED  BY <1>0, <1>2, <2>2, <3>1 DEF Texts, Retried
  <2>5. /\ verdict'.disposition = Disposition(x) /\ verdict'.mode = Mode
        /\ verdict'.reason = FinalReason(x.unmatched, x.plausibility, Disposition(x))
    BY <2>1 DEF FinalVerdict
  <2>6. Disposition(x) = Decide(x.unmatched, x.plausibility, verify_attempt + 1)
    BY DEF Disposition
  <2>7. draft.kind = "table" => draft.index \in TableEvidence
    BY <1>0 DEF Texts
  <2>8. Judged'
    <3>1. verify_attempt' > 0
      BY <1>0, <2>3
    <3>2. /\ verdict'.disposition =
              Decide(LastAttempt'.unmatched, verifier_plausibility', verify_attempt')
          /\ verdict'.disposition # "retry"
          /\ verdict'.reason =
              FinalReason(LastAttempt'.unmatched, verifier_plausibility', verdict'.disposition)
      BY <2>1, <2>3, <2>5, <2>6
    <3>3. verdict'.mode = IF LastAttempt'.of.kind = "table" THEN "table_passthrough" ELSE "prose"
      BY <2>3, <2>5 DEF Mode
    <3>4. "fail" \in verifier_plausibility' => verify_attempt' = 1
      BY <2>3
    <3>5. LastAttempt'.of.kind = "table" => LastAttempt'.of.index \in TableEvidence'
      BY <1>2, <2>3, <2>7
    <3>6. /\ verdict'.disposition = "refused" => outcome' = Refusal("verifier")
          /\ verdict'.disposition # "refused" =>
                outcome' \in {Refusal("contentfree"), Answer(LastAttempt'.of, verdict'.disposition)}
      BY <2>1, <2>3, <2>5
    <3>. QED  BY <3>1, <3>2, <3>3, <3>4, <3>5, <3>6 DEF Judged, Decide, FinalReason
  <2>9. Story' /\ Told'
    BY <2>2, <2>8 DEF Story, Told, Deliberating
  <2>. QED  BY <2>3, <2>4, <2>9
<1>. QED  BY <1>3, <1>4 DEF Verify

LEMMA FinalizeAnswer ==
    ASSUME AInv, Finalize
    PROVE  Texts' /\ Ladder' /\ Retried' /\ Story' /\ Told'
<1>0. /\ TypeOK /\ pc = "finalize" /\ pc' = "summarize" /\ Texts /\ Ladder
      /\ Undecided \/ Judged
      /\ outcome.kind # "none" \/ decision.kind \in {"refuse", "clarify", "escalate"}
  BY DEF AInv, BInv, Story, Told, Finalize, Goto
<1>1. /\ UNCHANGED <<turn, evidence, drafting, ladder>> /\ outcome' = FinalOutcome
      /\ history' = Append(history,
            [turn |-> turn, kind |-> KindOf(outcome'),
             contradicted |-> "anchor" \in verifier_plausibility])
  BY DEF Finalize, loop
<1>2. Ladder'
  BY <1>0, <1>1, LadderKept
<1>3. Texts' /\ Retried'
  <2>1. UNCHANGED <<draft, draft_raw, injected_spans>> /\ TableEvidence' = TableEvidence
    BY <1>1 DEF drafting, TableEvidence
  <2>. QED  BY <1>0, <2>1 DEF Texts, Retried
<1>4. (Undecided' \/ Judged') /\ outcome'.kind # "none"
  <2>1. CASE outcome.kind # "none"
    <3>1. UNCHANGED outcome
      BY <1>1, <2>1 DEF FinalOutcome
    <3>. QED  BY <1>0, <1>1, <2>1, <3>1, LadderKept
  <2>2. CASE outcome.kind = "none"
    <3>1. Undecided
      BY <1>0, <2>2, OutcomeFields DEF Judged
    <3>2. /\ outcome'.kind \in {"refuse", "clarify", "escalate"}
          /\ outcome'.cause \in {"none", "router"}
      BY <1>0, <1>1, <2>2, OutcomeFields DEF FinalOutcome, NoOutcome
    <3>. QED  BY <1>1, <3>1, <3>2 DEF Undecided, ladder
  <2>. QED  BY <2>1, <2>2
<1>5. Story'
  BY <1>0, <1>4 DEF Story, Deliberating
<1>6. Told'
  <2> DEFINE record == [turn |-> turn, kind |-> KindOf(outcome'),
                        contradicted |-> "anchor" \in verifier_plausibility]
  <2>1. history' = Append(history, record) /\ history \in Seq(HistoryTurns)
    BY <1>0, <1>1 DEF TypeOK
  <2>2. /\ record.turn = turn /\ record.kind = KindOf(outcome')
        /\ record.contradicted <=> "anchor" \in verifier_plausibility
    OBVIOUS
  <2> HIDE DEF record
  <2>3. history' # <<>> /\ Last(history') = record
    BY <2>1 DEF Last
  <2>4. verifier_plausibility' = verifier_plausibility /\ KindOf(outcome)' = KindOf(outcome')
    BY <1>1 DEF ladder, KindOf
  <2>. QED  BY <1>0, <1>1, <1>4, <2>2, <2>3, <2>4 DEF Told
<1>. QED  BY <1>2, <1>3, <1>5, <1>6

LEMMA EndAnswer ==
    ASSUME AInv, Summarize \/ Raise \/ UNCHANGED vars
    PROVE  Texts' /\ Ladder' /\ Retried' /\ Story' /\ Told'
<1>0. TypeOK /\ Texts /\ Ladder /\ Retried /\ Story /\ Told
  BY DEF AInv, BInv
<1>1. UNCHANGED <<turn, history, loop, drafting, ladder, outcome>>
  BY DEF Summarize, SummarizeNotDue, SummarizeFold, SummarizeFails, Raise, vars, durable
<1>2. \/ pc = "summarize" /\ pc' = "end"
      \/ pc' = "raised"
      \/ pc' = pc
  BY DEF Summarize, SummarizeNotDue, SummarizeFold, SummarizeFails, Raise, vars, control, Goto
<1>3. /\ Ladder'
      /\ Redrafting => Redrafting'
      /\ Undecided => Undecided'
      /\ Judged => Judged'
  BY <1>0, <1>1, LadderKept DEF loop
<1>4. Story'
  BY <1>0, <1>2, <1>3 DEF Story, Deliberating
<1>5. Texts'
  <2>1. UNCHANGED <<draft, draft_raw, injected_spans, replies, draft_feedback, decision>>
        /\ TableEvidence' = TableEvidence
    BY <1>1 DEF drafting, loop, TableEvidence
  <2>. QED  BY <1>0, <1>2, <2>1 DEF Texts
<1>6. Retried'
  <2>1. UNCHANGED <<verifier_attempts, replies>>
    BY <1>1 DEF ladder, drafting
  <2>. QED  BY <1>0, <1>2, <1>3, <2>1 DEF Retried
<1>7. Told'
  <2>1. UNCHANGED <<verifier_plausibility, decision>> /\ KindOf(outcome)' = KindOf(outcome)
    BY <1>1 DEF ladder, loop, KindOf
  <2>. QED  BY <1>0, <1>1, <1>2, <2>1 DEF Told
<1>. QED  BY <1>3, <1>4, <1>5, <1>6, <1>7

LEMMA StepAInv == AInv /\ [Next]_vars => AInv'
<1>. SUFFICES ASSUME AInv, [Next]_vars PROVE AInv'
  OBVIOUS
<1>1. BInv'
  BY StepBInv DEF AInv
<1>2. ASSUME NEW settings \in Contexts, Begin(settings)
      PROVE  Texts' /\ Ladder' /\ Retried' /\ Story' /\ Told'
  BY <1>2, BeginAnswer
<1>3. CASE Step
  <2>1. Texts' /\ Ladder' /\ Retried' /\ Story' /\ Told'
    BY <1>3, RouteAnswer, ActAnswer, DraftAnswer, VerifyAnswer, FinalizeAnswer, EndAnswer DEF Step
  <2>. QED  BY <1>1, <2>1 DEF AInv
<1>4. CASE Raise \/ UNCHANGED vars
  BY <1>1, <1>4, EndAnswer DEF AInv
<1>. QED  BY <1>1, <1>2, <1>3, <1>4 DEF Next, Rest, AInv

LEMMA AnswerInvariant == Spec => []AInv
<1>1. Init => AInv
  BY InitTypeOK, InitBInv, InitAnswer DEF AInv, BInv
<1>. QED  BY <1>1, StepAInv, PTL DEF Spec

(* The ladder: the attempts of a turn are numbered in order, each on a new *)
(* draft over the same evidence, only the last without unmatched claims;   *)
(* implausible evidence ends it at once; and the drafter is corrected on   *)
(* the reply it is shown.                                                  *)
THEOREM AttemptsAreALadderHolds == Spec => []AttemptsAreALadder
<1>1. AInv => AttemptsAreALadder
  <2>. SUFFICES ASSUME AInv PROVE AttemptsAreALadder
    OBVIOUS
  <2>1. Ladder /\ Texts /\ (Undecided \/ Judged)
    BY DEF AInv, Story
  <2>2. "fail" \in verifier_plausibility => verify_attempt = 1 /\ outcome.cause = "verifier"
    BY <2>1, OutcomeFields DEF Undecided, Judged, Decide, Fails
  <2>. QED  BY <2>1, <2>2 DEF Ladder, Texts, AttemptsAreALadder
<1>. QED  BY <1>1, AnswerInvariant, PTL

(* No draft skips the verifier: an answer is the draft the last attempt    *)
(* judged, over all the evidence, under the label the ladder gave it.      *)
THEOREM AnswerIsVerifiedHolds == Spec => []AnswerIsVerified
<1>1. AInv => AnswerIsVerified
  <2>. SUFFICES ASSUME AInv, outcome.kind = "answer" PROVE AnswerIsVerified
    BY DEF AnswerIsVerified
  <2>1. TypeOK /\ Ladder /\ Judged
    BY DEF AInv, BInv, Story, Undecided
  <2>2. /\ verify_attempt \in Nat /\ verify_attempt > 0 /\ Len(verifier_attempts) = verify_attempt
        /\ verifier_attempts # <<>> /\ Last(verifier_attempts) = LastAttempt
        /\ verify_attempt \in DOMAIN verifier_attempts
        /\ LastAttempt \in Attempts
    BY <2>1 DEF TypeOK, Ladder, Judged, Last, LastAttempt
  <2>3. LastAttempt.seen = Len(evidence) /\ LastAttempt.unmatched \in Nat
    BY <2>1, <2>2 DEF Ladder, LastAttempt, Attempts
  <2>4. /\ verdict.disposition # "refused"
        /\ outcome.body = LastAttempt.of /\ outcome.verification = verdict.disposition
    BY <2>1, OutcomeFields DEF Judged
  <2>5. /\ "fail" \notin verifier_plausibility
        /\ LastAttempt.unmatched > 0 =>
              verify_attempt > MaxRegenerateRetries /\ UnmatchedFinal = "unverified"
        /\ verdict.disposition = "verified" <=>
              LastAttempt.unmatched = 0 /\ Warns(verifier_plausibility) = {}
    BY <2>1, <2>2, <2>3, <2>4, LadderAssumption DEF Judged, Decide, Fails
  <2>6. Warns(verifier_plausibility) = {} <=> verifier_plausibility = {}
    BY <2>1, <2>5 DEF TypeOK, Findings, Warns
  <2>. QED  BY <2>1, <2>2, <2>3, <2>4, <2>5, <2>6 DEF AnswerIsVerified, Judged
<1>. QED  BY <1>1, AnswerInvariant, PTL

(* The verdict stored beside the outcome, and the record of the turn the   *)
(* history keeps, tell the same story as the outcome.                      *)
THEOREM VerdictAgreesWithOutcomeHolds == Spec => []VerdictAgreesWithOutcome
<1>1. AInv => VerdictAgreesWithOutcome
  <2>. SUFFICES ASSUME AInv PROVE VerdictAgreesWithOutcome
    OBVIOUS
  <2>1. TypeOK /\ Ladder /\ (Undecided \/ Judged) /\ Told
    BY DEF AInv, BInv, Story
  <2>2. CASE Undecided
    <3>1. outcome.kind # "answer" /\ outcome.cause \notin {"verifier", "contentfree", "unreachable"}
          /\ verdict.disposition = "none"
      BY <2>2, DraftFields DEF Undecided
    <3>. QED  BY <2>1, <3>1 DEF VerdictAgreesWithOutcome, Told
  <2>3. CASE Judged
    <3>1. /\ Last(verifier_attempts) = LastAttempt /\ LastAttempt.unmatched \in Nat
      <4>1. /\ verify_attempt \in Nat /\ verify_attempt > 0
            /\ Len(verifier_attempts) = verify_attempt /\ verify_attempt \in DOMAIN verifier_attempts
            /\ LastAttempt \in Attempts
        BY <2>1, <2>3 DEF TypeOK, Ladder, Judged, LastAttempt
      <4>. QED  BY <4>1 DEF Last, LastAttempt, Attempts
    <3>2. verdict.disposition \in {"verified", "unverified", "refused"}
      BY <2>3 DEF Judged, Decide
    <3>3. CASE verdict.disposition = "refused"
      <4>1. outcome.kind = "refuse" /\ outcome.cause = "verifier"
        BY <2>3, <3>3, OutcomeFields DEF Judged
      <4>2. verdict.reason = IF "fail" \in verifier_plausibility THEN "implausible"
                             ELSE "pack_refuses"
        BY <2>3, <3>3 DEF Judged, FinalReason, Fails
      <4>. QED  BY <2>1, <3>3, <4>1, <4>2 DEF VerdictAgreesWithOutcome, Told
    <3>4. CASE verdict.disposition \in {"verified", "unverified"}
      <4>1. \/ outcome.kind = "refuse" /\ outcome.cause = "contentfree"
            \/ /\ outcome.kind = "answer" /\ outcome.cause = "none"
               /\ outcome.verification = verdict.disposition
        BY <2>3, <3>4, OutcomeFields DEF Judged
      <4>2. "fail" \notin verifier_plausibility
        BY <2>3, <3>4 DEF Judged, Decide, Fails
      <4>3. verdict.disposition = "unverified" =>
               verdict.reason = IF LastAttempt.unmatched > 0 THEN "unsupported" ELSE "warning"
        BY <2>3, <3>1, <3>4, <4>2 DEF Judged, FinalReason, Decide, Fails
      <4>4. "anchor" \in verifier_plausibility => verdict.disposition = "unverified"
        BY <2>3, <3>4 DEF Judged, Decide, Warns
      <4>. QED  BY <2>1, <3>1, <3>4, <4>1, <4>2, <4>3, <4>4 DEF VerdictAgreesWithOutcome, Told
    <3>. QED  BY <3>2, <3>3, <3>4
  <2>. QED  BY <2>1, <2>2, <2>3
<1>. QED  BY <1>1, AnswerInvariant, PTL
-------------------------------------------------------------------------------
(* The transcript.  The last message of a turn that is about to act is the *)
(* echo of the calls it will make; every earlier call has its answer, and  *)
(* every answer its call; and an id of the graph's own names the step that *)
(* made it, a step behind.                                                 *)
AnsweredAt(p) ==
    scratch[p].role = "assistant" =>
        \A k \in DOMAIN scratch[p].ids :
           /\ p + k <= Len(scratch)
           /\ scratch[p + k].role = "tool"
           /\ scratch[p + k].ids = <<scratch[p].ids[k]>>

Asked(q) ==
    \E p \in DOMAIN scratch : scratch[p].role = "assistant" /\ q - p \in DOMAIN scratch[p].ids

Answers(p, step) ==
    /\ Asked(p)
    /\ Len(scratch[p].ids) = 1 /\ scratch[p].ids[1][1] <= step

Named(id, k) == id = <<iterations, k>> \/ id[1] = 0

Unique(p, q) ==
    scratch[p].ids = scratch[q].ids /\ Synthesized(scratch[p].ids[1]) => p = q

Transcript ==
    /\ pc \in {"route", "draft", "verify"} => \A p \in DOMAIN scratch : AnsweredAt(p)
    /\ pc = "act" =>
          /\ Len(scratch) > 0
          /\ scratch[Len(scratch)] = Echo(decision.selections)
          /\ \A p \in 1..(Len(scratch) - 1) : AnsweredAt(p)
          /\ \A k \in DOMAIN decision.selections : Named(decision.selections[k], k)
          /\ iterations > 0
    /\ \A p \in DOMAIN scratch : scratch[p].role = "tool" =>
          Answers(p, IF pc = "act" THEN iterations - 1 ELSE iterations)
    /\ \A p, q \in DOMAIN scratch :
          scratch[p].role = "tool" /\ scratch[q].role = "tool" => Unique(p, q)

(* The numbering: the indices shown are those of the evidence, in order.   *)
Shown(p) == scratch[p].role = "tool" /\ scratch[p].index >= 0

Numbering ==
    /\ \A p \in DOMAIN scratch : Shown(p) => scratch[p].index < Len(evidence)
    /\ \A i \in 0..(Len(evidence) - 1) : \E p \in DOMAIN scratch : Shown(p) /\ scratch[p].index = i
    /\ \A p, q \in DOMAIN scratch :
          Shown(p) /\ Shown(q) /\ p < q => scratch[p].index < scratch[q].index

TInv == BInv /\ Transcript /\ Numbering

LEMMA MessageTypes ==
    ASSUME TypeOK
    PROVE  /\ scratch \in Seq(Messages) /\ evidence \in Seq(EvidenceKinds)
           /\ Len(scratch) \in Nat /\ DOMAIN scratch = 1..Len(scratch) /\ Len(evidence) \in Nat
           /\ \A p \in DOMAIN scratch : /\ scratch[p].role \in {"user", "assistant", "tool"}
                                        /\ scratch[p].ids \in Seq(CallIds)
                                        /\ scratch[p].index \in Nat \cup {-1}
<1>1. scratch \in Seq(Messages) /\ evidence \in Seq(EvidenceKinds)
  BY DEF TypeOK
<1>2. \A p \in DOMAIN scratch : scratch[p] \in Messages
  BY <1>1
<1>. QED  BY <1>1, <1>2 DEF Messages

LEMMA AnsweredKept ==
    ASSUME TypeOK, TypeOK', Len(scratch) <= Len(scratch'),
           \A p \in DOMAIN scratch : scratch'[p] = scratch[p],
           NEW p \in DOMAIN scratch, AnsweredAt(p)
    PROVE  AnsweredAt(p)'
<1>1. scratch'[p] = scratch[p]
  OBVIOUS
<1>2. SUFFICES ASSUME scratch[p].role = "assistant", NEW k \in DOMAIN scratch[p].ids
               PROVE  /\ p + k <= Len(scratch')
                      /\ scratch'[p + k].role = "tool"
                      /\ scratch'[p + k].ids = <<scratch[p].ids[k]>>
  BY <1>1 DEF AnsweredAt
<1>3. /\ p + k <= Len(scratch) /\ scratch[p + k].role = "tool"
      /\ scratch[p + k].ids = <<scratch[p].ids[k]>>
  BY <1>2 DEF AnsweredAt
<1>4. Len(scratch) \in Nat /\ Len(scratch') \in Nat /\ p \in Nat /\ k \in Nat /\ p > 0
      /\ DOMAIN scratch = 1..Len(scratch)
  <2>1. /\ scratch[p].ids \in Seq(CallIds) /\ Len(scratch) \in Nat
        /\ DOMAIN scratch = 1..Len(scratch)
    BY MessageTypes
  <2>2. DOMAIN scratch[p].ids = 1..Len(scratch[p].ids) /\ Len(scratch[p].ids) \in Nat
    BY <2>1
  <2>3. Len(scratch') \in Nat
    BY DEF TypeOK
  <2>. QED  BY <1>2, <2>1, <2>2, <2>3
<1>5. p + k \in DOMAIN scratch
  BY <1>3, <1>4
<1>. QED  BY <1>3, <1>4, <1>5

(* A message that is no tool's answer changes no id and no index shown.    *)
LEMMA NoAnswerAdded ==
    ASSUME TypeOK, TypeOK', NEW m, m.role # "tool", scratch' = Append(scratch, m),
           UNCHANGED evidence
    PROVE  /\ Len(scratch') = Len(scratch) + 1 /\ scratch'[Len(scratch')] = m
           /\ \A p \in DOMAIN scratch : AnsweredAt(p) => AnsweredAt(p)'
           /\ \A p \in DOMAIN scratch' : scratch'[p].role = "tool" =>
                 p \in DOMAIN scratch /\ scratch'[p] = scratch[p]
           /\ \A p \in DOMAIN scratch : p \in DOMAIN scratch' /\ scratch'[p] = scratch[p]
           /\ Numbering => Numbering'
<1>1. /\ Len(scratch) \in Nat /\ DOMAIN scratch = 1..Len(scratch)
      /\ Len(scratch') = Len(scratch) + 1 /\ DOMAIN scratch' = 1..(Len(scratch) + 1)
      /\ scratch'[Len(scratch) + 1] = m
      /\ \A p \in 1..Len(scratch) : scratch'[p] = scratch[p]
  BY MessageTypes
<1>2. \A p \in DOMAIN scratch : AnsweredAt(p) => AnsweredAt(p)'
  BY <1>1, AnsweredKept
<1>3. \A p \in DOMAIN scratch' : scratch'[p].role = "tool" =>
         p \in DOMAIN scratch /\ scratch'[p] = scratch[p]
  BY <1>1
<1>4. \A p \in DOMAIN scratch : p \in DOMAIN scratch' /\ scratch'[p] = scratch[p]
  BY <1>1
<1>5. /\ \A p \in DOMAIN scratch' : Shown(p)' => p \in DOMAIN scratch /\ Shown(p)
      /\ \A p \in DOMAIN scratch : Shown(p) => Shown(p)'
  BY <1>3, <1>4 DEF Shown
<1>6. Numbering => Numbering'
  BY <1>3, <1>4, <1>5 DEF Numbering
<1>. QED  BY <1>1, <1>2, <1>3, <1>4, <1>6

(* Steps that say nothing: the node that runs next asks no more of the     *)
(* transcript than the one before did.                                     *)
LEMMA NothingSaid ==
    ASSUME TypeOK, Transcript, Numbering, UNCHANGED <<scratch, evidence>>,
           iterations' \in {iterations, iterations + 1},
           pc' # "act" \/ UNCHANGED <<pc, decision, iterations>>, pc # "act" \/ pc' \in {"act", "raised"},
           pc' \in {"route", "draft", "verify"} => pc \in {"route", "draft", "verify"}
    PROVE  Transcript' /\ Numbering'
<1>1. \A p \in DOMAIN scratch : AnsweredAt(p)' <=> AnsweredAt(p)
  BY DEF AnsweredAt
<1>2. iterations \in Nat
  BY DEF TypeOK
<1>3. \A p \in DOMAIN scratch : scratch[p].role = "tool" =>
         Answers(p, IF pc = "act" THEN iterations - 1 ELSE iterations)'
  <2>1. SUFFICES ASSUME NEW p \in DOMAIN scratch, scratch[p].role = "tool"
                 PROVE  /\ Asked(p)
                        /\ Len(scratch[p].ids) = 1
                        /\ scratch[p].ids[1][1] <= IF pc' = "act" THEN iterations' - 1 ELSE iterations'
    BY DEF Answers, Asked
  <2>2. /\ Asked(p)
        /\ Len(scratch[p].ids) = 1
        /\ scratch[p].ids[1][1] <= IF pc = "act" THEN iterations - 1 ELSE iterations
    BY <2>1 DEF Transcript, Answers
  <2>3. scratch[p].ids[1] \in Nat \X Nat
    BY <2>1, <2>2, MessageTypes DEF CallIds
  <2>. QED  BY <1>2, <2>2, <2>3
<1>4. Transcript'
  <2>1. /\ pc' \in {"route", "draft", "verify"} => \A p \in DOMAIN scratch : AnsweredAt(p)
        /\ \A p, q \in DOMAIN scratch :
              scratch[p].role = "tool" /\ scratch[q].role = "tool" => Unique(p, q)'
    BY DEF Transcript, Unique
  <2>2. pc' = "act" =>
          /\ Len(scratch) > 0
          /\ scratch[Len(scratch)] = Echo(decision'.selections)
          /\ \A p \in 1..(Len(scratch) - 1) : AnsweredAt(p)
          /\ \A k \in DOMAIN decision'.selections : Named(decision'.selections[k], k)
          /\ iterations > 0
    BY DEF Transcript
  <2>3. \A p \in 1..(Len(scratch) - 1) : p \in DOMAIN scratch
    BY MessageTypes
  <2>4. pc' = "act" => \A id, k : Named(id, k)' <=> Named(id, k)
    BY DEF Named
  <2>. QED  BY <1>1, <1>3, <2>1, <2>2, <2>3, <2>4 DEF Transcript
<1>5. Numbering'
  BY DEF Numbering, Shown
<1>. QED  BY <1>4, <1>5

LEMMA NudgeAdded ==
    ASSUME TypeOK, TypeOK', Transcript, Numbering, scratch' = Append(scratch, Nudge),
           UNCHANGED evidence, iterations' = iterations + 1, pc \in {"route", "draft"}, pc' = "route"
    PROVE  Transcript' /\ Numbering'
<1>1. Nudge.role = "user"
  BY DEF Nudge
<1>2. /\ Len(scratch') = Len(scratch) + 1
      /\ scratch'[Len(scratch')] = Nudge
      /\ \A p \in DOMAIN scratch : AnsweredAt(p) => AnsweredAt(p)'
      /\ \A p \in DOMAIN scratch' : scratch'[p].role = "tool" =>
            p \in DOMAIN scratch /\ scratch'[p] = scratch[p]
      /\ \A p \in DOMAIN scratch : p \in DOMAIN scratch' /\ scratch'[p] = scratch[p]
      /\ Numbering'
  BY <1>1, NoAnswerAdded
<1>3. /\ Len(scratch) \in Nat /\ DOMAIN scratch = 1..Len(scratch) /\ iterations \in Nat
  BY MessageTypes DEF TypeOK
<1>4. \A p \in DOMAIN scratch' : AnsweredAt(p)'
  <2>1. \A p \in DOMAIN scratch : AnsweredAt(p)'
    BY <1>2 DEF Transcript
  <2>2. ASSUME NEW p \in DOMAIN scratch', p = Len(scratch') PROVE AnsweredAt(p)'
    BY <1>1, <1>2, <2>2 DEF AnsweredAt
  <2>3. scratch' \in Seq(Messages)
    BY DEF TypeOK
  <2>4. DOMAIN scratch' = 1..(Len(scratch) + 1)
    BY <1>2, <2>3
  <2>. QED  BY <1>2, <1>3, <2>1, <2>2, <2>4
<1>5. \A p \in DOMAIN scratch' : scratch'[p].role = "tool" =>
         Answers(p, IF pc = "act" THEN iterations - 1 ELSE iterations)'
  <2>1. SUFFICES ASSUME NEW p \in DOMAIN scratch', scratch'[p].role = "tool"
                 PROVE  /\ Asked(p)'
                        /\ Len(scratch'[p].ids) = 1 /\ scratch'[p].ids[1][1] <= iterations'
    BY DEF Answers
  <2>2. /\ Len(scratch[p].ids) = 1 /\ scratch[p].ids[1][1] <= iterations
        /\ scratch'[p] = scratch[p] /\ p \in DOMAIN scratch /\ Asked(p)
    BY <1>2, <2>1 DEF Transcript, Answers
  <2>3. scratch[p].ids[1] \in Nat \X Nat
    BY <2>2, MessageTypes DEF CallIds
  <2>4. Asked(p)'
    BY <1>2, <2>2 DEF Asked
  <2>. QED  BY <1>3, <2>2, <2>3, <2>4
<1>6. \A p, q \in DOMAIN scratch' :
         scratch'[p].role = "tool" /\ scratch'[q].role = "tool" => Unique(p, q)'
  BY <1>2 DEF Transcript, Unique
<1>. QED  BY <1>2, <1>4, <1>5, <1>6 DEF Transcript

LEMMA InitTranscript == Init => Transcript /\ Numbering
BY DEF Init, Transcript, Numbering

LEMMA BeginTranscript ==
    ASSUME NEW settings \in Contexts, Begin(settings)
    PROVE  Transcript' /\ Numbering'
<1>1. pc' = "route" /\ scratch' = <<>> /\ evidence' = <<>>
  BY DEF Begin
<1>. QED  BY <1>1 DEF Transcript, Numbering

LEMMA RouteTranscript == ASSUME TInv, Route PROVE Transcript' /\ Numbering'
<1>0. /\ TypeOK /\ TypeOK' /\ pc = "route" /\ decision = NoDecision /\ iterations \in Nat
      /\ Transcript /\ Numbering
  BY RouteType DEF TInv, BInv, Place, TypeOK, Route, RouteRefusesOnBudget, RouteViolation,
         RouteTools, RouteTerminal
<1>1. CASE RouteRefusesOnBudget \/ RouteTerminal
  <2>1. UNCHANGED <<scratch, evidence>> /\ pc' = AfterRoute(decision')
    BY <1>1 DEF RouteRefusesOnBudget, RouteTerminal, Goto
  <2>2. decision'.kind \in {"answer", "refuse", "clarify", "escalate"}
    <3>1. \A k \in {"answer", "refuse", "clarify", "escalate"} : Plain(k).kind = k
      BY DEF Plain, NoDecision
    <3>2. \A i, r : TableAnswer(i, r).kind = "answer"
      BY DEF TableAnswer, NoDecision
    <3>3. [NoDecision EXCEPT !.kind = "refuse"].kind = "refuse"
      BY DEF NoDecision
    <3>4. CASE RouteRefusesOnBudget
      BY <3>3, <3>4 DEF RouteRefusesOnBudget
    <3>5. CASE RouteTerminal
      BY <3>1, <3>2, <3>5 DEF RouteTerminal, TerminalDecisions
    <3>. QED  BY <1>1, <3>4, <3>5
  <2>3. pc' \in {"draft", "finalize"}
    BY <2>1, <2>2 DEF AfterRoute
  <2>4. iterations' \in {iterations, iterations + 1}
    BY <1>1 DEF RouteRefusesOnBudget, RouteTerminal
  <2>. QED  BY <1>0, <2>1, <2>3, <2>4, NothingSaid
<1>2. CASE RouteViolation
  <2>1. /\ scratch' = Append(scratch, Nudge) /\ UNCHANGED evidence /\ pc' = "route"
        /\ iterations' = iterations + 1
    BY <1>0, <1>2 DEF RouteViolation, Goto, AfterRoute, NoDecision
  <2>. QED  BY <1>0, <2>1, NudgeAdded
<1>3. CASE RouteTools
  <2>a. PICK n \in 1..MaxCalls, all \in ProviderIds :
           /\ decision' = ToolsDecision(WithCallIds(SubSeq(all, 1, n)))
           /\ scratch' = Append(scratch, Echo(WithCallIds(SubSeq(all, 1, n))))
    BY <1>3 DEF RouteTools
  <2>b. n \in Nat /\ SubSeq(all, 1, n) \in [1..n -> Nat]
    BY FirstIds
  <2>1. PICK sent \in [1..n -> Nat] :
           /\ decision' = ToolsDecision(WithCallIds(sent))
           /\ scratch' = Append(scratch, Echo(WithCallIds(sent)))
    BY <2>a, <2>b
  <2>2. /\ UNCHANGED evidence /\ pc' = "act" /\ iterations' = iterations + 1
    BY <1>3, <2>1 DEF RouteTools, Goto, AfterRoute, ToolsDecision, NoDecision
  <2>3. /\ decision'.selections = WithCallIds(sent) /\ Echo(WithCallIds(sent)).role = "assistant"
        /\ \A k \in 1..n : \/ WithCallIds(sent)[k] = <<iterations', k>>
                          \/ WithCallIds(sent)[k][1] = 0
        /\ DOMAIN WithCallIds(sent) = 1..n
    <3>1. /\ decision'.selections = WithCallIds(sent) /\ Echo(WithCallIds(sent)).role = "assistant"
      BY <2>1 DEF ToolsDecision, NoDecision, Echo
    <3>2. n \in Nat
      BY TurnAssumption
    <3>3. /\ \A k \in 1..n : \/ WithCallIds(sent)[k] = <<iterations', k>>
                            \/ WithCallIds(sent)[k][1] = 0
          /\ DOMAIN WithCallIds(sent) = 1..n
      BY <1>0, <2>2, <3>2, CallIdTypes
    <3>. QED  BY <3>1, <3>3
  <2>4. /\ Len(scratch') = Len(scratch) + 1
        /\ scratch'[Len(scratch')] = Echo(decision'.selections)
        /\ \A p \in DOMAIN scratch : AnsweredAt(p) => AnsweredAt(p)'
        /\ \A p \in DOMAIN scratch' : scratch'[p].role = "tool" =>
              p \in DOMAIN scratch /\ scratch'[p] = scratch[p]
        /\ \A p \in DOMAIN scratch : p \in DOMAIN scratch' /\ scratch'[p] = scratch[p]
        /\ Numbering'
    BY <1>0, <2>1, <2>2, <2>3, NoAnswerAdded
  <2>5. Len(scratch) \in Nat /\ DOMAIN scratch = 1..Len(scratch)
    BY <1>0, MessageTypes
  <2>6. \A p \in DOMAIN scratch : AnsweredAt(p)'
    BY <1>0, <2>4 DEF Transcript
  <2>7. \A p \in DOMAIN scratch' : scratch'[p].role = "tool" =>
           Answers(p, IF pc = "act" THEN iterations - 1 ELSE iterations)'
    BY <1>0, <2>2, <2>4 DEF Transcript, Answers, Asked
  <2>8. /\ Len(scratch') > 0 /\ \A p \in 1..(Len(scratch') - 1) : AnsweredAt(p)'
        /\ \A k \in DOMAIN decision'.selections :
              decision'.selections[k] = <<iterations', k>> \/ decision'.selections[k][1] = 0
        /\ iterations' > 0
    BY <1>0, <2>2, <2>3, <2>4, <2>5, <2>6
  <2>9. \A p, q \in DOMAIN scratch' :
           scratch'[p].role = "tool" /\ scratch'[q].role = "tool" => Unique(p, q)'
    BY <1>0, <2>4 DEF Transcript, Unique
  <2>. QED  BY <2>2, <2>4, <2>7, <2>8, <2>9 DEF Transcript, Named
<1>. QED  BY <1>1, <1>2, <1>3 DEF Route

(* The calls that name a tool, counted in order, number the invocations    *)
(* from 0 with none left out: an injection into as many numbers as there   *)
(* are such calls takes every one of them.                                 *)
Rank(unknown, k) == Cardinality({j \in 1..(k - 1) : j \notin unknown})

LEMMA RanksNumberTheCalls ==
    ASSUME NEW n \in Nat, NEW unknown \in SUBSET (1..n)
    PROVE  /\ n - Cardinality(unknown) \in Nat
           /\ \A k \in (1..n) \ unknown : Rank(unknown, k) \in 0..(n - Cardinality(unknown) - 1)
           /\ \A k, l \in (1..n) \ unknown : k < l => Rank(unknown, k) < Rank(unknown, l)
           /\ \A r \in 0..(n - Cardinality(unknown) - 1) :
                 \E k \in (1..n) \ unknown : Rank(unknown, k) = r
<1> DEFINE known == (1..n) \ unknown
           below(k) == {j \in 1..(k - 1) : j \notin unknown}
<1>1. /\ IsFiniteSet(known) /\ Cardinality(known) = n - Cardinality(unknown)
      /\ Cardinality(known) \in Nat
  <2>1. IsFiniteSet(1..n) /\ Cardinality(1..n) = n
    BY FS_Interval
  <2>2. (1..n) \cap unknown = unknown
    OBVIOUS
  <2>3. IsFiniteSet(known) /\ Cardinality(known) = Cardinality(1..n) - Cardinality((1..n) \cap unknown)
    BY <2>1, FS_Difference
  <2>. QED  BY <2>1, <2>2, <2>3, FS_CardinalityType
<1> DEFINE c == Cardinality(known)
<1>2. ASSUME NEW k \in known
      PROVE  /\ below(k) \cup {k} \subseteq known /\ IsFiniteSet(below(k) \cup {k})
             /\ Cardinality(below(k)) \in Nat
             /\ Cardinality(below(k) \cup {k}) = Cardinality(below(k)) + 1
  <2>1. below(k) \cup {k} \subseteq known /\ k \notin below(k)
    OBVIOUS
  <2>2. below(k) \in SUBSET known /\ (below(k) \cup {k}) \in SUBSET known
    BY <2>1
  <2> HIDE DEF below
  <2>3. IsFiniteSet(below(k)) /\ IsFiniteSet(below(k) \cup {k})
    BY <1>1, <2>2, FS_Subset
  <2>. QED  BY <2>1, <2>3, FS_AddElement, FS_CardinalityType
<1>3. ASSUME NEW k \in known
      PROVE  Cardinality(below(k)) \in 0..(c - 1)
  <2>1. Cardinality(below(k) \cup {k}) <= c
    BY <1>1, <1>2, FS_Subset
  <2>2. Cardinality(below(k) \cup {k}) = Cardinality(below(k)) + 1 /\ Cardinality(below(k)) \in Nat
    BY <1>2
  <2> HIDE DEF c
  <2>3. c \in Nat
    BY <1>1 DEF c
  <2>. QED  BY <2>1, <2>2, <2>3
<1>4. ASSUME NEW k \in known, NEW l \in known, k < l
      PROVE  Cardinality(below(k)) < Cardinality(below(l))
  <2>1. (below(k) \cup {k}) \in SUBSET below(l)
    BY <1>4
  <2>2. IsFiniteSet(below(l)) /\ Cardinality(below(l)) \in Nat
    <3>1. below(l) \in SUBSET known
      OBVIOUS
    <3>. QED  BY <1>1, <1>2, <3>1, FS_Subset
  <2>3. Cardinality(below(k) \cup {k}) <= Cardinality(below(l))
    BY <2>1, <2>2, FS_Subset
  <2> DEFINE a == Cardinality(below(k))
             b == Cardinality(below(l))
             ab == Cardinality(below(k) \cup {k})
  <2>4. a \in Nat /\ ab = a + 1
    BY <1>2
  <2>5. b \in Nat /\ ab <= b
    BY <2>2, <2>3
  <2> HIDE DEF a, b, ab
  <2>6. a < b
    BY <2>4, <2>5
  <2>. QED  BY <2>6 DEF a, b
<1>5. ASSUME NEW r \in 0..(c - 1)
      PROVE  \E k \in known : Cardinality(below(k)) = r
  <2> DEFINE f == [k \in known |-> Cardinality(below(k))]
  <2>1. f \in [known -> 0..(c - 1)]
    BY <1>3
  <2>2. ASSUME NEW k \in known, NEW l \in known, f[k] = f[l] PROVE k = l
    <3>1. Cardinality(below(k)) = Cardinality(below(l))
      BY <2>2
    <3> DEFINE a == Cardinality(below(k))
               b == Cardinality(below(l))
    <3>2. a \in Nat /\ a = b
      BY <1>2, <3>1
    <3>3. (k < l => a < b) /\ (l < k => b < a)
      BY <1>4
    <3> HIDE DEF a, b
    <3>4. k \in Nat /\ l \in Nat
      OBVIOUS
    <3>. QED  BY <3>2, <3>3, <3>4
  <2>3. f \in Injection(known, 0..(c - 1))
    BY <2>1, <2>2 DEF Injection, IsInjective
  <2>4. IsFiniteSet(0..(c - 1)) /\ Cardinality(0..(c - 1)) = c
    <3>1. c \in Nat
      BY <1>1
    <3> HIDE DEF c
    <3>2. c - 1 \in Int /\ (0 > c - 1 => c = 0)
      BY <3>1
    <3>. QED  BY <3>1, <3>2, FS_Interval
  <2>5. f \in Surjection(known, 0..(c - 1))
    BY <1>1, <2>3, <2>4, FS_Injection
  <2>6. \E k \in known : f[k] = r
    BY <2>5 DEF Surjection
  <2>. QED  BY <2>6
<1>. QED  BY <1>1, <1>3, <1>4, <1>5 DEF Rank

(* What act appends: an answer to every call, in order, the invocations'   *)
(* numbered on from the evidence there is.                                 *)
LEMMA JoinedLength ==
    ASSUME NEW S, NEW s \in Seq(S), NEW t \in Seq(S)
    PROVE  Len(s \o t) = Len(s) + Len(t)
OBVIOUS

LEMMA ToolMessageFields ==
    \A calls, unknown, k :
       /\ ToolMessage(calls, unknown, k).role = "tool"
       /\ ToolMessage(calls, unknown, k).ids = <<calls[k]>>
       /\ k \in unknown => ToolMessage(calls, unknown, k).index = -1
       /\ k \notin unknown =>
             ToolMessage(calls, unknown, k).index = Len(evidence) + Rank(unknown, k)
<1>1. \A unknown, k : EvidenceIndex(unknown, k) = Len(evidence) + Rank(unknown, k)
  BY DEF EvidenceIndex, Rank
<1>. QED  BY <1>1 DEF ToolMessage

LEMMA Appended ==
    ASSUME TypeOK, NEW unknown \in SUBSET (DOMAIN decision.selections),
           NEW invocations \in
               [1..(Len(decision.selections) - Cardinality(unknown)) -> EvidenceKinds],
           evidence' = evidence \o invocations,
           scratch' = scratch \o ToolResults(decision.selections, unknown)
    PROVE  LET calls == decision.selections
           IN  /\ Len(calls) \in Nat /\ unknown \in SUBSET (1..Len(calls))
               /\ Len(evidence') = Len(evidence) + (Len(calls) - Cardinality(unknown))
               /\ DOMAIN scratch' = 1..(Len(scratch) + Len(calls))
               /\ Len(scratch') = Len(scratch) + Len(calls)
               /\ \A p \in DOMAIN scratch : p \in DOMAIN scratch' /\ scratch'[p] = scratch[p]
               /\ \A k \in 1..Len(calls) :
                     scratch'[Len(scratch) + k] = ToolMessage(calls, unknown, k)
<1> DEFINE calls == decision.selections
           R == ToolResults(calls, unknown)
<1>1. calls \in Seq(CallIds) /\ Len(calls) \in Nat /\ DOMAIN calls = 1..Len(calls)
  BY DEF TypeOK, Decision
<1>2. R \in Seq(Messages) /\ Len(calls) - Cardinality(unknown) \in Nat
  BY <1>1, ToolResultTypes
<1>3. DOMAIN R = 1..Len(calls) /\ \A k \in 1..Len(calls) : R[k] = ToolMessage(calls, unknown, k)
  BY <1>1 DEF ToolResults
<1>4. Len(R) = Len(calls)
  BY <1>1, <1>2, <1>3
<1>5. invocations \in Seq(EvidenceKinds) /\ Len(invocations) = Len(calls) - Cardinality(unknown)
  <2>1. invocations \in Seq(EvidenceKinds)
    BY <1>2, FunctionsAreSequences
  <2> DEFINE m == Len(calls) - Cardinality(unknown)
  <2>2. m \in Nat /\ DOMAIN invocations = 1..m
    BY <1>2
  <2> HIDE DEF m
  <2>3. Len(invocations) = m
    BY <2>1, <2>2
  <2>. QED  BY <2>1, <2>3 DEF m
<1>6. Len(evidence') = Len(evidence) + Len(invocations)
  <2>1. evidence \in Seq(EvidenceKinds)
    BY DEF TypeOK
  <2>. QED  BY <1>5, <2>1, JoinedLength
<1> HIDE DEF R
<1>7. /\ DOMAIN scratch' = 1..(Len(scratch) + Len(R)) /\ Len(scratch') = Len(scratch) + Len(R)
      /\ \A p \in 1..Len(scratch) : scratch'[p] = scratch[p]
      /\ \A k \in 1..Len(R) : scratch'[Len(scratch) + k] = R[k]
  <2>1. scratch' = scratch \o R
    BY DEF R
  <2>. QED  BY <1>2, <2>1, MessageTypes
<1>8. \A p \in DOMAIN scratch : p \in 1..Len(scratch) /\ p \in 1..(Len(scratch) + Len(calls))
  BY <1>1, MessageTypes
<1>. QED  BY <1>1, <1>3, <1>4, <1>5, <1>6, <1>7, <1>8

LEMMA ActTranscript == ASSUME TInv, Act PROVE Transcript' /\ Numbering'
<1>0. /\ TypeOK /\ TypeOK' /\ pc = "act" /\ pc' = "route" /\ iterations' = iterations
      /\ Transcript /\ Numbering
  BY ActType DEF TInv, BInv, Act, Goto
<1> DEFINE calls == decision.selections
           n == Len(calls)
           old == Len(scratch)
<1>1. PICK unknown \in SUBSET (DOMAIN calls) :
         /\ \E invocations \in [1..(n - Cardinality(unknown)) -> EvidenceKinds] :
               evidence' = evidence \o invocations
         /\ scratch' = scratch \o ToolResults(calls, unknown)
  BY DEF Act
<1> DEFINE c == n - Cardinality(unknown)
           size == Len(evidence)
           rank(k) == Rank(unknown, k)
<1>2. /\ n \in Nat /\ unknown \in SUBSET (1..n)
      /\ Len(evidence') = size + c
      /\ DOMAIN scratch' = 1..(old + n) /\ Len(scratch') = old + n
      /\ \A p \in DOMAIN scratch : p \in DOMAIN scratch' /\ scratch'[p] = scratch[p]
      /\ \A k \in 1..n : scratch'[old + k] = ToolMessage(calls, unknown, k)
  BY <1>0, <1>1, Appended
<1>3. /\ old \in Nat /\ size \in Nat /\ DOMAIN scratch = 1..old /\ iterations \in Nat
      /\ \A p \in DOMAIN scratch : /\ scratch[p].ids \in Seq(CallIds)
                                   /\ scratch[p].index \in Nat \cup {-1}
  BY <1>0, MessageTypes DEF TypeOK
<1>4. /\ c \in Nat
      /\ \A k \in (1..n) \ unknown : rank(k) \in 0..(c - 1)
      /\ \A k, l \in (1..n) \ unknown : k < l => rank(k) < rank(l)
      /\ \A r \in 0..(c - 1) : \E k \in (1..n) \ unknown : rank(k) = r
  <2> HIDE DEF n
  <2>1. n \in Nat /\ unknown \in SUBSET (1..n)
    BY <1>2
  <2>. QED  BY <2>1, RanksNumberTheCalls
<1>5. /\ old > 0 /\ scratch[old].role = "assistant" /\ scratch[old].ids = calls
      /\ \A p \in 1..(old - 1) : AnsweredAt(p)
      /\ \A k \in 1..n : calls[k] = <<iterations, k>> \/ calls[k][1] = 0
      /\ DOMAIN calls = 1..n
  <2>1. DOMAIN calls = 1..n
    BY <1>0 DEF TypeOK, Decision
  <2>. QED  BY <1>0, <2>1 DEF Transcript, Echo, Named
<1>6. \A k \in 1..n : /\ scratch'[old + k].role = "tool"
                      /\ scratch'[old + k].ids = <<calls[k]>>
                      /\ k \in unknown => scratch'[old + k].index = -1
                      /\ k \notin unknown => scratch'[old + k].index = size + rank(k)
  <2>1. ASSUME NEW k \in 1..n
        PROVE  /\ scratch'[old + k].role = "tool"
               /\ scratch'[old + k].ids = <<calls[k]>>
               /\ k \in unknown => scratch'[old + k].index = -1
               /\ k \notin unknown => scratch'[old + k].index = size + rank(k)
    <3>1. scratch'[old + k] = ToolMessage(calls, unknown, k)
      BY <1>2
    <3> DEFINE m == ToolMessage(calls, unknown, k)
    <3>2. /\ m.role = "tool" /\ m.ids = <<calls[k]>>
          /\ k \in unknown => m.index = -1
          /\ k \notin unknown => m.index = size + rank(k)
      BY ToolMessageFields
    <3>3. scratch'[old + k] = m
      BY <3>1
    <3> HIDE DEF old, n, calls, m
    <3>. QED  BY <3>2, <3>3
  <2>. QED  BY <2>1
<1> HIDE DEF c, rank, n, calls, old, size
<1>7. \A p \in DOMAIN scratch' : p \in DOMAIN scratch \/ \E k \in 1..n : p = old + k
  <2>1. ASSUME NEW p \in 1..(old + n), ~(p \in 1..old)
        PROVE  \E k \in 1..n : p = old + k
    <3>1. p - old \in 1..n /\ p = old + (p - old)
      BY <1>2, <1>3, <2>1
    <3>. QED  BY <3>1
  <2>. QED  BY <1>2, <1>3, <2>1
<1>8. \A p \in DOMAIN scratch' : AnsweredAt(p)'
  <2>1. \A p \in 1..(old - 1) : AnsweredAt(p)'
    <3>1. Len(scratch) <= Len(scratch')
      BY <1>2, <1>3 DEF old
    <3>2. \A p \in 1..(old - 1) : p \in DOMAIN scratch
      BY <1>3
    <3>. QED  BY <1>0, <1>2, <1>5, <3>1, <3>2, AnsweredKept
  <2>2. ASSUME NEW p \in DOMAIN scratch', p = old PROVE AnsweredAt(p)'
    <3>1. scratch'[p] = scratch[old]
      BY <1>2, <1>3, <1>5, <2>2
    <3>2. SUFFICES ASSUME NEW k \in DOMAIN calls
                   PROVE  /\ p + k <= Len(scratch')
                          /\ scratch'[p + k].role = "tool"
                          /\ scratch'[p + k].ids = <<calls[k]>>
      BY <1>5, <3>1 DEF AnsweredAt
    <3>3. k \in 1..n /\ p + k = old + k
      BY <1>5, <2>2, <3>2
    <3>4. p + k <= Len(scratch')
      BY <1>2, <1>3, <3>3
    <3>5. scratch'[p + k].role = "tool" /\ scratch'[p + k].ids = <<calls[k]>>
      BY <1>6, <3>3
    <3>. QED  BY <3>3, <3>4, <3>5
  <2>3. ASSUME NEW p \in DOMAIN scratch', NEW k \in 1..n, p = old + k PROVE AnsweredAt(p)'
    BY <1>6, <2>3 DEF AnsweredAt
  <2>4. \A p \in DOMAIN scratch : p \in 1..(old - 1) \/ p = old
    BY <1>3
  <2>. QED  BY <1>7, <2>1, <2>2, <2>3, <2>4
<1>9. \A p \in DOMAIN scratch' : scratch'[p].role = "tool" =>
         Answers(p, IF pc = "act" THEN iterations - 1 ELSE iterations)'
  <2>1. ASSUME NEW p \in DOMAIN scratch, scratch[p].role = "tool"
        PROVE  /\ Asked(p)'
               /\ Len(scratch'[p].ids) = 1 /\ scratch'[p].ids[1][1] <= iterations
    <3>1. Asked(p) /\ Len(scratch[p].ids) = 1 /\ scratch[p].ids[1][1] <= iterations - 1
      BY <1>0, <2>1 DEF Transcript, Answers
    <3>2. scratch[p].ids[1] \in Nat \X Nat
      BY <1>3, <3>1 DEF CallIds
    <3>3. Asked(p)'
      BY <1>2, <3>1 DEF Asked
    <3>. QED  BY <1>2, <1>3, <3>1, <3>2, <3>3
  <2>2. ASSUME NEW k \in 1..n, NEW p \in DOMAIN scratch', p = old + k
        PROVE  /\ Asked(p)'
               /\ Len(scratch'[p].ids) = 1 /\ scratch'[p].ids[1][1] <= iterations
    <3>1. scratch'[p].ids = <<calls[k]>> /\ (calls[k] = <<iterations, k>> \/ calls[k][1] = 0)
      BY <1>5, <1>6, <2>2
    <3>2. Len(scratch'[p].ids) = 1 /\ scratch'[p].ids[1][1] <= iterations
      BY <1>3, <3>1
    <3>3. /\ old \in DOMAIN scratch' /\ p - old = k
          /\ scratch'[old].role = "assistant" /\ scratch'[old].ids = calls
      BY <1>2, <1>3, <1>5, <2>2
    <3>4. p - old \in DOMAIN scratch'[old].ids
      BY <1>5, <3>3
    <3>. QED  BY <3>2, <3>3, <3>4 DEF Asked
  <2>3. SUFFICES ASSUME NEW p \in DOMAIN scratch', scratch'[p].role = "tool"
                 PROVE  /\ Asked(p)'
                        /\ Len(scratch'[p].ids) = 1 /\ scratch'[p].ids[1][1] <= iterations
    BY <1>0 DEF Answers
  <2>. QED  BY <1>2, <1>7, <2>1, <2>2, <2>3
<1>10. ASSUME NEW p \in DOMAIN scratch', NEW q \in DOMAIN scratch',
              scratch'[p].role = "tool", scratch'[q].role = "tool"
       PROVE  Unique(p, q)'
  <2>. SUFFICES ASSUME scratch'[p].ids = scratch'[q].ids, Synthesized(scratch'[p].ids[1])
                PROVE  p = q
    BY DEF Unique
  <2>1. \A k \in 1..n, a \in DOMAIN scratch' :
           a = old + k /\ Synthesized(scratch'[a].ids[1]) => scratch'[a].ids[1] = <<iterations, k>>
    <3>1. SUFFICES ASSUME NEW k \in 1..n, Synthesized(scratch'[old + k].ids[1])
                   PROVE  scratch'[old + k].ids[1] = <<iterations, k>>
      OBVIOUS
    <3>2. scratch'[old + k].ids[1] = calls[k]
      BY <1>6
    <3>. QED  BY <1>5, <3>1, <3>2 DEF Synthesized
  <2>2. \A a \in DOMAIN scratch : scratch'[a].role = "tool" =>
           scratch'[a] = scratch[a] /\ scratch[a].ids[1][1] <= iterations - 1
    BY <1>0, <1>2 DEF Transcript, Answers
  <2>3. \A a \in DOMAIN scratch, b \in DOMAIN scratch', k \in 1..n :
           scratch'[a].role = "tool" /\ b = old + k /\ Synthesized(scratch'[b].ids[1]) =>
              scratch'[a].ids # scratch'[b].ids
    <3>1. SUFFICES ASSUME NEW a \in DOMAIN scratch, NEW b \in DOMAIN scratch', NEW k \in 1..n,
                          scratch'[a].role = "tool", b = old + k, Synthesized(scratch'[b].ids[1]),
                          scratch'[a].ids = scratch'[b].ids
                   PROVE  FALSE
      OBVIOUS
    <3>2. scratch'[b].ids[1][1] = iterations
      BY <2>1, <3>1
    <3>3. scratch'[a].ids[1][1] <= iterations - 1
      BY <2>2, <3>1
    <3>. QED  BY <1>3, <3>1, <3>2, <3>3
  <2>4. CASE p \in DOMAIN scratch /\ q \in DOMAIN scratch
    BY <1>0, <1>2, <1>10, <2>4 DEF Transcript, Unique
  <2>5. CASE p \in DOMAIN scratch /\ ~(q \in DOMAIN scratch)
    BY <1>7, <1>10, <2>3, <2>5
  <2>6. CASE ~(p \in DOMAIN scratch) /\ q \in DOMAIN scratch
    BY <1>7, <1>10, <2>3, <2>6
  <2>7. CASE ~(p \in DOMAIN scratch) /\ ~(q \in DOMAIN scratch)
    <3>1. PICK k \in 1..n : p = old + k
      BY <1>7, <2>7
    <3>2. PICK l \in 1..n : q = old + l
      BY <1>7, <2>7
    <3>3. <<iterations, k>> = <<iterations, l>>
      BY <2>1, <1>10, <3>1, <3>2
    <3>. QED  BY <3>1, <3>2, <3>3
  <2>. QED  BY <2>4, <2>5, <2>6, <2>7
<1>11. Transcript'
  BY <1>0, <1>8, <1>9, <1>10 DEF Transcript
<1>12. /\ \A p \in DOMAIN scratch : Shown(p)' <=> Shown(p)
       /\ \A p \in DOMAIN scratch', k \in 1..n :
             p = old + k => (Shown(p)' <=> k \notin unknown)
  <2>1. \A p \in DOMAIN scratch : Shown(p)' <=> Shown(p)
    BY <1>2 DEF Shown
  <2>2. ASSUME NEW p \in DOMAIN scratch', NEW k \in 1..n, p = old + k
        PROVE  Shown(p)' <=> k \notin unknown
    <3>1. CASE k \in unknown
      BY <1>6, <2>2, <3>1 DEF Shown
    <3>2. CASE k \notin unknown
      <4>1. rank(k) \in Nat
        BY <1>4, <3>2
      <4>. QED  BY <1>3, <1>6, <2>2, <3>2, <4>1 DEF Shown
    <3>. QED  BY <3>1, <3>2
  <2>. QED  BY <2>1, <2>2
<1>13. ASSUME NEW k \in 1..n, k \notin unknown
       PROVE  /\ old + k \in DOMAIN scratch' /\ scratch'[old + k].index = size + rank(k)
              /\ rank(k) \in Nat /\ rank(k) < c
  <2>1. k \in (1..n) \ unknown
    BY <1>13
  <2>2. rank(k) \in 0..(c - 1)
    BY <1>4, <2>1
  <2>3. rank(k) \in Nat /\ rank(k) < c
    BY <1>4, <2>2
  <2>. QED  BY <1>2, <1>3, <1>6, <1>13, <2>3
<1>14. \A p \in DOMAIN scratch' : Shown(p)' => scratch'[p].index < size + c
  <2>1. ASSUME NEW p \in DOMAIN scratch, Shown(p) PROVE scratch[p].index < size + c
    <3>1. scratch[p].index < size
      BY <1>0, <2>1 DEF Numbering, size
    <3>. QED  BY <1>3, <1>4, <3>1
  <2>2. ASSUME NEW p \in DOMAIN scratch', NEW k \in 1..n, p = old + k, Shown(p)'
        PROVE  scratch'[p].index < size + c
    <3>1. scratch'[p].index = size + rank(k) /\ rank(k) \in Nat /\ rank(k) < c
      BY <1>12, <1>13, <2>2
    <3>. QED  BY <1>3, <1>4, <3>1
  <2>. QED  BY <1>2, <1>7, <1>12, <2>1, <2>2
<1>15. ASSUME NEW i \in 0..(size + c - 1)
       PROVE  \E p \in DOMAIN scratch' : Shown(p)' /\ scratch'[p].index = i
  <2>1. CASE i < size
    <3>1. PICK p \in DOMAIN scratch : Shown(p) /\ scratch[p].index = i
      BY <1>0, <1>3, <2>1 DEF Numbering, size
    <3>. QED  BY <1>2, <1>12, <3>1
  <2>2. CASE i >= size
    <3>1. i - size \in 0..(c - 1) /\ i = size + (i - size)
      BY <1>3, <1>4, <2>2
    <3>2. PICK k \in (1..n) \ unknown : rank(k) = i - size
      BY <1>4, <3>1
    <3>3. \A p : p = old + k => p \in DOMAIN scratch' /\ Shown(p)' /\ scratch'[p].index = i
      BY <1>12, <1>13, <3>1, <3>2
    <3>. QED  BY <3>3
  <2>. QED  BY <1>3, <1>4, <2>1, <2>2
<1>16. ASSUME NEW p \in DOMAIN scratch', NEW q \in DOMAIN scratch', Shown(p)', Shown(q)', p < q
       PROVE  scratch'[p].index < scratch'[q].index
  <2>1. CASE p \in DOMAIN scratch /\ q \in DOMAIN scratch
    BY <1>0, <1>2, <1>12, <1>16, <2>1 DEF Numbering
  <2>2. CASE p \in DOMAIN scratch /\ ~(q \in DOMAIN scratch)
    <3>1. PICK l \in 1..n : q = old + l
      BY <1>7, <2>2
    <3>2. scratch'[q].index = size + rank(l) /\ rank(l) \in Nat
      BY <1>12, <1>13, <1>16, <3>1
    <3>3. scratch'[p].index < size /\ scratch'[p].index \in Int
      BY <1>0, <1>2, <1>3, <1>12, <1>16, <2>2 DEF Numbering, size
    <3>. QED  BY <1>3, <3>2, <3>3
  <2>3. CASE ~(p \in DOMAIN scratch)
    <3>1. PICK k \in 1..n : p = old + k
      BY <1>7, <2>3
    <3>2. ~(q \in DOMAIN scratch)
      BY <1>3, <1>16, <3>1
    <3>3. PICK l \in 1..n : q = old + l
      BY <1>7, <3>2
    <3>4. k < l /\ k \notin unknown /\ l \notin unknown
      BY <1>3, <1>12, <1>16, <3>1, <3>3
    <3>5. /\ scratch'[p].index = size + rank(k) /\ scratch'[q].index = size + rank(l)
          /\ rank(k) < rank(l) /\ rank(k) \in Nat /\ rank(l) \in Nat
      BY <1>4, <1>13, <3>1, <3>3, <3>4
    <3>. QED  BY <1>3, <3>5
  <2>. QED  BY <2>1, <2>2, <2>3
<1>17. Numbering'
  <2>1. Len(evidence') = size + c
    BY <1>2
  <2>2. Len(evidence') - 1 = size + c - 1
    BY <1>3, <1>4, <2>1
  <2>3. /\ \A p \in DOMAIN scratch' : Shown(p)' => scratch'[p].index < Len(evidence')
        /\ \A i \in 0..(Len(evidence') - 1) :
              \E p \in DOMAIN scratch' : Shown(p)' /\ scratch'[p].index = i
    BY <1>14, <1>15, <2>1, <2>2
  <2>. QED  BY <1>16, <2>3 DEF Numbering
<1>. QED  BY <1>11, <1>17

(* Past the router only a refused table is spoken of: a nudge, back to it. *)
LEMMA RestTranscript ==
    ASSUME TInv, Draft \/ Verify \/ Finalize \/ Summarize \/ Raise \/ UNCHANGED vars
    PROVE  Transcript' /\ Numbering'
<1>0. TypeOK /\ TypeOK' /\ Place /\ Transcript /\ Numbering
  <2>1. TypeOK'
    BY StepTypeOK DEF TInv, BInv, Next, Step
  <2>. QED  BY <2>1 DEF TInv, BInv
<1>1. CASE DraftTableNudge
  <2>1. /\ scratch' = Append(scratch, Nudge) /\ UNCHANGED evidence /\ pc = "draft" /\ pc' = "route"
        /\ iterations' = iterations + 1
    BY <1>0, <1>1, OutcomeFields, DraftFields
       DEF DraftTableNudge, TableDraft, Goto, AfterDraft, Place
  <2>. QED  BY <1>0, <2>1, NudgeAdded
<1>2. CASE Draft /\ ~DraftTableNudge
  <2>1. UNCHANGED <<scratch, evidence, iterations, decision>> /\ pc = "draft"
    BY <1>2 DEF Draft, DraftReady, DraftRetry, DraftPassagesInline, DraftFallbackTable,
                DraftRefusesUnresolved, DraftTableReady, Prose, TableDraft, loop
  <2>2. pc' # "act"
    <3>1. \A o, dr, d : AfterDraft(o, dr, d) # "act"
      BY DEF AfterDraft
    <3>. QED  BY <1>2, <3>1
              DEF Draft, DraftReady, DraftRetry, DraftPassagesInline, DraftFallbackTable,
                  DraftRefusesUnresolved, DraftTableReady, Goto
  <2>. QED  BY <1>0, <2>1, <2>2, NothingSaid
<1>3. CASE Verify
  <2>1. UNCHANGED <<scratch, evidence, iterations>> /\ pc = "verify"
    BY <1>3 DEF Verify, VerifyRetry, VerifyRefuses, VerifyContentFree, VerifyAnswers, loop
  <2>2. pc' # "act"
    <3>1. \A o : AfterVerify(o) # "act"
      BY DEF AfterVerify
    <3>. QED  BY <1>3, <3>1
              DEF Verify, VerifyRetry, VerifyRefuses, VerifyContentFree, VerifyAnswers, Goto
  <2>. QED  BY <1>0, <2>1, <2>2, NothingSaid
<1>4. CASE Finalize \/ Summarize \/ Raise
  <2>1. UNCHANGED <<scratch, evidence, iterations>>
    BY <1>4 DEF Finalize, Summarize, SummarizeNotDue, SummarizeFold, SummarizeFails, Raise, loop
  <2>2. \/ pc = "finalize" /\ pc' = "summarize"
        \/ pc = "summarize" /\ pc' = "end"
        \/ pc' = "raised"
    BY <1>4 DEF Finalize, Summarize, SummarizeNotDue, SummarizeFold, SummarizeFails, Raise, Goto
  <2>. QED  BY <1>0, <2>1, <2>2, NothingSaid
<1>5. CASE UNCHANGED vars
  <2>1. UNCHANGED <<scratch, evidence, iterations, pc, decision>>
    BY <1>5 DEF vars, loop, control
  <2>. QED  BY <1>0, <2>1, NothingSaid
<1>. QED  BY <1>1, <1>2, <1>3, <1>4, <1>5

LEMMA TranscriptInvariant == Spec => []TInv
<1>1. Init => TInv
  BY InitTypeOK, InitBInv, InitTranscript DEF TInv, BInv
<1>2. TInv /\ [Next]_vars => TInv'
  <2>. SUFFICES ASSUME TInv, [Next]_vars PROVE TInv'
    OBVIOUS
  <2>1. BInv'
    BY StepBInv DEF TInv
  <2>2. ASSUME NEW settings \in Contexts, Begin(settings) PROVE Transcript' /\ Numbering'
    BY <2>2, BeginTranscript
  <2>3. CASE Step \/ Raise \/ UNCHANGED vars
    BY <2>1, <2>3, RouteTranscript, ActTranscript, RestTranscript DEF Step, TInv
  <2>. QED  BY <2>1, <2>2, <2>3 DEF Next, Rest, TInv
<1>. QED  BY <1>1, <1>2, PTL DEF Spec

(* When the router is consulted, every call it made has exactly one answer *)
(* in the transcript, in order, under its call's id; no answer stands      *)
(* anywhere else; and no two share an id of the graph's own, whatever ids  *)
(* the provider sent.                                                      *)
THEOREM TranscriptAnsweredHolds == Spec => []TranscriptAnswered
<1>1. TInv => TranscriptAnswered
  <2>. SUFFICES ASSUME TInv, pc = "route" PROVE TranscriptAnswered
    BY DEF TranscriptAnswered
  <2>1. Transcript /\ \A p \in DOMAIN scratch : AnsweredAt(p)
    BY DEF TInv, Transcript
  <2>2. /\ DOMAIN scratch = 1..Len(scratch) /\ Len(scratch) \in Nat
        /\ \A p \in DOMAIN scratch : scratch[p].ids \in Seq(CallIds)
    BY MessageTypes DEF TInv, BInv
  <2>3. ASSUME NEW p \in DOMAIN scratch, scratch[p].role = "assistant",
               NEW k \in DOMAIN scratch[p].ids
        PROVE  /\ p + k \in DOMAIN scratch /\ scratch[p + k].role = "tool"
               /\ scratch[p + k].ids = <<scratch[p].ids[k]>>
    <3>1. k \in Nat
      BY <2>2, <2>3
    <3>. QED  BY <2>1, <2>2, <2>3, <3>1 DEF AnsweredAt
  <2>4. ASSUME NEW q \in DOMAIN scratch, scratch[q].role = "tool"
        PROVE  \E p \in DOMAIN scratch :
                  scratch[p].role = "assistant" /\ q - p \in DOMAIN scratch[p].ids
    BY <2>1, <2>4 DEF Transcript, Answers, Asked
  <2>5. \A p, q \in DOMAIN scratch :
           scratch[p].role = "tool" /\ scratch[q].role = "tool" => Unique(p, q)
    BY <2>1 DEF Transcript
  <2>. QED  BY <2>3, <2>4, <2>5 DEF TranscriptAnswered, Unique
<1>. QED  BY <1>1, TranscriptInvariant, PTL

(* One numbering of the evidence: what the tool messages show the router   *)
(* is, in order, the positions the draft node and the drafter read.        *)
THEOREM EvidenceNumberingHolds == Spec => []EvidenceNumbering
<1>1. TInv => EvidenceNumbering
  <2>. SUFFICES ASSUME TInv, pc = "route" PROVE EvidenceNumbering
    BY DEF EvidenceNumbering
  <2> DEFINE shown == {p \in DOMAIN scratch : scratch[p].role = "tool" /\ scratch[p].index >= 0}
  <2>1. \A p \in DOMAIN scratch : p \in shown <=> Shown(p)
    BY DEF Shown
  <2>2. \A p \in shown : scratch[p].index \in 0..(Len(evidence) - 1)
    <3>1. SUFFICES ASSUME NEW p \in DOMAIN scratch, Shown(p)
                   PROVE  scratch[p].index \in 0..(Len(evidence) - 1)
      BY <2>1
    <3>2. scratch[p].index \in Nat /\ scratch[p].index < Len(evidence) /\ Len(evidence) \in Nat
      BY <3>1, MessageTypes DEF TInv, BInv, Numbering, Shown
    <3>. QED  BY <3>2
  <2>3. \A i \in 0..(Len(evidence) - 1) : \E p \in shown : scratch[p].index = i
    BY <2>1 DEF TInv, Numbering
  <2>4. \A p, q \in shown : p < q => scratch[p].index < scratch[q].index
    BY <2>1 DEF TInv, Numbering
  <2>5. {scratch[p].index : p \in shown} = 0..(Len(evidence) - 1)
    BY <2>2, <2>3
  <2>. QED  BY <2>4, <2>5 DEF EvidenceNumbering
<1>. QED  BY <1>1, TranscriptInvariant, PTL
===============================================================================
