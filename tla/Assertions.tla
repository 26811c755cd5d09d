------------------------------ MODULE Assertions ------------------------------
(***************************************************************************)
(* The closed assertion vocabulary of the bank (eval/models.py) and its    *)
(* evaluation against one recorded turn (eval/grade.py).                   *)
(*                                                                         *)
(* A recorded turn keeps what the assertions tell apart: its exit, what    *)
(* its answer says (phrases of body and caption, numbers and durations of  *)
(* the body alone), its tool calls, its verdict and its summary.  Numbers  *)
(* are counted in thousandths.                                             *)
(***************************************************************************)
EXTENDS Integers, Sequences, FiniteSets, SequencesExt, Functions

CONSTANT None

ContentKinds == {"numeric_from_gold", "name_from_gold", "contains", "not_contains",
                 "pattern_count", "window_data_anchored"}

(* What an assertion carries besides its kind: no reference to an expected *)
(* failure, an alarm, every exit, no finding that stands it down.          *)
Assertion(kind) == [kind |-> kind, xfail_ref |-> FALSE, breach |-> TRUE, at_exit |-> None,
                    unless_finding |-> None]

Content(assertion) == assertion.kind \in ContentKinds

(* The gold a script returned: a field it lacks, or no script, is None.    *)
Gold(gold, field) == IF gold # None /\ field \in DOMAIN gold THEN gold[field] ELSE None
IsA(value, sort) == value # None /\ value.sort = sort
-------------------------------------------------------------------------------
Size(n) == IF n < 0 THEN -n ELSE n

(* Within the slack, or a millionth of the larger.                         *)
Within(a, b, slack) == Size(a - b) <= Max({slack, Max({Size(a), Size(b)}) \div 1000000})

(* Half a cent; or the percent form of a ratio, to half a displayed tenth. *)
NumbersMatch(stated, want) ==
    \/ Within(stated, want, 5)
    \/ want \in (-1000..1000) \ {0} /\ Within(stated, want * 100, 50)

(* With a unit, the gold in seconds against the durations stated.          *)
UnitSeconds == [seconds |-> 1, minutes |-> 60, hours |-> 3600, days |-> 86400]

NumericFromGold(assertion, turn, gold) ==
    LET wants == {Gold(gold, field) : field \in assertion.fields}
    IN  /\ \A want \in wants : IsA(want, "number")
        /\ \E want \in wants :
             IF assertion.unit = None
             THEN \E stated \in turn.numbers : NumbersMatch(stated, want.value)
             ELSE \E d \in turn.durations :
                    Within(d.seconds, (want.value * UnitSeconds[assertion.unit]) \div 1000, d.tolerance)

NameFromGold(assertion, turn, gold) ==
    LET wants == {Gold(gold, field) : field \in assertion.fields}
    IN  /\ \A want \in wants : IsA(want, "name")
        /\ \E want \in wants : want.value \in turn.phrases

(* A gold count, or the row's.                                             *)
PatternCount(assertion, turn, gold) ==
    IF assertion.field = None THEN turn.occurrences = assertion.equals
    ELSE LET want == Gold(gold, assertion.field)
         IN  IsA(want, "number") /\ turn.occurrences * 1000 = want.value

NotContains(assertion, turn, gold) ==
    IF assertion.field = None THEN assertion.pattern \notin turn.phrases
    ELSE LET names == Gold(gold, assertion.field)
         IN  IsA(names, "names") /\ names.value \cap turn.phrases = {}

SummaryContains(assertion, turn, gold) ==
    IF assertion.fields = {} THEN assertion.pattern \in turn.summary.phrases
    ELSE LET wants == {Gold(gold, field) : field \in assertion.fields}
         IN  /\ \A want \in wants : IsA(want, "name")
             /\ \E want \in wants : want.value \in turn.summary.phrases

(* Every number of the summary counts, the 2 of "(see turn 2)" with them.  *)
SummaryExcludesFigures(assertion, turn, turns) ==
    /\ assertion.from_turn \in DOMAIN turns
    /\ LET source == turns[assertion.from_turn]
       IN  \A figure \in source.numbers \ source.typed, stated \in turn.summary.numbers :
                ~NumbersMatch(stated, figure)

(* The SQL that ran or was tried, and the arguments of a windowed tool.    *)
Windowed(turn) ==
    UNION {turn.invocations[i].sql :
             i \in {j \in DOMAIN turn.invocations :
                      turn.invocations[j].tool \in {"run_sql", "check_execution"}}}

(* What a window got wrong: a wall clock, a literal not there, or nothing  *)
(* to read it in.                                                          *)
WindowFindings(assertion, turn, gold) ==
    LET literals == Gold(gold, assertion.field)
        corpus == Windowed(turn)
    IN  IF literals = None \/ corpus = {} THEN [forbidden |-> {}, missing |-> {}, problem |-> TRUE]
        ELSE [forbidden |-> assertion.forbid \cap corpus,
              missing |-> (IF literals.sort = "names" THEN literals.value ELSE {literals.value}) \ corpus,
              problem |-> FALSE]

WindowDataAnchored(assertion, turn, gold) ==
    WindowFindings(assertion, turn, gold) = [forbidden |-> {}, missing |-> {}, problem |-> FALSE]
-------------------------------------------------------------------------------
Route(assertion, tools_used) ==
    LET used == Range(tools_used)
    IN  CASE assertion.mode = "first" -> tools_used # <<>> /\ Head(tools_used) \in assertion.tools
          [] assertion.mode = "must_include" -> assertion.tools \subseteq used
          [] assertion.mode = "must_include_any_of" -> assertion.tools \cap used # {}
          [] assertion.mode = "must_not_include" -> assertion.tools \cap used = {}
          [] assertion.mode = "exact_set" -> assertion.tools = used

(* The licensed retry: so many errors, each followed by the same tool.     *)
RetryCount(assertion, invocations) ==
    LET mine == {i \in DOMAIN invocations : invocations[i].tool = assertion.tool}
        errored == {i \in mine : invocations[i].status = "error"
                                 /\ (assertion.error = None \/ invocations[i].error = assertion.error)}
    IN  /\ Cardinality(errored) \in assertion.errors
        /\ \A i \in errored : \E later \in mine : i < later

(* A paste is looked for at every quarter of the minimum length, so only   *)
(* one that covers a whole window there is seen.                           *)
NoTextBlockDump(assertion, turn) ==
    LET length == assertion.min_length
        step == IF length \div 4 > 1 THEN length \div 4 ELSE 1
    IN  turn.length < length \/
        \A paste \in turn.pastes :
            ~\E start \in {n \in 0..(paste.of - length) : n % step = 0} :
                paste.from <= start /\ start + length <= paste.to

VerdictCheck(assertion, verdict) ==
    /\ verdict # None
    /\ assertion.disposition # None => verdict.disposition = assertion.disposition
    /\ assertion.max_judge_calls # None => verdict.judge_calls <= assertion.max_judge_calls
    /\ assertion.min_injected_claims # None => verdict.injected >= assertion.min_injected_claims

(* The answer's header and caption are text: a table of no rows is not     *)
(* empty.                                                                  *)
NonEmpty(turn) == turn.length > 0

Evaluate(assertion, turn, turns, gold) ==
    CASE assertion.kind = "nonempty" -> NonEmpty(turn)
      [] assertion.kind = "numeric_from_gold" -> NumericFromGold(assertion, turn, gold)
      [] assertion.kind = "name_from_gold" -> NameFromGold(assertion, turn, gold)
      [] assertion.kind = "contains" -> assertion.pattern \in turn.phrases
      [] assertion.kind = "not_contains" -> NotContains(assertion, turn, gold)
      [] assertion.kind = "pattern_count" -> PatternCount(assertion, turn, gold)
      [] assertion.kind = "summary_contains" -> SummaryContains(assertion, turn, gold)
      [] assertion.kind = "summary_excludes_figures" -> SummaryExcludesFigures(assertion, turn, turns)
      [] assertion.kind = "currency_format" -> ~turn.unformatted
      [] assertion.kind = "window_data_anchored" -> WindowDataAnchored(assertion, turn, gold)
      [] assertion.kind = "route" -> Route(assertion, turn.tools_used)
      [] assertion.kind = "retry_count" -> RetryCount(assertion, turn.invocations)
      [] assertion.kind = "envelope" -> turn.outcome = "answer" /\ turn.shape = assertion.body
      [] assertion.kind = "no_text_block_dump" -> NoTextBlockDump(assertion, turn)
      [] assertion.kind = "verdict_check" -> VerdictCheck(assertion, turn.verdict)

(* A failure at exit 0 that is wrong content, not phrasing and not another *)
(* convention for the window.                                              *)
AlarmWorthy(assertion, turn, gold) ==
    /\ assertion.kind # "contains"
    /\ assertion.kind = "window_data_anchored"
         => WindowFindings(assertion, turn, gold).forbidden # {}

(* A competing value was stated, or the gold's is only absent.             *)
Severity(assertion, turn) ==
    IF \/ assertion.kind = "numeric_from_gold" /\ turn.numbers # {}
       \/ assertion.kind \in {"not_contains", "window_data_anchored"}
    THEN "contradicted" ELSE "unsupported"

(* A scenario is reached when the turn's exit and calls say so.            *)
SetupReached(setup, turn) ==
    LET calls == SelectSeq(turn.invocations,
                           LAMBDA i : setup.tool = None \/ i.tool = setup.tool)
        Count(status) == Len(SelectSeq(calls, LAMBDA i : i.status = status))
    IN  /\ setup.exit # None => turn.exit \in setup.exit
        /\ setup.min_invocations # None => Len(calls) >= setup.min_invocations
        /\ setup.min_errored # None => Count("error") >= setup.min_errored
        /\ setup.min_ok # None => Count("ok") >= setup.min_ok

HasFinding(turn, check) == turn.verdict # None /\ check \in turn.verdict.plausibility
===============================================================================
