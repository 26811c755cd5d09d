------------------------------- MODULE MCGrading -------------------------------
(* Instances of Grading: banks of two rows, which between them hold every  *)
(* kind of assertion and every annotation a row can carry, and reports of  *)
(* up to two reps a row.                                                   *)
EXTENDS Grading

Number(value) == [sort |-> "number", value |-> value]
Name(value) == [sort |-> "name", value |-> value]
Names(value) == [sort |-> "names", value |-> value]

TheGold == [n |-> Number(12000), rate |-> Number(250), hours |-> Number(1000), who |-> Name("Ada"),
            roster |-> Names({"Bob"}), week |-> Names({"2026-05-29"})]
Runs == [raises |-> FALSE, values |-> TheGold]
Raises == [raises |-> TRUE, values |-> None]

Numeric == Assertion("numeric_from_gold") @@ [fields |-> {"n"}, unit |-> None]
Quiet == [Numeric EXCEPT !.breach = FALSE]
Ratio == [Numeric EXCEPT !.fields = {"n", "rate"}, !.unless_finding = "anchor_drift"]
Lasting == [Numeric EXCEPT !.fields = {"hours"}, !.unit = "hours", !.at_exit = {0}]
Who == Assertion("name_from_gold") @@ [fields |-> {"who"}]
Says == Assertion("contains") @@ [pattern |-> "errors"]
Never == Assertion("not_contains") @@ [field |-> None, pattern |-> "Bob"]
NoneOf == Assertion("not_contains") @@ [field |-> "roster", pattern |-> None]
Dashes == Assertion("pattern_count") @@ [field |-> None, equals |-> 1]
Counted == Assertion("pattern_count") @@ [field |-> "n", equals |-> None]
Week == Assertion("window_data_anchored") @@ [field |-> "week", forbid |-> {"CURRENT_DATE"}]
Recap == Assertion("summary_contains") @@ [fields |-> {"who"}, pattern |-> None]
NoFigures == Assertion("summary_excludes_figures") @@ [from_turn |-> 1]
Money == Assertion("currency_format")
Dump == [Assertion("no_text_block_dump") EXCEPT !.xfail_ref = TRUE] @@ [min_length |-> 8]
Shape == Assertion("envelope") @@ [body |-> "markdown"]
Checked == Assertion("verdict_check") @@
    [disposition |-> None, max_judge_calls |-> 1, min_injected_claims |-> 1]
Retried == Assertion("retry_count") @@ [tool |-> "run_sql", errors |-> {0, 1}, error |-> None]
First == Assertion("route") @@ [mode |-> "first", tools |-> {"run_sql"}]
Only == [First EXCEPT !.mode = "exact_set"]
Filled == Assertion("nonempty")

Setup == [tool |-> "run_sql", exit |-> None, min_invocations |-> None, min_errored |-> 1, min_ok |-> 1]
Drafted == [Setup EXCEPT !.tool = None, !.exit = {0, 2}, !.min_errored = None, !.min_invocations = 1]

Expect(exits, setup, assertions) == [exit |-> exits, setup |-> setup, assertions |-> assertions]
Row(id, turns) ==
    [id |-> id, turns |-> turns, gold |-> Runs, expected |-> [n |-> Number(12000)],
     threshold |-> [passes |-> 1, of |-> 1], xfail |-> FALSE, reached_floor |-> 2, sentinel |-> FALSE,
     route_pair |-> None]

MCBanks ==
    {<<Row("a", <<Expect({0}, None, <<Numeric, First, Filled>>)>>),
       [Row("b", <<Expect({0, 2}, Setup, <<Retried, Never, Checked>>)>>) EXCEPT
            !.threshold = [passes |-> 1, of |-> 2]]>>,
     <<[Row("a", <<Expect({0, 2, 3}, None, <<Lasting, Says, NoneOf>>)>>) EXCEPT !.sentinel = TRUE],
       [Row("b", <<Expect({0}, Drafted, <<Who, Week>>)>>) EXCEPT !.xfail = TRUE, !.reached_floor = 1]>>,
     <<[Row("a", <<Expect({0}, None, <<Quiet, Money, Dump>>)>>) EXCEPT !.route_pair = "p"],
       [Row("b", <<Expect({0}, None, <<Dashes, Shape, Only>>)>>) EXCEPT !.route_pair = "p"]>>,
     <<Row("a", <<Expect({0, 2}, None, <<Filled>>), Expect({0, 2}, Drafted, <<Ratio, Recap, NoFigures>>)>>),
       [Row("b", <<Expect({0}, None, <<Never>>)>>) EXCEPT !.expected = [n |-> Number(13000)]]>>,
     <<[Row("a", <<Expect({0}, None, <<Counted>>)>>) EXCEPT !.gold = Raises],
       Row("b", <<Expect({0, 2}, Drafted, <<Week, Says>>)>>)>>}

Ok(tool, sql) == [tool |-> tool, status |-> "ok", error |-> None, sql |-> sql]
Bad(tool) == [tool |-> tool, status |-> "error", error |-> "unknown column", sql |-> {}]
Verdict == [disposition |-> "verified", judge_calls |-> 0, injected |-> 1, plausibility |-> {}]

(* Twelve, in prose, by Ada, over the gold's week, after a retry.          *)
Right ==
    [exit |-> 0, outcome |-> "answer", shape |-> "markdown", phrases |-> {"Ada", "errors"},
     occurrences |-> 1, numbers |-> {12000}, durations |-> {[seconds |-> 3600, tolerance |-> 180]},
     typed |-> {4000}, unformatted |-> FALSE, length |-> 20, pastes |-> {[from |-> 3, to |-> 12, of |-> 16]},
     tools_used |-> <<"run_sql", "run_sql">>,
     invocations |-> <<Bad("run_sql"), Ok("run_sql", {"2026-05-29"})>>,
     verdict |-> Verdict, summary |-> [phrases |-> {"Ada"}, numbers |-> {2000}]]
(* Fifteen, by Bob, over a week by the wall clock; verified.               *)
Wrong ==
    [Right EXCEPT !.phrases = {"Bob"}, !.numbers = {15000}, !.durations = {[seconds |-> 60, tolerance |-> 3]},
                  !.occurrences = 0, !.invocations = <<Ok("run_sql", {"CURRENT_DATE"})>>]
(* A quarter, as 25.0%, with the anchor check's finding.                   *)
Unverified ==
    [Right EXCEPT !.exit = 2, !.numbers = {25000}, !.phrases = {}, !.verdict.plausibility = {"anchor_drift"},
                  !.verdict.disposition = "unverified", !.summary.numbers = {12001}]
Calendar == [Right EXCEPT !.invocations = <<Ok("check_execution", {"2026-05-01"})>>,
                          !.tools_used = <<"check_execution">>, !.unformatted = TRUE,
                          !.pastes = {[from |-> 4, to |-> 12, of |-> 16]}]
Refused ==
    [Right EXCEPT !.exit = 3, !.outcome = "refuse", !.shape = None, !.numbers = {}, !.phrases = {},
                  !.durations = {}, !.invocations = <<>>, !.tools_used = <<>>, !.verdict = None]

Plays == {<<Right>>, <<Wrong>>, <<Unverified>>, <<Calendar>>, <<Refused>>,
          <<Right, Wrong>>, <<Right, Right>>, <<Right, Unverified>>}

(* A rep a resumed run played later stands later in the report.            *)
RepsOf(id, reps) ==
    {<<>>} \cup {<<[row_id |-> id, rep |-> 1, turns |-> p]>> : p \in Plays}
    \cup {<<[row_id |-> id, rep |-> q[1], turns |-> q[2]], [row_id |-> id, rep |-> 3 - q[1], turns |-> q[3]]>> :
            q \in reps \X Plays \X Plays}

MCReports ==
    {x \o y : x \in RepsOf("a", {1}), y \in RepsOf("b", {2})}
    \cup {<<[row_id |-> "c", rep |-> 1, turns |-> <<Right>>]>>}
===============================================================================
