# A verification project for substrate-engine

TLA+ modules that model the engine's stateful core, TLC configurations that
check them on small instances, and theorems about them that TLAPS checks for
every value of the constants. The reference is the Python source under
`src/src/engine/` (paths below are relative to it); `PROJECT.json` maps every
definition to the lines it translates.

## The system

One *turn* answers one question in a conversation. A LangGraph state graph
routes it to tools, has a drafter write the answer with placeholders for the
facts, has a verifier check every claim against the tools' evidence, and
finalizes an outcome. A session serialises turns; a SQLite work store keeps
conversations, the turn log and evidence bundles; a web layer streams status
frames; an offline runner plays question banks through the same session.

| part | state | operations | talks to |
|---|---|---|---|
| turn graph (`harness/graph.py`, `router.py`, `control.py`, `state.py`, `outcomes.py`) | `TurnState`, checkpointed per conversation: turn number, history, summary, the turn's scratch messages, evidence, draft, verdict, outcome, budgets | nodes begin, route, act, draft, verify, finalize, summarize | the model, the tool registry, the verifier, `deps.events`, `deps.context` |
| verdict ladder (`verifier/verdict.py`) | none: a function of unmatched claims, findings, attempt | `decide`, `finalize` | verify node |
| conversation memory (`graph.py` summarize, `router.py` context_window, `summary.py`) | history, summary, `summary_through_turn` | append a record, fold into the summary, show the window | router prompts |
| session (`harness/session.py`) | the turn lock; `deps.events`, `deps.context` | `ask`, `busy` | graph, work store |
| work store (`adapters/work_store_sqlite.py`) | workspaces, conversations, `turn_log`, `evidence_bundles`, and LangGraph's checkpoints in the same file through a second connection | create, delete, append, save, load | session, routes |
| web (`web/routes_ask.py`, `routes_work.py`, `sse.py`) | per stream: a worker thread, a queue, a generator | ask, create, delete; status, result, error frames | session, store, page |
| run_sql (`tools/run_sql.py`) | within one call: messages, attempts, challenge flags | ask for SQL, lint, execute, repair | the model, the database, lints; its evidence is read by `verifier/checks/run_sql.py` |
| SQL lints (`tools/sql_lint.py`, `enum_lint.py`, `key_lint.py`, `interval_lint.py`) and the parse they share (`sql_scopes.py`, `sql_select.py`) | none: a statement and the map's declarations | challenge, or let pass | run_sql |
| drafter (`harness/placeholders.py`, `drafter.py`) | the spans of what code injected | resolve `{{eN.path}}` | turn graph, verifier |
| verifier (`verifier/verify.py`, `claims.py`, `matching.py`, `judge.py`, `checks/`) | within one attempt: pools, records, judge calls | extract, harvest, match, judge, bound | turn graph |
| anchor check (`verifier/anchor.py`, `tools/entities.py`) | the anchors each turn left in history | read a back-reference, harvest a turn | turn graph, run_sql's evidence |
| statistics (`generators/stats.py`) | files written once | round and store a column's figures | plausibility checks |
| evaluation runner (`eval/runner.py`) | the report file; the rep being played | run, kill, resume, replay after a timeout | session, file system |
| evaluation grading (`eval/grade.py`, `models.py`, `gold.py`) | the grade of the rows so far | preflight, grade a rep, a row, the exit code | the report, the gold scripts |
| other tools, substrates, pack tools, conformance | files read or written in one pass | - | turn graph; offline |

What is hard here: a turn has four kinds of retry drawing on three budgets;
half a turn can be left in a checkpoint; per-turn fields live in a
per-conversation state and must be reset; request threads, worker threads and
deletes interleave over one session and one store; row ids come back after a
delete; a page goes away while its turn runs; the process is killed between any
two writes; a report is resumed after a cut anywhere. And in the parts that keep
no state, ordered passes over text or SQL where a mistake in one shows three
passes later: a figure hidden by the pass before, a table repeated by a join two
aliases away, a bound built from a rounded figure. `PROJECT.json` lists each
hazard at its line with the properties that would catch it going wrong.

What makes each part right, in a sentence: nothing is shipped as verified that
the verifier did not pass, and every turn ends within its budgets (graph);
every finished turn is in the summary or in the window (memory); one turn at a
time, a readable log, no history from a dead conversation (session and store);
one terminal frame, after the session is free (stream); a lint is heard once and
an invented value never runs (run_sql); no key twice, no record of two attempts
(runner). A figure of the answer is claimed, and matched only by what this
turn's tools returned (verifier); a follow-up is about the entity its user was
given (anchor); a multiplied total is challenged and an honest one keeps its
badge (lints and bounds); a wrong answer that was verified rings, whatever its
row expects (grading).

## The modules

**VerdictLadder** - `decide` and `finalize` of `verdict.py` as operators.
TurnGraph extends it.

**Conversation** - the abstract specification of a conversation's memory: turn
numbers, finished records, the summary and its mark; one action for asking,
finishing, raising, and each way summarize can go (not due, folded, failed).
`disturbed` is history: it says which of raised turns, failed refreshes and
window overrides have happened, because the promises about the window's size
hold only without some of them.

**CheckpointThread** - what lies below both ways of writing a conversation's
checkpoints: `Begin` takes the next number, `End` puts that number in the history,
once, `Forget` drops the whole thread. Conversation implements it
(`ImplementsCheckpointThread`), and so does TurnGraph, which implements
Conversation; in AskService, where threads read a checkpoint, work on a copy and
write it back whole, each conversation's checkpoints take only its steps
(`ThreadOf`, `ThreadsKeepTheirTurns`).

**TurnGraph** - the graph itself. `pc` is the node about to run; one action per
way a node can return (`RouteRefusesOnBudget`, `RouteViolation`, `RouteTools`,
`RouteTerminal`, `Act`, seven drafts, four verdicts, `Finalize`, three
summaries), `Begin` for a question and `Raise` for a node that raises. A message
is its role and call ids. A call's id is the provider's where the response
carried one, kept as sent, and the graph's own otherwise; a provider may send an
id again, in the same response or a later one, so what `router.py:86` calls
"unique within a turn" is so of the graph's ids only. A provider is taken never
to spell an id `call_N_M`. Evidence is what it can be projected as; a draft is
the reply it came from or the table it passes through; a verdict's claims are
counts. The model, tools, drafter and verifier choose freely within what their
code can return. It is shown to implement Conversation with
`INSTANCE Conversation WITH finished <- ...` (`ImplementsConversation`).

**AskService** - request threads over the session and the store. Each thread
walks `ask` (resolve, perhaps open a scratch workspace and a conversation,
invoke, save the bundle, append the log row) or a create or delete route, one
step per transaction or lock. The end of a turn is three of them: `Finalize`
writes the checkpoint that has the turn in its history, `InvokeReturn` is
summarize's and the graph's return, and `InvokeRaise` may come before either;
after the first, in a conversation opened before, it leaves a finished turn no
row will tell of, which is the mishap `raised_late`; a conversation ask opened is
taken back. `Crash` forgets the threads and the in-memory
locks and keeps the database; `StoreFails` is a write that raises. Ids are
SQLite's: the largest plus one, so they come back; `born` tells the wearers of
an id apart.

**SseStream** - per stream, the worker thread, its queue, the generator and the
page. `Disconnect` at any moment; `deps.events` is one field the nodes of
whichever turn runs write to.

**RunSql** - one call: `Refuse`/`Ground`, then rounds of `ReplyUnreadable`,
`ReplyStatement` and `Check`, `ExecuteFails`, `ExecuteReturns`; `CallRaises`
and `RenderRaises` are what the registry's catch-all turns into an error. A statement is the lints it trips and whether it
confesses an invented value. `Overrides` is what the Verifier reads from the
evidence.

**EvalReport** - a sweep over one report file. A line is the pieces written to
it, so that a missing newline joins what follows. `Start`, `WriteHeader`,
`Load`, `Rewrite`, `Resume`; a rep is `Answered`, `TimedOut`, `TurnFails`,
`AppendRecord`; `Killed` leaves the write under way wherever it had got to
(`CutShort`: `HeaderCut`, `RewriteCut` or `RecordCut`).

**Claims, Matching, Harvest, Placeholders, Verification** - one draft from its
placeholders to its disposition. Claims runs the extraction passes in their
order over a text in which what was taken stands as spaces: a pattern takes no
character that is blanked, but one with white space in it reads across one
(`over`), and a figure next to one may read as another kind (a list marker after
a code span, a month and its day around a name). What a sighting must still find
beside it is its `cue`. Matching decides a claim against the pools
(exact, percent, rounding, ratio, difference, quotation, and the cap past which
a number goes to the judge); Harvest says what each tool's output adds to the
pools; Placeholders puts a draft's pieces into a text, says where the injected
ones stand, and keeps of the text who wrote each character. Verification composes
them with VerdictLadder: one step per piece (`PutPiece`), then `Draft`, `Redraft`
or, retries spent, once more (`DraftPassagesInline`); `Verify`, one step per
extraction pass (`ExtractPass`), one per claim, the earliest first
(`SettleInjected`, `SettleMechanically`, `JudgeRefuses`, `JudgeAnswers`),
`Return`. What a text says is the set of spans each pattern would read in it; a
character is only its position. What patterns make of characters is given with
the text.

**Entities, Anchor** - the entity catalog from the dictionary and the pack, what
a turn's SQL establishes about each kind, and a conversation of turns in which a
later question refers back. `AnswerTurn` is the anchor check, the ladder and the
harvest in finalize together; `OtherTurn` drafts nothing. `facts` is history.

**Statement, FanOut, LiteralLints, ColumnFormats, SqlRows, Plausibility,
Statements** - the SQL side. Statement is a SELECT as the engine's own parser
returns it: scopes in post-order, each with sources, joins, filters and items.
FanOut is which tables a scope's joins repeat, with the map's vouching, and
which aggregates read them; LiteralLints the enum and key lints; ColumnFormats
which columns are money, rates or durations, and the interval lint;
Plausibility the suite over a result, with the statistics as they are stored.
SqlRows is the reference: what the statement answers over the rows (DuckDB's
part, external), which no code of the engine computes. Statements composes
them: write, lint, resend or give up, execute, check, return.

**Assertions, Grading** - the bank's assertion kinds over a recorded turn, and
`grade()`: preflight of report against bank, a row skipped, found rotten or
opened (`SkipRow`, `RotRow`, `OpenRow`), one rep at a time (`GradeRep`), the
row's status over the reps that reached their scenario (`Aggregate`), the exit
code (`Finish`).

RunSql, TurnGraph and AskService use these parts by their verdicts (a lint
fires or not, claims are counts, a turn is warned or not); each of those
verdicts is computed in the modules above, from data. Composing them state by
state would multiply every draft by every interleaving and tell apart nothing
more, as a verdict is all that crosses.

Next to the definitions some modules hold *slips*: the form a plausible mistake
in that code would take. `PROJECT.json` pairs each property with a slip that
must break it, so a property no mistake could break does not stay.

## The runs

| run | instance | states | shows |
|---|---|---|---|
| conversation | 7 turns, windows 2/2 and 1/1 | 7 463 | every finished turn is shown or summarized, once; the window is as long as the settings promise |
| turn | 2 turns, 2 tool rounds, 2 calls, 1 redraft each way, 1 claim, 1 judge call, ids a provider repeats | 987 501 | transcript, evidence numbering, verdict, outcome and budget of a turn agree; every turn ends; TurnGraph implements Conversation |
| turn_contradiction | 1 turn | - | *finding*: a turn with no verdict recorded as contradicted |
| ask_service | 2 threads, 2 conversations, 2 workspaces, 2 turns, 1 failure | 1 264 369 | one turn at a time, readable log, own history, no orphan, recovery; no turn overwrites another's checkpoint |
| sse_stream | 2 streams, 3 status frames | 68 092 | one terminal frame, own trail, free session, turns land unread, streams end |
| run_sql | 3 attempts, 3 licensed lints, the hard one | 56 100 | lints heard once, invented values never run, overrides reach the Verifier |
| eval_report | 2 keys, 2-turn rows, 3 starts, 2 environments | 206 620 | no key twice, one attempt and one system per record, readable lines stay, finished means recorded |
| eval_resume | 1-turn rows | - | *finding*: a fsynced record no reader can parse |
| verification | 100 drafts, 15 bodies of evidence, both attempts | 87 754 | no figure without a claim but one the scaffolding hides, no match without a warrant, nothing typed passes as injected, the judge sees only the residue |
| anchor | 3 turns, 2 kinds, 5 bodies of evidence, 3 abouts, 3 texts | 171 478 | a follow-up is held to the newest turn that gave an entity; a pronoun follows a warning until an answer shows |
| statements | 5 tables, 1 327 statements over up to three of them | 6 174 | a repeated aggregate is challenged, an honest one keeps the badge, scaled intervals and impossible filters are never shown clean |
| grading | 5 banks, reports of 2 rows and up to 2 reps each | 67 662 | the alarm rings for every wrong answer that was verified; exit 0 and a passed row are earned |

**Why the bounds are enough.** Conversation: with windows of at most two, seven
turns give several folds after every disturbance; all its invariants are also
proved without the bound. Turn: two iterations and one retry of each kind let
every budget be met from every side (nudge, table nudge, tool round,
placeholder retry, verifier retry) and the second turn sees what the first
left behind; an unbounded number of turns adds nothing, as what a turn
inherits is the summary, the history and stale fields. `MaxCalls` 2 mixes an
unknown tool with a real one; the provider sends one id for every call it names,
and either names all of a response's calls or the second only, so ids repeat in a
response, between rounds and between turns, beside the graph's own. AskService: two threads are the fewest that race;
the second id of each table is the fewest for an id to come back beside a live
one; one failure at any step, with a restart. SseStream: three frames outrun a
reader that has stopped. RunSql: three attempts are the shipped default;
`interval` is a fourth lint that behaves as the three. EvalReport: three starts
are a kill, a kill of the resume and a resume of that. Verification: each text
holds phrases that overlap or hide one another (a name in backticks, a date that
is none, a magnitude, a fence, a list marker), or one that is read across another
(a date, a magnitude or a quotation around a code span, a cue behind one), each draft a placeholder before,
inside or after such a phrase with a value of another width, each tool's output
appears once and in company; eight pairs is a cap some evidence passes and some
does not. The run follows one attempt: what crosses attempts is in TurnGraph.
Anchor: three turns are a turn that gives, one in between that must or must not
count, and the follow-up; a warned turn needs the first two. Statements: a
parent with two children and one grandchild level give every shape of
repetition (one side, sibling, chain, vouched chain), with CTEs, derived tables,
two aliases of one table, distinct and nullable arguments; the rows have nulls
at no whole rate and means of no whole hundredth. Grading: two reps per row in
every order of play, so a row can reach its scenario in both, one or none.

**Fairness.** Weak fairness of TurnGraph's `Step`: the caller's thread runs the
graph, and each external call returns or raises (clients have timeouts); asking
again is never assumed. AskService: weak fairness of each thread's `Serve`:
threads the operating system can run are run; arriving requests and crashes
are not fair. SseStream: of the worker and of the generator (the server polls
it; keepalives are stuttering); a page that leaves is never assumed.
RunSql, EvalReport, Verification, Anchor, Statements and Grading state safety
only: each is one call that runs to its end on its caller's thread, under the
fairness TurnGraph already assumes.

Deadlock is checked everywhere but in `eval_report` and `eval_resume`, where an
operator may stop starting processes; elsewhere a stuttering rest (`Rest`,
`Quiet`, `Served`, `Over`) stands for nobody asking or a call returned, and any other stop is an error.

## What is proved

All by TLAPS, for every value of the constants satisfying the modules' `ASSUME`s
(settings are naturals, windows are positive; pydantic leaves some of them
unconstrained below, and a negative budget is not considered). Eight modules
hold the proofs, one beside each component; every safety property
that a passing run checks is proved but for the four of Statements.

**ConversationProofs.** `IInv` adds to the type invariant that turn numbers in
`finished` increase, that none exceeds `turn`, and that summary and window split
them at the mark; `EveryTurnOnce` follows. The window's size needs three more
facts: the newest record is past the mark (`NewestPast`), numbers have no
gaps while no turn has raised (`Regular`), and the mark lags the newest turn by
less than a refresh while none has failed (`Refreshed`). From these:
`NewestTurnShown`, `WindowNeverShorter`, `WindowNeverLonger`, and the action
property `SummaryMonotone`. `CheckpointRefinement` is
`Spec => ImplementsCheckpointThread`: a turn may end only while its number is not
in the history, which is what `Outstanding` adds, raised turns included.

**TurnGraphProofs**, in three parts over one base.

- *Budget and memory.* `TypeCorrect`: every handler keeps every field's type.
  `Refinement`: `Spec => ImplementsConversation`, by showing that each action is
  a Conversation step or a stutter under the mapping. `TurnBudgetHolds`: the
  inductive invariant `BInv` is `TypeOK`, `Place` (at which node, which fields
  can be set) and `Budget` (supersteps spent, as a function of the node and of
  the counters). It yields the bound `2 R + D + 2 V + 4` on supersteps, where `R`
  is `max_router_iterations`, `D` `max_draft_retries`, `V`
  `max_regenerate_retries`: 24 for the shipped InvoiceGuard pack (8, 2, 1), just
  below LangGraph's documented default recursion limit of 25 (external), which
  the code leaves in place. A pack one iteration more generous can raise in place
  of refusing.
- *Answer and verdict.* `AttemptsAreALadder`, `AnswerIsVerified` and
  `VerdictAgreesWithOutcome` are about what a turn ends with, and none is
  inductive: nothing in an outcome says which draft was judged. `AInv` adds to
  `BInv` what ties them together at every node: the draft in hand, its spans and
  the feedback are of one reply (`Texts`); the attempts are numbered, judged on
  distinct replies over all the evidence there is (`Ladder`); while a draft is
  still to come each attempt asked for one, on an earlier reply (`Retried`); the
  turn is undecided until one attempt settles it, and then verdict and outcome
  are that attempt's (`Story`); the record in history is the outcome's (`Told`).
- *Transcript and evidence.* `TranscriptAnswered` and `EvidenceNumbering` need
  to know, during act, that the last message is the echo of the calls about to
  run and that every earlier id of the graph's own belongs to an earlier iteration
  (`Transcript`: answers are told apart by their places, so nothing is asked of
  the ids a provider sends), and that the indices shown in the transcript rise through all
  of the evidence (`Numbering`): a nudge, an error and a hit on the iteration
  limit all append messages, and none may break either.

**RunSqlProofs.** `SqlInv` adds to the properties that there is a round left
whenever a statement is under way (`Rounds`), that the flags of the loop are
exactly the lints the recorded attempts blocked for, and that a statement about
to run has no objection left (`Flags`), and what each way of returning puts in
evidence (`Outcome`). From it: `TypeOK`, `ChallengedOnce`,
`InventedNeverRuns`, `OverrideCostsBadge`, `RepairsEnd`.

**AskServiceProofs.** `OneTurnAtATimeHolds`: with where each thread is and who
can hold the turn lock beside it (`Locks`), `OneTurnAtATime` is itself inductive;
every way out of a turn, the raising ones and the crash included, lets the lock
go in the step that leaves it. `TypeCorrect` is not free here, as ids come back:
a new conversation's id is one past the largest, and it stays within the bound
only because conversations still to come have spent births (`Room`), and the
last workspace id is kept for the scratch workspace (`ScratchRoom`). On that
base three invariants and an action property, each with the mishap that the code does not guard
against in its hypothesis, as in the property:

- `LogSurvives` (`Log`): what each thread on a conversation has still to write
  fits what is there, and a thread deleting one leaves nothing behind it, as
  long as no delete went by a stale `busy` answer;
- `HistoryIsOwn` (`History`): an id nobody wears has an empty checkpoint thread,
  or a delete between its two steps is about to empty it, so the next wearer
  finds none of the last one's turns, unless a delete was torn;
- `ThreadsKeepTheirTurns`, an action property: each step is for each
  conversation's checkpoints a CheckpointThread step or none. It needs `Numbers` (a
  history holds no number past its turn, and a turn that is running is not in it
  yet) and, from `Log`, that the copy a running turn will write back is what is
  stored, but for what it adds;
- `NothingLeftBehind` (`Tidy`): a conversation ask opened has a row, or its turn
  is on the way to one or to taking it back; bundles are those of rows, and rows
  and finished turns are of living conversations, also where a turn raised
  between its checkpoint and its row. That the rows of a conversation are the
  turns in its checkpoints holds only while none has.

**SseStreamProofs.** `SInv`: a turn's trail is its own, numbered as emitted; what
is in the queue and on the page is the trail's beginning, and once the worker is
done one terminal frame more (`Carried`); `deps.events` is the running turn's,
and a result is put only after its log row (`Placed`). From it
`OneTerminalFrame`, `TrailsOwn`, `ResultMeansDone`, for any number of streams.

**AnchorProofs.** `HeldToNewestGiven` and `PronounFollowsWarning`, for
conversations of any length. The code reads records, the properties speak of
turns, so the invariant says that record t tells of turn t exactly what
`facts` has (`Tells`): whom it contradicts, whether it shows an entity, of
which kinds it gives one. The newest of a set of turns is found by
well-founded induction on naturals. `CatalogAssumption` states what the catalog's
resolution returns (a column's kind is among the kinds), as that is a fold; TLC
evaluates it for the catalogs of the run.

**VerificationProofs.** First the matcher, as lemmas over any pools: `FirstOf`
says what the first arm that speaks says; `Search` passes over a pair only past
the cap (`SearchIsThorough`); hence `NumberMatch`: a number settled is one the
pools assert, by itself or by a ratio or difference of two; and `NumberResidue`:
one left over is asserted by none, or more pairs than the cap stood in the way.
Then the run of a verification: each record was settled by its span, by the
matcher or by the judge, and those the judge let pass are no more than its calls,
which are no more than its budget (`VInv`). From these `MatchedIsWarranted` and
`JudgeHasTheResidue`. `EvidenceAssumption` says the pool of numbers is a list;
the pools are folds over the evidence. Before that, the text: it is `Honest`,
which is that its counted length is its length and every character of a span is
code's, and each piece leaves it so (`PutHonest`), also when the resolution
starts over; nothing is put once a record is made (`InjectionInv`). And the
claims (`ExtractInv`): a character is blanked only by scaffolding or by a claim;
claims in hand stand apart, after those recorded; after the last pass no number
is left. They give `InjectedNeverTyped` and `FiguresAnswered` for every text, those whose
patterns read across blanked spans included.
All of it meets in `VerifiedIsBacked`, which adds only that a count of no unmatched
claims is the one way to "verified" (`Earned`): behind each claim of a verified
attempt is code, the judge or what an ok call of this turn returned - the number
itself or a ratio or difference of two, the date, the name or the lines it names,
the passage quoted, each with its own reference (`Warranted`, which the run checks
of every match in `MatchedIsWarranted`) - and no number is without a claim, unless
scaffolding can read it. Between them, `JudgeHasTheResidue` and `Earned` bound what
TurnGraph lets a verification return: no more judge calls than claims or
`max_calls_per_turn`, and the ladder's disposition of what is unmatched.
`DraftAssumption` says what a draft is: pieces and values have widths, a claim
begins at a character it reads, a number needs nothing beside it, and of two
overlapping spans of one pattern what the one reads must be blanked before the
other matches. With that no character is read for two claims (`ReadOnce`).

**EvalProofs.** *The report* (`EInv`): whatever was cut, the file has at most one
header, at the top; its records are of different keys, of the header's system and
of conversations of their own (`Filed`); a file with no newline at its end ends
in a piece that does not parse, unless a kill lost just the newline (`File`);
what a process knows of the file while it plays is still so (`Sweeping`, `Rep`).
A kill during any write is one lemma: the cut file is a beginning of the whole
one, and `Filed` holds of every beginning. `ParsedLinesStay`
says that a line once readable stays so through every write, kill and resume, but
for a rewrite that is killed and a newline that is lost; it needs `Ended`: a
report that is played into ends in a newline, or one was lost. `RecordedOnce`,
`OneAttemptPerRecord` and `ParsedLinesStay` hold for both values of
`Separators`; `FinishedMeansRecorded` only where no answer holds a separator, and
its theorem says so. *The grade* (`GradingInv`): a row gone past has had the alarms of all its records
rung and its status worked out from all of them, and a breach is an occurrence.
With `WrongIsRung` (a record holds a wrong answer that was verified exactly when
the loop notes a breach for it) that is `AlarmAlwaysRings`; with a count of
records, `CleanIsEarned`. Both hold for every bank and report that
`BankAssumption` admits: lists, floors of at least one, any threshold.

**Proved and not run.** The type invariants, `NewestTurnShown`,
`WindowNeverLonger`, `SummaryMonotone`, `ImplementsCheckpointThread`, `RepairsEnd`
and `VerifiedIsBacked` hold for every value of the constants, so no run repeats
them (TLC found them true of the instances above before they were proved).
`RepairsEnd` bounds a run_sql call's attempts, so that no run asks whether it
returns. The eval_report run has `Separators = FALSE`; that all but
`FinishedMeansRecorded` survives separators is the theorems'.

**Only model-checked.** Liveness under fairness (`EveryTurnEnds`,
`ServiceRecovers`, `TurnLandsUnread`, `StreamEnds`), which the
prover cannot do. The four properties of Statements are about trees of scopes and
reach recursive operators, out of the prover's reach with them. Nor are they
claims about every value of the constants, but about the statements, rows and
declarations of the run: `FannedIsChallenged` rests on keys that are keys of the
rows and on joins by equality, and excepts two statements the lint is silent on
(scopes that mix vouched and other joins, aggregates of literals alone);
`HonestKeepsTheBadge` is about every bound that can refuse an answer, for one scope
over real tables, but for a COUNT of a column with nulls and waits that are scaled,
and fails where an average or a value is finer than the unit the statistics are
stored in; `IntervalsKeepTheirScale` promises that a scaled wait is told where the
parse reads the item, and of an item it cannot read only that the length shown is
between a second and what the tables' timestamps span; `ImpossibleFilterIsTold` is
about a column none of whose compared values occurs, as the lint judges columns,
and an alias standing for one table.

**Against the program.** The SQL modules were compared with the Python they
model on the statements of the `statements` run: what each lint and each
plausibility check answers is the same for all 1 327, and what SqlRows answers
over the rows agrees with SQLite on the 1 323 that it accepts.

## Findings

Each is in `PROJECT.json` with the lines it quotes. Two are shown by runs that
must find a violation: a contradiction recorded for a turn that has no verdict
(`graph.py:629`); a resume that appends to an unended line
(`eval/runner.py:176`). The others were met while modelling, and the models
follow the code in each:

- the window is shorter than `last_n_turns` after a raised turn
  (`graph.py:668`; `WindowNeverShorter` promises it only while none has raised);
- the delete route's `busy` check is not held until the delete
  (`routes_work.py:165`; AskService has the interleaving);
- an error frame denies a turn that was saved (`session.py:220`): its log write
  failed, or summarize, its checkpoint or a listener raised after finalize's
  checkpoint was written, which leaves it without a row; a conversation
  is left behind by a failed log write; a bundle and its log row do not commit
  together;
- `max_draft_retries` is described as covering verifier mismatches; a lint's
  first challenge on the last attempt ends the call;
- the rewrite of a report empties it first; `splitlines` against JSON that
  leaves U+2028 unescaped; `load_report` accepts a report of a killed sweep;
- `_repeated_tables` misses a table tied one for one to a repeated one
  (`sql_lint.py:821`; `FannedIsChallenged` excepts scopes that mix vouched and
  other joins); `count_vs_stats` refuses honest counts of a nullable column or a
  derived table; outer columns of a CTE are bounded by the stored column they
  are named like; AVG and range bounds lack the half unit `sum_cap` adds;
- `lint_fan_out` reads nothing from an argument that names no column and is not
  a bare number, so `SUM(2 * 3)` over a repeating join is not challenged
  (`sql_lint.py:232`; `FannedIsChallenged` excepts it);
- an interval scaled in an item the parse cannot read is seen by no lint, and by
  the floor only under a second (`interval_lint.py:67`);
- an interval of a day or more is no clock string (`durations.py:25`);
- a figure beside a code span, once that is spaces, can be read as a list marker
  and dropped (`claims.py:219`; `FiguresAnswered` excepts what scaffolding can read);
- a turn's anchors of one kind can be of two entities (`entities.py:272`);
- past the cap a spelled number is not looked for in the text
  (`matching.py:236`);
- grading: rot hides a breach, `nonempty` passes a table of no rows,
  `summary_excludes_figures` reads turn references as figures, `pattern_count`
  without gold loads, a bank's default threshold may be 0 (`eval/bank.py:145`
  checks a row's own; `CleanIsEarned` promises a passing rep only above it), a paste between two windows is not
  seen.

## What is not modelled

**Text.** What a pattern reads in characters, tokenizing and quoting of SQL,
column globs, prompts, feedback and other wording, rendering of answers, grades
and listings. The models start from what the patterns read. The summary's
figure check (`harness/summary.py`) is text against text and is left out with
them; the placeholder lint reads comments, and is only its answer, in RunSql.

**Parts with no state to check.** Start-up and configuration, adapters,
substrates, pack tools, conformance (one pass that prints), the command line's
front ends, metering and the exposure and cardinality listings. The code
knowledge graph is one-hop lookups in an index built once. Of the generators
only the stored statistics matter to what is checked; the AST walks run offline.

**Narrowings.** One owner is served; two evaluation processes over one report
are not considered, nor is data lost after a write returned and before it was
fsynced (a kill is of the process, not of the machine). SqlRows answers joins,
filters, groups and aggregates, and no more of SQL; statements outside that are
not among the run's. In Verification the plausibility and anchor findings are
any the checks can return, and in Anchor a draft's other findings likewise.

## Plan

Done, in order of weight: Conversation, VerdictLadder, TurnGraph, AskService,
SseStream, RunSql, EvalReport; the verifier, the anchor check, the SQL lints and
bounds, and grading; the proofs of every component but the SQL lints, as above.

Left: the summary's figure check, with a figure as a position in a text, next to
Conversation. A run of EvalReport with `Separators = TRUE` would repeat what its
theorems say for both values.
