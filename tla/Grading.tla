-------------------------------- MODULE Grading --------------------------------
(***************************************************************************)
(* engine eval grade (eval/grade.py): the bank's rows in order, each row's *)
(* gold run afresh, its recorded reps graded one by one, its pass rate     *)
(* over the reps that reached their scenario, and one exit code for all.   *)
(***************************************************************************)
EXTENDS Assertions, FiniteSetsExt

CONSTANTS
    Banks,      \* the banks: sequences of rows
    Reports     \* the reports: sequences of [row_id, rep, turns]

IsList(s) == s \in Seq(Range(s))

(* What the models of bank and report demand; a bank's default threshold   *)
(* may be any number.                                                      *)
SoundBanks ==
    /\ \A b \in Banks :
          /\ IsList(b)
          /\ \A r \in Range(b) :
                /\ IsList(r.turns)
                /\ r.reached_floor \in Nat \ {0}
                /\ r.threshold.passes \in Int /\ r.threshold.of \in Nat \ {0}
    /\ \A records \in Reports : IsList(records) /\ \A e \in Range(records) : IsList(e.turns)

ASSUME BankAssumption == SoundBanks

VARIABLES
    stage,          \* "preflight", "row", "rep", "aggregate", "done"
    bank, played,   \* what is graded
    pinned,         \* the bank's hash and the world's manifests are the header's
    row,            \* the row at hand, by its place in the bank
    todo, graded,   \* its records still to grade, and graded, by place in the report
    failure_classes,
    breaches, documented_misses,
    row_grades,
    first_tools,    \* per route pair, the first tools observed
    exit

grading_vars ==
    <<stage, bank, played, pinned, row, todo, graded, failure_classes, breaches,
      documented_misses, row_grades, first_tools, exit>>

HasSetup(r) == \E i \in DOMAIN r.turns : r.turns[i].setup # None

(* Every committed key, as the script returned it.                         *)
Rotten(r) ==
    r.gold # None /\ \/ r.gold.raises
                     \/ \E key \in DOMAIN r.expected : Gold(r.gold.values, key) # r.expected[key]

GoldOf(r) == IF r.gold = None THEN None ELSE r.gold.values
-------------------------------------------------------------------------------
(* Whether a row's assertion says anything of a turn: a sentinel guards    *)
(* content at exit 0 only, and a finding stands down off exit 0 only.      *)
Applies(r, assertion, turn) ==
    /\ (r.sentinel /\ Content(assertion)) => turn.exit = 0
    /\ assertion.at_exit # None => turn.exit \in assertion.at_exit
    /\ ~ /\ assertion.unless_finding # None /\ turn.exit # 0
         /\ HasFinding(turn, assertion.unless_finding)

(* The assertions of one turn that fail, by their place in the row.        *)
Failed(r, record, t) ==
    LET turn == record.turns[t]
        assertions == r.turns[t].assertions
    IN  {a \in DOMAIN assertions :
           /\ Applies(r, assertions[a], turn)
           /\ ~Evaluate(assertions[a], turn, record.turns, GoldOf(r))}

Played(r, record) == {t \in DOMAIN r.turns : t \in DOMAIN record.turns}

(* The failures that are wrong content under a verified answer.            *)
Alarms(r, record) ==
    {p \in UNION {{t} \X Failed(r, record, t) : t \in Played(r, record)} :
        LET assertion == r.turns[p[1]].assertions[p[2]]
            turn == record.turns[p[1]]
        IN  Content(assertion) /\ turn.exit = 0 /\ AlarmWorthy(assertion, turn, GoldOf(r))}

(* A turn not played, or whose setup its record does not meet.             *)
Reached(r, record) ==
    \A t \in DOMAIN r.turns :
        r.turns[t].setup # None =>
            t \in DOMAIN record.turns /\ SetupReached(r.turns[t].setup, record.turns[t])

FailureClasses(r, record) ==
    (IF Played(r, record) = DOMAIN r.turns THEN {} ELSE {"turn-missing"})
    \cup {"exit" : t \in {u \in Played(r, record) : record.turns[u].exit \notin r.turns[u].exit}}
    \cup UNION {{r.turns[t].assertions[a].kind :
                   a \in {b \in Failed(r, record, t) : ~r.turns[t].assertions[b].xfail_ref}} :
                t \in Played(r, record)}

Outcome(r, record) ==
    IF ~Reached(r, record) THEN "not-reached"
    ELSE IF FailureClasses(r, record) = {} THEN "passed" ELSE "failed"

(* A slip: a rep that is not reached is looked at no further.              *)
RungReachedOnly(r, record) == IF Reached(r, record) THEN Alarms(r, record) ELSE {}

Rung(r, record) == Alarms(r, record)

Breach(r, record, rung) ==
    [row_id |-> r.id, rep |-> record.rep, turn |-> rung[1],
     assertion |-> r.turns[rung[1]].assertions[rung[2]].kind,
     severity |-> Severity(r.turns[rung[1]].assertions[rung[2]], record.turns[rung[1]])]
-------------------------------------------------------------------------------
(* A run plays its own bank's turns, and all of them unless one raised.    *)
Plausible(b, records) ==
    \A e \in Range(records) : \A r \in Range(b) :
        e.row_id = r.id => Len(e.turns) \in 1..Len(r.turns)

GradingInit ==
    /\ stage = "preflight" /\ bank \in Banks /\ played \in Reports /\ pinned \in BOOLEAN
    /\ Plausible(bank, played)
    /\ row = 1 /\ todo = {} /\ graded = {} /\ failure_classes = {}
    /\ breaches = {} /\ documented_misses = {} /\ row_grades = {}
    /\ first_tools = {} /\ exit = None

RowIds == {bank[i].id : i \in DOMAIN bank}

(* The report must be of this bank and this world, and of rows it has.     *)
Preflight ==
    /\ stage = "preflight"
    /\ IF pinned /\ \A i \in DOMAIN played : played[i].row_id \in RowIds
       THEN stage' = "row" /\ UNCHANGED exit
       ELSE stage' = "done" /\ exit' = 1
    /\ UNCHANGED <<bank, played, pinned, row, todo, graded, failure_classes, breaches,
                   documented_misses, row_grades, first_tools>>

RecordsOf(r) == {i \in DOMAIN played : played[i].row_id = r.id}

RowGrade(r, reps, passes, status, reached, classes) ==
    [row_id |-> r.id, reps |-> reps, passes |-> passes, status |-> status, xfail |-> r.xfail,
     reached |-> reached, failure_classes |-> classes]

(* A row of no records is left out.                                        *)
SkipRow ==
    /\ stage = "row" /\ row <= Len(bank)
    /\ RecordsOf(bank[row]) = {}
    /\ row' = row + 1
    /\ UNCHANGED <<stage, bank, played, pinned, todo, graded, failure_classes, breaches,
                   documented_misses, row_grades, first_tools, exit>>

(* One whose gold has rotted is graded so without a look at its reps.      *)
RotRow ==
    /\ stage = "row" /\ row <= Len(bank)
    /\ LET r == bank[row]
       IN  /\ RecordsOf(r) # {} /\ Rotten(r)
           /\ row_grades' = row_grades \cup {RowGrade(r, Cardinality(RecordsOf(r)), 0, "rot", None, {})}
    /\ row' = row + 1
    /\ UNCHANGED <<stage, bank, played, pinned, todo, graded, failure_classes, breaches,
                   documented_misses, first_tools, exit>>

OpenRow ==
    /\ stage = "row" /\ row <= Len(bank)
    /\ RecordsOf(bank[row]) # {} /\ ~Rotten(bank[row])
    /\ stage' = "rep" /\ todo' = RecordsOf(bank[row]) /\ graded' = {} /\ failure_classes' = {}
    /\ UNCHANGED <<bank, played, pinned, row, breaches, documented_misses, row_grades,
                   first_tools, exit>>

(* The records of a row by their rep, and as the report has them.          *)
Earlier(i, j) == played[i].rep < played[j].rep \/ (played[i].rep = played[j].rep /\ i <= j)

RungBreaches(r, record, breach) ==
    {Breach(r, record, alarm) :
        alarm \in {a \in Rung(r, record) : r.turns[a[1]].assertions[a[2]].breach = breach}}

(* Wrong content is noted whatever the rep's outcome; a rep that did not   *)
(* reach its scenario leaves no failure class.                             *)
GradeRep ==
    /\ stage = "rep"
    /\ \E i \in todo :
        /\ \A j \in todo : Earlier(i, j)
        /\ breaches' = breaches \cup RungBreaches(bank[row], played[i], TRUE)
        /\ documented_misses' = documented_misses \cup RungBreaches(bank[row], played[i], FALSE)
        /\ failure_classes' = failure_classes \cup
             (IF Outcome(bank[row], played[i]) = "not-reached" THEN {}
              ELSE FailureClasses(bank[row], played[i]))
        /\ graded' = graded \cup {i} /\ todo' = todo \ {i}
        /\ stage' = IF todo = {i} THEN "aggregate" ELSE "rep"
    /\ UNCHANGED <<bank, played, pinned, row, row_grades, first_tools, exit>>

ReachedReps(r, reps) == {i \in reps : Outcome(r, played[i]) # "not-reached"}
Passes(r, reps) == Cardinality({i \in reps : Outcome(r, played[i]) = "passed"})

Met(r, reps) ==
    Passes(r, reps) * r.threshold.of >= r.threshold.passes * Cardinality(ReachedReps(r, reps))

Status(r, reps) ==
    IF HasSetup(r) /\ Cardinality(ReachedReps(r, reps)) < r.reached_floor THEN "inconclusive"
    ELSE IF r.xfail THEN (IF Met(r, reps) THEN "xpass" ELSE "xfail")
    ELSE (IF Met(r, reps) THEN "ok" ELSE "fail")

(* The first tool of each rep, for the rows that must route alike.         *)
FirstTools(r, reps) ==
    {<<r.route_pair, Head(played[i].turns[1].tools_used)>> :
       i \in {j \in reps : played[j].turns # <<>> /\ played[j].turns[1].tools_used # <<>>}}

Aggregate ==
    /\ stage = "aggregate"
    /\ LET r == bank[row]
       IN  /\ row_grades' = row_grades \cup
                {RowGrade(r, Cardinality(graded), Passes(r, graded), Status(r, graded),
                          IF HasSetup(r) THEN Cardinality(ReachedReps(r, graded)) ELSE None,
                          failure_classes)}
           /\ first_tools' = IF r.route_pair = None THEN first_tools
                             ELSE first_tools \cup FirstTools(r, graded)
    /\ row' = row + 1 /\ stage' = "row"
    /\ UNCHANGED <<bank, played, pinned, todo, graded, failure_classes, breaches,
                   documented_misses, exit>>

(* A slip: a row that settled nothing gates nothing.                       *)
GatesOnFailure(grade) == grade.status = "fail"

Gates(grade) == grade.status = "fail" \/ (grade.status = "inconclusive" /\ ~grade.xfail)

(* A breach outranks rot, and rot a threshold.                             *)
ExitCode ==
    IF breaches # {} THEN 4
    ELSE IF \E grade \in row_grades : grade.status = "rot" THEN 3
    ELSE IF \E grade \in row_grades : Gates(grade) THEN 2 ELSE 0

Finish ==
    /\ stage = "row" /\ row > Len(bank)
    /\ exit' = ExitCode /\ stage' = "done"
    /\ UNCHANGED <<bank, played, pinned, row, todo, graded, failure_classes, breaches,
                   documented_misses, row_grades, first_tools>>

Rest == stage = "done" /\ UNCHANGED grading_vars

GradingNext == Preflight \/ SkipRow \/ RotRow \/ OpenRow \/ GradeRep \/ Aggregate \/ Finish \/ Rest

GradingSpec == GradingInit /\ [][GradingNext]_grading_vars
-------------------------------------------------------------------------------
(* A wrong-but-verified occurrence in a report: a recorded turn at exit 0  *)
(* whose content assertion fails, in phrasing and window convention no     *)
(* occurrence.  Neither the row's xfail, its setup nor its threshold is    *)
(* asked.                                                                  *)
Wronged(r, record) ==
    \E t \in (DOMAIN r.turns) \cap (DOMAIN record.turns) :
        \E a \in DOMAIN r.turns[t].assertions :
            LET turn == record.turns[t]
                assertion == r.turns[t].assertions[a]
            IN  /\ turn.exit = 0 /\ Content(assertion) /\ assertion.breach
                /\ assertion.at_exit = None \/ 0 \in assertion.at_exit
                /\ assertion.kind # "contains"
                /\ ~Evaluate(assertion, turn, record.turns, GoldOf(r))
                /\ assertion.kind = "window_data_anchored"
                      => assertion.forbid \cap Windowed(turn) # {}
                         /\ Gold(GoldOf(r), assertion.field) # None

Occurs(rotten) ==
    \E r \in Range(bank), record \in Range(played) :
        record.row_id = r.id /\ (Rotten(r) => rotten) /\ Wronged(r, record)

Graded == stage = "done" /\ exit # 1

(* grade: one wrong-but-verified turn anywhere in the report fails the     *)
(* whole grade with exit 4, under an xfail, in a sentinel, in a rep that   *)
(* did not reach its scenario; and nothing else gives exit 4.  What the    *)
(* bank marks breach: false is not wrong enough, and an assertion of       *)
(* "contains" never is.  Rows whose gold has rotted are not looked at, and *)
(* they fail the grade themselves.                                         *)
AlarmAlwaysRings ==
    Graded => /\ (exit = 4) <=> Occurs(FALSE)
              /\ exit \in {0, 2} => ~Occurs(TRUE)

(* grade, _grade_rep: a clean grade was earned.  Every row of the report   *)
(* that no xfail excuses has reps that ran its scenario, its floor of them *)
(* where it has one; and of those as many as the threshold asks were       *)
(* played in full and ended as expected, whatever reps that did not run    *)
(* the scenario are in the report.                                         *)
CleanIsEarned ==
    (Graded /\ exit = 0) =>
        \A r \in Range(bank) :
            LET mine == {i \in DOMAIN played : played[i].row_id = r.id}
                ran == {i \in mine : \A t \in DOMAIN r.turns : r.turns[t].setup # None =>
                                        /\ t \in DOMAIN played[i].turns
                                        /\ SetupReached(r.turns[t].setup, played[i].turns[t])}
                good == {i \in ran : /\ Len(played[i].turns) = Len(r.turns)
                                     /\ \A t \in DOMAIN r.turns :
                                            played[i].turns[t].exit \in r.turns[t].exit}
            IN  (mine # {} /\ ~r.xfail) =>
                    /\ ran # {}
                    /\ HasSetup(r) => Cardinality(ran) >= r.reached_floor
                    /\ Cardinality(good) * r.threshold.of >= r.threshold.passes * Cardinality(ran)
===============================================================================
