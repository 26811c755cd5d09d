------------------------------- MODULE Harvest -------------------------------
(***************************************************************************)
(* What each tool's invocation contributes to the pools of evidence        *)
(* (verifier/checks/).  A piece of retrieved text is what the harvest      *)
(* reads in it: [names, figures, passage], the identifier tokens, the      *)
(* numeric literals and the text itself as a passage [lines, words].       *)
(*                                                                         *)
(* How a number was obtained decides what a claim may do with it: a cell   *)
(* of a result, a count, a statistic, a literal in code or prose.          *)
(***************************************************************************)
EXTENDS Matching

Number(value, salience, row, sum) ==
    [value |-> value, salience |-> salience, row |-> row, sum |-> sum]
Count(value) == Number(value, "count", None, FALSE)
Literals(figures) == [i \in DOMAIN figures |-> Number(figures[i], "literal", None, FALSE)]
Filled(values) == SelectSeq(values, LAMBDA v : v # None)

Named(names) == [EmptyPools EXCEPT !.vocabulary = names]
Numbers(numbers) == [EmptyPools EXCEPT !.numbers = numbers]
Strings(strings) == [EmptyPools EXCEPT !.strings = strings]
Quotable1(passage) == [EmptyPools EXCEPT !.corpus = {passage}]

(* Retrieved prose, code or a condition: names, literals and the text.     *)
Prose(text) ==
    MergeContributions(<<Named(text.names), Numbers(Literals(text.figures)),
                         Quotable1(text.passage)>>)

Each(seq, Contribution(_)) ==
    MergeContributions([i \in DOMAIN seq |-> Contribution(seq[i])])

(* Every invocation: arguments and field names, whole or not at all.       *)
HarvestInvocation(invocation) ==
    MergeTwo(Named({a.name : a \in {b \in invocation.arguments : b.shape = "identifier"}}
                   \cup invocation.fields),
             Strings({a.date : a \in {b \in invocation.arguments : b.shape = "date"}}))

(***************************************************************************)
(* run_sql: the cells by row, the columns' sums when there are several     *)
(* rows, the two row counts; a cell is [amount, text], one of them None,   *)
(* or both for a null or a boolean.                                        *)
(***************************************************************************)
Columns(rows) == UNION {DOMAIN rows[i] : i \in DOMAIN rows}
ColumnSum(rows, c) ==
    FoldLeft(LAMBDA total, row : total + (IF row[c].amount = None THEN 0 ELSE row[c].amount), 0, rows)
HasAmount(rows, c) == \E i \in DOMAIN rows : rows[i][c].amount # None

RowCells(row, name) ==
    LET columns == SetToSeq({c \in DOMAIN row : row[c].amount # None})
    IN  [k \in DOMAIN columns |-> Number(row[columns[k]].amount, "cell", name, FALSE)]

HarvestTable(table, tag) ==
    LET rows == table.rows
        summed == SetToSeq({c \in Columns(rows) : HasAmount(rows, c)})
    IN  MergeContributions(<<
          Numbers(FlattenSeq([i \in DOMAIN rows |-> RowCells(rows[i], <<tag, i>>)])),
          Numbers(IF Len(rows) > 1
                  THEN [k \in DOMAIN summed |-> Number(ColumnSum(rows, summed[k]), "cell", None, TRUE)]
                  ELSE <<>>),
          Numbers(<<Count(100 * table.total), Count(100 * Len(rows))>>),
          Strings({rows[i][c].text : i \in DOMAIN rows, c \in Columns(rows)} \ {None}),
          Named(table.names), Quotable1(table.sql)>>)

(***************************************************************************)
(* query_univariate_stats: row_count and distinct_count are counts, the    *)
(* rest of a row statistics, grouped by row; a bound that is no number     *)
(* and the most frequent values are strings.                               *)
(***************************************************************************)
HarvestStat(row, name) ==
    LET OfRow(salience, values) ==
            [i \in DOMAIN values |-> Number(values[i], salience, name, FALSE)]
    IN  MergeContributions(<<
          Numbers(OfRow("count", <<row.row_count, row.distinct_count>>)),
          Numbers(OfRow("stat", Filled(<<row.null_rate, row.mean, row.min.amount, row.max.amount>>))),
          Strings({row.min.text, row.max.text} \ {None}),
          Strings({top.text : top \in ToSet(row.top)}),
          Named({row.table, row.column} \cup {top.name : top \in {t \in ToSet(row.top) : t.name # None}}),
          Numbers(OfRow("count", [i \in DOMAIN row.top |-> row.top[i].count]))>>)

HarvestStats(output, tag) ==
    MergeContributions([i \in DOMAIN output.rows |-> HarvestStat(output.rows[i], <<tag, i>>)])

(***************************************************************************)
(* traverse_code_knowledge_graph: nodes with their line ranges, the tables *)
(* of edges, conditions, and how many of each came back.                   *)
(***************************************************************************)
CountOf(seq) == IF seq = <<>> THEN <<>> ELSE <<Count(100 * Len(seq))>>

HarvestNode(node) ==
    MergeContributions(<<Named(node.suffixes), Each(node.texts, Prose),
        [EmptyPools EXCEPT !.line_refs = {[file |-> node.file, first |-> node.first, last |-> node.last]}]>>)

HarvestTraversal(output) ==
    MergeContributions(<<
        Each(output.nodes \o output.entry, HarvestNode),
        Each(output.component, LAMBDA c : MergeTwo(Named(c.names), Quotable1(c.passage))),
        Named(output.tables), Each(output.conditionals, Prose),
        Numbers(CountOf(output.nodes) \o CountOf(output.edges) \o CountOf(output.conditionals))>>)

(***************************************************************************)
(* lookup_data_dictionary: names are vocabulary, a concept's, metric's or  *)
(* gotcha's name is quotable whole, prose is harvested; enum values are    *)
(* strings as well.  Paraphrase is not checked.                            *)
(***************************************************************************)
HarvestEntry(entry) ==
    MergeContributions(<<Named(entry.names), Strings(entry.enum_values),
                         [EmptyPools EXCEPT !.corpus = entry.titles], Each(entry.prose, Prose)>>)

HarvestDictionary(output) ==
    Each(output.rows \o output.concepts \o output.metrics \o output.paths \o output.gotchas,
         HarvestEntry)

(***************************************************************************)
(* check_execution: the run count, the errors' fields by row, how many     *)
(* errors are shown and how many there were, the log lines.                *)
(***************************************************************************)
HarvestError(error, name) ==
    MergeContributions(<<Named(error.names), Strings(error.strings),
                         Numbers([i \in DOMAIN error.amounts |-> Number(error.amounts[i], "cell", name, FALSE)])>>)

HarvestLine(line) == MergeContributions(<<Named(line.names), Strings(line.dates), Quotable1(line.passage)>>)

HarvestExecution(output, tag) ==
    MergeContributions(<<
        Each(output.run_status, LAMBDA r : MergeTwo(Numbers(<<Count(100 * r.count)>>), HarvestLine(r.detail))),
        MergeContributions([i \in DOMAIN output.errors |-> HarvestError(output.errors[i], <<tag, i>>)]),
        Numbers(IF output.listed THEN <<Count(100 * Len(output.errors))>> ELSE <<>>),
        Numbers(IF output.error_count = None THEN <<>> ELSE <<Count(100 * output.error_count)>>),
        Each(output.lines, HarvestLine)>>)

(***************************************************************************)
(* read_source: the range grounds locations, the code is quotable and its  *)
(* figures literals.  search_business_docs: the sections as retrieved, not *)
(* as shown, and a hit's headings.  What a human wrote of the application  *)
(* (app_primer, app_capabilities, answer_from_known_items) is quotable and *)
(* has no figures: a figure must trace to a tool that bears data.          *)
(***************************************************************************)
HarvestSource(output) ==
    MergeContributions(<<Named(output.suffixes), Strings({output.commit}), Prose(output.text),
        [EmptyPools EXCEPT !.line_refs = {[file |-> output.file, first |-> output.first, last |-> output.last]}]>>)

HarvestDocs(output) ==
    MergeTwo(Each(output.hits, LAMBDA h : MergeTwo(Named(h.names), Strings(h.headings))),
             Each(output.sections, Prose))

HarvestWritten(output) ==
    Each(output.passages, LAMBDA t : MergeContributions(<<Named(t.names), Strings(t.titles), Quotable1(t.passage)>>))

(* The registered check of each tool.                                      *)
HarvestOutput(invocation, tag) ==
    IF invocation.output = None THEN EmptyPools ELSE
    CASE invocation.tool = "run_sql" -> HarvestTable(invocation.output, tag)
      [] invocation.tool = "query_univariate_stats" -> HarvestStats(invocation.output, tag)
      [] invocation.tool = "traverse_code_knowledge_graph" -> HarvestTraversal(invocation.output)
      [] invocation.tool = "lookup_data_dictionary" -> HarvestDictionary(invocation.output)
      [] invocation.tool = "check_execution" -> HarvestExecution(invocation.output, tag)
      [] invocation.tool = "read_source" -> HarvestSource(invocation.output)
      [] invocation.tool = "search_business_docs" -> HarvestDocs(invocation.output)
      [] OTHER -> HarvestWritten(invocation.output)

(* A failed call supports no claim.                                        *)
Supports(invocation) == invocation.status = "ok" /\ invocation.output # None

Pools(evidence) ==
    MergeContributions([i \in DOMAIN evidence |->
        IF Supports(evidence[i])
        THEN MergeTwo(HarvestInvocation(evidence[i]), HarvestOutput(evidence[i], i))
        ELSE EmptyPools])
===============================================================================
