---------------------------- MODULE MCVerification ----------------------------
(* Instances of Verification: texts made of seven phrases, spans injected  *)
(* around and inside them, and evidence of every tool with a check.        *)
EXTENDS Verification

Rule90 == [text |-> "rule_90", folded |-> "rule_90"]
Rule90Upper == [text |-> "Rule_90", folded |-> "rule_90"]
Table == [text |-> "invoices", folded |-> "invoices"]

Amount(value, percent, resolution, spelled) ==
    [date |-> None, value |-> value, percent |-> percent, resolution |-> resolution, spelled |-> spelled]
Date(date) == [Amount(0, FALSE, None, None) EXCEPT !.date = date]
Entity(name) == [location |-> FALSE, name |-> name]
Location(file, first, last) == [location |-> TRUE, file |-> file, first |-> first, last |-> last]
Quoted(text, fenced) == [text |-> text, fenced |-> fenced]
Plain(pass, from, to, says) == Sighting(pass, from, to, {}, {}, TRUE, FALSE, says)
Over(pass, from, to, over, cue, says) == Sighting(pass, from, to, over, cue, TRUE, FALSE, says)
Code(from, to, body) == Sighting("inline", from, to, {}, {}, TRUE, TRUE, Entity(body))

(* `rule_90`, bare rule_90 inside it                                       *)
Backticked == {Code(0, 9, Rule90), Plain("snake", 1, 8, Entity(Rule90))}
(* Rule_90                                                                 *)
Bare == {Plain("snake", 1, 8, Entity(Rule90Upper))}
(* May 29; March 45 - a day that is none                                   *)
MayDay == {Plain("month_day", 10, 16, Date(<<"05-29">>)), Plain("number", 14, 16, Amount(2900, FALSE, 50, None))}
NoDay == {Sighting("month_day", 10, 18, {}, {}, FALSE, FALSE, Date(<<"03-45">>)),
          Plain("number", 16, 18, Amount(4500, FALSE, 50, None))}
(* 15%                                                                     *)
Percent == {Plain("number", 20, 23, Amount(1500, TRUE, 50, None))}
(* about a quarter                                                         *)
Quarter == {Over("fraction", 30, 39, {}, 24..28, Amount(25, FALSE, 10, None))}
(* 1.4 thousand                                                            *)
Thousand == {Plain("magnitude", 41, 53, Amount(140000, FALSE, 5000, None)),
             Plain("number", 41, 44, Amount(140, FALSE, 5, None))}
(* the twelve                                                              *)
Twelve == {Over("cardinal", 58, 64, {}, 54..56, Amount(1200, FALSE, 50, "twelve"))}
(* "1. " and a fenced block with a 7 in it, and lines 4-6                  *)
Listed == {Plain("list_marker", 66, 69, Date(<<"none">>)), Plain("number", 66, 67, Amount(100, FALSE, 50, None))}
Fenced == {Plain("fenced", 70, 90, Quoted(<<"if x:", "...", "return 7">>, TRUE)),
           Plain("number", 80, 81, Amount(700, FALSE, 50, None))}
Lines == {Plain("line_ref", 92, 102, Location(<<"rules.py">>, 4, 6)),
          Plain("number", 99, 100, Amount(400, FALSE, 50, None))}
(* 2026-05-29-12: the last is a number once the date is blanked            *)
IsoDate == {Plain("iso_date", 110, 120, Date(<<"2026", "05-29">>)),
            Plain("number", 110, 114, Amount(202600, FALSE, 50, None)),
            Over("number", 120, 123, {119}, {}, Amount(-1200, FALSE, 50, None))}

(* Read across what is blanked.  March `rule_90` 15                        *)
DayAround == {Code(6, 15, Rule90), Plain("snake", 7, 14, Entity(Rule90)),
              Over("month_day", 0, 18, 6..14, {}, Date(<<"03-15">>)),
              Plain("number", 16, 18, Amount(1500, FALSE, 50, None))}
(* May 2026-05-29 12                                                       *)
DayAroundDate == {Plain("iso_date", 114, 124, Date(<<"2026", "05-29">>)),
                  Plain("number", 114, 118, Amount(202600, FALSE, 50, None)),
                  Over("month_day", 110, 127, 114..123, {}, Date(<<"05-12">>)),
                  Plain("number", 125, 127, Amount(1200, FALSE, 50, None))}
(* 12 `rule_90` thousand                                                   *)
ThousandAround == {Code(3, 12, Rule90), Plain("snake", 4, 11, Entity(Rule90)),
                   Over("magnitude", 0, 21, 3..11, {}, Amount(1200000, FALSE, 50000, None)),
                   Plain("number", 0, 2, Amount(1200, FALSE, 50, None))}
(* about `rule_90` a quarter; `about` half, where the cue is blanked       *)
QuarterAfter == {Code(30, 39, Rule90), Plain("snake", 31, 38, Entity(Rule90)),
                 Over("fraction", 40, 49, 30..38, 24..28, Amount(25, FALSE, 10, None))}
NoCue == {Code(24, 31, Table), Over("fraction", 32, 36, {}, 25..29, Amount(50, FALSE, 10, None))}
(* the `rule_90` twelve                                                    *)
TwelveAfter == {Code(74, 83, Rule90), Plain("snake", 75, 82, Entity(Rule90)),
                Over("cardinal", 84, 90, 74..82, 70..72, Amount(1200, FALSE, 50, "twelve"))}
(* `x`12. : a line that begins with a list marker once the code is blanked *)
ListedAfter == {Code(100, 103, Table),
                Over("list_marker", 100, 107, 100..102, {99}, Date(<<"none">>)),
                Plain("number", 103, 105, Amount(1200, FALSE, 50, None))}
(* backticks around a whole fenced block, with a figure after it           *)
QuoteAround == Fenced \cup {Over("inline", 67, 96, 70..89, {}, Quoted(<<"a 8 b">>, FALSE)),
                            Plain("number", 92, 93, Amount(800, FALSE, 50, None))}

Texts == {Backticked \cup Percent \cup Twelve, Bare \cup NoDay \cup Quarter, MayDay \cup Percent,
          Thousand \cup Percent \cup Quarter \cup Twelve, Backticked \cup MayDay \cup Percent \cup Quarter,
          Twelve \cup Listed, Fenced \cup Lines \cup Percent,
          IsoDate \cup NoDay, Percent \cup Twelve \cup Thousand, Quarter \cup Lines \cup MayDay,
          DayAround \cup Percent \cup TwelveAfter, ThousandAround \cup QuarterAfter \cup ListedAfter,
          DayAroundDate \cup NoCue \cup QuoteAround}

(* What the first call returned, whatever the tool, as the drafter sees    *)
(* it: a row of values, one of them a passage.                             *)
Tree == P!Object([table |-> P!Object([rows |-> P!List(<<P!Object(
            [share |-> P!Scalar(3), bare |-> P!Scalar(2), name |-> P!Text(7, 1),
             word |-> P!Text(6, 1), code |-> P!Text(14, 3)])>>)])])

At(width, column, fenced) ==
    P!Placeholder(width, 0, <<P!Segment("output"), P!Segment("table"), P!Indexed("rows", -1), P!Segment(column)>>, fenced)
Lost == [At(30, "share", FALSE) EXCEPT !.path = Append(@, P!Segment("percent"))]
Inside == [At(30, "name", FALSE) EXCEPT !.path = Append(@, P!Segment("first"))]
Elsewhere == [At(18, "share", FALSE) EXCEPT !.index = 3]

(* The typed text around them: everything; the share, with its percent     *)
(* sign or before it; the name, in either of two places; the share and a word; a block quoted       *)
(* whole, in a fence or not; the share after a block; what does not resolve*)
Whole == <<P!Typed(130)>>
Raws ==
    {Whole, <<P!Typed(7), At(24, "name", FALSE), P!Typed(116)>>, <<P!Typed(20), At(30, "share", FALSE), P!Typed(107)>>,
     <<P!Typed(1), At(24, "name", FALSE), P!Typed(122)>>,
     <<P!Typed(20), At(28, "bare", FALSE), P!Typed(36), At(25, "word", FALSE), P!Typed(66)>>,
     <<P!Typed(20), At(29, "share", FALSE), P!Typed(7), At(25, "word", FALSE), P!Typed(94)>>,
     <<P!Typed(3), At(24, "name", FALSE), P!Typed(10), At(30, "share", FALSE), P!Typed(107)>>}
Blocks ==
    {<<P!Typed(73), At(25, "code", fenced), P!Typed(43)>> : fenced \in BOOLEAN}
    \cup {<<P!Typed(73), At(25, "code", FALSE), P!Typed(12), At(20, "bare", TRUE), P!Typed(29)>>}
Unresolved == {<<P!Typed(20), bad, P!Typed(100)>> : bad \in {Lost, Inside, Elsewhere}}

MCDrafts ==
    {[kind |-> "prose", caption |-> <<>>, text |-> t, raw |-> raw] : t \in Texts, raw \in Raws}
    \cup {[kind |-> "prose", caption |-> <<>>, text |-> t, raw |-> raw] :
            t \in {Fenced \cup Lines \cup Percent}, raw \in Blocks \cup Unresolved}
    \cup {[kind |-> "table_passthrough", caption |-> c, text |-> Twelve, raw |-> <<>>] :
            c \in {<<>>, <<"select 1">>, <<"the twelve">>}}

Passage(lines, words) == [lines |-> lines, words |-> words]
Text(names, figures, passage) == [names |-> names, figures |-> figures, passage |-> passage]
Call(tool, output) ==
    [tool |-> tool, status |-> "ok", output |-> output, arguments |-> {}, fields |-> {}, tree |-> Tree]
Cell(amount) == [amount |-> amount, text |-> None]
SqlTable(rows) ==
    Call("run_sql", [rows |-> rows, total |-> Len(rows), names |-> {Table},
                     sql |-> Passage(<<"select 1">>, {"select"})])

(* a cell of 0.15, which says nothing of 15%                               *)
Fraction == SqlTable(<<[share |-> Cell(15)]>>)
(* 30 of 200 in one row; and a day                                         *)
Shares == SqlTable(<<[n |-> Cell(3000), of |-> Cell(20000), on |-> [amount |-> None, text |-> <<"2026", "05-29">>]]>>)
(* rows enough to pass the cap on pairs                                    *)
Many == SqlTable(<<[n |-> Cell(300), of |-> Cell(700)], [n |-> Cell(3000), of |-> Cell(20000)]>>)
(* 3 and 20 in different rows make no 15%                                  *)
Apart == SqlTable(<<[n |-> Cell(300)], [n |-> Cell(2000)]>>)
Failed == [tool |-> "run_sql", status |-> "error", output |-> None, fields |-> {}, tree |-> None,
           arguments |-> {[shape |-> "identifier", name |-> Rule90], [shape |-> "date", date |-> <<"2026", "05-29">>],
                          [shape |-> "text"]}]
Stat == Call("query_univariate_stats",
    [rows |-> <<[table |-> Table, column |-> Table, row_count |-> 20000, distinct_count |-> 3000,
                 null_rate |-> 15, mean |-> 139000, min |-> Cell(None), max |-> [amount |-> None, text |-> <<"2026", "05-30">>],
                 top |-> <<[text |-> <<"OPEN">>, name |-> None, count |-> 1200]>>]>>])
Traversal == Call("traverse_code_knowledge_graph",
    [nodes |-> <<[suffixes |-> {Rule90}, file |-> <<"engine", "rules.py">>, first |-> 1, last |-> 9,
                  texts |-> <<Text({Rule90}, <<700>>, Passage(<<"if x:", "y", "return 7">>, {}))>>]>>,
     entry |-> <<>>, component |-> <<[names |-> {Table}, passage |-> Passage(<<"the twelve">>, {"the", "twelve"})]>>,
     tables |-> {Table}, edges |-> <<1, 2>>, conditionals |-> <<Text({}, <<25>>, Passage(<<"x > 0.25">>, {}))>>])
NoEntry == [names |-> {}, enum_values |-> {}, titles |-> {}, prose |-> <<>>]
Dictionary == Call("lookup_data_dictionary",
    [rows |-> <<[NoEntry EXCEPT !.names = {Table}, !.enum_values = {<<"OPEN">>}]>>,
     concepts |-> <<[NoEntry EXCEPT !.titles = {Passage(<<"the twelve">>, {"twelve"})}]>>,
     metrics |-> <<[NoEntry EXCEPT !.prose = <<Text({Rule90}, <<15>>, Passage(<<"0.15">>, {}))>>]>>,
     paths |-> <<>>, gotchas |-> <<>>])
Logs == Call("check_execution",
    [run_status |-> <<[count |-> 36, detail |-> [names |-> {Table}, dates |-> {<<"2026", "05-29">>},
                                                passage |-> Passage(<<"ran">>, {})]]>>,
     errors |-> <<[names |-> {Rule90}, strings |-> {<<"late">>}, amounts |-> <<2900>>]>>, listed |-> TRUE,
     error_count |-> 24, lines |-> <<>>])

Source == Call("read_source",
    [suffixes |-> {Rule90}, commit |-> <<"4fe1">>, file |-> <<"engine", "rules.py">>, first |-> 4, last |-> 9,
     text |-> Text({Rule90}, <<15, 700>>, Passage(<<"if x:", "y", "return 7">>, {}))])
Docs == Call("search_business_docs",
    [hits |-> <<[names |-> {Table}, headings |-> {<<"Late fees">>}]>>,
     sections |-> <<Text({}, <<4500>>, Passage(<<"the twelve">>, {"the", "twelve"}))>>])
Primer == Call("app_primer",
    [passages |-> <<[names |-> {Rule90}, titles |-> {}, passage |-> Passage(<<"select 1">>, {"select"})]>>])

MCEvidences ==
    {<<>>, <<Fraction>>, <<Shares>>, <<Many, Logs>>, <<Failed>>, <<Failed, Stat>>, <<Traversal>>,
     <<Dictionary, Logs>>, <<Fraction, Traversal>>, <<Apart>>, <<Stat, Logs>>, <<Dictionary, Many>>,
     <<Source>>, <<Docs, Shares>>, <<Primer, Failed>>}
===============================================================================
