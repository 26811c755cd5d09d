------------------------------ MODULE EvalReport ------------------------------
(***************************************************************************)
(* engine eval run: the report a sweep appends to, killed and resumed.     *)
(*                                                                         *)
(* The report is a file of lines: a header, then a record per (row, rep).  *)
(* A line is the sequence of pieces written to it, which is one piece      *)
(* unless a kill kept a newline from being written; a piece cut short is   *)
(* Part, and no JSON.  A process is killed at any step, and its last write *)
(* may have got anywhere.                                                  *)
(***************************************************************************)
EXTENDS Naturals, Sequences, SequencesExt, FiniteSets

CONSTANTS
    NumKeys,    \* (row, rep) keys of the bank, in its order
    NumTurns,   \* turns of a row
    Systems,    \* what the headers of two environments tell apart
    Separators, \* answers may hold U+2028 and its like, where splitlines splits
    MaxStarts   \* bound: processes started over one report

ASSUME EvalReportAssumption ==
    /\ NumKeys \in Nat \ {0} /\ NumTurns \in Nat \ {0} /\ MaxStarts \in Nat
    /\ Separators \in BOOLEAN

Keys == 1..NumKeys
RepAttempts == 2

VARIABLES
    pc,           \* "off", or what the process does next
    result,       \* how the last process ended
    report,       \* the file: [exists, lines, terminated]
    system,       \* the environment the process runs in
    pending,      \* the keys left to play
    selected,     \* the keys asked for
    attempt, turns, conversation,  \* the rep being played
    conversations,\* conversations the throwaway work store has held
    starts,       \* processes so far
    synced,       \* keys whose record was fsynced (history)
    newline_lost  \* a kill left a whole line with no newline (history)

rep == <<attempt, turns, conversation>>
vars == <<pc, result, report, system, pending, selected, attempt, turns, conversation,
          conversations, starts, synced, newline_lost>>

Part == [kind |-> "part"]
Header(s) == [kind |-> "header", system |-> s]
Record(k, s, n, played) ==
    [kind |-> "record", key |-> k, system |-> s, attempts |-> n, turns |-> played]

NoReport == [exists |-> FALSE, lines |-> <<>>, terminated |-> TRUE]
NoConversation == [id |-> 0, spent |-> 0]

Init ==
    /\ pc = "off" /\ result = "none"
    /\ report = NoReport
    /\ system \in Systems /\ pending = {} /\ selected = {}
    /\ attempt = 1 /\ turns = <<>> /\ conversation = NoConversation
    /\ conversations = 0 /\ starts = 0
    /\ synced = {} /\ newline_lost = FALSE

End(how) == pc' = "off" /\ result' = how
-------------------------------------------------------------------------------
(* The text appended where the file ends: on its last line, if that has no *)
(* newline.                                                                *)
AtEnd(lines, terminated, text) ==
    IF terminated THEN lines \o text
    ELSE Front(lines) \o <<Last(lines) \o Head(text)>> \o Tail(text)

Written(text, terminated) ==
    [exists |-> TRUE, lines |-> AtEnd(report.lines, report.terminated, text),
     terminated |-> terminated]

Parses(line) == Len(line) = 1 /\ line[1] # Part

(* Trailing lines that are no JSON are dropped.                            *)
Kept == LET good == {n \in DOMAIN report.lines : Parses(report.lines[n])}
        IN  SubSeq(report.lines, 1, CHOOSE n \in good \cup {0} : \A m \in good : m <= n)

Start(s, keys, resume) ==
    /\ pc = "off" /\ starts < MaxStarts
    /\ starts' = starts + 1
    /\ system' = s /\ selected' = keys
    /\ attempt' = 1 /\ turns' = <<>> /\ conversation' = NoConversation
    /\ \/ ~report.exists /\ pc' = "header" /\ result' = "none"
       \/ report.exists /\ resume /\ pc' = "load" /\ result' = "none"
       \/ report.exists /\ ~resume /\ End("refused")
    /\ UNCHANGED <<report, pending, conversations, synced, newline_lost>>

(* A slip: a resume plays everything again.                                *)
MissingAll(keys, done) == keys

Missing(keys, done) == keys \ done

(* The keys are played in the bank's order.                                *)
Now == CHOOSE k \in pending : \A m \in pending : k <= m

(* The sweep, or nothing to do.                                            *)
Sweep(done) ==
    /\ pending' = Missing(selected, done)
    /\ IF pending' = {} THEN End("finished") ELSE pc' = "play" /\ UNCHANGED result

WriteHeader ==
    /\ pc = "header"
    /\ report' = Written(<<<<Header(system)>>>>, TRUE)
    /\ Sweep({})
    /\ UNCHANGED <<system, selected, rep, conversations, starts, synced, newline_lost>>

Load ==
    /\ pc = "load"
    /\ IF Kept = <<>> THEN End("refused")
       ELSE /\ pc' = IF Kept = report.lines THEN "resume" ELSE "rewrite"
            /\ UNCHANGED result
    /\ UNCHANGED <<report, system, pending, selected, rep, conversations, starts, synced,
                   newline_lost>>

(* A slip: the lines are joined, and not ended.                            *)
RewrittenUnended == [report EXCEPT !.lines = Kept, !.terminated = FALSE]

Rewritten == [report EXCEPT !.lines = Kept, !.terminated = TRUE]

Rewrite ==
    /\ pc = "rewrite"
    /\ report' = Rewritten
    /\ pc' = "resume"
    /\ UNCHANGED <<result, system, pending, selected, rep, conversations, starts, synced,
                   newline_lost>>

(* load_report can parse it: the header, then a record to a line.          *)
Readable ==
    /\ report.lines # <<>> /\ \A n \in DOMAIN report.lines : Parses(report.lines[n])

(* A slip: the header is not compared.                                     *)
SameSystemUnchecked == TRUE

SameSystem == report.lines[1] = <<Header(system)>>

Resume ==
    /\ pc = "resume"
    /\ IF Readable /\ SameSystem
         THEN Sweep({report.lines[n][1].key : n \in 2..Len(report.lines)})
         ELSE /\ End(IF Readable THEN "refused" ELSE "unreadable")
              /\ UNCHANGED pending
    /\ UNCHANGED <<report, system, selected, rep, conversations, starts, synced, newline_lost>>
-------------------------------------------------------------------------------
(* session.ask answers: in a conversation of its own, from the first turn. *)
Answered ==
    /\ pc = "play"
    /\ conversations' = IF conversation.id = 0 THEN conversations + 1 ELSE conversations
    /\ conversation' = [id |-> IF conversation.id = 0 THEN conversations' ELSE conversation.id,
                        spent |-> conversation.spent + 1]
    /\ turns' = Append(turns, [conversation_id |-> conversation'.id,
                               engine_turn |-> conversation'.spent, error |-> FALSE])
    /\ pc' = IF Len(turns') = NumTurns THEN "append" ELSE "play"
    /\ UNCHANGED <<result, report, system, pending, selected, attempt, starts, synced,
                   newline_lost>>

(* The turn it raised in is spent; a conversation it opened is taken back, *)
(* or is not when what failed is the write after the graph.                *)
Raised ==
    IF conversation.id = 0
      THEN conversations' \in {conversations, conversations + 1}
      ELSE UNCHANGED conversations

Final == attempt >= RepAttempts

(* A slip: the next attempt goes on in the same conversation.              *)
ReplayInPlace ==
    turns' = <<>> /\ conversation' = [conversation EXCEPT !.spent = @ + 1]

Replay == turns' = <<>> /\ conversation' = NoConversation

TimedOut ==
    /\ pc = "play" /\ ~Final
    /\ attempt' = attempt + 1
    /\ Replay
    /\ Raised
    /\ UNCHANGED <<pc, result, report, system, pending, selected, starts, synced, newline_lost>>

(* Any other error, or a timeout of the last attempt, ends the rep.        *)
TurnFails ==
    /\ pc = "play"
    /\ turns' = Append(turns, [conversation_id |-> conversation.id, engine_turn |-> 0,
                               error |-> TRUE])
    /\ Raised
    /\ pc' = "append"
    /\ UNCHANGED <<result, report, system, pending, selected, attempt, conversation, starts,
                   synced, newline_lost>>

ThisRecord == Record(Now, system, attempt, turns)

Texts(r) == {<<<<r>>>>} \cup (IF Separators THEN {<<<<Part>>, <<Part>>>>} ELSE {})

AppendRecord ==
    /\ pc = "append"
    /\ \E text \in Texts(ThisRecord) : report' = Written(text, TRUE)
    /\ synced' = synced \cup {Now}
    /\ pending' = pending \ {Now}
    /\ attempt' = 1 /\ turns' = <<>> /\ conversation' = NoConversation
    /\ IF pending' = {} THEN End("finished") ELSE pc' = "play" /\ UNCHANGED result
    /\ UNCHANGED <<system, selected, conversations, starts, newline_lost>>
-------------------------------------------------------------------------------
(* Where a kill can leave the write under way: not begun, cut short, or    *)
(* short of its newline; a rewrite has emptied the file first.             *)
HeaderCut ==
    {[exists |-> TRUE, lines |-> <<>>, terminated |-> TRUE],
     Written(<<<<Part>>>>, FALSE), Written(<<<<Header(system)>>>>, FALSE)}

RewriteCut ==
    \/ \E n \in 0..(Len(Kept) - 1), tail \in {<<>>, <<<<Part>>>>} :
          report' = [report EXCEPT !.lines = SubSeq(Kept, 1, n) \o tail,
                                   !.terminated = (tail = <<>>)]
    \/ \E n \in 1..Len(Kept) :
          report' = [report EXCEPT !.lines = SubSeq(Kept, 1, n), !.terminated = FALSE]

RecordCut == {Written(text, FALSE) : text \in Texts(ThisRecord) \cup {<<<<Part>>>>}}

CutShort ==
    \/ UNCHANGED report
    \/ pc = "header" /\ report' \in HeaderCut
    \/ pc = "rewrite" /\ RewriteCut
    \/ pc = "append" /\ report' \in RecordCut

Killed ==
    /\ pc # "off"
    /\ CutShort
    /\ newline_lost' = \/ newline_lost
                       \/ ~report'.terminated /\ Parses(Last(report'.lines))
    /\ IF pc = "play" THEN Raised ELSE UNCHANGED conversations
    /\ End("killed")
    /\ UNCHANGED <<system, pending, selected, rep, starts, synced>>

Next ==
    \/ \E s \in Systems, keys \in (SUBSET Keys) \ {{}}, resume \in BOOLEAN : Start(s, keys, resume)
    \/ WriteHeader \/ Load \/ Rewrite \/ Resume
    \/ Answered \/ TimedOut \/ TurnFails \/ AppendRecord
    \/ Killed

Spec == Init /\ [][Next]_vars
-------------------------------------------------------------------------------
Pieces == UNION {{n} \X DOMAIN report.lines[n] : n \in DOMAIN report.lines}
Records == {report.lines[p[1]][p[2]] : p \in {q \in Pieces :
                report.lines[q[1]][q[2]].kind = "record"}}
PlacesOf(k) == {p \in Pieces : LET piece == report.lines[p[1]][p[2]]
                               IN  piece.kind = "record" /\ piece.key = k}

TurnRecords == [conversation_id : Nat, engine_turn : Nat, error : BOOLEAN]

RunRecords == [kind : {"record"}, key : Keys, system : Systems, attempts : 1..RepAttempts,
               turns : Seq(TurnRecords)]

Lines == Seq({Part} \cup [kind : {"header"}, system : Systems] \cup RunRecords) \ {<<>>}

TypeOK ==
    /\ pc \in {"off", "header", "load", "rewrite", "resume", "play", "append"}
    /\ result \in {"none", "finished", "refused", "unreadable", "killed"}
    /\ report \in [exists : BOOLEAN, lines : Seq(Lines), terminated : BOOLEAN]
    /\ system \in Systems
    /\ pending \subseteq Keys /\ selected \subseteq Keys /\ synced \subseteq Keys
    /\ attempt \in 1..RepAttempts /\ turns \in Seq(TurnRecords)
    /\ conversation \in [id : Nat, spent : Nat] /\ conversations \in Nat
    /\ starts \in 0..MaxStarts /\ newline_lost \in BOOLEAN

(* No key is recorded twice, through any kills, resumes and selections,    *)
(* not even on a line no reader can parse.                                 *)
RecordedOnce == \A k \in Keys : Cardinality(PlacesOf(k)) <= 1

(* A record is one attempt's, on the system the header names: its turns    *)
(* are the turns of one conversation, from its first on, that no other     *)
(* record shares; only the last of them failed, and without a failure none *)
(* is missing.                                                             *)
OneAttemptPerRecord ==
    \A r \in Records :
        /\ r.system = report.lines[1][1].system
        /\ \A i \in DOMAIN r.turns : ~r.turns[i].error =>
              /\ r.turns[i].engine_turn = i
              /\ r.turns[i].conversation_id = r.turns[1].conversation_id
              /\ \A s \in Records \ {r} : \A j \in DOMAIN s.turns :
                    s.turns[j].conversation_id # r.turns[i].conversation_id
        /\ \A i \in DOMAIN r.turns : r.turns[i].error => i = Len(r.turns)
        /\ ~r.turns[Len(r.turns)].error => Len(r.turns) = NumTurns

(* A sweep that says it finished has recorded every key it was asked for,  *)
(* and load_report can read them, unless a kill once left a whole line     *)
(* with no newline.                                                        *)
FinishedMeansRecorded ==
    result = "finished" =>
        /\ \A k \in selected : PlacesOf(k) # {}
        /\ ~newline_lost => Readable

(* A line a reader can parse stays one, through resumes and kills; unless  *)
(* the kill is of a rewrite, or another once left a whole line with no     *)
(* newline, which the next record is written on.                           *)
ParsedLines == {report.lines[n] : n \in {m \in DOMAIN report.lines : Parses(report.lines[m])}}

ParsedLinesStay ==
    [][~newline_lost /\ ~(pc = "rewrite" /\ pc' = "off") => ParsedLines \subseteq ParsedLines']_vars
===============================================================================
