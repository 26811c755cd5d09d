----------------------------- MODULE Placeholders -----------------------------
(***************************************************************************)
(* {{eN.path}} (harness/placeholders.py): a draft is a sequence of pieces, *)
(* typed text or a placeholder, and resolving it puts the values in their  *)
(* place and says where in the new text each one stands.  Of a text only   *)
(* its width matters here, and of a value whether it is a passage; what a  *)
(* column's display hint makes of a value is in its width.                 *)
(***************************************************************************)
EXTENDS Integers, Sequences, SequencesExt

CONSTANTS
    None,
    InlineValueMaxChars     \* harness.inline_value_max_chars

Typed(width) == [kind |-> "typed", width |-> width]
Placeholder(width, index, path, fenced) ==
    [kind |-> "placeholder", width |-> width, index |-> index, path |-> path, fenced |-> fenced]

Segment(name) == [name |-> name, indexes |-> <<>>]
Indexed(name, i) == [name |-> name, indexes |-> <<i>>]

(* An output as the drafter is shown it.                                   *)
Object(fields) == [is |-> "object", of |-> fields]
List(items) == [is |-> "list", of |-> items]
Text(width, lines) == [is |-> "text", width |-> width, lines |-> lines]
Scalar(width) == [is |-> "scalar", width |-> width, lines |-> 1]

Lost == [is |-> "lost"]
IntoText == [is |-> "into text"]

(* An index counts from the end when it is negative.                       *)
Item(value, index) ==
    IF value.is # "list" \/ index \notin -Len(value.of)..Len(value.of) - 1 THEN Lost
    ELSE value.of[1 + (IF index < 0 THEN Len(value.of) + index ELSE index)]

(* One segment.  `output` is the wrapper the drafter believes in, unless   *)
(* it is a field; and a text has no inside.                                *)
Step(value, segment) ==
    CASE value \in {Lost, IntoText} -> value
      [] value.is = "text" -> IF segment.name = None THEN Lost ELSE IntoText
      [] value.is = "object" ->
            IF segment.name \in DOMAIN value.of
            THEN FoldLeft(Item, value.of[segment.name], segment.indexes)
            ELSE IF segment = Segment("output") THEN value ELSE Lost
      [] OTHER -> Lost

Navigate(tree, path) == FoldLeft(Step, tree, path)

(* What a placeholder names: one value, or nothing.                        *)
Value(piece, evidence) ==
    IF piece.index + 1 \notin DOMAIN evidence \/ evidence[piece.index + 1].tree = None THEN Lost
    ELSE LET value == Navigate(evidence[piece.index + 1].tree, piece.path)
         IN  IF value.is \in {"text", "scalar", "into text"} THEN value ELSE Lost

IsPassage(value) == value.lines > 1 \/ value.width > InlineValueMaxChars

(* A slip: the text is as long as the draft was.                           *)
AddedAsWritten(piece, value) == piece.width

(* An injected value makes the text as much longer as it is wide.          *)
Added(piece, value) == value.width

(* A resolution under way: its text, as who wrote each character, and what *)
(* the loop counts as its length.                                          *)
Nothing ==
    [text |-> <<>>, length |-> 0, spans |-> {}, failures |-> {}, pathed_into_text |-> {},
     misplaced |-> {}]

Written(writer, width) == [c \in 1..width |-> writer]

(* A piece that stays as the drafter wrote it.                             *)
Keep(so_far, piece) ==
    [so_far EXCEPT !.text = @ \o Written("drafter", piece.width), !.length = @ + piece.width]

Misplaced(piece, value, allow_passages_inline) ==
    ~allow_passages_inline /\ IsPassage(value) /\ ~piece.fenced

(* One placeholder: what does not resolve, and a passage mid-sentence,     *)
(* stays visible.                                                          *)
PutValue(so_far, piece, value, allow_passages_inline) ==
    IF value \in {Lost, IntoText}
    THEN [Keep(so_far, piece) EXCEPT
            !.failures = @ \cup {piece},
            !.pathed_into_text = @ \cup IF value = IntoText THEN {piece} ELSE {}]
    ELSE IF Misplaced(piece, value, allow_passages_inline)
    THEN [Keep(so_far, piece) EXCEPT !.misplaced = @ \cup {piece}]
    ELSE [so_far EXCEPT
            !.text = @ \o Written("code", value.width),
            !.length = @ + Added(piece, value),
            !.spans = @ \cup {[from |-> so_far.length, to |-> so_far.length + value.width]}]

Put(so_far, piece, evidence, allow_passages_inline) ==
    IF piece.kind = "typed" THEN Keep(so_far, piece)
    ELSE PutValue(so_far, piece, Value(piece, evidence), allow_passages_inline)

Unresolved(resolution) == resolution.failures # {} \/ resolution.misplaced # {}
===============================================================================
