-------------------------------- MODULE Claims --------------------------------
(***************************************************************************)
(* Extraction of the checkable claims of a draft (verifier/claims.py).     *)
(*                                                                         *)
(* A text is what the patterns can match in it: a set of sightings, each a *)
(* span of characters of one pattern.  The patterns run in a fixed order,  *)
(* and a pattern turns the characters of what it takes into spaces, so     *)
(* that a later one cannot read a number out of a date or an identifier;   *)
(* but a later one may read across those spaces: "March `rule_90` 15" is a *)
(* day around a name.                                                      *)
(***************************************************************************)
EXTENDS Integers, Sequences, FiniteSets, SequencesExt

(* The passes, in the order extract_claims makes them.                     *)
Passes ==
    <<"fenced", "inline", "list_marker", "table_separator", "link_target", "heading",
      "iso_date", "month_date", "month_day", "line_ref", "line_range", "dotted", "snake",
      "magnitude", "fraction", "cardinal", "number">>

Scaffolding == {"list_marker", "table_separator", "link_target", "heading"}

Kind(pass) ==
    CASE pass = "fenced" -> "quote"
      [] pass \in {"line_ref", "line_range", "dotted", "snake"} -> "entity"
      [] OTHER -> "numeric"

(* A sighting: over are the characters that must have been blanked for the *)
(* pattern to match, inside the span or beside it; cue those outside the   *)
(* span that it must still find ("about", the "the" of "the twelve");      *)
(* sound says that the pass's own test on it succeeds (a day from 1 to 31, *)
(* segments long enough not to be "e.g."), names that a backticked body    *)
(* has the shape of an identifier, says is its payload for the matcher.    *)
Sighting(pass, from, to, over, cue, sound, names, says) ==
    [pass |-> pass, from |-> from, to |-> to, over |-> over, cue |-> cue, sound |-> sound,
     names |-> names, says |-> says]

Chars(s) == s.from .. s.to - 1

(* The characters of a span that are read as they were written.            *)
Own(s) == Chars(s) \ s.over
Reads(s) == Own(s) \cup s.cue

KindOf(s) ==
    IF s.pass = "inline" THEN IF s.names THEN "entity" ELSE "quote" ELSE Kind(s.pass)

(* What a sighting is once taken: the claim.                               *)
ClaimOf(s) ==
    [kind |-> KindOf(s), from |-> s.from, to |-> s.to, over |-> s.over, pass |-> s.pass,
     says |-> s.says]

(* What the pattern of a pass matches in the text as it has become.        *)
Matches(text, pass, blanked) ==
    {s \in text : s.pass = pass /\ Reads(s) \cap blanked = {} /\ s.over \subseteq blanked}

(* What a pass takes: what its own test accepts of it.                     *)
Taken(text, pass, blanked) == {s \in Matches(text, pass, blanked) : s.sound}

(* A slip: a match the pass's own test turns down is blanked all the same. *)
BlankedByAll(text, pass, blanked) == UNION {Chars(s) : s \in Matches(text, pass, blanked)}

Blanked(text, pass, blanked) == UNION {Chars(s) : s \in Taken(text, pass, blanked)}

(* What a pass claims of what the passes before it left.                   *)
Claimed(text, pass, blanked) ==
    IF pass \in Scaffolding THEN {} ELSE {ClaimOf(s) : s \in Taken(text, pass, blanked)}

(***************************************************************************)
(* What extraction owes the rest of the verifier.                          *)
(***************************************************************************)
Overlap(a, b) == a.from < b.to /\ a.to > b.from

(* No character is read for two claims, though the span of one may lie in  *)
(* the gap of another, and the claims are in reading order.                *)
ReadOnce(claims) ==
    \A i, j \in DOMAIN claims :
        i < j => claims[i].from < claims[j].from /\ Own(claims[i]) \cap Own(claims[j]) = {}

(* A digit number as it was written, no character of which a scaffolding   *)
(* pattern can read, is read, all or in part, for a claim.                 *)
FiguresClaimed(text, claims) ==
    \A s \in text :
        /\ s.pass = "number" /\ s.sound /\ s.over = {}
        /\ \A t \in text : t.pass \in Scaffolding => Own(t) \cap Chars(s) = {}
        => \E i \in DOMAIN claims : Own(claims[i]) \cap Chars(s) # {}
===============================================================================
