----------------------------- MODULE Conversation -----------------------------
(***************************************************************************)
(* What one conversation remembers between its turns, and what it promises *)
(* the router: every finished turn is either shown verbatim or folded into *)
(* the running summary.                                                    *)
(*                                                                         *)
(* A turn is asked, then either finishes (one record joins the history) or *)
(* raises (its number is spent and no record is written).  After a turn    *)
(* finishes, summarize folds the turns that have fallen past the verbatim  *)
(* window, once enough of them have accumulated.  TurnGraph is shown to    *)
(* implement this specification.                                           *)
(*                                                                         *)
(* A record is its turn number; the summary is the set of turn numbers     *)
(* whose records the summarizer was given.                                 *)
(***************************************************************************)
EXTENDS Integers, Sequences, FiniteSets

CONSTANTS
    PackContext,    \* the pack's [last_n, refresh_after]
    Contexts,       \* the windows a caller of ask() may name, the pack's one of them
    MaxTurns        \* bound: how many turns a conversation is given

ContextSettings == [last_n : Nat \ {0}, refresh_after : Nat \ {0}]

ASSUME ContextAssumption ==
    /\ Contexts \subseteq ContextSettings
    /\ PackContext \in Contexts

ASSUME MaxTurnsAssumption == MaxTurns \in Nat

VARIABLES
    phase,                 \* "idle", "asking", or "finished" (summarize still to run)
    turn,                  \* the number of the latest turn
    finished,              \* the turn numbers of the history's records, in order
    summary,               \* the turns the running summary was written from
    summary_through_turn,  \* the last turn the summary stands for
    context,               \* the window in force for the latest turn
    disturbed              \* what has kept the conversation from its regular course

conversation == <<turn, finished, summary, summary_through_turn, context, disturbed>>
vars == <<phase, conversation>>

Disturbances == {"raised", "refresh_failed", "override"}

Init ==
    /\ phase = "idle"
    /\ turn = 0
    /\ finished = <<>>
    /\ summary = {}
    /\ summary_through_turn = 0
    /\ context = PackContext
    /\ disturbed = {}

-------------------------------------------------------------------------------
(* The turns the router is shown verbatim (context_window).                *)
Shown == {finished[i] : i \in {j \in DOMAIN finished : finished[j] > summary_through_turn}}

(* Plausible slips in the fold, for the checks to tell apart.              *)
FoldThroughOneMore == turn - context.last_n + 1

FoldThrough == turn - context.last_n

RefreshDue == FoldThrough - summary_through_turn >= context.refresh_after

RecordsOffByOne == {finished[i] : i \in {j \in DOMAIN finished :
                summary_through_turn < finished[j] /\ finished[j] < FoldThrough}}

(* The records summarize hands to the summarizer.                          *)
Records == {finished[i] : i \in {j \in DOMAIN finished :
                summary_through_turn < finished[j] /\ finished[j] <= FoldThrough}}
-------------------------------------------------------------------------------

Ask(settings) ==
    /\ phase = "idle"
    /\ turn < MaxTurns
    /\ phase' = "asking"
    /\ turn' = turn + 1
    /\ context' = settings
    /\ disturbed' = disturbed \cup (IF settings = PackContext THEN {} ELSE {"override"})
    /\ UNCHANGED <<finished, summary, summary_through_turn>>

Finish ==
    /\ phase = "asking"
    /\ phase' = "finished"
    /\ finished' = Append(finished, turn)
    /\ UNCHANGED <<turn, summary, summary_through_turn, context, disturbed>>

(* A node raised: the checkpoint keeps the bumped turn number and no       *)
(* record.  Raising inside summarize leaves the record, and the fold that  *)
(* may have been due undone.                                               *)
Raise ==
    /\ phase # "idle"
    /\ phase' = "idle"
    /\ disturbed' = disturbed \cup
          (IF phase = "asking" THEN {"raised"} ELSE {"refresh_failed"})
    /\ UNCHANGED <<turn, finished, summary, summary_through_turn, context>>

SummarizeNotDue ==
    /\ phase = "finished"
    /\ ~RefreshDue
    /\ phase' = "idle"
    /\ UNCHANGED conversation

(* The due refresh succeeds; with no record in the range it only moves the *)
(* mark.                                                                   *)
SummarizeFold ==
    /\ phase = "finished"
    /\ RefreshDue
    /\ phase' = "idle"
    /\ summary' = summary \cup Records
    /\ summary_through_turn' = FoldThrough
    /\ UNCHANGED <<turn, finished, context, disturbed>>

(* The summarizer failed or answered nothing: the previous summary stays.  *)
SummarizeFails ==
    /\ phase = "finished"
    /\ RefreshDue
    /\ Records # {}
    /\ phase' = "idle"
    /\ disturbed' = disturbed \cup {"refresh_failed"}
    /\ UNCHANGED <<turn, finished, summary, summary_through_turn, context>>

(* Nobody asks anything more. *)
Rest == phase = "idle" /\ UNCHANGED vars

Next ==
    \/ \E settings \in Contexts : Ask(settings)
    \/ Finish
    \/ Raise
    \/ SummarizeNotDue
    \/ SummarizeFold
    \/ SummarizeFails
    \/ Rest

Spec == Init /\ [][Next]_vars
-------------------------------------------------------------------------------

(* The state is well typed and every turn number in it is a turn that was  *)
(* asked.                                                                  *)
TypeOK ==
    /\ phase \in {"idle", "asking", "finished"}
    /\ turn \in 0..MaxTurns
    /\ finished \in Seq(1..turn)
    /\ summary \subseteq 1..turn
    /\ summary_through_turn \in 0..turn
    /\ context \in Contexts
    /\ disturbed \subseteq Disturbances

(* Every finished turn is either summarized or shown, and never both,      *)
(* whatever turns raised, refreshes failed, or windows were overridden on  *)
(* the way: "no turn is ever neither summarized nor shown" (config), and   *)
(* the system prompt's "those turns are not shown" is true.                *)
EveryTurnOnce ==
    \A i \in DOMAIN finished : ~(finished[i] \in summary <=> finished[i] \in Shown)

(* The newest finished turn is always verbatim: a follow-up ("that rule")  *)
(* is never resolved against the summary alone.                            *)
NewestTurnShown ==
    finished # <<>> => finished[Len(finished)] \in Shown

(* The verbatim window is never shorter than last_n_turns: with no turn    *)
(* raised, the router is shown the last last_n turns, or all of them.      *)
WindowNeverShorter ==
    (disturbed \cap {"raised", "override"} = {} /\ phase # "finished") =>
        \A n \in DOMAIN finished :
            n > Len(finished) - context.last_n => finished[n] \in Shown

(* The verbatim window is never longer than last_n + refresh_after - 1,    *)
(* unless a due refresh failed.                                            *)
WindowNeverLonger ==
    (disturbed \cap {"refresh_failed", "override"} = {} /\ phase # "finished") =>
        Cardinality(Shown) <= context.last_n + context.refresh_after - 1

(* The summary only grows, and its mark never moves back: a turn folded in *)
(* is never forgotten and never shown again.                               *)
SummaryMonotone ==
    [][summary \subseteq summary' /\ summary_through_turn <= summary_through_turn']_vars

(* A conversation's checkpoints are a CheckpointThread's: a turn ends in   *)
(* the history under the number it began with, though turns before it      *)
(* raised and left a number without a record.                              *)
Thread == INSTANCE CheckpointThread WITH
    finished <- {finished[i] : i \in DOMAIN finished}

ImplementsCheckpointThread == Thread!Spec
===============================================================================
