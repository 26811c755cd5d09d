--------------------------- MODULE CheckpointThread ---------------------------
(***************************************************************************)
(* What the checkpoints of one conversation promise the turns that read    *)
(* them: a turn begins under the next number, ends in the history under    *)
(* the number it began with, once, and nothing is taken out but by         *)
(* forgetting the whole thread.                                            *)
(*                                                                         *)
(* Two specifications keep this promise.  Conversation, and TurnGraph      *)
(* below it, do for one turn after another; AskService does for threads    *)
(* that each read a checkpoint, work on a copy and write it back whole.    *)
(***************************************************************************)
EXTENDS Naturals

VARIABLES
    turn,       \* the number of the latest turn
    finished    \* the numbers of the turns in the history

vars == <<turn, finished>>

Init == turn = 0 /\ finished = {}

Begin == turn' = turn + 1 /\ UNCHANGED finished

End ==
    /\ turn # 0 /\ turn \notin finished
    /\ finished' = finished \cup {turn}
    /\ UNCHANGED turn

Forget == turn' = 0 /\ finished' = {}

Next == Begin \/ End \/ Forget

Spec == Init /\ [][Next]_vars
===============================================================================
