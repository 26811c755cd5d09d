-------------------------- MODULE ConversationProofs --------------------------
(***************************************************************************)
(* What Conversation promises, for every window, every number of turns and *)
(* every pattern of raised turns, failed refreshes and overridden windows. *)
(***************************************************************************)
EXTENDS Conversation, FiniteSetTheorems, TLAPS

(* The mark is behind any turn still running, so that the record it will   *)
(* leave falls in the window.                                              *)
MarkBehind == phase # "idle" => summary_through_turn < turn

(* Up to the mark everything finished is summarized, and nothing past it.  *)
Folded ==
    /\ summary \subseteq 1..summary_through_turn
    /\ \A i \in DOMAIN finished : finished[i] <= summary_through_turn => finished[i] \in summary

IInv == TypeOK /\ MarkBehind /\ Folded

-------------------------------------------------------------------------------
(* Every fold is a move forward, short of the newest turn.                 *)
LEMMA FoldBounds ==
    ASSUME TypeOK, RefreshDue
    PROVE  /\ FoldThrough \in 0..turn
           /\ FoldThrough < turn
           /\ summary_through_turn < FoldThrough
           /\ Records \subseteq 1..FoldThrough
<1>1. context.last_n \in Nat \ {0} /\ context.refresh_after \in Nat \ {0}
  BY ContextAssumption DEF TypeOK, ContextSettings
<1>2. turn \in Nat /\ summary_through_turn \in Nat
  BY MaxTurnsAssumption DEF TypeOK
<1>3. FoldThrough \in 0..turn /\ FoldThrough < turn /\ summary_through_turn < FoldThrough
  BY <1>1, <1>2 DEF RefreshDue, FoldThrough
<1>4. \A i \in DOMAIN finished : finished[i] \in 1..turn
  BY DEF TypeOK
<1>5. Records \subseteq 1..FoldThrough
  BY <1>2, <1>3, <1>4 DEF Records
<1>. QED  BY <1>3, <1>5

(* The inductive invariant holds in every reachable state.                 *)
LEMMA InitIInv == Init => IInv
BY ContextAssumption, MaxTurnsAssumption
   DEF Init, IInv, TypeOK, MarkBehind, Folded, Disturbances

LEMMA StepIInv == IInv /\ [Next]_vars => IInv'
<1>. SUFFICES ASSUME IInv, [Next]_vars
              PROVE  IInv'
  OBVIOUS
<1>. USE MaxTurnsAssumption, ContextAssumption DEF Disturbances
<1>0. /\ TypeOK /\ MarkBehind /\ Folded
      /\ turn \in Nat /\ summary_through_turn \in Nat
  BY DEF IInv, TypeOK
<1>1. ASSUME NEW settings \in Contexts, Ask(settings)
      PROVE  IInv'
  <2>1. TypeOK'
    <3>1. turn' \in 0..MaxTurns /\ 1..turn \subseteq 1..turn' /\ 0..turn \subseteq 0..turn'
      BY <1>0, <1>1 DEF Ask, TypeOK
    <3>2. finished' \in Seq(1..turn')
      BY <1>0, <1>1, <3>1 DEF Ask, TypeOK
    <3>. QED  BY <1>0, <1>1, <3>1, <3>2 DEF Ask, TypeOK
  <2>2. MarkBehind' /\ Folded'
    BY <1>0, <1>1 DEF Ask, MarkBehind, Folded, TypeOK
  <2>. QED  BY <2>1, <2>2 DEF IInv
<1>2. CASE Finish
  <2>1. turn \in 1..turn
    BY <1>0, <1>2 DEF Finish, MarkBehind, TypeOK
  <2>2. TypeOK'
    BY <1>0, <1>2, <2>1 DEF Finish, TypeOK
  <2>3. MarkBehind'
    BY <1>0, <1>2 DEF Finish, MarkBehind
  <2>4. Folded'
    BY <1>0, <1>2 DEF Finish, MarkBehind, Folded, TypeOK
  <2>. QED  BY <2>2, <2>3, <2>4 DEF IInv
<1>3. CASE Raise
  BY <1>0, <1>3 DEF Raise, IInv, TypeOK, MarkBehind, Folded
<1>4. CASE SummarizeNotDue
  BY <1>0, <1>4 DEF SummarizeNotDue, conversation, IInv, TypeOK, MarkBehind, Folded
<1>5. CASE SummarizeFold
  <2>1. /\ FoldThrough \in 0..turn /\ FoldThrough < turn
        /\ summary_through_turn < FoldThrough
        /\ Records \subseteq 1..FoldThrough
    BY <1>0, <1>5, FoldBounds DEF SummarizeFold
  <2>2. TypeOK'
    BY <1>0, <1>5, <2>1 DEF SummarizeFold, TypeOK
  <2>3. MarkBehind'
    BY <1>5 DEF SummarizeFold, MarkBehind
  <2>4. Folded'
    <3>1. summary' \subseteq 1..summary_through_turn'
      BY <1>0, <1>5, <2>1 DEF SummarizeFold, Folded
    <3>2. ASSUME NEW i \in DOMAIN finished, finished[i] <= FoldThrough
          PROVE  finished[i] \in summary \cup Records
      BY <1>0, <2>1, <3>2 DEF Folded, Records, TypeOK
    <3>. QED  BY <1>5, <3>1, <3>2 DEF SummarizeFold, Folded
  <2>. QED  BY <2>2, <2>3, <2>4 DEF IInv
<1>6. CASE SummarizeFails
  BY <1>0, <1>6 DEF SummarizeFails, IInv, TypeOK, MarkBehind, Folded
<1>7. CASE UNCHANGED vars
  BY <1>0, <1>7 DEF vars, conversation, IInv, TypeOK, MarkBehind, Folded
<1>. QED  BY <1>1, <1>2, <1>3, <1>4, <1>5, <1>6, <1>7 DEF Next, Rest

(* Records keep the order of their turns, and the mark splits them.         *)
THEOREM Invariance == Spec => []IInv
BY InitIInv, StepIInv, PTL DEF Spec
-------------------------------------------------------------------------------
(* Type correctness of the conversation state, every turn number in it     *)
(* being one that was asked.                                               *)
THEOREM TypeCorrect == Spec => []TypeOK
BY Invariance, PTL DEF IInv

(* Every finished turn is summarized or shown to the router, never both,   *)
(* whatever was raised, failed or overridden (summarize, context_window).  *)
THEOREM EveryTurnOnceHolds == Spec => []EveryTurnOnce
<1>1. IInv => EveryTurnOnce
  <2>. SUFFICES ASSUME IInv, NEW i \in DOMAIN finished
                PROVE  ~(finished[i] \in summary <=> finished[i] \in Shown)
    BY DEF EveryTurnOnce
  <2>1. finished[i] \in Int /\ summary_through_turn \in Int
    BY DEF IInv, TypeOK
  <2>2. finished[i] \in Shown <=> finished[i] > summary_through_turn
    BY DEF Shown
  <2>3. finished[i] \in summary <=> finished[i] <= summary_through_turn
    BY <2>1 DEF IInv, Folded
  <2>. QED  BY <2>1, <2>2, <2>3
<1>. QED  BY <1>1, Invariance, PTL
-------------------------------------------------------------------------------
(* The newest record is past the mark and the largest; while summarize is  *)
(* still to run it is this turn's.                                         *)
NewestPast ==
    /\ phase = "finished" => finished # <<>> /\ finished[Len(finished)] = turn
    /\ finished # <<>> =>
          /\ summary_through_turn < finished[Len(finished)]
          /\ \A i \in DOMAIN finished : finished[i] <= finished[Len(finished)]

(* No turn raised and no window overridden: the records are the turns, and *)
(* the mark is last_n behind them.                                         *)
Regular ==
    disturbed \cap {"raised", "override"} = {} =>
        /\ context = PackContext
        /\ \A i \in DOMAIN finished : finished[i] = i
        /\ turn = Len(finished) + (IF phase = "asking" THEN 1 ELSE 0)
        /\ summary_through_turn = 0 \/ summary_through_turn <= Len(finished) - context.last_n

(* No refresh failed and no window overridden: between two turns the mark  *)
(* has kept up with the newest record.                                     *)
Refreshed ==
    disturbed \cap {"refresh_failed", "override"} = {} =>
        /\ context = PackContext
        /\ (phase # "finished" /\ finished # <<>>) =>
              finished[Len(finished)] - summary_through_turn
                 <= context.last_n + context.refresh_after - 1

LEMMA Facts ==
    ASSUME TypeOK
    PROVE  /\ turn \in Nat /\ summary_through_turn \in Nat
           /\ Len(finished) \in Nat /\ DOMAIN finished = 1..Len(finished)
           /\ \A i \in DOMAIN finished : finished[i] \in 1..turn
           /\ context.last_n \in Nat \ {0} /\ context.refresh_after \in Nat \ {0}
BY MaxTurnsAssumption, ContextAssumption DEF TypeOK, ContextSettings

LEMMA StepNewestPast == IInv /\ NewestPast /\ [Next]_vars => NewestPast'
<1>. SUFFICES ASSUME IInv, NewestPast, [Next]_vars
              PROVE  NewestPast'
  OBVIOUS
<1>0. TypeOK /\ MarkBehind
  BY DEF IInv
<1>1. CASE Finish
  <2>1. /\ Len(finished') = Len(finished) + 1
        /\ finished'[Len(finished) + 1] = turn
        /\ \A i \in DOMAIN finished : finished'[i] = finished[i]
        /\ DOMAIN finished' = DOMAIN finished \cup {Len(finished) + 1}
    BY <1>0, <1>1, Facts DEF Finish, TypeOK
  <2>. QED  BY <1>0, <1>1, <2>1, Facts DEF Finish, NewestPast, MarkBehind
<1>2. CASE SummarizeFold
  BY <1>0, <1>2, Facts, FoldBounds DEF SummarizeFold, NewestPast
<1>3. CASE ~Finish /\ ~SummarizeFold
  BY <1>3 DEF Next, Rest, vars, conversation, Ask, Raise, SummarizeNotDue, SummarizeFails,
              NewestPast
<1>. QED  BY <1>1, <1>2, <1>3

LEMMA StepRegular == IInv /\ Regular /\ [Next]_vars => Regular'
<1>. SUFFICES ASSUME IInv, Regular, [Next]_vars,
                     disturbed' \cap {"raised", "override"} = {}
              PROVE  Regular'
  BY DEF Regular
<1>0. TypeOK
  BY DEF IInv
<1>1. disturbed \cap {"raised", "override"} = {}
  BY DEF Next, Rest, vars, conversation, Ask, Finish, Raise, SummarizeNotDue, SummarizeFold,
         SummarizeFails
<1>2. CASE Finish
  <2>1. /\ Len(finished') = Len(finished) + 1
        /\ finished'[Len(finished) + 1] = turn
        /\ \A i \in DOMAIN finished : finished'[i] = finished[i]
        /\ DOMAIN finished' = DOMAIN finished \cup {Len(finished) + 1}
    BY <1>0, <1>2, Facts DEF Finish, TypeOK
  <2>. QED  BY <1>0, <1>1, <1>2, <2>1, Facts DEF Finish, Regular
<1>3. ASSUME NEW settings \in Contexts, Ask(settings)
      PROVE  Regular'
  <2>1. settings = PackContext
    BY <1>3 DEF Ask
  <2>. QED  BY <1>0, <1>1, <1>3, <2>1, Facts DEF Ask, Regular
<1>4. CASE SummarizeFold
  BY <1>0, <1>1, <1>4, Facts, FoldBounds DEF SummarizeFold, Regular, FoldThrough
<1>5. CASE Raise
  BY <1>0, <1>1, <1>5, Facts DEF Raise, Regular
<1>6. CASE SummarizeNotDue \/ SummarizeFails \/ UNCHANGED vars
  BY <1>1, <1>6 DEF SummarizeNotDue, SummarizeFails, vars, conversation, Regular
<1>. QED  BY <1>2, <1>3, <1>4, <1>5, <1>6 DEF Next, Rest

LEMMA StepRefreshed == IInv /\ NewestPast /\ Refreshed /\ [Next]_vars => Refreshed'
<1>. SUFFICES ASSUME IInv, NewestPast, Refreshed, [Next]_vars,
                     disturbed' \cap {"refresh_failed", "override"} = {}
              PROVE  Refreshed'
  BY DEF Refreshed
<1>0. TypeOK
  BY DEF IInv
<1>1. disturbed \cap {"refresh_failed", "override"} = {}
  BY DEF Next, Rest, vars, conversation, Ask, Finish, Raise, SummarizeNotDue, SummarizeFold,
         SummarizeFails
<1>2. CASE Finish
  BY <1>1, <1>2 DEF Finish, Refreshed
<1>3. ASSUME NEW settings \in Contexts, Ask(settings)
      PROVE  Refreshed'
  <2>1. settings = PackContext
    BY <1>3 DEF Ask
  <2>. QED  BY <1>1, <1>3, <2>1 DEF Ask, Refreshed
<1>4. CASE SummarizeNotDue
  BY <1>0, <1>1, <1>4, Facts
     DEF SummarizeNotDue, conversation, RefreshDue, FoldThrough, Refreshed, NewestPast
<1>5. CASE SummarizeFold
  BY <1>0, <1>1, <1>5, Facts DEF SummarizeFold, FoldThrough, Refreshed, NewestPast
<1>6. CASE Raise
  BY <1>1, <1>6 DEF Raise, Refreshed, IInv, TypeOK
<1>7. CASE SummarizeFails
  BY <1>7 DEF SummarizeFails
<1>8. CASE UNCHANGED vars
  BY <1>1, <1>8 DEF vars, conversation, Refreshed
<1>. QED  BY <1>2, <1>3, <1>4, <1>5, <1>6, <1>7, <1>8 DEF Next, Rest

LEMMA WindowInvariance == Spec => [](NewestPast /\ Regular /\ Refreshed)
<1>1. Init => NewestPast /\ Regular /\ Refreshed
  BY DEF Init, NewestPast, Regular, Refreshed
<1>. QED  BY <1>1, Invariance, StepNewestPast, StepRegular, StepRefreshed, PTL DEF Spec
-------------------------------------------------------------------------------
(* The newest finished turn is never behind the summary's mark, so a       *)
(* follow-up can always be read against it (context_window).               *)
THEOREM NewestTurnShownHolds == Spec => []NewestTurnShown
<1>1. IInv /\ NewestPast => NewestTurnShown
  BY Facts DEF IInv, NewestPast, NewestTurnShown, Shown
<1>. QED  BY <1>1, Invariance, WindowInvariance, PTL

(* Where no turn raised, the window is never shorter than last_n turns,    *)
(* the promise of config/models.py.                                        *)
THEOREM WindowNeverShorterHolds == Spec => []WindowNeverShorter
<1>1. IInv /\ Regular => WindowNeverShorter
  BY Facts DEF IInv, Regular, WindowNeverShorter, Shown
<1>. QED  BY <1>1, Invariance, WindowInvariance, PTL

(* Where no refresh failed, the window is never longer than last_n +       *)
(* refresh_after - 1 turns (config/models.py).                             *)
THEOREM WindowNeverLongerHolds == Spec => []WindowNeverLonger
<1>1. ASSUME IInv, NewestPast, Refreshed,
             disturbed \cap {"refresh_failed", "override"} = {}, phase # "finished"
      PROVE  Cardinality(Shown) <= context.last_n + context.refresh_after - 1
  <2>0. TypeOK
    BY <1>1 DEF IInv
  <2>1. CASE finished = <<>>
    <3>1. Shown = {}
      BY <2>1 DEF Shown
    <3>. QED  BY <2>0, <3>1, Facts, FS_EmptySet
  <2>2. CASE finished # <<>>
    <3>. DEFINE last == finished[Len(finished)]
                window == (summary_through_turn + 1)..last
    <3>1. last \in Nat /\ summary_through_turn \in Nat /\ summary_through_turn < last
      BY <1>1, <2>0, <2>2, Facts DEF NewestPast
    <3>2. Shown \subseteq window
      BY <1>1, <2>0, <2>2, <3>1, Facts DEF NewestPast, Shown
    <3>3. IsFiniteSet(window) /\ Cardinality(window) = last - summary_through_turn
      <4>. HIDE DEF last
      <4>1. summary_through_turn + 1 \in Int /\ last \in Int
        BY <3>1
      <4>2. /\ IsFiniteSet(window)
            /\ Cardinality(window) =
                  IF summary_through_turn + 1 > last THEN 0
                  ELSE last - (summary_through_turn + 1) + 1
        BY <4>1, FS_Interval
      <4>. QED  BY <3>1, <4>2
    <3>4. Cardinality(Shown) <= Cardinality(window)
      BY <3>2, <3>3, FS_Subset
    <3>5. Cardinality(Shown) \in Nat
      BY <3>2, <3>3, FS_Subset, FS_CardinalityType
    <3>. QED  BY <1>1, <2>0, <2>2, <3>1, <3>3, <3>4, <3>5, Facts DEF Refreshed
  <2>. QED  BY <2>1, <2>2
<1>2. IInv /\ NewestPast /\ Refreshed => WindowNeverLonger
  BY <1>1 DEF WindowNeverLonger
<1>. QED  BY <1>2, Invariance, WindowInvariance, PTL

(* A turn folded in is never forgotten and never shown again.              *)
THEOREM SummaryMonotoneHolds == Spec => SummaryMonotone
<1>1. IInv /\ [Next]_vars =>
        [summary \subseteq summary' /\ summary_through_turn <= summary_through_turn']_vars
  <2>. SUFFICES ASSUME IInv, [Next]_vars, ~UNCHANGED vars
                PROVE  summary \subseteq summary' /\ summary_through_turn <= summary_through_turn'
    OBVIOUS
  <2>1. TypeOK /\ summary_through_turn \in Nat
    BY Facts DEF IInv
  <2>2. CASE SummarizeFold
    BY <2>1, <2>2, FoldBounds, Facts DEF SummarizeFold
  <2>3. CASE ~SummarizeFold
    BY <2>1, <2>3 DEF Next, Rest, vars, conversation, Ask, Finish, Raise, SummarizeNotDue,
                      SummarizeFails
  <2>. QED  BY <2>2, <2>3
<1>. QED  BY <1>1, Invariance, PTL DEF Spec, SummaryMonotone
-------------------------------------------------------------------------------
(* The turn being asked has no record yet.                                 *)
Outstanding == phase = "asking" => turn # 0 /\ \A i \in DOMAIN finished : finished[i] # turn

LEMMA OutstandingHolds == Spec => []Outstanding
<1>1. Init => Outstanding
  BY DEF Init, Outstanding
<1>2. IInv /\ Outstanding /\ [Next]_vars => Outstanding'
  BY Facts DEF IInv, Next, Rest, vars, conversation, Ask, Finish, Raise, SummarizeNotDue,
               SummarizeFold, SummarizeFails, Outstanding
<1>. QED  BY <1>1, <1>2, Invariance, PTL DEF Spec

(* The conversation keeps the promise of its checkpoints: turns begin      *)
(* under the next number and end under the one they began with, once,      *)
(* whatever raised in between (begin, finalize).                           *)
THEOREM CheckpointRefinement == Spec => ImplementsCheckpointThread
<1>. DEFINE past == {finished[i] : i \in DOMAIN finished}
<1>1. Init => Thread!Init
  BY DEF Init, Thread!Init
<1>2. ASSUME IInv, Outstanding, [Next]_vars PROVE [Thread!Next]_Thread!vars
  <2>1. TypeOK
    BY <1>2 DEF IInv
  <2>2. ASSUME NEW settings \in Contexts, Ask(settings) PROVE Thread!Begin
    BY <2>2 DEF Ask, Thread!Begin
  <2>3. CASE Finish
    <3>1. /\ Len(finished') = Len(finished) + 1
          /\ finished'[Len(finished) + 1] = turn
          /\ \A i \in DOMAIN finished : finished'[i] = finished[i]
          /\ DOMAIN finished' = DOMAIN finished \cup {Len(finished) + 1}
      BY <2>1, <2>3, Facts DEF Finish, TypeOK
    <3>2. past' = past \cup {turn}
      BY <2>1, <3>1, Facts
    <3>3. turn # 0 /\ turn \notin past /\ turn' = turn
      BY <1>2, <2>3 DEF Finish, Outstanding
    <3>4. Thread!End
      BY <3>2, <3>3 DEF Thread!End
    <3>. QED  BY <3>4 DEF Thread!Next
  <2>4. CASE Raise \/ SummarizeNotDue \/ SummarizeFold \/ SummarizeFails \/ UNCHANGED vars
    BY <2>4 DEF Raise, SummarizeNotDue, SummarizeFold, SummarizeFails, vars, conversation,
                Thread!vars
  <2>. QED  BY <1>2, <2>2, <2>3, <2>4 DEF Next, Rest, Thread!Next
<1>. QED  BY <1>1, <1>2, Invariance, OutstandingHolds, PTL
          DEF Spec, ImplementsCheckpointThread, Thread!Spec
===============================================================================
