------------------------------ MODULE MCTurnGraph ------------------------------
(***************************************************************************)
(* Instances of TurnGraph: windows small enough that a short conversation  *)
(* folds turns into its summary.                                           *)
(***************************************************************************)
EXTENDS TurnGraph

MCPack == [last_n |-> 1, refresh_after |-> 1]
MCOnePack == {MCPack}

(* A response's calls have ids of the provider's, the same again in every  *)
(* response and for both calls of one, or none but for the second call.    *)
MCIdsRepeat == {<<1, 1>>, <<0, 1>>}
MCNoIds == {[k \in 1..MaxCalls |-> 0]}

(* "A turn whose verdict carried the anchor check's warn" (envelope.py):   *)
(* only such a turn is recorded as contradicted.                           *)
ContradictionHasVerdict ==
    pc = "summarize" =>
        (Last(history).contradicted => verdict.disposition # "none")
===============================================================================
