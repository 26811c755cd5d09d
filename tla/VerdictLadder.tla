---------------------------- MODULE VerdictLadder ----------------------------
(***************************************************************************)
(* The verdict ladder of the verifier: what one verification attempt comes *)
(* to, and the reason the final verdict prints.                            *)
(*                                                                         *)
(* A plausibility list is the set of what its findings amount to: "fail"   *)
(* and "warn" for the evidence-side checks by severity, and "anchor" for   *)
(* the anchor check's finding, whose severity is a warn.                   *)
(***************************************************************************)
EXTENDS Naturals, Sequences

CONSTANTS
    MaxRegenerateRetries,   \* verifier.max_regenerate_retries
    UnmatchedFinal          \* verifier.unmatched_final

ASSUME LadderAssumption ==
    /\ MaxRegenerateRetries \in Nat
    /\ UnmatchedFinal \in {"unverified", "refuse"}

Findings == {"fail", "warn", "anchor"}
Dispositions == {"verified", "retry", "unverified", "refused"}
Reasons == {"none", "implausible", "unsupported", "warning", "pack_refuses"}

Fails(plausibility) == plausibility \cap {"fail"}
Warns(plausibility) == plausibility \cap {"warn", "anchor"}

(* Plausible slips in the ladder, for the checks to tell apart.            *)
DecideRetriesFails(unmatched, plausibility, attempt) ==
    IF attempt <= MaxRegenerateRetries /\ (unmatched > 0 \/ Fails(plausibility) # {})
      THEN "retry"
    ELSE IF unmatched = 0
      THEN IF Warns(plausibility) # {} THEN "unverified" ELSE "verified"
    ELSE IF UnmatchedFinal = "refuse" THEN "refused" ELSE "unverified"

DecideForgetsWarns(unmatched, plausibility, attempt) ==
    IF Fails(plausibility) # {} THEN "refused"
    ELSE IF unmatched = 0 THEN "verified"
    ELSE IF attempt <= MaxRegenerateRetries THEN "retry"
    ELSE IF UnmatchedFinal = "refuse" THEN "refused" ELSE "unverified"

Decide(unmatched, plausibility, attempt) ==
    IF Fails(plausibility) # {} THEN "refused"
    ELSE IF unmatched = 0
      THEN IF Warns(plausibility) # {} THEN "unverified" ELSE "verified"
    ELSE IF attempt <= MaxRegenerateRetries THEN "retry"
    ELSE IF UnmatchedFinal = "refuse" THEN "refused" ELSE "unverified"

(* A slip: the warning is looked for before the unmatched claims.          *)
FinalReasonWarnsFirst(unmatched, plausibility, disposition) ==
    IF Fails(plausibility) # {} THEN "implausible"
    ELSE IF disposition = "unverified" /\ Warns(plausibility) # {} THEN "warning"
    ELSE IF disposition = "unverified" /\ unmatched > 0 THEN "unsupported"
    ELSE IF disposition = "refused" THEN "pack_refuses"
    ELSE "none"

(* The reason of the final verdict, from its last attempt's unmatched      *)
(* count (finalize in verdict.py; there is always an attempt).             *)
FinalReason(unmatched, plausibility, disposition) ==
    IF Fails(plausibility) # {} THEN "implausible"
    ELSE IF disposition = "unverified" /\ unmatched > 0 THEN "unsupported"
    ELSE IF disposition = "unverified" /\ Warns(plausibility) # {} THEN "warning"
    ELSE IF disposition = "refused" THEN "pack_refuses"
    ELSE "none"
===============================================================================
