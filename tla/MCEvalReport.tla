----------------------------- MODULE MCEvalReport -----------------------------
(* Instances of EvalReport.                                                *)
EXTENDS EvalReport

CONSTANTS s1, s2
MCSystems == {s1, s2}

(* "appended and fsynced as each rep completes, so a 40-row x 5-rep        *)
(* session survives interruption" (eval/runner.py): a record that was      *)
(* fsynced can be read.                                                    *)
SyncedSurvives ==
    \A k \in synced : \E n \in DOMAIN report.lines :
        Parses(report.lines[n]) /\ report.lines[n][1].kind = "record"
                                /\ report.lines[n][1].key = k
===============================================================================
