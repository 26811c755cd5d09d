----------------------------- MODULE MCAskService -----------------------------
(* Two request threads and one piece of evidence two conversations share.  *)
EXTENDS AskService

CONSTANTS t1, t2, r1

MCThreads == {t1, t2}
MCRefs == {r1}
===============================================================================
