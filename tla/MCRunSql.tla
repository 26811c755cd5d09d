------------------------------- MODULE MCRunSql -------------------------------
(* Instances of RunSql: the key lint, which a call outside a conversation  *)
(* lacks, and two others.                                                  *)
EXTENDS RunSql

MCLints == {"key", "fan_out", "enum"}
===============================================================================
