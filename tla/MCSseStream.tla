----------------------------- MODULE MCSseStream ------------------------------
(* Streams as model values.                                                *)
EXTENDS SseStream

CONSTANTS s1, s2

MCStreams == {s1, s2}
===============================================================================
