----------------------------- MODULE MCSpanWal -----------------------------
(* Instances of SpanWal for TLC: a short span, a long one, and one that is *)
(* larger than recover() accepts.                                          *)
EXTENDS SpanWal

CONSTANTS small, large, huge

MCSize == [s \in Spans |-> CASE s = small -> 3 [] s = large -> 4 [] s = huge -> 5]
============================================================================
