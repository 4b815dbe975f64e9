----------------------------- MODULE MCTraceDir -----------------------------
(* Instances of TraceDir for TLC: the spans are interchangeable.           *)
EXTENDS TraceDir, TLC

CONSTANTS a, b, c

SpanSymmetry == Permutations(Spans)
============================================================================
