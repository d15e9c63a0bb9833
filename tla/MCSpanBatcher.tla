---------------------------- MODULE MCSpanBatcher ----------------------------
(***************************************************************************)
(* TLC's instance of SpanBatcher: a trace of three spans, the last of      *)
(* which is its segment, and one of a span that cannot be serialized.      *)
(***************************************************************************)
EXTENDS SpanBatcher

CONSTANTS a1, a2, a3, b1

MCSpans == {a1, a2, a3, b1}
MCTraceOf == [x \in MCSpans |-> IF x = b1 THEN "b" ELSE "a"]
MCSizeOf == [x \in MCSpans |-> IF x = a1 THEN 2 ELSE 1]
=============================================================================
