------------------------------ MODULE SpanLog ------------------------------
(***************************************************************************)
(* What a SpanWal promises its caller (rust/src/wal.rs:3-14), without      *)
(* bytes, offsets or scans: an ordered log of spans of which a crash takes *)
(* only the unflushed end, and whose readers see all of it, in order.      *)
(***************************************************************************)
EXTENDS Naturals, Sequences

CONSTANTS Spans, Closed

VARIABLES
  stored,   (* spans in the file                                           *)
  pending,  (* spans accepted but not flushed                              *)
  view      (* the spans the handle's index lists, Closed without a handle *)

vars == <<stored, pending, view>>

Init == stored = << >> /\ pending = << >> /\ view = Closed

(* open() with recover(): the handle sees everything that is stored.       *)
Open == view = Closed /\ view' = stored /\ UNCHANGED <<stored, pending>>

(* append(): the span is visible at once; the buffer may spill some of its *)
(* oldest spans, or all.                                                   *)
AppendSpan(s) ==
  /\ view # Closed
  /\ view' = Append(view, s)
  /\ \E n \in 0 .. Len(pending) + 1 :
       LET all == Append(pending, s) IN
       /\ stored' = stored \o SubSeq(all, 1, n)
       /\ pending' = SubSeq(all, n + 1, Len(all))

Sync == stored' = stored \o pending /\ pending' = << >> /\ UNCHANGED view

Close == stored' = stored \o pending /\ pending' = << >> /\ view' = Closed

Crash == pending' = << >> /\ view' = Closed /\ UNCHANGED stored

Next == Open \/ (\E s \in Spans : AppendSpan(s)) \/ Sync \/ Close \/ Crash

Spec == Init /\ [][Next]_vars
============================================================================
