------------------------------ MODULE ItemStream ------------------------------
(***************************************************************************)
(* What a stream file promises to the readers that poll it: items (objects *)
(* or pages) become visible one by one, in order and whole; a reader has   *)
(* seen a prefix of them at any time, and once no more are made it comes   *)
(* to see all.  RowStream and PaxStream implement it.                      *)
(***************************************************************************)
EXTENDS Sequences, SequencesExt

VARIABLES
    made,    \* the items that are complete in the file
    seen,    \* the items a reader has been given
    closed   \* no more will be made

vars == <<made, seen, closed>>

Init == made = <<>> /\ seen = <<>> /\ closed = FALSE

Make == /\ ~closed
        /\ made' # made
        /\ IsPrefix(made, made') /\ Len(made') = Len(made) + 1
        /\ UNCHANGED <<seen, closed>>

See == /\ Len(made) > Len(seen)
       /\ seen' # seen
       /\ IsPrefix(seen, seen') /\ IsPrefix(seen', made)
       /\ UNCHANGED <<made, closed>>

Close == ~closed /\ closed' = TRUE /\ UNCHANGED <<made, seen>>

Next == Make \/ See \/ Close

\* Nothing is seen that was not made, or in another order; the first part of Spec.
Safe == Init /\ [][Next]_vars

\* Made and closed is seen in the end.
SeesAll == closed ~> seen = made
===============================================================================
