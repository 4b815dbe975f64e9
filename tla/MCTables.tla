------------------------------- MODULE MCTables -------------------------------
(***************************************************************************)
(* Values for TLC: tables of numbers of every width, bools in words of one *)
(* to three bytes, texts that repeat and texts that do not, texts with a   *)
(* NUL in them, more texts than a pool can count, and gaps.                *)
(***************************************************************************)
EXTENDS Tables

MCHolds == 1 :> 0 .. 2 @@ 2 :> -1 .. 1 @@ 4 :> -4 .. 4

N(v) == <<"num", v>>
R(v) == <<"real", v>>
T(v) == <<"time", v>>
B(v) == <<"bool", v>>
S(id, n) == <<"text", id, n>>
A == Absent

MCKinds == {
    {<<N(0), S("a", 1), B(TRUE), B(FALSE)>>, <<N(2), S("a", 1), B(FALSE), B(TRUE)>>,
     <<N(-1), S("b", 3), A, A>>, <<N(5), A, B(TRUE), A>>, <<A, S("b", 3), A, B(TRUE)>>},
    {<<B(TRUE), N(1), B(FALSE), B(TRUE)>>, <<B(FALSE), N(-3), B(TRUE), B(TRUE)>>,
     <<A, N(2), B(TRUE), A>>, <<B(TRUE), A, A, B(FALSE)>>},
    {<<T(7), S("", 0), R(1), S("d", 4)>>, <<T(8), S("c", 2), R(2), S("e", 5)>>,
     <<A, S("c", 2), R(2), S("d", 4)>>, <<T(7), A, A, S("d", 4)>>},
    {<<N(0), B(TRUE), B(FALSE), B(TRUE), B(TRUE), B(FALSE)>>,
     <<N(-1), B(FALSE), B(FALSE), B(TRUE), B(FALSE), B(TRUE)>>},
    {<<S("nul", 3), S("c", 2), S("d", 4)>>, <<S("nul", 3), S("b", 3), S("d", 4)>>,
     <<S("a", 1), S("c", 2), S("d", 4)>>}}

MCSplits == S("nul", 3) :> <<S("n", 1), S("l", 1)>>

O(dense, packed, narrow, reorder, delta, promote, short) ==
    [dense |-> dense, packed |-> packed, narrow |-> narrow, reorder |-> reorder,
     delta |-> delta, promote |-> promote, short |-> short]

MCOptions == {O(TRUE, TRUE, TRUE, TRUE, TRUE, TRUE, TRUE),
              O(TRUE, TRUE, TRUE, FALSE, TRUE, TRUE, TRUE),
              O(TRUE, FALSE, TRUE, TRUE, FALSE, FALSE, TRUE),
              O(FALSE, FALSE, TRUE, FALSE, TRUE, TRUE, FALSE),
              O(TRUE, TRUE, FALSE, TRUE, FALSE, FALSE, FALSE),
              O(FALSE, TRUE, FALSE, FALSE, FALSE, FALSE, FALSE),
              O(FALSE, FALSE, FALSE, FALSE, FALSE, TRUE, TRUE)}
===============================================================================
