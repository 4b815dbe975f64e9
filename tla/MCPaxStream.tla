----------------------------- MODULE MCPaxStream -----------------------------
(***************************************************************************)
(* Values for TLC: an integer, a text and a float column; records with     *)
(* texts of both parities and none, absent cells, a null, a value of       *)
(* another kind.                                                           *)
(***************************************************************************)
EXTENDS PaxStream

MCSigils == <<"num", "text", "real">>

MCRows == {<< <<"num">>, <<"text", 1>>, <<"real">> >>,
           << <<"real">>, <<"text", 2>>, <<"absent">> >>,
           << <<"absent">>, <<"null">>, <<"null">> >>}
==============================================================================
