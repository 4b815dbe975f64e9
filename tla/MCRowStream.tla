----------------------------- MODULE MCRowStream -----------------------------
(***************************************************************************)
(* Values for TLC: slot 0 a scalar, slot 1 a text, slot 2 a list; records  *)
(* in slot order and out of it, with slots left out and objects nested.    *)
(* The scalar's low half spells the footer's magic, the number the list    *)
(* ends in a place in the file: a list before a scalar reads like the end  *)
(* of a footer.                                                            *)
(***************************************************************************)
EXTENDS RowStream

MCSizes == 0 :> <<"scalar", 0, <<MAGIC_FOOTER, 0>> >>
        @@ 1 :> <<"text", 5, <<5, 100, 100, 0>> >>
        @@ 2 :> <<"list", 1, <<100, 6, 1, 0, 3, 0>> >>

F(s) == <<"field", s>>
B == <<"begin">>
E == <<"end">>

MCPlans == {<<>>, <<F(0), F(2)>>, <<F(0), F(1), F(2)>>, <<F(2), F(0), F(1)>>,
            <<F(0), B, F(2), F(0), E, F(1)>>, <<F(1), B, F(1), E, F(2), F(0)>>}

\* These records write no slot twice in one object, so the field theorem is about them.
ASSUME PlansWriteOnce == WritesOnce
===============================================================================
