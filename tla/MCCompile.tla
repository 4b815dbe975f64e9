------------------------------ MODULE MCCompile ------------------------------
(***************************************************************************)
(* Values for TLC: scalars of each kind, integers with the magics of an    *)
(* object and of a list, a text too long for the decoder, nulls, links,    *)
(* keywords, macros good and bad, objects up to one level too deep, flat   *)
(* records a compact file can and cannot hold, lists of one kind and mixed.*)
(***************************************************************************)
EXTENDS Compile

N(n) == <<"num", n>>
T(id, n) == <<"text", <<id>>, n>>
F(k, v) == [key |-> k, val |-> v]
Obj(fields) == <<"object", fields>>
List(elems) == <<"list", elems>>
Ref(k) == <<"ref", k>>
Macro(terms) == <<"macro", terms>>

MCFields == {
    F("a", N(1)), F("b", N(2)), F("c", N(7)), F("a", N(6)),
    F("b", T("t", 5)), F("c", T("s", 9)), F("c", <<"null">>), F("a", <<"null">>),
    F("d", <<"link", 1>>), F("d", <<"word", "w">>),
    F("a", Macro(<<Ref("b")>>)), F("c", Macro(<<N(2), Ref("b")>>)), F("d", Macro(<<N(2), T("u", 1)>>)),
    F("b", Macro(<<T("u", 1), T("v", 1)>>)), F("c", Macro(<<N(2)>>)), F("b", Macro(<< <<"now">> >>)),
    F("a", Obj(<<F("c", N(3)), F("b", T("", 0))>>)),
    F("b", Obj(<<F("a", N(4)), F("a", <<"null">>), F("d", <<"bool", TRUE>>)>>)),
    F("c", Obj(<<F("c", N(5)), F("a", <<"null">>)>>)), F("a", Obj(<<F("c", <<"real", 1>>)>>)),
    F("d", Obj(<<F("c", <<"blob", "x", 4>>)>>)),
    F("c", Obj(<<F("d", Obj(<<F("a", Macro(<<Ref("a")>>))>>))>>)),
    F("d", Obj(<<F("a", Obj(<<F("b", Obj(<<>>))>>))>>)),
    F("b", List(<<N(5), N(6)>>)), F("c", List(<<T("t", 5), T("s", 2)>>)), F("d", List(<<N(1), <<"null">>>>)),
    F("d", List(<<>>)), F("d", List(<<Macro(<<N(2)>>)>>)), F("a", List(<<Obj(<<F("d", N(1))>>)>>))}

Hand(layout, legacy, pragma, lines, commas, colons) ==
    [layout |-> layout, legacy |-> legacy, pragma |-> pragma, lines |-> lines,
     commas |-> commas, colons |-> colons]

MCSetups == {Hand("row", TRUE, {}, TRUE, FALSE, TRUE),
             Hand("row", FALSE, {"row"}, FALSE, TRUE, FALSE),
             Hand("row", FALSE, {"pax"}, TRUE, TRUE, TRUE)}

MCLikeObject == {N(7)}
MCLikeList == {N(6)}
===============================================================================
