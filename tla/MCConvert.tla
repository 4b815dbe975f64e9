------------------------------ MODULE MCConvert ------------------------------
(***************************************************************************)
(* Values for TLC: texts of every kind, some of two, and the numbers whose *)
(* bytes are the magics of an object and of a list; sources of each        *)
(* format with every shape the readers tell apart; import jobs with each   *)
(* policy, with schema files, from standard input and onto themselves.     *)
(***************************************************************************)
EXTENDS Convert

One    == [text |-> "7",    is |-> {"i64", "f64"}]
Digits == [text |-> "1234567890123456", is |-> {"i64", "f64", "hex", "pairs"}]
Half   == [text |-> "0.5",  is |-> {"f64"}]
NaN    == [text |-> "NaN",  is |-> {"f64"}]
Yes    == [text |-> "true", is |-> {"bool"}]
Day    == [text |-> "2026-04-30", is |-> {"date"}]
Hash   == [text |-> "cafecafecafecafe", is |-> {"hex", "pairs"}]
Word   == [text |-> "mat",  is |-> {}]
Nyxo   == [text |-> "1314478159", is |-> {"i64", "f64", "pairs"}]
Nyxl   == [text |-> "1314478156", is |-> {"i64", "f64", "pairs"}]
MCLikeObject == {<<"int", Nyxo.text>>, <<"time", Nyxo.text>>}
MCLikeList == {<<"int", Nyxl.text>>, <<"time", Nyxl.text>>}
Pair   == [text |-> "cafe", is |-> {"pairs"}]

R(v) == <<"raw", v>>
Obj(members) == <<"object", members>>
Json == {Obj(<< <<<<"a">>, R(One)>>, <<<<"b">>, R(Word)>> >>),
         Obj(<< <<<<"b">>, R(Yes)>> >>),
         Obj(<< <<<<"a">>, R(Half)>>, <<<<"b">>, R(Empty)>> >>),
         Obj(<< <<<<"a">>, R(Empty)>>, <<<<"c">>, R(Hash)>> >>),
         Obj(<< <<<<"a">>, <<"array">>>>, <<<<"c">>, Obj(<< <<<<"b">>, R(Day)>> >>)>> >>),
         Obj(<< <<<<"c">>, Obj(<< <<<<"b">>, R(One)>> >>)>>, <<<<"c", "b">>, R(Pair)>> >>),
         Obj(<< <<<<"a">>, Obj(<< <<<<"a">>, Obj(<<>>)>> >>)>> >>),
         Obj(<< <<<<"a">>, R(Nyxo)>>, <<<<"b">>, R(Nyxl)>> >>),
         <<"scalar">>, <<"broken">>}

Row(a, b) == <<"row", <<a, b>>>>
Csv == {Row(One, Word), Row(Empty, Yes), Row(Half, Digits), Row(Day, Hash), Row(NaN, Empty),
        Row(Nyxl, Word), Row(Yes, Pair), Row(Hash, Digits), <<"row", <<One>>>>}

Node(tag, attrs, content) == [tag |-> tag, attrs |-> attrs, content |-> content]
N(n) == <<"node", n>>
T(v) == <<"text", v>>
El(tag, v) == N(Node(tag, <<>>, <<T(v)>>))
Rec(attrs, content) == Node(RecordTag, attrs, content)
Xml == {N(Rec(<< <<"a", One>> >>, <<>>)),
        N(Rec(<< <<"a", Empty>> >>, <<El("b", Word)>>)),
        N(Rec(<<>>, <<El("b", Yes), El("a", Digits)>>)),
        N(Rec(<<>>, <<N(Node("a", << <<"b", Hash>> >>, <<T(Half), El("b", Word)>>))>>)),
        N(Rec(<<>>, <<El("a", One), El("a", Half)>>)),
        N(Rec(<<>>, <<N(Node("a", <<>>, <<El("b", One), T(Word)>>)), <<"cdata", Word>>>>)),
        N(Rec(<<>>, <<N(Node("a", << <<"b", One>> >>, <<>>)), N(Rec(<<>>, <<El("b", Day)>>))>>)),
        N(Node("g", <<>>, <<N(Rec(<<>>, <<El("a", Half)>>)), T(Word), N(Rec(<<>>, <<El("b", One)>>))>>)),
        <<"cut", Rec(<<>>, <<El("a", Half)>>)>>, <<"doctype">>}

MCItems == [json |-> Json, csv |-> Csv, xml |-> Xml]

Job(from, policy, hint) ==
    [from |-> from, policy |-> policy, attrs |-> "as-fields", noHeader |-> FALSE,
     head |-> IF from = "csv" THEN << <<"a">>, <<"b">> >> ELSE <<>>, hint |-> hint,
     stdin |-> FALSE, same |-> FALSE, maxDepth |-> IF from = "xml" THEN 9 ELSE 1, xmlMaxDepth |-> 4]
Col(k, kind) == [key |-> k, kind |-> kind]
A == <<"a">>
B == <<"b">>
MCJobs == {Job("json", "error", {}), Job("json", "coerce-string", {}), Job("json", "first-wins", {}),
           Job("json", "error", {Col(A, "int"), Col(B, "bytes"), Col(<<"c", "b">>, "text")}),
           [Job("json", "first-wins", {}) EXCEPT !.same = TRUE],
           Job("csv", "error", {}), Job("csv", "coerce-string", {}), Job("csv", "first-wins", {}),
           Job("csv", "error", {Col(A, "time"), Col(B, "bool")}),
           [Job("csv", "first-wins", {}) EXCEPT !.head = <<A, A>>],
           [Job("csv", "first-wins", {}) EXCEPT !.noHeader = TRUE, !.head = <<>>],
           [Job("csv", "error", {Col(<<"col_1">>, "float")}) EXCEPT !.noHeader = TRUE, !.head = <<>>, !.stdin = TRUE],
           [Job("csv", "coerce-string", {}) EXCEPT !.stdin = TRUE],
           Job("xml", "coerce-string", {}), [Job("xml", "first-wins", {}) EXCEPT !.attrs = "prefix"],
           Job("xml", "error", {Col(A, "float"), Col(B, "int")})}

MCColNames == << <<"col_0">>, <<"col_1">> >>
MCQuestions == {<<"json", "base64">>, <<"json", "skip">>, <<"csv", {}>>, <<"csv", {<<B, A>>}>>,
                <<"list", {}>>, <<"list", {1}>>, <<"record", 1>>}
===============================================================================
