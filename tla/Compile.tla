------------------------------- MODULE Compile -------------------------------
(***************************************************************************)
(* An author writes a document field by field, in one of several hands;    *)
(* `nxs compile` makes a file of it (compile_source_with_opts, lib.rs);    *)
(* the file is decoded and its fields are looked up.                       *)
(***************************************************************************)
EXTENDS NxsCompiler

CONSTANTS
    Fields,     \* the fields an author can write
    Setups,     \* [layout, legacy, pragma, lines, commas, colons]
    MaxFields   \* bound: top-level fields of a document

VARIABLES doc, setup, result

vars == <<doc, setup, result>>

Init ==
    /\ doc = <<>>
    /\ setup \in Setups
    /\ result = <<>>

\* -------------------------------------------------------------------------
\* The text an author writes for the fields, by the setup's lines, commas and colons.

When(b, lexeme) == IF b THEN << <<lexeme>> >> ELSE <<>>

RECURSIVE WriteValue(_, _)
WriteField(f, hand) ==
    << <<"ident", f.key>> >> \o When(hand.colons, ":") \o WriteValue(f.val, hand)
WriteValue(v, hand) ==
    CASE v[1] = "object" ->
            << <<"{">> >> \o FlattenSeq([i \in DOMAIN v[2] |-> WriteField(v[2][i], hand)
                                             \o When(hand.commas, ",") \o When(hand.lines, "nl")])
              \o << <<"}">> >>
      [] v[1] = "list" ->
            << <<"[">> >> \o FlattenSeq([i \in DOMAIN v[2] |-> WriteValue(v[2][i], hand)
                                             \o When(hand.commas, ",") \o When(hand.lines, "nl")])
              \o << <<"]">> >>
      [] v[1] = "macro" -> << IF Len(v[2]) = 1 /\ v[2][1][1] = "ref" THEN <<"at", v[2][1][2]>>
                              ELSE <<"bang", v[2]>> >>
      [] OTHER -> << <<"val", v>> >>

WriteText(fields, hand) ==
    (IF hand.pragma = {} THEN <<>>
     ELSE << <<"at", "layout">>, <<"ident", The(hand.pragma)>>, <<"nl">> >>)
      \o FlattenSeq([i \in DOMAIN fields |-> WriteField(fields[i], hand) \o When(hand.lines, "nl")])

\* -------------------------------------------------------------------------

AddField(f) ==
    /\ result = <<>> /\ Len(doc) < MaxFields
    /\ doc' = Append(doc, f)
    /\ UNCHANGED <<setup, result>>

RunCompile ==
    /\ result = <<>>
    /\ result' = <<CompileSource(WriteText(doc, setup), setup.layout, setup.legacy)>>
    /\ UNCHANGED <<doc, setup>>

Next == (\E f \in Fields : AddField(f)) \/ RunCompile

Spec == Init /\ [][Next]_vars

\* -------------------------------------------------------------------------
\* What a document says

RECURSIVE Within(_)
Within(v) ==       \* a value and all values in it
    {v} \cup (CASE v[1] = "object" -> UNION {Within(v[2][i].val) : i \in DOMAIN v[2]}
                [] v[1] = "list"   -> UNION {Within(v[2][i]) : i \in DOMAIN v[2]}
                [] OTHER           -> {})
Values == UNION {Within(doc[i].val) : i \in DOMAIN doc}

RECURSIVE Depth(_)
Depth(v) == CASE v[1] = "object" -> 1 + Max({0} \cup {Depth(v[2][i].val) : i \in DOMAIN v[2]})
              [] v[1] = "list"   -> Max({0} \cup {Depth(v[2][i]) : i \in DOMAIN v[2]})
              [] OTHER           -> 0

\* The terms of a macro as values, where each has one in this object.
Terms(m, fields) ==
    [i \in DOMAIN m[2] |->
        LET t == m[2][i] IN
        IF t[1] = "ref"
        THEN LET own == {j \in DOMAIN fields : fields[j].key = t[2]} IN
             IF own = {} THEN <<"unknown">> ELSE fields[Min(own)].val
        ELSE IF t[1] = "now" THEN <<"time", 0>> ELSE t]

Evaluates(m, fields) ==
    LET ts == Terms(m, fields) IN
    \/ Len(ts) = 1 /\ ts[1][1] \notin {"unknown", "macro"}
    \/ \E kind \in {"text", "num", "real"} :
          /\ \A i \in DOMAIN ts : ts[i][1] = kind
          /\ kind = "num" => MapThenSumSet(LAMBDA i : ts[i][2], DOMAIN ts) <= IntMax

MacroValue(m, fields) ==
    LET ts == Terms(m, fields)
        sum(j) == MapThenSumSet(LAMBDA i : ts[i][j], DOMAIN ts)
    IN  IF Len(ts) = 1 THEN ts[1]
        ELSE IF ts[1][1] = "text"
             THEN <<"text", FlattenSeq([i \in DOMAIN ts |-> ts[i][2]]), sum(3)>>
             ELSE <<ts[1][1], sum(2)>>

ValueOf(v, fields) == IF v[1] = "macro" THEN MacroValue(v, fields) ELSE v

\* Macros that are read and evaluated as they are meant. The lexer reads one to the end of
\* the line, a comma or a closing brace; the evaluator does not split behind a leading
\* reference or between an opening and a closing quote.
Bang(v) == v[1] = "macro" /\ ~(Len(v[2]) = 1 /\ v[2][1][1] = "ref")
MacrosApart ==
    \/ setup.lines
    \/ /\ \A i \in 1 .. Len(doc) - 1 : ~Bang(doc[i].val)
       /\ \/ setup.commas
          \/ \A v \in Values :
                /\ v[1] = "object" => \A i \in 1 .. Len(v[2]) - 1 : ~Bang(v[2][i].val)
                /\ v[1] = "list"   => \A x \in ToSet(v[2]) : ~Bang(x)
PlainMacros ==
    /\ MacrosApart
    /\ \A v \in Values : v[1] = "macro" /\ Len(v[2]) > 1 =>
          /\ v[2][1][1] # "ref"
          /\ \A i, j \in DOMAIN v[2] : i < j => ~(v[2][i][1] = "text" /\ v[2][j][1] = "text" /\ j = Len(v[2]))

IsTable == /\ doc # <<>>
           /\ \A i \in DOMAIN doc : /\ doc[i].val[1] = "object"
                                    /\ \A j \in DOMAIN doc[i].val[2] : IsCell(doc[i].val[2][j].val)
WantedLayout == IF setup.pragma \in {{}, {"row"}} THEN setup.layout ELSE The(setup.pragma)

RECURSIVE Compiles(_)
Compiles(fields) ==
    \A i \in DOMAIN fields :
        LET v == fields[i].val
            w == IF v[1] = "macro" /\ Evaluates(v, fields) THEN MacroValue(v, fields) ELSE v
        IN  /\ w[1] \notin {"macro", "word"}
            /\ \A u \in Within(w) :
                  /\ u[1] = "object" => Compiles(u[2])
                  /\ u[1] = "list" => \A x \in ToSet(u[2]) : x[1] \notin {"macro", "word"}

Parses == /\ \A v \in Values : v[1] = "list" => \A x, y \in ToSet(v[2]) : x[1] = y[1]
          /\ \A i \in DOMAIN doc : Depth(doc[i].val) <= MaxDepth

\* What a compact row file cannot hold: a last value of a key that is null or binary, and a
\* real behind a narrow integer under the same key.
NotCompact ==
    LET last(i, k) == LET own == {j \in DOMAIN doc[i].val[2] : doc[i].val[2][j].key = k} IN
                      IF own = {} THEN <<"absent">> ELSE doc[i].val[2][Max(own)].val
        keys == UNION {{doc[i].val[2][j].key : j \in DOMAIN doc[i].val[2]} : i \in DOMAIN doc}
        kind(i, k) == last(i, k)[1]
    IN  \E i \in DOMAIN doc, k \in keys :
           \/ kind(i, k) \in {"null", "blob"}
           \/ /\ kind(i, k) = "real"
              /\ \E h \in 1 .. i - 1 : /\ kind(h, k) = "num"
                                       /\ \A g \in 1 .. h - 1 : kind(g, k) = "absent"
              /\ \A j \in DOMAIN doc : kind(j, k) = "num" => last(j, k)[2] <= NarrowMax

Wanted == IF WantedLayout # "row" THEN IsTable
          ELSE IF IsTable /\ ~setup.legacy THEN ~NotCompact
          ELSE Compiles(doc)

\* A source yields no file exactly when it is nested too deeply, a list is mixed, a macro has
\* no value or a keyword is used, or it is not the table its layout asks for; a table is
\* not made a compact row file when a record has a null or binary value or a real among
\* narrow integers, of which nulls and reals end the process; whatever commas, colons and
\* lines it is written with, macros standing apart (parser.rs, compiler.rs, layout.rs).
RefusedExactly ==
    result # <<>> /\ PlainMacros =>
        /\ (result[1] \in {{}, {Panic}} <=> ~(Parses /\ Wanted))
        /\ result[1] = {Panic} => Parses /\ IsTable /\ WantedLayout = "row" /\ ~setup.legacy

\* -------------------------------------------------------------------------

Compiled(layouts) == result # <<>> /\ result[1] # {} /\ The(result[1]).layout \in layouts
Slot(k) == IndexOf(CollectKeys(doc), k)
Root(i) == ValueOf(doc[i].val, doc)

\* No offset of the root object is cut to 16 bits.
InReach == LET file == The(result[1]).file IN
           8 * file[4 + SchemaUnits(CollectKeys(doc)) + 1][2].len < OffMod

\* What the decoder can show of the root object: its keys in dictionary order, no link, no
\* long text, no value whose first bytes are a magic, no null in front of an object or a
\* list, whose magic it would read, and no offset beyond 16 bits.
Decodable ==
    /\ \A i \in 1 .. Len(doc) - 1 : Slot(doc[i].key) < Slot(doc[i + 1].key)
    /\ \A i \in DOMAIN doc :
          /\ Root(i)[1] # "link"
          /\ Root(i) \notin LikeObject \cup LikeList
          /\ Root(i)[1] = "text" => Root(i)[3] <= MaxText
          /\ Root(i)[1] = "null" =>
                \A j \in i + 1 .. Len(doc) :
                   Root(j)[1] \in {"object", "list"} => \E k \in i + 1 .. j - 1 : Root(k)[1] # "null"
    /\ Len(CollectKeys(doc)) <= MaxKeys
    /\ InReach

\* A nested object is shown as its first bytes, a list by its numbers or its length.
Shown(v) == CASE v[1] = "object" -> <<"raw">>
              [] v[1] = "list"   -> <<"list", [i \in DOMAIN v[2] |->
                                        IF v[2][1][1] \in {"num", "real"} THEN v[2][i] ELSE <<"raw">>]>>
              [] OTHER           -> v

\* A document compiled to a plain row file decodes to the fields its text has, macros by
\* their values, and each scalar is found by its key; compiled to records, every field of
\* every record is in its key's column (compiler.rs against decoder.rs and query.rs,
\* records_from_fields in layout.rs).
SourceReadsBack ==
    /\ Compiled({"plain"}) /\ PlainMacros /\ Decodable =>
          LET file == The(result[1]).file IN
          /\ Decode(file) = {[keys    |-> CollectKeys(doc), records |-> 1,
                              fields  |-> [i \in DOMAIN doc |->
                                             [key |-> doc[i].key, val |-> Shown(Root(i))]]]}
          /\ \A i \in DOMAIN doc : Root(i)[1] \in {"num", "real", "bool", "time", "text", "blob"} =>
                WalkPath(file, <<doc[i].key>>, Root(i)[1]) = {Root(i)}
    /\ Compiled({"compact", "columnar", "pax"}) =>
          LET t == The(result[1]).table IN
          /\ Len(t.rows) = Len(doc)
          /\ \A i \in DOMAIN doc, s \in DOMAIN t.keys :
                LET own == {j \in DOMAIN doc[i].val[2] : doc[i].val[2][j].key = t.keys[s]} IN
                t.rows[i][s] = IF own = {} THEN <<"absent">> ELSE doc[i].val[2][Max(own)].val

\* "Each bit set to `1` in the mask corresponds to one entry in the Offset Table, in
\* dictionary key order" (SPEC.md 5.3): in a document whose keys come once each and whose
\* offsets have room, a number is found under its key (encode_object in compiler.rs).
OffsetsInKeyOrder ==
    /\ Compiled({"plain"}) /\ PlainMacros /\ InReach
    /\ \A i, j \in DOMAIN doc : doc[i].key = doc[j].key => i = j
    => \A i \in DOMAIN doc : doc[i].val[1] = "num" =>
          WalkPath(The(result[1]).file, <<doc[i].key>>, "num") = {doc[i].val}
===============================================================================
