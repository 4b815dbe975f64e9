------------------------------ MODULE NxsCompiler -----------------------------
(***************************************************************************)
(* From the fields of a document to a file and back: the row compiler      *)
(* (compiler.rs), the choice of a layout (layout.rs), the decoder          *)
(* (decoder.rs) and a record's path lookup (query.rs).                     *)
(*                                                                         *)
(* A file is a sequence of 8-byte units <<tag, content>>: every value and  *)
(* every object of the row compiler is padded to 8 bytes.  An offset is a  *)
(* number of units.  Names of keys have one byte.                          *)
(***************************************************************************)
EXTENDS NxsText

CONSTANTS
    MaskBits,   \* keys per byte of an object's bitmask; 7 in the code
    OffMod,     \* offsets a u16 entry can tell apart; 2^16 bytes in the code
    MaxKeys,    \* keys the decoder accepts; 256 in the code
    IntMax,     \* the greatest integer; 2^63 - 1 in the code
    NarrowMax,  \* the greatest integer of a narrow column; 2^15 - 1 in the code
    MaxText,    \* bytes of a text the decoder takes for one; 2^20 in the code
    LikeObject, \* values whose first four bytes are the magic of an object
    LikeList    \* ... of a list

ASSUME NxsCompilerAssumption ==
    /\ MaskBits \in Nat \ {0} /\ OffMod \in Nat \ {0} /\ MaxKeys \in Nat /\ IntMax \in Nat
    /\ NarrowMax \in Nat /\ MaxText \in Nat

Up(n, a) == ((n + a - 1) \div a) * a
Filler(n) == [i \in 1 .. n |-> <<"pad", 0>>]
IndexOf(seq, x) == SelectLastInSeq(seq, LAMBDA y : y = x) - 1    \* a later entry replaces

\* -------------------------------------------------------------------------
\* Macros

\* checked_add for integers; only values of one kind are added.
AddValues(a, b) ==
    CASE a[1] = "text" /\ b[1] = "text" -> {<<"text", a[2] \o b[2], a[3] + b[3]>>}
      [] a[1] = "num" /\ b[1] = "num"   -> IF a[2] + b[2] > IntMax THEN {} ELSE {<<"num", a[2] + b[2]>>}
      [] a[1] = "real" /\ b[1] = "real" -> {<<"real", a[2] + b[2]>>}
      [] OTHER -> {}

TextLength(terms) == MapThenSumSet(LAMBDA i : terms[i][3],
                                   {i \in DOMAIN terms : terms[i][1] = "text"})

\* eval_macro, in the order of its tests: a leading @ takes the whole rest for a key, and
\* a text that begins and ends with a quote is one literal, a + between them or not.
RECURSIVE EvalMacro(_, _)
EvalMacro(terms, fields) ==
    LET one   == Len(terms) = 1
        head  == terms[1]
        found == {i \in DOMAIN fields : fields[i].key = head[2]}
    IN  IF head[1] = "ref"
        THEN IF one /\ found # {} THEN {fields[Min(found)].val} ELSE {}
        ELSE IF head[1] = "text" /\ Last(terms)[1] = "text"
        THEN IF one THEN {head}
             ELSE {<<"text", <<"source of", terms>>, TextLength(terms) + 5 * (Len(terms) - 1)>>}
        ELSE IF ~one
        THEN UNION {AddValues(x, y) : x \in EvalMacro(<<head>>, fields),
                                      y \in EvalMacro(Tail(terms), fields)}
        ELSE CASE head[1] = "now" -> {<<"time", 0>>}
               [] head[1] \in {"num", "real"} -> {head}
               [] OTHER -> {}

\* resolve_macro for every field of an object; a reference is not followed further.
Resolved(fields) ==
    LET vals == [i \in DOMAIN fields |->
                    IF fields[i].val[1] = "macro" THEN EvalMacro(fields[i].val[2], fields)
                    ELSE {fields[i].val}]
    IN  IF {} \in ToSet(vals) THEN {} ELSE {[i \in DOMAIN vals |-> The(vals[i])]}

\* -------------------------------------------------------------------------
\* The row compiler

RECURSIVE KeysOfValue(_)
KeysOfFields(fields) ==
    FlattenSeq([i \in DOMAIN fields |-> <<fields[i].key>> \o KeysOfValue(fields[i].val)])
KeysOfValue(v) ==
    CASE v[1] = "object" -> FlattenSeq([i \in DOMAIN v[2] |->
                                <<v[2][i].key>> \o KeysOfValue(v[2][i].val)])
      [] v[1] = "list"   -> FlattenSeq([i \in DOMAIN v[2] |-> KeysOfValue(v[2][i])])
      [] OTHER           -> <<>>

\* collect_keys and intern_key: every key of the document once, in the order of the text.
\* The keys a macro's value would bring are not met.
CollectKeys(fields) ==
    FoldLeft(LAMBDA dict, k : IF k \in ToSet(dict) THEN dict ELSE Append(dict, k),
             <<>>, KeysOfFields(fields))

\* mark_slot_sigil: the kind of the key's first value that is not null; only the root
\* object's fields mark, any other key is written as a text.
MarkSigils(dict, fields, vals) ==
    [s \in DOMAIN dict |->
        LET own  == {i \in DOMAIN fields : fields[i].key = dict[s]}
            real == {i \in own : vals[i][1] # "null"}
        IN  IF own = {} THEN "text" ELSE IF real = {} THEN "null" ELSE vals[Min(real)][1]]

MaskBytes(n) == IF n = 0 THEN 1 ELSE (n + MaskBits - 1) \div MaskBits
HeadUnits(keys, fields) == Up(8 + MaskBytes(keys) + 2 * fields, 8) \div 8

Valued(v, bytes) == {<< <<v[1], v>> >> \o Filler(Up(bytes, 8) \div 8 - 1)}

RECURSIVE EncodeValue(_)

\* Mutant of EncodeList: the count is one short.
EncodeListShort(elems) ==
    LET bufs == [i \in DOMAIN elems |-> EncodeValue(elems[i])] IN
    IF {} \in ToSet(bufs) THEN {}
    ELSE {<< <<"nyxl", [kind  |-> IF elems = <<>> THEN "none" ELSE elems[1][1],
                        count |-> IF elems = <<>> THEN 0 ELSE Len(elems) - 1]>> >>
            \o Filler(1) \o FlattenSeq([i \in DOMAIN bufs |-> The(bufs[i])])}

\* encode_list
EncodeList(elems) ==
    LET bufs == [i \in DOMAIN elems |-> IF elems[i][1] # elems[1][1] THEN {}
                                        ELSE EncodeValue(elems[i])]
    IN  IF {} \in ToSet(bufs) THEN {}
        ELSE {<< <<"nyxl", [kind |-> IF elems = <<>> THEN "none" ELSE elems[1][1],
                            count |-> Len(elems)]>> >>
                \o Filler(1) \o FlattenSeq([i \in DOMAIN bufs |-> The(bufs[i])])}

\* encode_object and build_bitmask: bits by slot, but offsets in the order of the fields.
EncodeObject(fields, vals, dict) ==
    LET bufs == [i \in DOMAIN fields |-> EncodeValue(vals[i])]
        head == HeadUnits(Len(dict), Len(fields))
        at[i \in 1 .. Len(fields) + 1] ==
            IF i = 1 THEN head ELSE at[i - 1] + Len(The(bufs[i - 1]))
    IN  IF {} \in ToSet(bufs) THEN {}
        ELSE {<< <<"nyxo", [len     |-> at[Len(fields) + 1],
                            bits    |-> {IndexOf(dict, fields[i].key) : i \in DOMAIN fields},
                            offsets |-> [i \in DOMAIN fields |-> (8 * at[i]) % OffMod]]>> >>
                \o Filler(head - 1) \o FlattenSeq([i \in DOMAIN bufs |-> The(bufs[i])])}

\* encode_value; a nested object has a dictionary of its own, its fields' keys.
EncodeValue(v) ==
    CASE v[1] \in {"num", "real", "bool", "time", "link"} -> Valued(v, 8)
      [] v[1] \in {"text", "blob"} -> Valued(v, 4 + v[3])
      [] v[1] = "null"   -> {<<>>}
      [] v[1] = "list"   -> EncodeList(v[2])
      [] v[1] = "object" -> UNION {EncodeObject(v[2], vals, [i \in DOMAIN v[2] |-> v[2][i].key]) :
                                      vals \in Resolved(v[2])}
      [] OTHER           -> {}      \* keyword, or a macro where none is resolved

SchemaUnits(dict) == Up(2 + 3 * Len(dict), 8) \div 8

\* compile: preamble, schema, the root object as the one record, tail-index.
CompileRow(fields) ==
    LET dict == CollectKeys(fields) IN
    UNION {{LET schema == [keys |-> dict, sigils |-> MarkSigils(dict, fields, vals)]
                start  == 4 + SchemaUnits(dict)
            IN  << <<"pre", schema>> >> \o Filler(3)
                  \o << <<"schema", schema>> >> \o Filler(SchemaUnits(dict) - 1)
                  \o root
                  \o << <<"tail", [count |-> 1, first |-> start]>>, <<"pad", 0>>,
                        <<"foot", start + Len(root)>> >> :
               root \in EncodeObject(fields, vals, dict)} : vals \in Resolved(fields)}

\* -------------------------------------------------------------------------
\* The other layouts take documents of records

\* Cell::from_value
IsCell(v) == v[1] \in {"num", "real", "bool", "time", "null", "text", "blob"}

\* records_from_fields: the keys in the order they are met, a row per top-level object;
\* of two fields with one key the later counts.
RecordsFromFields(fields) ==
    LET keys == FoldLeft(LAMBDA ks, k : IF k \in ToSet(ks) THEN ks ELSE Append(ks, k), <<>>,
                         FlattenSeq([i \in DOMAIN fields |->
                             [j \in DOMAIN fields[i].val[2] |-> fields[i].val[2][j].key]]))
        cell(inner, k) == LET own == {j \in DOMAIN inner : inner[j].key = k} IN
                          IF own = {} THEN <<"absent">> ELSE inner[Max(own)].val
    IN  IF \/ fields = <<>>
           \/ \E f \in ToSet(fields) : f.val[1] # "object"
           \/ \E f \in ToSet(fields) : \E g \in ToSet(f.val[2]) : ~IsCell(g.val)
        THEN {}
        ELSE {[keys |-> keys,
               rows |-> [i \in DOMAIN fields |-> [s \in DOMAIN keys |->
                            cell(fields[i].val[2], keys[s])]]]}

Panic == [layout |-> "panic"]    \* the process ends and writes nothing

\* A column of integers of one or two bytes has no width for a real; below 32 records no
\* column of texts is promoted, which has none for a large integer either.
NoWidth(t) ==
    \E s \in DOMAIN t.keys :
        LET cells == SelectSeq([i \in DOMAIN t.rows |-> t.rows[i][s]], LAMBDA c : c[1] # "absent") IN
        /\ cells[1][1] = "num"
        /\ \A c \in ToSet(cells) : c[1] = "num" => c[2] <= NarrowMax
        /\ \E c \in ToSet(cells) : c[1] = "real"

\* finish_row and finish with the compact options: record by record and slot by slot, a
\* binary cell is an error, a null has no bitmask to be marked in.
FinishRow(t) ==
    LET cells == FlattenSeq(t.rows)
        bad   == SelectInSeq(cells, LAMBDA c : c[1] \in {"blob", "null"})
    IN  IF bad # 0 THEN IF cells[bad][1] = "blob" THEN {} ELSE {Panic}
        ELSE IF NoWidth(t) THEN {Panic}
        ELSE {[layout |-> "compact", table |-> t]}

\* compile_fields: a row file is compact when the document is made of flat records, and
\* made by the row compiler when it is not or legacy_v12 asks for it.  The files made
\* from records are TableFile's.
CompileFields(fields, layout, legacy) ==
    LET records == RecordsFromFields(fields) IN
    IF layout # "row" THEN {[layout |-> layout, table |-> t] : t \in records}
    ELSE IF legacy \/ records = {}
         THEN {[layout |-> "plain", file |-> f] : f \in CompileRow(fields)}
         ELSE FinishRow(The(records))

\* compile_source_with_opts: a pragma can change the layout from row, not back to it.
CompileSource(text, layout, legacy) ==
    UNION {CompileFields(p.fields, IF p.layout # "row" THEN p.layout ELSE layout, legacy) :
              p \in ParseText(Tokens(text), 1, "row")}

\* -------------------------------------------------------------------------
\* The decoder

Scalars == {"num", "real", "bool", "time", "link", "text", "blob"}
Unit(data, off) == IF off + 1 \in DOMAIN data THEN data[off + 1] ELSE <<"end", 0>>
Garbage == <<"garbage">>

\* The magics are looked for in a value of any kind.
IsObjectAt(data, off) ==
    LET u == Unit(data, off) IN u[1] = "nyxo" \/ (u[1] \in Scalars /\ u[2] \in LikeObject)
IsListAt(data, off) ==
    LET u == Unit(data, off) IN u[1] = "nyxl" \/ (u[1] \in Scalars /\ u[2] \in LikeList)

\* decode_list: elements of eight bytes each, typed when they are numbers. Where there is no
\* list, the unit behind gives the count: none for a small number, more than the file holds
\* for a text, a real, a time or a magic.
DecodeList(data, off) ==
    LET head == data[off + 1][2]
        next == Unit(data, off + 1)
        none == \/ next[1] \in {"num", "bool", "link"} /\ next[2] \notin LikeObject \cup LikeList
                \/ next[1] \in {"text", "blob"} /\ next[2][3] = 0
                \/ next[1] \in {"pad", "tail"}
    IN  IF data[off + 1][1] # "nyxl" THEN IF none THEN {<<"list", <<>>>>} ELSE {}
        ELSE IF head.count > Len(data) - (off + 2) THEN {}
        ELSE {<<"list", [i \in 1 .. head.count |->
                  IF head.kind \in {"num", "real"} THEN Unit(data, off + 1 + i)[2] ELSE <<"raw">>]>>}

\* decode_value_at_depth: a link is read as an absolute place and followed as a link again,
\* until it leaves the file or the hops run out; the magics go before the slot's kind; a
\* long text is taken for a number.
DecodeValue(data, off, sigil) ==
    LET u == Unit(data, off) IN
    IF sigil = "link" \/ u[1] = "end" THEN {}
    ELSE IF IsObjectAt(data, off) THEN {<<"raw">>}
    ELSE IF IsListAt(data, off) THEN DecodeList(data, off)
    ELSE IF sigil = "null" THEN {<<"null">>}
    ELSE {IF u[1] = sigil /\ (sigil = "text" => u[2][3] <= MaxText) THEN u[2] ELSE Garbage}

\* decode_object: a present bit takes the next offset.
DecodeObject(data, off, keys, sigils) ==
    LET head == Unit(data, off)[2]
        bits == SetToSortSeq(head.bits, <)
        vals == [i \in DOMAIN bits |->
                    DecodeValue(data, off + head.offsets[i] \div 8, sigils[bits[i] + 1])]
    IN  IF {} \in ToSet(vals) THEN {}
        ELSE {[i \in DOMAIN bits |-> [key |-> keys[bits[i] + 1], val |-> The(vals[i])]]}

\* decode: a root object that cannot be decoded is shown without fields.
Decode(data) ==
    LET schema == data[5][2]
        start  == 4 + SchemaUnits(schema.keys)
        root   == DecodeObject(data, start, schema.keys, schema.sigils)
        tail   == Last(data)[2]
    IN  IF Len(schema.keys) > MaxKeys \/ data[1][2] # schema THEN {}
        ELSE {[keys    |-> schema.keys,
               fields  |-> IF root = {} THEN <<>> ELSE The(root),
               records |-> Unit(data, tail)[2].count]}

\* walk_path and a typed read: every part of the path by the slot it has in the file's
\* dictionary, in nested objects too.
WalkPath(data, path, kind) ==
    LET keys == data[5][2].keys
        first == Unit(data, Last(data)[2])[2].first
        step(off, k) ==      \* resolve_slot
            LET head == Unit(data, off)[2]
                slot == IndexOf(keys, k)
            IN  IF slot \notin head.bits THEN {}
                ELSE {off + head.offsets[Cardinality({b \in head.bits : b < slot}) + 1] \div 8}
        at[i \in 1 .. Len(path)] ==
            IF i = 1 THEN step(first, path[1])
            ELSE UNION {IF Unit(data, o)[1] = "nyxo" THEN step(o, path[i]) ELSE {} : o \in at[i - 1]}
    IN  {IF Unit(data, o)[1] = kind THEN Unit(data, o)[2] ELSE Garbage : o \in at[Len(path)]}
===============================================================================
