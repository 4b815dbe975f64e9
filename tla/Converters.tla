----------------------------- MODULE Converters -----------------------------
(***************************************************************************)
(* The converters (convert/): reading JSON, CSV and XML into records of    *)
(* fields, choosing a kind for each column, writing rows, exporting and    *)
(* inspecting them.                                                        *)
(*                                                                         *)
(* A value of a source is its text and the tests it passes: "i64" and      *)
(* "f64" (it parses as one), "bool", "date", "hex" (16 or more hex         *)
(* digits, an even number) and "pairs" (its length is even and it is hex). *)
(* A key is a sequence of names, shown joined by dots. Records are shorter *)
(* than 2^16 bytes: no offset is cut.                                      *)
(***************************************************************************)
EXTENDS Naturals, SequencesExt, FiniteSetsExt

CONSTANTS
    ColNames,    \* the keys col_0, col_1, ... of a CSV without header
    RecordTag,   \* --xml-record-tag
    NotNumbers,  \* texts of floats that JSON has no number for
    MaxKeys,     \* keys the decoder accepts; 256 in the code
    LikeObject,  \* cells whose first four bytes are the magic of an object
    LikeList     \* ... of a list

The(S) == CHOOSE x \in S : TRUE
Empty == [text |-> "", is |-> {"pairs"}]

\* -------------------------------------------------------------------------
\* Inference

Kind(raw) == IF "i64" \in raw.is THEN "int"
             ELSE IF "f64" \in raw.is THEN "float"
             ELSE IF "bool" \in raw.is THEN "bool"
             ELSE IF "date" \in raw.is THEN "time"
             ELSE IF "hex" \in raw.is THEN "bytes" ELSE "text"

Observe(col, raw) ==
    IF raw = Empty THEN col
    ELSE [col EXCEPT !.seen = @ \cup {Kind(raw)},
                     !.first = IF @ = {} THEN {Kind(raw)} ELSE @]

Merge(cols, record) ==
    FoldLeft(LAMBDA acc, f :
                LET i == SelectInSeq(acc, LAMBDA c : c.key = f[1]) IN
                IF i # 0 THEN [acc EXCEPT ![i] = Observe(@, f[2])]
                ELSE Append(acc, Observe([key |-> f[1], seen |-> {}, first |-> {}], f[2])),
             cols, record)

\* A conflicting column keeps the kind it was first seen with, whatever the policy.
ResolveSigilFirst(col, policy) == IF col.seen = {} THEN {"null"} ELSE col.first

ResolveSigil(col, policy) ==
    IF Cardinality(col.seen) > 1
    THEN CASE policy = "error"         -> {}
           [] policy = "coerce-string" -> {"text"}
           [] policy = "first-wins"    -> col.first
    ELSE IF col.seen = {} THEN {"null"} ELSE col.seen

Finalize(cols, policy) ==
    IF \E i \in DOMAIN cols : ResolveSigil(cols[i], policy) = {} THEN {}
    ELSE {[i \in DOMAIN cols |-> [key |-> cols[i].key, kind |-> The(ResolveSigil(cols[i], policy))]]}

\* -------------------------------------------------------------------------
\* Reading. A parse is the set of at most one sequence of records; a record is a
\* sequence of <<key, value>>.

\* JSON: an item is <<"object", members>>, <<"scalar">> or <<"broken">>; a member is
\* <<key, <<"raw", v>>>>, <<key, <<"array">>>> or <<key, <<"object", members>>>>.
RECURSIVE FlattenObject(_, _, _)
FlattenObject(members, limit, depth) ==
    IF depth > limit THEN {}
    ELSE LET nested == [i \in DOMAIN members |->
                          IF members[i][2][1] = "object"
                          THEN FlattenObject(members[i][2][2], limit, depth + 1) ELSE {<<>>}]
         IN  IF \E i \in DOMAIN members : nested[i] = {} THEN {}
             ELSE {FlattenSeq([i \in DOMAIN members |->
                      LET k == members[i][1]  v == members[i][2] IN
                      CASE v[1] = "raw"    -> << <<k, v[2]>> >>
                        [] v[1] = "array"  -> << <<k, Empty>> >>
                        [] v[1] = "object" -> [j \in DOMAIN The(nested[i]) |->
                                                 <<k \o The(nested[i])[j][1], The(nested[i])[j][2]>>]])}

ParseJson(source, job) ==
    LET records == [i \in DOMAIN source.items |->
                      CASE source.items[i][1] = "object" -> FlattenObject(source.items[i][2], job.maxDepth, 0)
                        [] source.items[i][1] = "scalar" -> {<<>>}
                        [] source.items[i][1] = "broken" -> {}]
    IN  IF source.gone \/ \E i \in DOMAIN records : records[i] = {} THEN {}
        ELSE {[i \in DOMAIN records |-> The(records[i])]}

\* CSV: an item is <<"row", values>>; the reader refuses a row of another width.
Width(source, job) == IF ~job.noHeader THEN Len(source.head)
                      ELSE IF source.items = <<>> THEN 0 ELSE Len(source.items[1][2])

ParseCsv(source, job, names) ==
    IF source.gone THEN {<<>>}
    ELSE IF \E i \in DOMAIN source.items : Len(source.items[i][2]) # Width(source, job) THEN {}
    ELSE {[i \in DOMAIN source.items |->
             LET row == source.items[i][2] IN
             [j \in 1 .. Min({Len(names), Len(row)}) |-> <<names[j], row[j]>>]]}

\* XML: an item is <<"node", n>>, <<"cut", n>> (n without its end, the last item of a file
\* that was cut there) or <<"doctype">>; n has a tag, attributes and contents: <<"node", n>>,
\* <<"text", v>> and <<"cdata", v>>.
RECURSIVE Events(_)
Events(n) ==
    IF n.content = <<>> THEN << <<"empty", n.tag, n.attrs>> >>
    ELSE << <<"start", n.tag, n.attrs>> >>
         \o FlattenSeq([i \in DOMAIN n.content |->
                          IF n.content[i][1] = "node" THEN Events(n.content[i][2]) ELSE <<n.content[i]>>])
         \o << <<"end">> >>

FileEvents(source) ==
    LET of(item) == CASE item[1] = "node"    -> Events(item[2])
                      [] item[1] = "cut"     -> Front(Events(item[2]))
                      [] item[1] = "doctype" -> <<item>>
    IN  IF source.gone THEN <<>>
        ELSE << <<"start", "root", <<>>>> >> \o FlattenSeq([i \in DOMAIN source.items |-> of(source.items[i])])
             \o (IF \E i \in DOMAIN source.items : source.items[i][1] = "cut" THEN <<>> ELSE << <<"end">> >>)

CollectAttrs(attrs, mode) ==
    [i \in DOMAIN attrs |-> <<IF mode = "prefix" THEN <<"@" \o attrs[i][1]>> ELSE <<attrs[i][1]>>, attrs[i][2]>>]

XmlStart(s, e, job) ==
    LET depth == s.depth + 1  own == CollectAttrs(e[3], job.attrs) IN
    IF depth > Min({job.maxDepth, job.xmlMaxDepth}) THEN [s EXCEPT !.err = TRUE]
    ELSE IF ~s.inRecord /\ e[2] = RecordTag
         THEN [s EXCEPT !.depth = depth, !.inRecord = TRUE, !.recordDepth = depth, !.fields = own, !.path = <<>>]
    ELSE IF s.inRecord
         THEN [s EXCEPT !.depth = depth, !.path = Append(@, e[2]), !.fields = @ \o own,
                        !.textKey = {Append(s.path, e[2])}]
    ELSE [s EXCEPT !.depth = depth]

XmlEmpty(s, e, job) ==
    LET own == CollectAttrs(e[3], job.attrs) IN
    IF ~s.inRecord /\ e[2] = RecordTag THEN [s EXCEPT !.records = Append(@, own)]
    ELSE IF s.inRecord THEN [s EXCEPT !.fields = @ \o own] ELSE s

XmlEnd(s) ==
    LET after == IF s.inRecord /\ s.depth = s.recordDepth
                 THEN [s EXCEPT !.records = Append(@, s.fields), !.fields = <<>>, !.inRecord = FALSE]
                 ELSE IF s.inRecord /\ s.path # <<>>
                 THEN [s EXCEPT !.path = Front(@), !.textKey = {}] ELSE s
    IN  [after EXCEPT !.depth = Max({@, 1}) - 1]

XmlText(s, e) ==
    IF s.inRecord /\ s.textKey # {} THEN [s EXCEPT !.fields = Append(@, <<The(s.textKey), e[2]>>)] ELSE s

ParseXml(source, job) ==
    LET step(s, e) == IF s.err THEN s
                      ELSE CASE e[1] = "doctype" -> [s EXCEPT !.err = TRUE]
                             [] e[1] = "start"   -> XmlStart(s, e, job)
                             [] e[1] = "empty"   -> XmlEmpty(s, e, job)
                             [] e[1] = "end"     -> XmlEnd(s)
                             [] e[1] = "text"    -> XmlText(s, e)
                             [] e[1] = "cdata"   -> s
        last == FoldLeft(step, [depth |-> 0, inRecord |-> FALSE, recordDepth |-> 0, fields |-> <<>>,
                                path |-> <<>>, textKey |-> {}, records |-> <<>>, err |-> FALSE],
                         FileEvents(source))
    IN  IF last.err THEN {} ELSE {last.records}

Parse(source, job, names) ==
    CASE job.from = "json" -> ParseJson(source, job)
      [] job.from = "csv"  -> ParseCsv(source, job, names)
      [] job.from = "xml"  -> ParseXml(source, job)

\* The names CSV gives its columns: the first pass counts the first row's, the second the schema's.
Names(source, job, columns) == IF job.noHeader THEN SubSeq(ColNames, 1, columns) ELSE source.head

InferSchema(source, job) ==
    LET parsed == Parse(source, job, Names(source, job, Width(source, job))) IN
    IF parsed = {} THEN {} ELSE Finalize(FoldLeft(Merge, <<>>, The(parsed)), job.policy)

\* -------------------------------------------------------------------------
\* Writing

\* The cell a value becomes in a column of a kind, if any.
EmitCell(kind, raw) ==
    CASE kind = "int"   -> IF "i64" \in raw.is THEN {<<"int", raw.text>>} ELSE {}
      [] kind = "float" -> IF "f64" \in raw.is THEN {<<"float", raw.text>>} ELSE {}
      [] kind = "bool"  -> {<<"bool", IF raw.text = "true" THEN "true" ELSE "false">>}
      [] kind = "time"  -> IF "i64" \in raw.is THEN {<<"time", raw.text>>} ELSE {}
      [] kind = "bytes" -> IF "pairs" \in raw.is THEN {<<"bytes", raw.text>>} ELSE {}
      [] kind = "null"  -> {}
      [] OTHER          -> {<<"text", raw.text>>}

\* The entries of a record as they are written: <<slot, cell>>.
Entries(record, schema, from) ==
    FlattenSeq([j \in DOMAIN record |->
        LET slot == SelectInSeq(schema, LAMBDA c : c.key = record[j][1])
            raw  == record[j][2]
            skip == slot = 0 \/ (from # "json" /\ raw = Empty)
        IN  IF skip THEN <<>>
            ELSE SetToSeq({<<slot, cell>> : cell \in EmitCell(schema[slot].kind, raw)})])

\* The offset table of a record is in the order of the slots. There is room for one entry
\* per key and the padding to 8 bytes: entries beyond run over the first value.
Garbage == <<"garbage", "">>
Room(keys) == LET used == 8 + Max({1, (keys + 6) \div 7}) + 2 * keys IN ((used + 7) \div 8) * 8 - used

\* The table in the order the fields were written.
EndObjectUnsorted(entries, keys) ==
    IF 2 * Len(entries) > 2 * keys + Room(keys) THEN [entries EXCEPT ![1][2] = Garbage] ELSE entries

EndObject(entries, keys) ==
    LET spoilt == IF 2 * Len(entries) > 2 * keys + Room(keys)
                  THEN [entries EXCEPT ![1][2] = Garbage] ELSE entries
    IN  FlattenSeq([s \in 1 .. keys |-> SelectSeq(spoilt, LAMBDA e : e[1] = s)])

Emit(source, job, schema) ==
    LET parsed == Parse(source, job, Names(source, job, Len(schema))) IN
    IF parsed = {} THEN {}
    ELSE LET rows    == [i \in DOMAIN The(parsed) |-> Entries(The(parsed)[i], schema, job.from)]
             all     == FlattenSeq(rows)
             kind(s) == LET j == SelectInSeq(all, LAMBDA e : e[1] = s) IN IF j = 0 THEN "text" ELSE all[j][2][1]
         IN  {[keys  |-> [s \in DOMAIN schema |-> schema[s].key],
               kinds |-> [s \in DOMAIN schema |-> kind(s)],
               rows  |-> [i \in DOMAIN rows |-> EndObject(rows[i], Len(schema))]]}

\* -------------------------------------------------------------------------
\* Reading back: the n-th bit that is set takes the n-th entry of the table, as its
\* column's kind. The decoder takes a cell that begins with a magic for an object or a
\* list; what it shows of one, and of bytes of another kind, is Garbage.

Bits(row) == SetToSortSeq({e[1] : e \in ToSet(row)}, LAMBDA a, b : a < b)

\* Records that need not decode: what decode_list takes for a count may be more than the
\* file holds, and so may what a cell of another kind has for its length.
Doubtful(file) ==
    {i \in DOMAIN file.rows : \E n \in DOMAIN Bits(file.rows[i]) :
        LET slot == Bits(file.rows[i])[n]  cell == file.rows[i][n][2] IN
        cell \in LikeList \/ cell[1] # file.kinds[slot]}

\* decode_record_at, with the default its callers take for a record that does not decode.
DecodeRow(file, i, lost) ==
    LET row == file.rows[i] IN
    IF i \in lost THEN <<>>
    ELSE [n \in DOMAIN Bits(row) |->
            LET slot == Bits(row)[n]  cell == row[n][2]
            IN  <<file.keys[slot], IF cell[1] = file.kinds[slot] /\ cell \notin LikeObject \cup LikeList
                                   THEN cell ELSE Garbage>>]

JsonValue(cell, binary) ==
    CASE cell[1] \in {"int", "time"} -> <<"number", cell[2]>>
      [] cell[1] = "float"   -> IF cell[2] \in NotNumbers THEN <<"null", "">> ELSE <<"number", cell[2]>>
      [] cell[1] = "bool"    -> <<"bool", cell[2]>>
      [] cell[1] = "text"    -> <<"string", cell[2]>>
      [] cell[1] = "bytes"   -> IF binary = "skip" THEN <<"null", "">> ELSE <<binary, cell[2]>>
      [] cell[1] = "garbage" -> Garbage

ExportJson(file, binary, lost) ==
    [i \in DOMAIN file.rows |->
        LET fields == DecodeRow(file, i, lost) IN
        {<<fields[n][1], JsonValue(fields[n][2], binary)>> : n \in DOMAIN fields}]

CsvValue(cell) == CASE cell[1] = "bytes"   -> <<"base64", cell[2]>>
                    [] cell[1] = "garbage" -> Garbage
                    [] OTHER               -> <<"plain", cell[2]>>

\* One row of cells per record; an absent value is an empty cell. An unknown column is an error.
ExportCsv(file, requested, lost) ==
    LET columns == IF requested = {} THEN file.keys ELSE The(requested)
        value(i, k) == LET fields == DecodeRow(file, i, lost)
                           n == SelectInSeq(fields, LAMBDA f : f[1] = k)
                       IN  IF n = 0 THEN <<"plain", "">> ELSE CsvValue(fields[n][2])
    IN  IF \E k \in ToSet(columns) : k \notin ToSet(file.keys) THEN {}
        ELSE {[head |-> columns,
               rows |-> [i \in DOMAIN file.rows |-> [c \in DOMAIN columns |-> value(i, columns[c])]]]}

\* The summary of the first records: how many fields each decodes to and bits it has set.
InspectRecords(file, limit, lost) ==
    [i \in 1 .. Min({Len(file.rows)} \cup limit) |->
        [fields |-> Len(DecodeRow(file, i, lost)), bits |-> Len(Bits(file.rows[i]))]]

\* One record's fields, by its zero-based index.
InspectRecord(file, index, lost) ==
    IF index >= Len(file.rows) THEN {} ELSE {ExportJson(file, "base64", lost)[index + 1]}
===============================================================================
