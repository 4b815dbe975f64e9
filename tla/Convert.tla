------------------------------- MODULE Convert -------------------------------
(***************************************************************************)
(* One import (run_import, convert/mod.rs) of a source that another        *)
(* program may still append to, and the export or the inspection of what   *)
(* it left. The source is read twice: for the kinds of its columns, and    *)
(* for their values. From standard input both passes read a copy of it.    *)
(***************************************************************************)
EXTENDS Converters

CONSTANTS
    Jobs,        \* [from, policy, attrs, noHeader, head, hint, stdin, same, maxDepth, xmlMaxDepth]
    Items,       \* what each format's sources are made of
    MaxItems,    \* bound: items of a source
    Questions    \* the exports and inspections to ask for

VARIABLES
    job,       \* the command line
    source,    \* the file at the input path
    spill,     \* the copy of standard input
    phase,     \* "idle", "spilled", "typed", "opened", "done" or "failed"
    schema,    \* the columns, each with its kind
    reads,     \* the sources that the two passes read
    out,       \* the file at the output path: <<"old">>, <<"empty">>, <<"part">> or <<"table", f>>
    answer     \* an export or an inspection: <<>>, <<"refused", q>> or what it shows

vars == <<job, source, spill, phase, schema, reads, out, answer>>

Init ==
    /\ job \in Jobs
    /\ source = [head |-> job.head, items |-> <<>>, gone |-> FALSE]
    /\ spill = source
    /\ phase = "idle"
    /\ schema = <<>>
    /\ reads = <<>>
    /\ out = <<"old">>
    /\ answer = <<>>

Input == IF job.stdin THEN spill ELSE source
Ready == phase = IF job.stdin THEN "spilled" ELSE "idle"

\* Another program appends to the source, at any time until it has been read twice.
AppendItem(item) ==
    /\ phase \notin {"done", "failed"}
    /\ ~source.gone /\ Len(source.items) < MaxItems
    /\ \A i \in DOMAIN source.items : source.items[i][1] # "cut"
    /\ source' = [source EXCEPT !.items = Append(@, item)]
    /\ UNCHANGED <<job, spill, phase, schema, reads, out, answer>>

\* Standard input is copied to a temporary file.
SpillInput ==
    /\ job.stdin /\ phase = "idle"
    /\ spill' = source
    /\ phase' = "spilled"
    /\ UNCHANGED <<job, source, schema, reads, out, answer>>

\* The first pass; a source that cannot be read, or a conflict, ends the import.
InferPass ==
    /\ Ready /\ job.hint = {}
    /\ LET inferred == InferSchema(Input, job) IN
       /\ schema' = IF inferred = {} THEN <<>> ELSE The(inferred)
       /\ phase' = IF inferred = {} THEN "failed" ELSE "typed"
    /\ reads' = <<Input>>
    /\ UNCHANGED <<job, source, spill, out, answer>>

\* With a schema file there is no first pass; its keys come in any order.
LoadSchemaHint ==
    /\ Ready /\ job.hint # {}
    /\ schema' \in SetToSeqs(job.hint)
    /\ phase' = "typed"
    /\ UNCHANGED <<job, source, spill, reads, out, answer>>

\* The input is opened again and the output created: what it held is gone, the source too
\* if it is the same file.
OpenOutput ==
    /\ phase = "typed"
    /\ out' = <<"empty">>
    /\ source' = IF job.same THEN [source EXCEPT !.items = <<>>, !.gone = TRUE] ELSE source
    /\ phase' = "opened"
    /\ UNCHANGED <<job, spill, schema, reads, answer>>

\* The second pass: the whole table is made in memory and written at the end.
EmitPass ==
    /\ phase = "opened"
    /\ LET file == Emit(Input, job, schema) IN
       /\ out' = IF file = {} THEN out ELSE <<"table", The(file)>>
       /\ phase' = IF file = {} THEN "failed" ELSE "done"
    /\ reads' = Append(reads, Input)
    /\ UNCHANGED <<job, source, spill, schema, answer>>

\* Writing the table fails half way.
WriteFails ==
    /\ phase = "opened"
    /\ Emit(Input, job, schema) # {}
    /\ out' = <<"part">>
    /\ phase' = "failed"
    /\ reads' = Append(reads, Input)
    /\ UNCHANGED <<job, source, spill, schema, answer>>

\* nxs-export and nxs-inspect read the output; a file without its footer is refused, and
\* one of too many keys.
Ask(q) ==
    /\ phase \in {"done", "failed"} /\ out # <<"old">> /\ answer = <<>>
    /\ LET file == out[2]
           one(s) == IF s = {} THEN <<"refused", q>> ELSE <<q[1], The(s), q[2]>>
       IN  IF out[1] = "table" => Len(file.keys) > MaxKeys
           THEN answer' = <<"refused", q>>
           ELSE \E lost \in SUBSET Doubtful(file) :
                  answer' = CASE q[1] = "json"   -> <<"json", ExportJson(file, q[2], lost)>>
                              [] q[1] = "csv"    -> one(ExportCsv(file, q[2], lost))
                              [] q[1] = "list"   -> <<"list", InspectRecords(file, q[2], lost)>>
                              [] q[1] = "record" -> one(InspectRecord(file, q[2], lost))
    /\ UNCHANGED <<job, source, spill, phase, schema, reads, out>>

Next ==
    \/ \E item \in Items[job.from] : AppendItem(item)
    \/ SpillInput
    \/ InferPass
    \/ LoadSchemaHint
    \/ OpenOutput
    \/ EmitPass
    \/ WriteFails
    \/ \E q \in Questions : Ask(q)

Spec == Init /\ [][Next]_vars
\* -------------------------------------------------------------------------
\* What a source says, read off its structure: for each record its <<key, value>>s.

RECURSIVE Leaves(_)
Leaves(members) ==
    FlattenSeq([i \in DOMAIN members |->
        LET k == members[i][1]  v == members[i][2] IN
        IF v[1] = "object"
        THEN [j \in DOMAIN Leaves(v[2]) |-> <<k \o Leaves(v[2])[j][1], Leaves(v[2])[j][2]>>]
        ELSE << <<k, IF v[1] = "raw" THEN v[2] ELSE Empty>> >>])

\* The attributes of an element by their names, its texts by its path, and its children's.
RECURSIVE Said(_, _)
Said(n, path) ==
    LET at == IF job.attrs = "prefix" THEN "@" ELSE "" IN
    [a \in DOMAIN n.attrs |-> << <<at \o n.attrs[a][1]>>, n.attrs[a][2]>>]
      \o FlattenSeq([i \in DOMAIN n.content |->
            IF n.content[i][1] = "node" THEN Said(n.content[i][2], Append(path, n.content[i][2].tag))
            ELSE << <<path, n.content[i][2]>> >>])

\* The outermost elements with the record's tag.
RECURSIVE RecordNodes(_)
RecordNodes(n) ==
    IF n.tag = RecordTag THEN <<n>>
    ELSE FlattenSeq([i \in DOMAIN n.content |->
            IF n.content[i][1] = "node" THEN RecordNodes(n.content[i][2]) ELSE <<>>])

Meant(src) ==
    CASE job.from = "json" -> [i \in DOMAIN src.items |->
                                 IF src.items[i][1] = "object" THEN Leaves(src.items[i][2]) ELSE <<>>]
      [] job.from = "csv"  -> [i \in DOMAIN src.items |->
                                 LET row == src.items[i][2] IN
                                 [j \in DOMAIN row |->
                                    <<IF job.noHeader THEN ColNames[j] ELSE src.head[j], row[j]>>]]
      [] job.from = "xml"  -> LET nodes == FlattenSeq([i \in DOMAIN src.items |->
                                              IF src.items[i][1] = "node" THEN RecordNodes(src.items[i][2]) ELSE <<>>])
                              IN  [i \in DOMAIN nodes |-> Said(nodes[i], <<>>)]

\* No key comes twice in a record: one bit would stand for two entries.
NoRepeat(record) == \A i, j \in DOMAIN record : record[i][1] = record[j][1] => i = j

\* No value is stored as bytes that begin with a magic.
NoMagic(record) ==
    \A f \in ToSet(record), kind \in {"int", "float", "time", "text", "bytes"} :
        <<kind, f[2].text>> \notin LikeObject \cup LikeList

\* Text the XML reader passes over: CDATA, and text directly in a record or behind a child.
RECURSIVE Overheard(_)
Overheard(n) == \A i \in DOMAIN n.content :
    CASE n.content[i][1] = "node"  -> Overheard(n.content[i][2])
      [] n.content[i][1] = "cdata" -> FALSE
      [] n.content[i][1] = "text"  -> n.tag # RecordTag /\ \A j \in 1 .. i - 1 : n.content[j][1] # "node"
Plain(src) == job.from = "xml" => \A i \in DOMAIN src.items : src.items[i][1] = "node" => Overheard(src.items[i][2])

Value(record, k) == LET j == SelectInSeq(record, LAMBDA f : f[1] = k) IN
                    IF j = 0 THEN {} ELSE {record[j][2]}
Column(records, k) == SelectSeq(FlattenSeq(records), LAMBDA f : f[1] = k /\ f[2] # Empty)
KindsSeen(records, k) == {Kind(f[2]) : f \in ToSet(Column(records, k))}
AllKeys(records) == {f[1] : f \in ToSet(FlattenSeq(records))}

\* What an answer shows of a record's key: at most one value.
Shown(i, k) ==
    IF answer[1] = "json" THEN {f[2] : f \in {g \in answer[2][i] : g[1] = k}}
    ELSE LET c == SelectInSeq(answer[2].head, LAMBDA x : x = k) IN
         IF c = 0 \/ answer[2].rows[i][c] = <<"plain", "">> THEN {} ELSE {answer[2].rows[i][c]}
Count == IF answer[1] = "json" THEN Len(answer[2]) ELSE Len(answer[2].rows)
Exported == answer # <<>> /\ answer[1] \in {"json", "csv"}

\* A value as an export shows it when its column is of its own kind, or of text.
InKind(raw, kind) ==
    IF answer[1] = "csv" THEN {<<IF kind = "bytes" THEN "base64" ELSE "plain", raw.text>>}
    ELSE CASE kind = "int"   -> {<<"number", raw.text>>}
           [] kind = "float" -> {IF raw.text \in NotNumbers THEN <<"null", "">> ELSE <<"number", raw.text>>}
           [] kind = "bool"  -> {<<"bool", raw.text>>}
           [] kind = "bytes" -> {<<"null", "">>, <<"base64", raw.text>>, <<"hex", raw.text>>}
           [] kind = "text"  -> {<<"string", raw.text>>}

\* An import whose source stayed as it was, with no schema file, keeps every value under its
\* key and in its record, as its column's kind, of records without a repeated key or a
\* value that begins with a magic: those read back as something else, or leave an empty
\* record. Mixed columns are refused, made text, or take the first kind, by the policy:
\* under first-wins a later kind is no error, though ConflictPolicy says so; its value is
\* read as the first kind or dropped. Known losses: dates; JSON nulls, which become false
\* or empty in a column of booleans, text or bytes. What was imported is refused only for
\* its many keys, or a column or record it has not (infer.rs, json_in.rs, csv_in.rs,
\* xml_in.rs, json_out.rs, csv_out.rs, decoder.rs).
ImportKeeps ==
    phase = "done" /\ Len(reads) = 2 /\ reads[1] = reads[2] /\ Plain(reads[1]) =>
        LET records == Meant(reads[1]) IN
        /\ job.policy = "error" => \A k \in AllKeys(records) : Cardinality(KindsSeen(records, k)) <= 1
        /\ answer # <<>> /\ answer[1] = "refused" =>
              LET q == answer[2] IN
              \/ Cardinality(AllKeys(records)) > MaxKeys
              \/ q[1] = "csv" /\ \E columns \in q[2] : ~(ToSet(columns) \subseteq AllKeys(records))
              \/ q[1] = "record" /\ q[2] >= Len(records)
        /\ Exported =>
              /\ Count = Len(records)
              /\ \A i \in DOMAIN records : NoRepeat(records[i]) /\ NoMagic(records[i]) =>
                    \A k \in AllKeys(records) :
                        LET seen  == KindsSeen(records, k)
                            first == Kind(Column(records, k)[1][2])
                            kind  == IF Cardinality(seen) > 1 /\ job.policy = "coerce-string" THEN "text" ELSE first
                            asked == answer[1] = "json" \/ k \in ToSet(answer[2].head)
                            raw   == The(Value(records[i], k))
                        IN  IF seen = {} \/ ~asked THEN Shown(i, k) = {}
                            ELSE IF Value(records[i], k) \in {{}, {Empty}}
                                 THEN Shown(i, k) # {} =>
                                        /\ job.from = "json" /\ Value(records[i], k) # {}
                                        /\ kind \in {"bool", "text", "bytes"}
                                        /\ The(Shown(i, k))[2] \in {"false", ""}
                            ELSE IF kind = "time" THEN Shown(i, k) \subseteq {<<"number", raw.text>>, <<"plain", raw.text>>}
                            ELSE IF kind \in {Kind(raw), "text"}
                                 THEN Shown(i, k) # {} /\ Shown(i, k) \subseteq InKind(raw, kind)
                            ELSE kind = "bool" \/ Shown(i, k) \subseteq InKind(raw, kind)

\* All that an answer shows: <<record, key, value>>.
Showing ==
    CASE answer[1] = "json"   -> UNION {{<<i, f[1], f[2]>> : f \in answer[2][i]} : i \in DOMAIN answer[2]}
      [] answer[1] = "csv"    -> {t \in {<<i, answer[2].head[c], answer[2].rows[i][c]>> :
                                           i \in DOMAIN answer[2].rows, c \in DOMAIN answer[2].head} :
                                    t[3] # <<"plain", "">>}
      [] answer[1] = "record" -> {<<answer[3] + 1, f[1], f[2]>> : f \in answer[2]}

\* Whatever is appended between the passes, and whatever kinds a schema file asks for: an
\* export or an inspection is of the records of the second pass, and what it shows of a
\* record's key is the text that record has there (or false, or empty, in a column that
\* must show something); an import that ends in its first pass leaves the old output, one
\* that ends later leaves none that can be read (run_import and run_export in
\* convert/mod.rs, the three emit functions, inspect.rs).
NothingInvented ==
    /\ phase = "failed" /\ Len(reads) = 1 /\ schema = <<>> => out = <<"old">>
    /\ answer # <<>> /\ phase = "failed" => answer[1] = "refused"
    /\ phase = "done" /\ answer # <<>> =>
          LET records == Meant(Last(reads)) IN
          /\ Exported => Count = Len(records)
          /\ answer[1] = "list" /\ Plain(Last(reads)) =>
                \A i \in DOMAIN answer[2] :
                    answer[2][i].fields <= Cardinality({f[1] : f \in ToSet(records[i])})
          /\ answer[1] \in {"json", "csv", "record"} =>
                \A t \in Showing : NoRepeat(records[t[1]]) /\ NoMagic(records[t[1]]) =>
                    /\ Value(records[t[1]], t[2]) # {}
                    /\ t[3] # Garbage
                    /\ t[3][2] \in {The(Value(records[t[1]], t[2])).text, "false", ""}
===============================================================================
