-------------------------------- MODULE Tables --------------------------------
(***************************************************************************)
(* A table is filled record by record and sealed in every layout at once   *)
(* (finish_row plain and compact, finish_columnar, finish_pax in           *)
(* layout.rs); then its files are read, queried and measured.              *)
(***************************************************************************)
EXTENDS TableQuery

CONSTANTS
    Kinds,     \* the sets of records that are tried together
    Options,   \* the option sets: those of CompactRow, delta, promote, short
    MaxRows,   \* bound: records of a table
    PageSize   \* records of a PAX page

VARIABLES kind, options, rows, file

vars == <<kind, options, rows, file>>

Unsealed == [count |-> 0]
IsSealed == file.count > 0
Layouts == {"row", "columnar", "pax"}

Init ==
    /\ kind \in Kinds
    /\ options \in Options
    /\ rows = <<>>
    /\ file = Unsealed

\* begin_object, a write per cell that is there, end_object
AddRecord(row) ==
    /\ ~IsSealed /\ Len(rows) < MaxRows
    /\ rows' = Append(rows, row)
    /\ UNCHANGED <<kind, options, file>>

\* finish_row, finish_columnar, finish_pax
Finish ==
    /\ ~IsSealed /\ rows # <<>>
    /\ file' = [count    |-> Len(rows),
                rows     |-> rows,
                options  |-> options,
                sigils   |-> [s \in DOMAIN rows[1] |-> SlotSigil(rows, s)],
                columns  |-> P!InferSigils(rows, Len(rows[1])),
                written  |-> ExtendedSchema(rows, options),
                schema   |-> ReadSchema(ExtendedSchema(rows, options), options),
                row      |-> RowFile(rows),
                compact  |-> CompactFile(rows, options),
                columnar |-> FinishColumnar(rows),
                pax      |-> PaxFile(rows, PageSize)]
    /\ UNCHANGED <<kind, options, rows>>

Next == (\E row \in kind : AddRecord(row)) \/ Finish

Spec == Init /\ [][Next]_vars

\* -------------------------------------------------------------------------
\* Properties

Cells == {<<i, s>> : i \in 1 .. file.count, s \in DOMAIN file.sigils}
IsDense(i) == file.options.dense /\ Absent \notin ToSet(rows[i])

\* The bool word of a dense record is found by a mask: right for 1, 2, 4 and 8 bytes.
WordOnGrid == file.options.packed => BoolWordBytes(file.schema) \in {0, 1, 2, 4, 8}

\* In a dense reordered record a promoted text is found only when the fixed cells before
\* the texts end at an even place.
PromotedOnGrid(s) ==
    file.options.reorder /\ file.schema.cols[s].promoted =>
        FixedPlaces(file.schema, file.options).pos % 2 = 0

\* Promotion and short lengths are in the schema only with a flag that a reader looks for,
\* a pool can be counted by two bytes, and has no text with a NUL byte.
SchemaTells(s) ==
    LET sc == file.written IN
    /\ sc.cols[s].promoted \/ sc.cols[s].short => HasWireFlag(file.options)
    /\ sc.cols[s].promoted => Len(sc.pool) < PoolMod /\ ToSet(sc.pool) \cap DOMAIN Splits = {}

\* The object's offset table reaches all of it.
InReach(data, obj) == ReadNum(data, obj + 4, "size", 4) <= OffMod

\* A shared word of bools is looked for only in a file with dense frames; in a sparse
\* record a bool is found when the word is one byte.
Findable(i, s) ==
    /\ SchemaTells(s)
    /\ file.options.packed /\ BoolSlots(file.schema) # {} => file.options.dense
    /\ IF IsDense(i) THEN WordOnGrid /\ PromotedOnGrid(s)
       ELSE /\ IsPacked(file.schema, file.options, s) => BoolWordBytes(file.schema) = 1
            /\ InReach(file.compact, RecordOffset(file.compact, i - 1, file.options.delta))

\* The delta tail counts its anchors.
Anchored == file.options.delta => (file.count + BlockSize - 1) \div BlockSize < AnchorMod

\* A compact file returns every cell as it was written, by resolve_field_offset and the
\* getters of compact.rs and query.rs, through the widths and the pool the writer infers
\* from all records, dense and sparse framing, the schema as the reader parses it and the
\* tail-index.  Findable leaves out what the code loses: a text that is promoted or short in
\* a file without a flag of compact.rs, a promoted one when the pool has 2^16 texts or one
\* with a NUL, when it lies at an odd place of a reordered record; bools in a word that is
\* not 1, 2, 4 or 8 bytes, or not one byte in a sparse record; every record with such a word
\* in a file without dense frames; sparse records of more than 2^16 bytes.
CompactReadsBack ==
    IsSealed =>
        /\ RecordCount(file.compact) = Len(rows)
        /\ Anchored => \A c \in Cells : Findable(c[1], c[2]) =>
              GetField(file, "compact", c[1], c[2]) = rows[c[1]][c[2]]

\* A record of this layout that its reader can address.
Addressed(layout, i) == layout = "row" => InReach(file.row, RecordOffset(file.row, i - 1, FALSE))

\* The plain row, columnar and PAX files of one table return the same cells: those that
\* were written (Record::get_* in query.rs over what writer.rs and layout.rs emit), but for
\* row records of more than 2^16 bytes.
LayoutsReadBack ==
    IsSealed =>
        /\ RecordCount(file.row) = Len(rows)
        /\ \A layout \in Layouts, c \in Cells : Addressed(layout, c[1]) =>
              GetField(file, layout, c[1], c[2]) = rows[c[1]][c[2]]

Wanted(s) == {r[s] : r \in kind} \ {Absent}
Predicates ==
    {[op |-> op, slot |-> c[2], cell |-> v] :
        op \in {"eq"}, c \in Cells, v \in UNION {Wanted(s) : s \in DOMAIN file.sigils}}
Ordered == {p \in [op : {"gt", "lt"}, slot : DOMAIN file.sigils,
                   cell : UNION {Wanted(s) : s \in DOMAIN file.sigils}] :
               p.cell[1] \in {"num", "real"}}
Asked == {p \in Predicates \cup Ordered : p.cell[1] = file.sigils[p.slot]}
Matching(p) == {i \in 1 .. file.count : Satisfies(rows[i][p.slot], p)}

\* where_pred returns exactly the records that match, and col_sum_f64 the sum of the values
\* that are there, in the plain row, the columnar and the PAX file alike (query.rs).
QueriesExact ==
    IsSealed => \A layout \in Layouts : (\A i \in 1 .. file.count : Addressed(layout, i)) =>
        /\ \A p \in Asked : Selected(file, layout, p) = {i \in 1 .. file.count :
               rows[i][p.slot] # Absent /\ Satisfies(rows[i][p.slot], p)}
        /\ \A s \in DOMAIN file.sigils : file.sigils[s] = "real" =>
              LET there == {i \in 1 .. file.count : rows[i][s] # Absent}
              IN  (there # {} => ColumnSum(file, layout, s) =
                                    {MapThenSumSet(LAMBDA i : rows[i][s][2], there)})

\* The same of a compact file: "Return a lazy iterator over records matching `pred`".
PredicatesOnCompact ==
    IsSealed => \A p \in Asked : Selected(file, "compact", p) = Matching(p)

\* "returns absolute offset of `slot` (body-relative walk matches encode)": the place
\* dense_field_offset returns for a promoted text holds its index.
WalkMatchesEncode ==
    IsSealed => \A c \in Cells :
        IsDense(c[1]) /\ file.schema.cols[c[2]].promoted =>
            GetField(file, "compact", c[1], c[2]) = rows[c[1]][c[2]]

CellTags == {"num", "real", "time", "bool", "bools", "index", "len", "chr"}
Tagged(data, i, places, tags) ==
    LET end == IF i = Len(places) THEN TailAt(data) ELSE places[i + 1]
    IN  Cardinality({j \in places[i] + 1 .. end : data[j][1] \in tags})
ObjectPlaces(data, delta) == [i \in 1 .. file.count |-> RecordOffset(data, i - 1, delta)]

\* In a sparse record only the first bool of the schema accounts for the shared word.
WordCounted(i) ==
    file.options.packed /\ ~IsDense(i) =>
        \A s \in BoolSlots(file.schema) :
            rows[i][s] # Absent => rows[i][FirstBool(file.schema)] # Absent

PartsExact(data, parts, i, places) ==
    /\ parts[i].payload = Tagged(data, i, places, CellTags)
    /\ parts[i].padding <= Tagged(data, i, places, {"pad"})

\* The statistics count every payload byte of a row or compact record once and no byte of
\* its framing, so the framing that analyze reports by subtraction never saturates; in a
\* PAX file what is left are the pages' headers, lengths and padding (stats.rs).
StatsExact ==
    IsSealed =>
        /\ \A i \in 1 .. file.count :
              /\ Addressed("row", i) =>
                    PartsExact(file.row, RowParts(file), i, ObjectPlaces(file.row, FALSE))
              /\ (\A s \in DOMAIN file.sigils : Findable(i, s)) /\ WordCounted(i) =>
                    PartsExact(file.compact, CompactParts(file), i,
                               ObjectPlaces(file.compact, file.options.delta))
        /\ LET pages == P!PollPages(file.pax, Start, file.columns)
               end(k) == IF k = Len(pages) THEN P!Footer(file.pax).tail ELSE pages[k + 1]
           IN  P!Footer(file.pax).tail - Start - PaxTotal(file)
                   = MapThenSumSet(LAMBDA k : 6 + 1 + Cardinality({j \in {end(k)} :
                                       file.pax[j][1] = "pad"}), DOMAIN pages)
===============================================================================
