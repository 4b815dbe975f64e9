------------------------------ MODULE TableQuery ------------------------------
(***************************************************************************)
(* The Reader of a sealed file (query.rs): opening it, its records and     *)
(* fields, predicates and sums; and the byte statistics of stats.rs.       *)
(***************************************************************************)
EXTENDS TableFile

\* -------------------------------------------------------------------------
\* Opening and locating: Reader::new takes the tail's place from the footer, as a sealed
\* row file's preamble has none.

TailAt(data) == ReadNum(data, Len(data) - 12, "tail", 8)
RecordCount(data) == ReadNum(data, TailAt(data), "count", 4)

\* parse_delta_tail_layout and delta_record_offset, for record i (from 0)
DeltaOffset(data, i) ==
    LET tail    == TailAt(data)
        block   == ReadNum(data, tail + 4, "block", 4)
        anchors == tail + Up(12, 8)
        deltas  == anchors + 8 * ReadNum(data, tail + 10, "anchors", 2)
        anchor  == ReadNum(data, anchors + 8 * (i \div block), "abs", 8)
        delta   == ReadNum(data, deltas + 4 * i, "delta", 4)
    IN  IF Nowhere \in {anchor, delta} THEN Nowhere ELSE anchor + delta

\* row_record_offset
RecordOffset(data, i, delta) ==
    IF delta THEN DeltaOffset(data, i)
    ELSE ReadNum(data, TailAt(data) + 4 + 10 * i + 2, "abs", 8)

\* -------------------------------------------------------------------------
\* Fields

\* The cell a plain row reader finds at `off`: 8 bytes, a byte, or a length and a text.
PlainCell(data, off, sigil) ==
    LET n == ReadNum(data, off, "len", 4) IN
    CASE off = Nowhere   -> Absent
      [] sigil = "text"  -> IF n = Nowhere THEN Garbage
                            ELSE IF n = 0 THEN <<"text", "", 0>> ELSE At(data, off + 4)[2]
      [] sigil = "bool"  -> Read(data, off, "bool", 1)
      [] OTHER           -> Read(data, off, sigil, 8)

\* resolve_slot and a typed read, as every predicate has it
PlainGet(data, obj, s, sigil) == PlainCell(data, OffsetV12(data, obj, s), sigil)

\* A cell of a column: a text is cut out of the values, an absent one is None.
ColumnarGet(data, sigils, i, s) ==
    LET tail == data[Len(data) - 4][2]
        at   == data[tail + 5 * (s - 1) + 2][2]
        n    == data[Len(data) - 2][2]
    IN  IF ~P!Present(data, at, i) THEN P!None
        ELSE IF P!IsVar(sigils[s]) THEN P!TextAt(data, at, n, i)
        ELSE data[at + P!BitmapWords(n) + 2 * i - 1][2]

\* What a column reader returns, as a cell.
AsCell(v, sigil) ==
    CASE v = P!None    -> Absent
      [] sigil = "text" -> IF v = <<>> THEN <<"text", "", 0>> ELSE v[1][2][1]
      [] OTHER         -> v

\* The cell that Record::get_* returns for record i (from 1) of each file.
GetField(file, layout, i, s) ==
    LET sigil == file.sigils[s] IN
    CASE layout = "row" ->
            PlainGet(file.row, RecordOffset(file.row, i - 1, FALSE), s, sigil)
      [] layout = "compact" ->
            GetCell(file.compact, RecordOffset(file.compact, i - 1, file.options.delta), s,
                    file.schema, file.options)
      [] layout = "columnar" -> AsCell(ColumnarGet(file.columnar, file.columns, i, s), sigil)
      [] layout = "pax" -> AsCell(P!SealedGet(file.pax, file.columns, i - 1, s), sigil)

\* -------------------------------------------------------------------------
\* Predicates and sums

\* The cell a predicate tests: in row files always by the plain rules.
TestedCell(file, layout, i, s) ==
    IF layout = "compact"
    THEN PlainGet(file.compact, RecordOffset(file.compact, i - 1, file.options.delta), s,
                  file.sigils[s])
    ELSE GetField(file, layout, i, s)

\* Mutant of Satisfies: Lt is also true of an absent cell.
SatisfiesAbsent(c, p) ==
    CASE p.op = "eq" -> c = p.cell
      [] p.op = "gt" -> c[1] = p.cell[1] /\ c[2] > p.cell[2]
      [] p.op = "lt" -> c = Absent \/ (c[1] = p.cell[1] /\ c[2] < p.cell[2])

\* Eq, Gt and Lt of a cell; an absent one satisfies none.
Satisfies(c, p) ==
    CASE p.op = "eq" -> c = p.cell
      [] p.op = "gt" -> c[1] = p.cell[1] /\ c[2] > p.cell[2]
      [] p.op = "lt" -> c[1] = p.cell[1] /\ c[2] < p.cell[2]

\* Records::next with a predicate, its negation (Not) or the conjunction of two (And)
Selected(file, layout, p) ==
    {i \in 1 .. file.count : Satisfies(TestedCell(file, layout, i, p.slot), p)}

\* col_sum_f64: a row file without a value has no sum, a columnar one sums to zero; a
\* column without gaps is summed as a whole.
ColumnSum(file, layout, s) ==
    LET cells == [i \in 1 .. file.count |-> GetField(file, layout, i, s)]
        there == {i \in 1 .. file.count : cells[i] # Absent}
    IN  IF layout \in {"row", "compact"} /\ there = {} THEN {}
        ELSE {MapThenSumSet(LAMBDA i : cells[i][2], there)}

\* -------------------------------------------------------------------------
\* Statistics: the payload and padding bytes of every field

\* Mutant of WordPayload: every bool counts the shared word.
WordPayloadEach(s, sc) == BoolWordBytes(sc)

\* The first bool of the schema accounts for the word that all bools share.
WordPayload(s, sc) == IF s = FirstBool(sc) THEN BoolWordBytes(sc) ELSE 0

\* row_cell_wire_parts and row_value_wire_parts at the cell's place
WireParts(data, off, s, sc, o) ==
    LET p == StrPrefix(sc, s)
        n == ReadNum(data, off, "len", p)
    IN  CASE IsPacked(sc, o, s) ->
                [payload |-> WordPayload(s, sc), padding |-> 0]
          [] sc.cols[s].promoted -> [payload |-> 2, padding |-> 0]
          [] sc.cols[s].sigil = "bool" -> [payload |-> 1, padding |-> 7]
          [] sc.cols[s].sigil = "text" ->
                IF n = Nowhere THEN [payload |-> 0, padding |-> 0]
                ELSE [payload |-> p + n, padding |-> Up(p + n, 8) - (p + n)]
          [] OTHER -> [payload |-> Width(sc, o, s), padding |-> 0]

\* The slots in the order accumulate_dense_row_record meets them
CountedSlots(sc, o) ==
    SelectSeq(WireOrder(sc, o), LAMBDA s : IsPacked(sc, o, s) => s = FirstBool(sc))

\* accumulate_dense_row_record: a gap before a cell counts for the field before it.
AddDensePart(st, start, parts) ==
    [payload |-> st.payload + parts.payload,
     padding |-> st.padding + parts.padding
                   + (IF st.end > 0 /\ start > st.end THEN start - st.end ELSE 0),
     end     |-> start + parts.payload + parts.padding]

DenseParts(data, obj, sc, o) ==
    LET off == [s \in SlotsOf(sc) |-> DenseOffset(data, obj, s, sc, o)] IN
    FoldLeft(LAMBDA st, s :
                AddDensePart(st, off[s] - (obj + 9), WireParts(data, off[s], s, sc, o)),
             [payload |-> 0, padding |-> 0, end |-> 0], CountedSlots(sc, o))

\* analyze_row_fields, for one record
RecordParts(data, obj, sc, o, places) ==
    IF o.dense /\ SaysDense(At(data, obj + 8))
    THEN LET st == DenseParts(data, obj, sc, o) IN [payload |-> st.payload, padding |-> st.padding]
    ELSE LET found == {s \in SlotsOf(sc) : places[s] # Nowhere} IN
         [payload |-> MapThenSumSet(LAMBDA s : WireParts(data, places[s], s, sc, o).payload, found),
          padding |-> MapThenSumSet(LAMBDA s : WireParts(data, places[s], s, sc, o).padding, found)]

\* analyze, for the records of a row file
RowParts(file) ==
    LET sc == PlainSchema(file.rows) IN
    [i \in 1 .. file.count |->
        LET obj == RecordOffset(file.row, i - 1, FALSE) IN
        RecordParts(file.row, obj, sc, PlainOptions,
                    [s \in SlotsOf(sc) |-> OffsetV12(file.row, obj, s)])]

CompactParts(file) ==
    LET sc == file.schema  o == file.options IN
    [i \in 1 .. file.count |->
        LET obj == RecordOffset(file.compact, i - 1, o.delta) IN
        RecordParts(file.compact, obj, sc, o,
                    [s \in SlotsOf(sc) |-> FieldOffset(file.compact, obj, s, sc, o)])]

\* analyze_columnar_fields and analyze_pax_fields: what the fields take of the file, in
\* words; the pages are followed by complete_page_end.
ColumnTotal(data, at, n, sigil) ==
    P!BitmapWords(n) + IF P!IsVar(sigil) THEN n + 1 + data[at + P!BitmapWords(n) + n + 1][2] ELSE 2 * n

PaxTotal(file) ==
    LET pages == P!PollPages(file.pax, Start, file.columns)
        cols  == {<<off, s>> : off \in ToSet(pages), s \in DOMAIN file.columns}
    IN  MapThenSumSet(LAMBDA c :
            LET n == file.pax[c[1] + 5][2] IN
            ColumnTotal(file.pax, Min(P!ColumnAt(file.pax, c[1], n, file.columns, c[2])), n,
                        file.columns[c[2]]), cols)
===============================================================================
