------------------------------ MODULE TableFile ------------------------------
(***************************************************************************)
(* The sealed files that are made from a table of records: the plain row   *)
(* file and the compact one of NxsWriter (writer.rs), with the schema the  *)
(* writer infers and the delta tail-index (compact.rs), and the columnar   *)
(* file (layout.rs).  PaxPage has the PAX file.                            *)
(*                                                                         *)
(* A table is a sequence of rows, a row a sequence of cells, one per key.  *)
(* Row files are sequences of bytes, columnar and PAX files sequences of   *)
(* 4-byte words; a text's size counts bytes in the first and words in the  *)
(* others.  The preamble and the schema are Start units of padding; what   *)
(* the reader of a compact file learns from them is ReadSchema, the others *)
(* are handed their keys' kinds.                                           *)
(***************************************************************************)
EXTENDS CompactRow

CONSTANTS
    Start,       \* bytes or words before the data sector
    MinRecords,  \* keyword_min_records
    ShortMax,    \* the longest text a short length prefix can count
    BlockSize,   \* delta_block_size
    AnchorMod,   \* anchors the delta tail's count can tell apart; 2^16 in the code
    Splits       \* the texts with NUL bytes in them, and the texts these end

ASSUME TableFileAssumption ==
    /\ Start \in Nat /\ MinRecords \in Nat /\ ShortMax \in Nat
    /\ BlockSize \in Nat \ {0} /\ AnchorMod \in Nat \ {0}
    /\ \A t \in DOMAIN Splits : Len(Splits[t]) > 1

P == INSTANCE PaxPage

PlainOptions == [dense |-> FALSE, packed |-> FALSE, narrow |-> FALSE, reorder |-> FALSE]

\* -------------------------------------------------------------------------
\* The schema a writer infers

Present(rows, s) == SelectSeq([i \in DOMAIN rows |-> rows[i][s]], LAMBDA c : c # Absent)

\* mark_slot_sigil: the first value's kind; a slot nobody wrote is a text.
SlotSigil(rows, s) == IF Present(rows, s) = <<>> THEN "text" ELSE Present(rows, s)[1][1]

\* Mutant of IntWidth: the largest value alone decides.
IntWidthByMax(vals) ==
    LET fit == {w \in {1, 2, 4} : Max(vals) \in Holds[w]} IN IF fit = {} THEN 8 ELSE Min(fit)

\* infer_int_width, from the least and the greatest value of the column
IntWidth(vals) ==
    LET fit == {w \in {1, 2, 4} : {Min(vals), Max(vals)} \subseteq Holds[w]}
    IN  IF fit = {} THEN 8 ELSE Min(fit)

\* scan_keyword_promotion: enough texts, at most half of them distinct.
Promotes(rows, s, o) ==
    LET texts == Present(rows, s) IN
    /\ o.promote
    /\ SlotSigil(rows, s) = "text"
    /\ texts # <<>> /\ Len(texts) >= MinRecords
    /\ 2 * Cardinality(ToSet(texts)) <= Len(texts)

\* intern_value for every text of the promoted columns
ValuePool(rows, o) ==
    FoldLeft(LAMBDA pool, c : IF c \in ToSet(pool) THEN pool ELSE Append(pool, c), <<>>,
             FlattenSeq([s \in DOMAIN rows[1] |->
                            IF Promotes(rows, s, o) THEN Present(rows, s) ELSE <<>>]))

\* build_extended_schema: infer_narrow_widths, promotion, scan_u16_string_lengths
ExtendedSchema(rows, o) ==
    [pool |-> ValuePool(rows, o),
     cols |-> [s \in DOMAIN rows[1] |->
        LET sig      == SlotSigil(rows, s)
            promoted == Promotes(rows, s, o)
        IN  [sigil    |-> sig,
             promoted |-> promoted,
             width    |-> CASE ~o.narrow    -> 0
                            [] promoted     -> 2
                            [] sig = "num"  -> IntWidth({c[2] : c \in ToSet(Present(rows, s))})
                            [] sig = "real" -> 8
                            [] OTHER        -> 0,
             short    |-> /\ o.short /\ sig = "text" /\ ~promoted
                          /\ \A c \in ToSet(Present(rows, s)) : c[3] <= ShortMax]]]

PlainSchema(rows) ==
    [pool |-> <<>>,
     cols |-> [s \in DOMAIN rows[1] |-> [sigil |-> SlotSigil(rows, s), promoted |-> FALSE,
                                         width |-> 0, short |-> FALSE]]]

\* preamble_flags: keyword promotion and short lengths have no flag.
HasWireFlag(o) == o.dense \/ o.packed \/ o.narrow \/ o.delta \/ o.reorder

\* build_extended_schema writes a 16-bit count and each pooled text up to a NUL, and
\* parse_extended_schema reads so many texts.
ReadPool(pool) ==
    SubSeq(FlattenSeq([i \in DOMAIN pool |->
                          IF pool[i] \in DOMAIN Splits THEN Splits[pool[i]] ELSE <<pool[i]>>]),
           1, Len(pool) % PoolMod)

\* Reader::new: without a flag of compact.rs the schema is read by parse_schema, which
\* knows of kinds only.
ReadSchema(sc, o) ==
    IF HasWireFlag(o) THEN [sc EXCEPT !.pool = ReadPool(@)]
    ELSE [pool |-> <<>>,
          cols |-> [s \in DOMAIN sc.cols |-> [sigil |-> sc.cols[s].sigil, promoted |-> FALSE,
                                              width |-> 0, short |-> FALSE]]]

\* -------------------------------------------------------------------------
\* Row files

\* The plain encoding of one record: begin_object reserves a table entry per key, and
\* every cell is a multiple of 8 bytes (RowWriter has nesting and writes out of order).
EncodePlain(row, sc) ==
    LET present == {s \in DOMAIN row : row[s] # Absent}
        slots   == SetToSortSeq(present, <)
        head    == Up(8 + MaskBytes(sc) + 2 * Len(row), 8)
        body[k \in 0 .. Len(slots)] ==
            IF k = 0 THEN <<>> ELSE AppendCell(body[k - 1], slots[k], row[slots[k]], sc, PlainOptions)
        rel(k)  == IF k <= Len(slots) THEN (head + Len(body[k - 1])) % OffMod ELSE 0
    IN  Bytes("magic", 0, 4) \o Bytes("size", head + Len(body[Len(slots)]), 4)
          \o Mask(present, sc) \o FlattenSeq([k \in DOMAIN row |-> Bytes("rel", rel(k), 2)])
          \o Zeros(head - (8 + MaskBytes(sc) + 2 * Len(row))) \o body[Len(slots)]

\* Where each of the objects begins, absolute.
Places(objects) ==
    LET at[i \in 1 .. Len(objects) + 1] ==
            IF i = 1 THEN Start ELSE at[i - 1] + Len(objects[i - 1])
    IN  [i \in DOMAIN objects |-> at[i]]

\* build_tail_index_records
ClassicTail(places, tail) ==
    Bytes("count", Len(places), 4)
      \o FlattenSeq([i \in DOMAIN places |-> Bytes("key", i - 1, 2) \o Bytes("abs", places[i], 8)])
      \o Bytes("tail", tail, 8) \o Bytes("foot", 0, 4)

\* build_delta_tail_index
DeltaTail(places, tail) ==
    LET n == (Len(places) + BlockSize - 1) \div BlockSize
        anchor(i) == places[((i - 1) \div BlockSize) * BlockSize + 1]
    IN  Bytes("count", Len(places), 4) \o Bytes("block", BlockSize, 4)
          \o Bytes("flags", 1, 2) \o Bytes("anchors", n % AnchorMod, 2) \o Zeros(4)
          \o FlattenSeq([j \in 1 .. n |-> Bytes("abs", places[(j - 1) * BlockSize + 1], 8)])
          \o FlattenSeq([i \in DOMAIN places |-> Bytes("delta", places[i] - anchor(i), 4)])
          \o Bytes("tail", tail, 8) \o Bytes("foot", 0, 4)

\* finish_row and NxsWriter::finish without compact options
RowFile(rows) ==
    LET objects == [i \in DOMAIN rows |-> EncodePlain(rows[i], PlainSchema(rows))]
        data    == Zeros(Start) \o FlattenSeq(objects)
    IN  data \o ClassicTail(Places(objects), Len(data))

\* ... and with them: records are encoded at the end, when the schema is known.
CompactFile(rows, o) ==
    LET sc      == ExtendedSchema(rows, o)
        objects == [i \in DOMAIN rows |-> EncodeRecord(rows[i], sc, o)]
        sector  == FlattenSeq(objects)
        data    == Zeros(Start) \o sector \o Zeros(Up(Len(sector), 8) - Len(sector))
    IN  data \o IF o.delta THEN DeltaTail(Places(objects), Len(data))
                ELSE ClassicTail(Places(objects), Len(data))

\* -------------------------------------------------------------------------
\* The columnar file: a sector per column, and an entry of five words for each in the tail

FinishColumnar(rows) ==
    LET sigils == P!InferSigils(rows, Len(rows[1]))
        cols   == [s \in DOMAIN sigils |->
                      P!Column([i \in DOMAIN rows |-> rows[i][s]], sigils[s])]
        at     == Places(cols)
        data   == P!Pad(Start) \o FlattenSeq(cols)
    IN  data \o FlattenSeq([s \in DOMAIN cols |-> << <<"field", s>> >> \o P!Wide("at", at[s])
                                                     \o P!Wide("len", Len(cols[s]))])
          \o P!Wide("tail", Len(data)) \o P!Wide("count", Len(rows)) \o << <<"foot", 0>> >>

PaxFile(rows, size) == P!Pad(Start) \o P!FinishPax(rows, Len(rows[1]), size, Start)
===============================================================================
