------------------------------ MODULE CompactRow ------------------------------
(***************************************************************************)
(* One record in the compact encoding v1.3 (compact.rs): how              *)
(* encode_compact_record lays out its cells, and how a reader finds one.   *)
(*                                                                         *)
(* A buffer is a sequence of bytes <<tag, content, width, index>>: byte    *)
(* `index` of `width` bytes that hold `content`.  A schema is              *)
(* [cols, pool], a column [sigil, width, promoted, short]; a row is a      *)
(* sequence of cells as PaxPage has them, a text <<"text", id, length>>.   *)
(* Options are the flags [dense, packed, narrow, reorder].                 *)
(***************************************************************************)
EXTENDS Integers, Sequences, SequencesExt, FiniteSets, FiniteSetsExt, Bitwise

CONSTANTS
    BoolBits,   \* bools per byte of the shared word; 8 in the code
    MaskBits,   \* slots per byte of the bitmask; 7 in the code
    OffMod,     \* offsets the table's entries can tell apart; 2^16 in the code
    PoolMod,    \* numbers two bytes count pooled texts with; 2^16 in the code
    Holds       \* the integers that 1, 2 and 4 bytes can hold

ASSUME CompactRowAssumption ==
    /\ {BoolBits, MaskBits, OffMod, PoolMod} \subseteq Nat \ {0}
    /\ DOMAIN Holds = {1, 2, 4}

Absent == <<"absent">>
Garbage == <<"garbage">>      \* what is read at a place where another cell is
Nowhere == -1

Bytes(tag, v, w) == [j \in 1 .. w |-> <<tag, v, w, j>>]
Zeros(n) == [j \in 1 .. n |-> <<"pad", 0, 1, 1>>]
Up(n, a) == ((n + a - 1) \div a) * a
PadTo(body, a) == body \o Zeros(Up(Len(body), a) - Len(body))

\* align_to: rounding by a mask, right for powers of two only.
AlignTo(pos, a) == (pos + a - 1) - ((pos + a - 1) & (a - 1))

\* -------------------------------------------------------------------------
\* The plan of a schema's cells

SlotsOf(sc) == DOMAIN sc.cols
IsVar(sc, s) == sc.cols[s].sigil = "text"
BoolSlots(sc) == {s \in SlotsOf(sc) : sc.cols[s].sigil = "bool"}
BoolIndex(sc, s) == Cardinality({b \in BoolSlots(sc) : b < s})
IsPacked(sc, o, s) == o.packed /\ s \in BoolSlots(sc)
BoolWordBytes(sc) == (Cardinality(BoolSlots(sc)) + BoolBits - 1) \div BoolBits
FirstBool(sc) == Min(BoolSlots(sc))

CellWidth(sc, s) ==
    CASE sc.cols[s].promoted   -> 2
      [] sc.cols[s].width = 0  -> 8
      [] OTHER                 -> sc.cols[s].width
Width(sc, o, s) == IF o.narrow THEN CellWidth(sc, s) ELSE 8
StrPrefix(sc, s) == IF sc.cols[s].short THEN 2 ELSE 4

\* dense_wire_order: with the reorder flag the fixed cells from the widest down, the bool
\* word as its first slot, then the texts, promoted ones too.
WireOrder(sc, o) ==
    LET n == Len(sc.cols)
        wide(s) == IF IsPacked(sc, o, s) THEN BoolWordBytes(sc)
                   ELSE IF sc.cols[s].sigil \in {"num", "real"} THEN Width(sc, o, s) ELSE 8
        fixed == {s \in 1 .. n : /\ ~IsVar(sc, s)
                                 /\ IsPacked(sc, o, s) => s = FirstBool(sc)}
    IN  IF ~o.reorder THEN [s \in 1 .. n |-> s]
        ELSE SetToSortSeq(fixed, LAMBDA a, b : wide(a) > wide(b) \/ (wide(a) = wide(b) /\ a < b))
               \o SetToSortSeq({s \in 1 .. n : IsVar(sc, s)}, <)

\* -------------------------------------------------------------------------
\* Encoding

\* encode_int_cell: an integer that does not fit is an error, which finish does not survive.
Stored(v, w) == IF v[1] = "num" /\ w # 8 /\ v[2] \notin Holds[w] THEN Garbage ELSE v

\* append_cell
AppendCell(body, s, v, sc, o) ==
    LET w == Width(sc, o, s) IN
    CASE sc.cols[s].sigil \in {"num", "real"} ->
            PadTo(body, w) \o Bytes(sc.cols[s].sigil, Stored(v, w), w)
      [] sc.cols[s].sigil = "bool" -> PadTo(body, 8) \o Bytes("bool", v, 1) \o Zeros(7)
      [] sc.cols[s].sigil = "time" -> PadTo(body, 8) \o Bytes("time", v, 8)
      [] IsVar(sc, s) /\ sc.cols[s].promoted ->
            PadTo(body, 2)
              \o Bytes("index", (SelectInSeq(sc.pool, LAMBDA x : x = v) - 1) % PoolMod, 2)
      [] OTHER ->
            LET p == StrPrefix(sc, s) IN
            body \o Bytes("len", v[3], p) \o Bytes("chr", v, v[3])
                 \o Zeros(Up(p + v[3], 8) - (p + v[3]))

\* emit_bool_word, with the bits of the bools that are there and true.
AppendBoolWord(body, row, sc) ==
    LET bw == BoolWordBytes(sc)
        word == {BoolIndex(sc, s) : s \in {b \in BoolSlots(sc) : row[b] = <<"bool", TRUE>>}}
    IN  PadTo(body, bw) \o Bytes("bools", word, bw)

DenseBody(row, sc, o) ==
    FoldLeft(LAMBDA body, s :
                IF ~IsPacked(sc, o, s) THEN AppendCell(body, s, row[s], sc, o)
                ELSE IF s = FirstBool(sc) THEN AppendBoolWord(body, row, sc) ELSE body,
             <<>>, WireOrder(sc, o))

\* sparse_cell_body_start
SparseStart(len, s, sc, o) ==
    CASE sc.cols[s].sigil \in {"num", "real"} -> AlignTo(len, Width(sc, o, s))
      [] IsVar(sc, s) -> IF sc.cols[s].promoted THEN AlignTo(len, 2) ELSE len
      [] OTHER -> AlignTo(len, 8)

\* encode_sparse_body: the cells that are there in slot order, and where each starts.
SparseBody(row, present, sc, o) ==
    FoldLeft(LAMBDA st, s :
        IF ~IsPacked(sc, o, s)
        THEN LET start == SparseStart(Len(st.body), s, sc, o)
                 body  == st.body \o Zeros(start - Len(st.body))
             IN  [body   |-> AppendCell(body, s, row[s], sc, o),
                  starts |-> {<<s, start>>} \cup st.starts]
        ELSE IF \E b \in BoolSlots(sc) \cap present : b < s THEN st
        ELSE [body   |-> AppendBoolWord(st.body, row, sc),
              starts |-> {<<b, Len(st.body) + BoolIndex(sc, b) \div BoolBits>> :
                             b \in BoolSlots(sc) \cap present} \cup st.starts],
        [body |-> <<>>, starts |-> {}], SetToSortSeq(present, <))

\* sparse_offset_table_slots: all bools share the entry of the first that is there.
TableSlots(present, sc, o) ==
    SetToSortSeq({s \in present : IsPacked(sc, o, s) =>
                     \A b \in BoolSlots(sc) \cap present : b >= s}, <)

MaskBytes(sc) == (Len(sc.cols) + MaskBits - 1) \div MaskBits

Mask(present, sc) ==
    [b \in 1 .. MaskBytes(sc) |->
        <<"mask", {s - 1 - (b - 1) * MaskBits : s \in {t \in present :
                      (t - 1) \div MaskBits = b - 1}}, IF b < MaskBytes(sc) THEN 1 ELSE 0, b>>]

\* encode_compact_record
EncodeRecord(row, sc, o) ==
    LET present == {s \in SlotsOf(sc) : row[s] # Absent}
        dense   == o.dense /\ present = SlotsOf(sc)
        sparse  == SparseBody(row, present, sc, o)
        slots   == TableSlots(present, sc, o)
        head    == 8 + (IF o.dense THEN 1 ELSE 0) + MaskBytes(sc)
        start   == AlignTo(head + 2 * Len(slots), 8)
        startOf(s) == (CHOOSE p \in sparse.starts : p[1] = s)[2]
        rest    == IF dense THEN Bytes("hdr", 1, 1) \o DenseBody(row, sc, o)
                   ELSE (IF o.dense THEN Bytes("hdr", 0, 1) ELSE <<>>)
                          \o Mask(present, sc)
                          \o FlattenSeq([i \in DOMAIN slots |->
                                Bytes("rel", (start + startOf(slots[i])) % OffMod, 2)])
                          \o Zeros(start - (head + 2 * Len(slots))) \o sparse.body
    IN  Bytes("magic", 0, 4) \o Bytes("size", 8 + Len(rest), 4) \o rest

\* -------------------------------------------------------------------------
\* Finding a cell of the object at byte offset `obj`

At(data, p) == IF p + 1 \in DOMAIN data THEN data[p + 1] ELSE <<"end", 0, 0, 0>>

\* w bytes from p as what was written there with this tag and width: a cell, a number.
Read(data, p, tag, w) ==
    LET b == At(data, p) IN IF b[1] = tag /\ b[3] = w /\ b[4] = 1 THEN b[2] ELSE Garbage
ReadNum(data, p, tag, w) ==
    LET b == At(data, p) IN IF b[1] = tag /\ b[3] = w /\ b[4] = 1 THEN b[2] ELSE Nowhere

\* advance_dense_past_cell: the next free position, Nowhere at the end of the data.
Advance(data, base, pos, s, sc, o) ==
    LET w == Width(sc, o, s)
        n == ReadNum(data, base + pos, "len", StrPrefix(sc, s))
    IN  CASE sc.cols[s].sigil \in {"num", "real", "bool"} -> AlignTo(pos, w) + w
          [] sc.cols[s].sigil = "time" -> AlignTo(pos, 8) + 8
          [] IsVar(sc, s) /\ sc.cols[s].promoted -> AlignTo(pos, 2) + 2
          [] OTHER -> IF n = Nowhere THEN Nowhere ELSE pos + Up(StrPrefix(sc, s) + n, 8)

\* Mutant of CellPlace: a promoted text is looked for as if it had no alignment.
CellPlacePacked(pos, s, sc, o) ==
    IF IsVar(sc, s) THEN pos ELSE AlignTo(pos, Width(sc, o, s))

CellPlace(pos, s, sc, o) ==
    IF sc.cols[s].promoted THEN AlignTo(pos, 2)
    ELSE IF IsVar(sc, s) THEN pos ELSE AlignTo(pos, Width(sc, o, s))

\* dense_field_offset without the reorder flag, body-relative: walk the cells in slot order.
WalkInOrder(data, base, slot, sc, o) ==
    LET at[s \in 1 .. slot] ==
            IF s = 1 THEN 0
            ELSE LET pos == at[s - 1] IN
                 IF pos = Nowhere THEN Nowhere
                 ELSE IF ~IsPacked(sc, o, s - 1) THEN Advance(data, base, pos, s - 1, sc, o)
                 ELSE IF s - 1 = FirstBool(sc)
                      THEN AlignTo(pos, BoolWordBytes(sc)) + BoolWordBytes(sc) ELSE pos
    IN  IF IsPacked(sc, o, slot)
        THEN IF at[FirstBool(sc)] = Nowhere THEN Nowhere
             ELSE AlignTo(at[FirstBool(sc)], BoolWordBytes(sc)) + BoolIndex(sc, slot) \div BoolBits
        ELSE IF at[slot] = Nowhere THEN Nowhere ELSE CellPlace(at[slot], slot, sc, o)

\* precompute_dense_fixed_offsets: the fixed cells' places and where the texts begin.
FixedPlaces(sc, o) ==
    FoldLeft(LAMBDA st, s :
        IF IsPacked(sc, o, s)
        THEN LET base == AlignTo(st.pos, BoolWordBytes(sc)) IN
             [pos |-> base + BoolWordBytes(sc),
              places |-> st.places \cup {<<b, base + BoolIndex(sc, b) \div BoolBits>> :
                                            b \in BoolSlots(sc)}]
        ELSE LET w == IF sc.cols[s].sigil = "time" THEN 8 ELSE Width(sc, o, s) IN
             [pos    |-> AlignTo(st.pos, w) + w,
              places |-> st.places \cup {<<s, AlignTo(st.pos, Width(sc, o, s))>>}],
        [pos |-> 0, places |-> {}],
        SelectSeq(WireOrder(sc, o), LAMBDA s : ~IsVar(sc, s)))

\* dense_field_offset with the reorder flag: a fixed cell by the plan, a text by walking the
\* texts before it; the place of the text itself is not aligned, promoted or not.
WalkReordered(data, base, slot, sc, o) ==
    LET plan == FixedPlaces(sc, o)
        vars == SelectSeq(WireOrder(sc, o), LAMBDA s : IsVar(sc, s))
        at[i \in DOMAIN vars] ==
            IF i = 1 THEN plan.pos
            ELSE LET pos == at[i - 1] IN
                 IF pos = Nowhere THEN Nowhere ELSE Advance(data, base, pos, vars[i - 1], sc, o)
    IN  IF IsVar(sc, slot) THEN at[SelectInSeq(vars, LAMBDA s : s = slot)]
        ELSE (CHOOSE p \in plan.places : p[1] = slot)[2]

DenseOffset(data, obj, slot, sc, o) ==
    LET rel == IF o.reorder THEN WalkReordered(data, obj + 9, slot, sc, o)
               ELSE WalkInOrder(data, obj + 9, slot, sc, o)
    IN  IF rel = Nowhere THEN Nowhere ELSE obj + 9 + rel

\* The bits of a mask byte and whether another follows, for whoever takes a byte for one.
MaskBitsOf(b) == IF b[1] = "mask" THEN b[2] ELSE IF b[1] = "hdr" /\ b[2] = 1 THEN {0} ELSE {}
MoreMask(b) == b[1] = "mask" /\ b[3] = 1

\* Mutant of MaskEnd: the bytes behind the slot's own are not skipped.
MaskEndHere(data, obj, k) == obj + 8 + k + 1

\* The bytes of a mask are skipped from byte k on.
MaskEnd(data, obj, k) ==
    LET last[j \in Nat] == IF MoreMask(At(data, obj + 8 + j)) THEN last[j + 1] ELSE j
    IN  obj + 8 + last[k] + 1

\* resolve_slot_v12: the mask begins behind the object's length.
OffsetV12(data, obj, slot) ==
    LET byte(t) == At(data, obj + 8 + (t - 1) \div MaskBits)
        set(t)  == ((t - 1) % MaskBits) \in MaskBitsOf(byte(t))
        own     == (slot - 1) \div MaskBits
        cut     == \E t \in 1 .. own * MaskBits : ~MoreMask(byte(t))
        before  == Cardinality({t \in 1 .. slot - 1 : set(t)})
        rel     == ReadNum(data, MaskEnd(data, obj, own) + 2 * before, "rel", 2)
    IN  IF cut \/ ~set(slot) THEN Nowhere
        ELSE IF rel = Nowhere THEN obj ELSE obj + rel

\* resolve_slot_v13_sparse: the record header byte, the mask, and one entry for all bools.
SparseOffset(data, obj, slot, sc, o) ==
    LET set(t)  == ((t - 1) % MaskBits) \in MaskBitsOf(At(data, obj + 9 + (t - 1) \div MaskBits))
        slots   == TableSlots({t \in SlotsOf(sc) : set(t)}, sc, o)
        entry(s) == obj + 9 + MaskBytes(sc) + 2 * (SelectInSeq(slots, LAMBDA t : t = s) - 1)
        shared  == CHOOSE s \in ToSet(slots) : s \in BoolSlots(sc)
    IN  IF ~set(slot) THEN Nowhere
        ELSE IF IsPacked(sc, o, slot)
        THEN obj + ReadNum(data, entry(shared), "rel", 2) + BoolIndex(sc, slot) \div BoolBits
        ELSE obj + ReadNum(data, entry(slot), "rel", 2)

\* RECORD_HDR_DENSE in the byte behind an object's length, which may be a mask's.
SaysDense(b) == 0 \in MaskBitsOf(b)

\* resolve_field_offset
FieldOffset(data, obj, slot, sc, o) ==
    IF ~o.dense THEN OffsetV12(data, obj, slot)
    ELSE IF SaysDense(At(data, obj + 8)) THEN DenseOffset(data, obj, slot, sc, o)
    ELSE SparseOffset(data, obj, slot, sc, o)

\* get_i64, get_f64, get_bool, get_str of a record, by the column's sigil, at an offset.
CellAt(data, off, slot, sc, o) ==
    LET sig == sc.cols[slot].sigil
        b   == At(data, off)
        idx == ReadNum(data, off, "index", 2)
        n   == ReadNum(data, off, "len", StrPrefix(sc, slot))
    IN  CASE off = Nowhere -> Absent
          [] sig \in {"num", "real"} -> Read(data, off, sig, CellWidth(sc, slot))
          [] sig = "time" -> Read(data, off, "time", 8)
          [] IsPacked(sc, o, slot) ->
                IF b[1] # "bools" THEN Garbage
                ELSE <<"bool", (b[4] - 1) * BoolBits + (BoolIndex(sc, slot) % BoolBits) \in b[2]>>
          [] sig = "bool" -> Read(data, off, "bool", 1)
          [] sc.cols[slot].promoted ->
                IF idx \notin 0 .. Len(sc.pool) - 1 THEN Garbage
                ELSE sc.pool[idx + 1]
          [] OTHER -> IF n = Nowhere THEN Garbage
                      ELSE IF n = 0 THEN <<"text", "", 0>>
                      ELSE At(data, off + StrPrefix(sc, slot))[2]

\* Record::resolve and the getter at what it finds; read_packed_bool takes every record for
\* one of a file with dense frames.
GetCell(data, obj, slot, sc, o) ==
    CellAt(data, FieldOffset(data, obj, slot, sc, [o EXCEPT !.dense = @ \/ IsPacked(sc, o, slot)]),
           slot, sc, o)
===============================================================================
