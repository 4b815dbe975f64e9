------------------------------ MODULE RowWriter -------------------------------
(***************************************************************************)
(* NxsWriter in the row layout (writer.rs) and the two readers of an       *)
(* object: resolve_slot (query.rs) and decode_object (decoder.rs).         *)
(*                                                                         *)
(* A buffer is a sequence of 4-byte words <<tag, content>>; an offset is   *)
(* the number of words in front.  The reserved space behind an object's    *)
(* length (bitmask and offset table) is one word "head" and filler: its    *)
(* bytes are bits per mask byte and entries per slot.  A value begins with *)
(* a word that stands for it; v.says are the numbers its words spell.      *)
(***************************************************************************)
EXTENDS Integers, Sequences, SequencesExt, FiniteSets, FiniteSetsExt

CONSTANTS
    Keys,      \* number of keys in the schema
    MaskBits,  \* slots per byte of the bitmask; 7 in the code
    OffMod     \* offsets an entry of the offset table can tell apart: 2^16 bytes

ASSUME RowWriterAssumption ==
    Keys \in Nat \ {0} /\ MaskBits \in Nat \ {0} /\ OffMod \in Nat \ {0}

Slots == 0 .. Keys - 1
Nowhere == -1                                   \* Option::None for an offset
MaskBytes == (Keys + MaskBits - 1) \div MaskBits
HeadWords == 2 * ((8 + MaskBytes + 2 * Keys + 7) \div 8)   \* up to the first value

Filler(n) == [i \in 1 .. n |-> <<"pad", 0>>]

\* The words a value takes: a scalar, bool or null two, a string of k bytes its
\* length and text, a list its 16-byte header and its elements; all padded to 8 bytes.
WordsOf(v) == CASE v.kind = "scalar" -> 2
                [] v.kind = "text"   -> 2 * ((4 + v.size + 7) \div 8)
                [] v.kind = "list"   -> 4 + 2 * v.size

\* The words of a value behind its first.
MoreOf(v) == [i \in 1 .. WordsOf(v) - 1 |-> <<"data", v.says[i + 1]>>]

\* -------------------------------------------------------------------------
\* The writer

NewWriter == [buf |-> <<>>, frames |-> <<>>, offsets |-> <<>>]

NewMask == [b \in 0 .. MaskBytes - 1 |-> [bits |-> {}, more |-> b < MaskBytes - 1]]

BeginObject(w) ==
    LET start == Len(w.buf) IN
    [buf     |-> w.buf \o << <<"nyxo", 0>>, <<"len", 0>>, <<"head", 0>> >>
                       \o Filler(HeadWords - 3),
     frames  |-> Append(w.frames, [start |-> start, mask |-> NewMask, table |-> <<>>,
                                   last |-> -1, sort |-> FALSE, places |-> <<>>]),
     offsets |-> IF w.frames = <<>> THEN Append(w.offsets, start) ELSE w.offsets]

MarkSlot(w, s) ==
    LET f   == Last(w.frames)
        b   == s \div MaskBits
        rel == (Len(w.buf) - f.start) % OffMod
    IN  [f EXCEPT !.mask[b].bits = @ \cup {s % MaskBits},
                  !.sort   = @ \/ s < f.last,
                  !.last   = s,
                  !.table  = Append(@, rel),
                  !.places = Append(@, <<s, Len(w.buf)>>)]

WriteField(w, s, v) ==
    [w EXCEPT !.frames = Front(@) \o <<MarkSlot(w, s)>>,
              !.buf    = @ \o << <<"val", v>> >> \o MoreOf(v)]

\* The places of a frame sorted by slot.  The sort of the code leaves open how two of one
\* slot come to lie; here they stay as they were written, and no plan of a run has any.
BySlot(places) ==
    LET Before(i) == {j \in DOMAIN places : \/ places[j][1] < places[i][1]
                                            \/ places[j][1] = places[i][1] /\ j < i}
    IN  [k \in DOMAIN places |->
            places[CHOOSE i \in DOMAIN places : Cardinality(Before(i)) = k - 1]]

\* Mutant of TableOf: entries stay in the order of the writes.
TableUnsorted(f) == f.table \o [i \in 1 .. Keys - Len(f.table) |-> 0]

\* The offset table in slot order, from the entries as written or, when a slot came
\* after a higher one, from the sorted places; unused entries are zero.
TableOf(f) ==
    LET used == IF ~f.sort THEN f.table
                ELSE LET p == BySlot(f.places)
                     IN  [i \in DOMAIN p |-> (p[i][2] - f.start) % OffMod]
    IN  used \o [i \in 1 .. Keys - Len(used) |-> 0]

\* Mutant of EndObject: the frame stays open.
EndObjectLeft(w) ==
    LET f == Last(w.frames) IN
    [w EXCEPT !.buf[f.start + 2] = <<"len", Len(w.buf) - f.start>>,
              !.buf[f.start + 3] = <<"head", [mask |-> f.mask, table |-> TableOf(f)]>>]

EndObject(w) ==
    LET f == Last(w.frames) IN
    [w EXCEPT !.frames = Front(@),
              !.buf[f.start + 2] = <<"len", Len(w.buf) - f.start>>,
              !.buf[f.start + 3] = <<"head", [mask |-> f.mask, table |-> TableOf(f)]>>]

\* -------------------------------------------------------------------------
\* The readers of one object at word offset `off`

SetBelow(mask, s) ==
    Cardinality({t \in 0 .. s - 1 : (t % MaskBits) \in mask[t \div MaskBits].bits})

\* resolve_slot: walk the mask's bytes to the slot's, count the bits before it.
ResolveSlot(data, off, s) ==
    LET head == data[off + 3][2]
        b    == s \div MaskBits
    IN  IF \/ \E c \in 0 .. b - 1 : ~head.mask[c].more
           \/ (s % MaskBits) \notin head.mask[b].bits
        THEN Nowhere
        ELSE off + head.table[SetBelow(head.mask, s) + 1]

\* The numbers of a set in ascending order.
InOrder(S) ==
    [k \in 1 .. Cardinality(S) |-> CHOOSE t \in S : Cardinality({u \in S : u < t}) = k - 1]

\* decode_object: all present bits, then as many offsets, paired in order.
Present(mask) ==
    {t \in 0 .. MaskBytes * MaskBits - 1 : (t % MaskBits) \in mask[t \div MaskBits].bits}

DecodeObject(data, off) ==
    LET head == data[off + 3][2]
        bits == InOrder(Present(head.mask))
    IN  {<<bits[i], off + head.table[i]>> : i \in DOMAIN bits}

\* Mutant of CompleteEnd: an object counts as soon as its length can be read.
CompleteEndEarly(data, off) ==
    IF off + 2 > Len(data) \/ data[off + 1][1] # "nyxo" \/ data[off + 2][2] < 2
    THEN Nowhere
    ELSE LET end == off + data[off + 2][2] IN IF end <= Len(data) THEN end ELSE Len(data)

\* complete_nyxo_end
CompleteEnd(data, off) ==
    IF \/ off + 2 > Len(data)
       \/ data[off + 1][1] # "nyxo"
       \/ data[off + 2][2] < 2
       \/ off + data[off + 2][2] > Len(data)
    THEN Nowhere
    ELSE off + data[off + 2][2]

\* poll_next_offset until it has nothing to return.
PollAll(data, from) ==
    LET polls[at \in 0 .. Len(data)] ==
            LET end == CompleteEnd(data, at)
            IN  IF end = Nowhere THEN <<>> ELSE <<at>> \o polls[end]
    IN  IF from > Len(data) THEN <<>> ELSE polls[from]
===============================================================================
