------------------------------- MODULE PaxPage --------------------------------
(***************************************************************************)
(* The pages of the PAX layout: encode_page and its columns (layout.rs),   *)
(* the check for a complete page and the view of one (pax_stream.rs), and  *)
(* the sealed reader's way to a record through the tail-index (query.rs).  *)
(*                                                                         *)
(* A buffer is a sequence of 4-byte words <<tag, content>>, offsets count  *)
(* words.  A cell is <<"absent">>, <<"null">>, <<"num", id>>,              *)
(* <<"real", id>> or <<"text", id, words>>; a sigil is one of the last     *)
(* four names.  An Option of an offset is a set of at most one.            *)
(***************************************************************************)
EXTENDS Integers, Sequences, SequencesExt, FiniteSets, FiniteSetsExt

Nowhere == -1
None == <<"none">>                                  \* Option::None of a value
Absent == <<"absent">>
Zero == <<"zero">>                                  \* eight zero bytes
Pad(n) == [i \in 1 .. n |-> <<"pad", 0>>]
Wide(tag, v) == << <<tag, v>>, <<"pad", 0>> >>      \* a u64

IsVar(sigil) == sigil = "text"
BitmapWords(n) == 2 * ((n + 63) \div 64)
Populated(cell) == cell # Absent

\* -------------------------------------------------------------------------
\* Encoding

Bitmap(col) ==
    << <<"bits", {i \in DOMAIN col : Populated(col[i])}>> >> \o Pad(BitmapWords(Len(col)) - 1)

\* Eight bytes per record; a cell of another kind than the column, or null, is zero.
\* The column of a null sigil stores integers.
FixedColumn(col, sigil) ==
    LET kind == IF sigil = "null" THEN "num" ELSE sigil IN
    FlattenSeq([i \in DOMAIN col |->
                   Wide("cell", IF col[i][1] = kind THEN col[i] ELSE Zero)])

TextWords(cell) == IF cell[1] = "text" THEN cell[3] ELSE 0

\* One end more than records, then the texts.
VarColumn(col) ==
    LET ends[i \in 0 .. Len(col)] == IF i = 0 THEN 0 ELSE ends[i - 1] + TextWords(col[i])
    IN  [i \in 1 .. Len(col) + 1 |-> <<"end", ends[i - 1]>>]
          \o FlattenSeq([i \in DOMAIN col |->
                            [j \in 1 .. TextWords(col[i]) |-> <<"chr", <<col[i], j>> >>]])

Column(col, sigil) == Bitmap(col) \o IF IsVar(sigil) THEN VarColumn(col) ELSE FixedColumn(col, sigil)

EncodePage(index, start, rows, sigils) ==
    LET body == FlattenSeq([s \in DOMAIN sigils |->
                               Column([i \in DOMAIN rows |-> rows[i][s]], sigils[s])])
        len  == 6 + Len(body) + 1
    IN  << <<"page", 0>>, <<"index", index>> >> \o Wide("start", start)
          \o << <<"count", Len(rows)>>, <<"fields", Len(sigils)>> >>
          \o body \o << <<"plen", len>> >> \o Pad(len % 2)

\* build_pax_tail: an entry per page, then the footer.
PaxTail(pages, at, count, size) ==
    FlattenSeq([i \in DOMAIN pages |->
                   << <<"index", pages[i].index>> >> \o Wide("start", pages[i].start)
                     \o << <<"count", pages[i].count>> >> \o Wide("at", pages[i].at)
                     \o << <<"len", pages[i].len>> >>])
      \o Wide("tail", at) \o Wide("count", count)
      \o << <<"pages", Len(pages)>>, <<"size", size>>, <<"foot", 0>> >>

\* sigils_for_keys: the kind of the first cell that is there.
InferSigils(rows, width) ==
    [s \in 1 .. width |->
        LET at == {i \in DOMAIN rows : Populated(rows[i][s])}
        IN  IF at = {} THEN "num" ELSE rows[Min(at)][s][1]]

\* finish_pax: data sector and tail of a file made at once, behind a header of `start` words.
FinishPax(rows, width, size, start) ==
    LET sigils == InferSigils(rows, width)
        n == (Len(rows) + size - 1) \div size
        count(p) == Min({size, Len(rows) - p * size})
        page[p \in 0 .. n - 1] ==
            EncodePage(p, p * size, SubSeq(rows, p * size + 1, p * size + count(p)), sigils)
        at[p \in 0 .. n] == IF p = 0 THEN start ELSE at[p - 1] + Len(page[p - 1])
        metas == [i \in 1 .. n |-> [index |-> i - 1, start |-> (i - 1) * size,
                                    count |-> count(i - 1), at |-> at[i - 1],
                                    len |-> Len(page[i - 1])]]
    IN  FlattenSeq([i \in 1 .. n |-> page[i - 1]]) \o PaxTail(metas, at[n], Len(rows), size)

\* -------------------------------------------------------------------------
\* A column in a buffer

\* Where the column at word offset `at` ends, by column_sector_len.
SectorEnd(data, at, n, sigil) ==
    LET bits == BitmapWords(n) IN
    IF \/ Len(data) < at + bits
       \/ IsVar(sigil) /\ Len(data) < at + bits + n + 1
    THEN {}
    ELSE {at + bits + IF IsVar(sigil) THEN n + 1 + data[at + bits + n + 1][2] ELSE 2 * n}

\* Where a page's column s (from 1) begins, by the columns before it.
ColumnAt(data, off, n, sigils, s) ==
    LET at[i \in 1 .. s] ==
            IF i = 1 THEN {off + 6}
            ELSE UNION {SectorEnd(data, before, n, sigils[i - 1]) : before \in at[i - 1]}
    IN  at[s]

Present(data, at, i) == i \in data[at + 1][2]

\* var_str_at: the words between two ends.
TextAt(data, at, n, i) ==
    LET ends   == at + BitmapWords(n)
        values == ends + n + 1
    IN  SubSeq(data, values + data[ends + i][2] + 1, values + data[ends + i + 1][2])

\* -------------------------------------------------------------------------
\* Complete pages

\* Mutant of CompletePageEnd: the padding is not waited for, nor skipped.
CompletePageEndUnpadded(data, off, sigils) ==
    IF off + 6 > Len(data) \/ data[off + 1][1] # "page" THEN {}
    ELSE {body + 1 : body \in
             {b \in ColumnAt(data, off, data[off + 5][2], sigils, data[off + 6][2] + 1) :
                 b + 1 <= Len(data) /\ off + data[b + 1][2] = b + 1}}

\* complete_page_end: the length behind the last column must agree with the columns,
\* and the padding be there.
CompletePageEnd(data, off, sigils) ==
    IF off + 6 > Len(data) \/ data[off + 1][1] # "page" THEN {}
    ELSE {end + (end % 2) :
            end \in {body + 1 : body \in
                        {b \in ColumnAt(data, off, data[off + 5][2], sigils, data[off + 6][2] + 1) :
                            b + 1 + ((b + 1) % 2) <= Len(data) /\ off + data[b + 1][2] = b + 1}}}

\* poll_next_page until there is none.
PollPages(data, from, sigils) ==
    LET polls[at \in 0 .. Len(data)] ==
            LET ends == CompletePageEnd(data, at, sigils)
            IN  IF ends = {} THEN <<>> ELSE <<at>> \o polls[Min(ends)]
    IN  IF from > Len(data) THEN <<>> ELSE polls[from]

\* PaxPageView's field_parts: as if every column before were of fixed width.
ViewColumnAt(data, off, s) ==
    LET n == data[off + 5][2] IN off + 6 + (s - 1) * (BitmapWords(n) + 2 * n)

\* PaxPageView::get_f64 and get_i64 of the page's i-th record (from 1)
ViewGet(data, off, i, s) ==
    LET n == data[off + 5][2]
        at == ViewColumnAt(data, off, s)
        end == at + BitmapWords(n) + 2 * n
    IN  IF end > Len(data) \/ ~Present(data, at, i) THEN None
        ELSE data[at + BitmapWords(n) + 2 * i - 1][2]

\* get_f64_complete: the first page that has the record (from 0).
GetComplete(data, from, sigils, record, s) ==
    LET polled == PollPages(data, from, sigils)
        having == {k \in DOMAIN polled :
                      record - data[polled[k] + 3][2] \in 0 .. data[polled[k] + 5][2] - 1}
        off    == polled[Min(having)]
    IN  IF having = {} THEN None
        ELSE ViewGet(data, off, record - data[off + 3][2] + 1, s)

\* -------------------------------------------------------------------------
\* The reader of a sealed file

Footer(data) ==
    LET fo == Len(data) - 7 IN
    [tail |-> data[fo + 1][2], count |-> data[fo + 3][2], pages |-> data[fo + 5][2]]

PageStart(data, p) == data[Footer(data).tail + 7 * p + 2][2]
PageCount(data, p) == data[Footer(data).tail + 7 * p + 4][2]

\* pax_locate_record: binary search over the tail-index.
Locate(data, record) ==
    LET search[span \in (0 .. Footer(data).pages) \X (-1 .. Footer(data).pages - 1)] ==
            LET lo  == span[1]
                hi  == span[2]
                mid == (lo + hi) \div 2
            IN  IF lo > hi THEN Nowhere
                ELSE IF record < PageStart(data, mid) THEN search[<<lo, mid - 1>>]
                ELSE IF record >= PageStart(data, mid) + PageCount(data, mid) THEN search[<<mid + 1, hi>>]
                ELSE mid
    IN  search[<<0, Footer(data).pages - 1>>]

\* pax_get_*: locate, find the column, test the bit, read the value or the text.
SealedGet(data, sigils, record, s) ==
    LET p   == Locate(data, record)
        off == data[Footer(data).tail + 7 * p + 5][2]
        n   == data[off + 5][2]
        i   == record - PageStart(data, p) + 1
    IN  IF p = Nowhere \/ off + 6 > Len(data) \/ data[off + 1][1] # "page" THEN None
        ELSE LET at == Min(ColumnAt(data, off, n, sigils, s))
             IN  IF ~Present(data, at, i) THEN None
                 ELSE IF IsVar(sigils[s]) THEN TextAt(data, at, n, i)
                 ELSE data[at + BitmapWords(n) + 2 * i - 1][2]
===============================================================================
