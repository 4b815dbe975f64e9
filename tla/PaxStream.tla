------------------------------ MODULE PaxStream -------------------------------
(***************************************************************************)
(* A PAX stream file: a producer pushes records on a PaxStreamWriter and   *)
(* writes what it has flushed, as run_nxs_pax_d2 and the writer's tests    *)
(* do, and seals with seal_stream; a reader polls the growing file as      *)
(* poll_pax_ttfr does, opening it anew each time.  A write shows word by   *)
(* word.                                                                  *)
(***************************************************************************)
EXTENDS PaxPage

CONSTANTS
    Rows,         \* the records that may be pushed: Rows[s] is a cell without its id
    Sigils,       \* the schema's sigils, one per slot
    PageSize,     \* records per page
    Records,      \* records the producer pushes
    Preamble,     \* words of the preamble
    SchemaText,   \* words of the schema up to its last key
    SchemaWords   \* words of the schema with its padding

ASSUME PaxStreamAssumption ==
    /\ PageSize \in Nat \ {0} /\ Records \in Nat \ {0}
    /\ Sigils \in Seq({"num", "real", "text", "null"}) /\ Sigils # <<>>
    /\ Rows \subseteq [DOMAIN Sigils -> {<<k>> : k \in {"absent", "null", "num", "real"}}
                                          \cup {"text"} \X Nat]
    /\ Preamble \in Nat \ {0} /\ SchemaText \in Nat \ {0}
    /\ SchemaWords \in Nat /\ SchemaText <= SchemaWords
    /\ Preamble % 2 = 0 /\ SchemaWords % 2 = 0      \* both end on 8 bytes

VARIABLES
    rows,     \* history: every record pushed
    pending,  \* those not yet in a page
    pages,    \* PaxPageMeta of every page flushed
    dataLen,  \* data_sector_len of the writer
    file,     \* the file
    todo,     \* what the write in progress has still to put there
    pc,       \* the producer: "ready" or "end"
    clean,    \* history: nothing was pending when the stream was sealed
    seen      \* the pages the reader has polled, by their offsets

prodVars == <<rows, pending, pages, dataLen, file, todo, pc, clean>>
vars == <<rows, pending, pages, dataLen, file, todo, pc, clean, seen>>

DataStart == Preamble + SchemaWords
Header == [i \in 1 .. Preamble |-> <<"preamble", i>>]
            \o [i \in 1 .. SchemaWords |-> <<"schema", i>>]

\* PaxStreamReader::open on a buffer, and what it takes for sealed (the preamble's tail
\* offset stays zero on a stream).
Opens(data) == Len(data) >= Preamble + SchemaText
Sealed(data) ==
    LET n == Len(data) IN
    /\ n >= 8 /\ data[n][1] = "foot"
    /\ Footer(data).tail > 0 /\ Footer(data).tail < n /\ n - Footer(data).tail >= 7

\* -------------------------------------------------------------------------
\* The producer

Init ==
    /\ rows = <<>> /\ pending = <<>> /\ pages = <<>> /\ dataLen = 0
    /\ file = <<>> /\ todo = Header /\ pc = "ready" /\ clean = TRUE
    /\ seen = <<>>

\* One word more of what is to be written becomes visible.
WritePart ==
    /\ todo # <<>>
    /\ file' = Append(file, Head(todo)) /\ todo' = Tail(todo)
    /\ UNCHANGED <<rows, pending, pages, dataLen, pc, clean, seen>>

\* Mutant of PageOf: the first record is counted in full pages.
PageOfByPages(recs, total) == EncodePage(Len(pages), Len(pages) * PageSize, recs, Sigils)

\* The page flush_page makes of these rows, which are the last of all.
PageOf(recs, total) == EncodePage(Len(pages), total - Len(recs), recs, Sigils)

\* Mutant of Meta: the same in the tail-index.
MetaByPages(recs, total) ==
    [index |-> Len(pages), start |-> Len(pages) * PageSize, count |-> Len(recs),
     at |-> DataStart + dataLen, len |-> Len(PageOf(recs, total))]

Meta(recs, total) ==
    [index |-> Len(pages), start |-> total - Len(recs), count |-> Len(recs),
     at |-> DataStart + dataLen, len |-> Len(PageOf(recs, total))]

\* flush_page, and write_data_sector_since: the page goes to the file.
Flush(recs, total) ==
    /\ todo' = PageOf(recs, total)
    /\ pages' = Append(pages, Meta(recs, total))
    /\ dataLen' = dataLen + Len(todo')
    /\ pending' = <<>>

\* push_record: a full page is flushed.
PushRecord ==
    /\ pc = "ready" /\ todo = <<>> /\ Len(rows) < Records
    /\ \E r \in Rows :
          LET row  == [s \in DOMAIN r |-> IF r[s][1] \in {"absent", "null"} THEN r[s]
                                          ELSE <<r[s][1], Len(rows)>> \o Tail(r[s])]
              recs == Append(pending, row)
          IN  /\ rows' = Append(rows, row)
              /\ IF Len(recs) >= PageSize THEN Flush(recs, Len(rows) + 1)
                 ELSE pending' = recs /\ UNCHANGED <<pages, dataLen, todo>>
    /\ UNCHANGED <<file, pc, clean, seen>>

\* flush_pending, at any time: a partial page.
FlushPending ==
    /\ pc = "ready" /\ todo = <<>> /\ pending # <<>>
    /\ Flush(pending, Len(rows))
    /\ UNCHANGED <<rows, file, pc, clean, seen>>

\* seal_stream: a last page is made of what is pending, in the writer's own buffer; the
\* tail alone goes to the file, its offset counted behind that page.
Seal ==
    /\ pc = "ready" /\ todo = <<>> /\ Len(rows) = Records
    /\ LET total == Len(rows)
           last  == pending # <<>>
           more  == IF last THEN Len(PageOf(pending, total)) ELSE 0
           metas == IF last THEN Append(pages, Meta(pending, total)) ELSE pages
       IN  /\ pages' = metas /\ dataLen' = dataLen + more
           /\ todo' = PaxTail(metas, DataStart + dataLen', total, PageSize)
           /\ clean' = ~last
    /\ pending' = <<>> /\ pc' = "end"
    /\ UNCHANGED <<rows, file, seen>>

\* -------------------------------------------------------------------------
\* Mutant of Look: the last complete page is left for the next poll.
LookLate ==
    /\ Opens(file)
    /\ LET p == PollPages(file, DataStart, Sigils)
       IN  seen' = IF p = <<>> THEN p ELSE Front(p)
    /\ UNCHANGED prodVars

\* The reader: open a copy of the file and take its complete pages from the first on.
Look ==
    /\ Opens(file)
    /\ seen' = PollPages(file, DataStart, Sigils)
    /\ UNCHANGED prodVars

Next == WritePart \/ PushRecord \/ FlushPending \/ Seal \/ Look

SafetySpec == Init /\ [][Next]_vars

\* The reader polls; the producer may stop anywhere.
Spec == SafetySpec /\ WF_vars(Look)

\* -------------------------------------------------------------------------
\* Properties

\* What a reader is to get for a cell.
ReadBack(cell, sigil) ==
    IF cell = Absent THEN None
    ELSE IF IsVar(sigil) THEN [j \in 1 .. TextWords(cell) |-> <<"chr", <<cell, j>> >>]
    ELSE IF cell[1] = (IF sigil = "null" THEN "num" ELSE sigil) THEN cell ELSE Zero

NoVarBefore(s) == \A t \in 1 .. s - 1 : ~IsVar(Sigils[t])

\* The records in complete pages read back by their global number, and the others do not
\* read at all, at any cut of the file; for columns with no text column before them (see
\* ViewColumnAt: behind one, field_parts reads other bytes).
CompleteReadBack ==
    LET ps == PollPages(file, DataStart, Sigils)
        n  == IF ps = <<>> THEN 0 ELSE file[Last(ps) + 3][2] + file[Last(ps) + 5][2]
    IN  \A s \in DOMAIN Sigils : NoVarBefore(s) /\ ~IsVar(Sigils[s]) =>
           \A r \in DOMAIN rows :
              GetComplete(file, DataStart, Sigils, r - 1, s) =
                 IF r <= n THEN ReadBack(rows[r][s], Sigils[s]) ELSE None

\* A file that passes for sealed, after a flush, has every record where the tail-index says,
\* whatever pages the flushes made; with full pages it is the file finish_pax makes.
SealedExact ==
    Sealed(file) /\ clean =>
        /\ Footer(file).count = Records
        /\ \A r \in DOMAIN rows, s \in DOMAIN Sigils :
              SealedGet(file, Sigils, r - 1, s) = ReadBack(rows[r][s], Sigils[s])
        /\ (/\ \A i \in 1 .. Len(pages) - 1 : pages[i].count = PageSize
            /\ InferSigils(rows, Len(Sigils)) = Sigils) =>
              SubSeq(file, DataStart + 1, Len(file))
                 = FinishPax(rows, Len(Sigils), PageSize, DataStart)

\* The pages the producer has written, or is writing, to the file: all but one that only
\* seal_stream made.
InFile == IF clean THEN pages ELSE Front(pages)

\* The pages that are wholly in the file, by the writer's account; these are the first ones.
Complete ==
    SubSeq(InFile, 1, Cardinality({i \in DOMAIN InFile : InFile[i].at + InFile[i].len <= Len(file)}))

CompleteAt == [i \in DOMAIN Complete |-> Complete[i].at]

Items == INSTANCE ItemStream WITH
    made   <- CompleteAt,
    seen   <- seen,
    closed <- pc = "end"

\* A polling reader is given whole pages, in order, and never loses one it had.
ReaderFollows == Items!Safe

\* Once the stream is sealed, the reader comes to have every page the file has.
ReaderSeesAll == Items!SeesAll

\* What seal_stream's doc says: it flushes what is pending.
SealFlushes == Sealed(file) => Len(PollPages(file, DataStart, Sigils)) = Footer(file).pages
===============================================================================
