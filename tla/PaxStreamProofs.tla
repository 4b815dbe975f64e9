--------------------------- MODULE PaxStreamProofs ---------------------------
(***************************************************************************)
(* Proofs about PaxStream, for every schema, number of records and page    *)
(* size: the file is the header, the pages made of the records one behind  *)
(* the other, and the tail; a reader that polls it is given whole pages in *)
(* order, complete records read back, and a sealed file holds every one.   *)
(***************************************************************************)
EXTENDS PaxStream, PaxPageProofs

----------------------------------------------------------------------------
(* The inductive invariant.                                                *)

RowCells == [1 .. Len(Sigils) -> Cells]
PageMetas == [index : Nat, start : Nat, count : Nat, at : Nat, len : Nat]

(* Where the k-th page ends in the file, and the number of records up to   *)
(* its end; the records in it, and the bytes made of them.                 *)
Edge(k) == IF k = 0 THEN DataStart ELSE pages[k].at + pages[k].len
Upto(k) == IF k = 0 THEN 0 ELSE pages[k].start + pages[k].count
Part(k) == SubSeq(rows, Upto(k - 1) + 1, Upto(k))
Bytes(k) == EncodePage(k - 1, Upto(k - 1), Part(k), Sigils)

(* The pages are cut from the records one behind the other, none is empty. *)
RowsInv ==
  /\ rows \in Seq(RowCells) /\ Len(rows) <= Records
  /\ pages \in Seq(PageMetas)
  /\ \A k \in 1 .. Len(pages) :
       /\ pages[k].index = k - 1 /\ pages[k].start = Upto(k - 1) /\ pages[k].at = Edge(k - 1)
       /\ pages[k].count \in 1 .. PageSize /\ Upto(k) <= Len(rows)
       /\ pages[k].len = Len(Bytes(k))
  /\ pending = SubSeq(rows, Upto(Len(pages)) + 1, Len(rows)) /\ Len(pending) < PageSize
  /\ dataLen \in Nat /\ Edge(Len(pages)) = DataStart + dataLen

(* The pages that are in the file or about to be: all but one that only    *)
(* seal_stream made.                                                       *)
Written == IF clean THEN Len(pages) ELSE Len(pages) - 1

TheTail == PaxTail(pages, DataStart + dataLen, Len(rows), PageSize)

(* The file with the write in progress.                                    *)
Whole == file \o todo

FileInv ==
  /\ IsSeq(file) /\ IsSeq(todo)
  /\ Len(Whole) = Edge(Written) + IF pc = "end" THEN Len(TheTail) ELSE 0
  /\ \A i \in 1 .. DataStart : Whole[i] = Header[i]
  /\ \A k \in 1 .. Written : \A j \in 1 .. Len(Bytes(k)) : Whole[Edge(k - 1) + j] = Bytes(k)[j]
  /\ pc = "end" => \A j \in 1 .. Len(TheTail) : Whole[Edge(Written) + j] = TheTail[j]

PhaseInv ==
  /\ pc \in {"ready", "end"} /\ clean \in BOOLEAN
  /\ pc = "ready" => clean = TRUE
  /\ clean = FALSE => pages # << >>
  /\ pc = "end" => Len(rows) = Records /\ pending = << >> /\ Edge(Written) <= Len(file)

(* The places of the first m pages.                                        *)
Given(m) == [i \in 1 .. m |-> Edge(i - 1)]

(* The reader has the first pages, and they are complete in the file.      *)
SeenInv == \E m \in 0 .. Written : seen = Given(m) /\ (m # 0 => Edge(m) <= Len(file))

PaxInv == RowsInv /\ FileInv /\ PhaseInv /\ SeenInv

----------------------------------------------------------------------------
(* The constants, the header and a row.                                    *)

(* What the assumption says of the constants.                              *)
LEMMA Params ==
  /\ PageSize \in Nat /\ PageSize >= 1 /\ Records \in Nat /\ Records >= 1
  /\ Sigils \in Seq(Kinds) /\ Len(Sigils) \in Nat /\ Len(Sigils) >= 1
  /\ DOMAIN Sigils = 1 .. Len(Sigils) /\ Sigils # << >>
  /\ DataStart \in Nat /\ DataStart >= 1 /\ DataStart % 2 = 0
  /\ Preamble \in Nat /\ SchemaWords \in Nat /\ DataStart = Preamble + SchemaWords
<1>1. /\ PageSize \in Nat \ {0} /\ Records \in Nat \ {0}
      /\ Sigils \in Seq({"num", "real", "text", "null"}) /\ Sigils # << >>
      /\ Preamble \in Nat \ {0} /\ SchemaWords \in Nat
      /\ Preamble % 2 = 0 /\ SchemaWords % 2 = 0
  BY PaxStreamAssumption
<1>2. DataStart \in Nat /\ DataStart >= 1 /\ DataStart % 2 = 0
  BY <1>1 DEF DataStart
<1>3. Sigils \in Seq(Kinds)
  BY <1>1 DEF Kinds
<1>4. QED BY <1>1, <1>2, <1>3 DEF DataStart

(* The header's words are no page's and no footer's.                       *)
LEMMA HeaderIs == IsSeq(Header) /\ Len(Header) = DataStart /\ Inner(Header)
<1> DEFINE pre(i) == <<"preamble", i>>
           sch(i) == <<"schema", i>>
           a == [i \in 1 .. Preamble |-> pre(i)]
           b == [i \in 1 .. SchemaWords |-> sch(i)]
           W == {pre(i) : i \in 1 .. Preamble} \cup {sch(i) : i \in 1 .. SchemaWords}
<1>1. \A i : pre(i)[1] = "preamble" /\ sch(i)[1] = "schema"
  OBVIOUS
<1>2. Preamble \in Nat /\ SchemaWords \in Nat /\ DataStart = Preamble + SchemaWords
  BY Params
<1> HIDE DEF pre, sch
<1>3. /\ a \in Seq(W) /\ Len(a) = Preamble /\ \A i \in 1 .. Preamble : a[i] = pre(i)
      /\ b \in Seq(W) /\ Len(b) = SchemaWords /\ \A i \in 1 .. SchemaWords : b[i] = sch(i)
  BY <1>2
<1>4. Header = a \o b
  BY DEF Header, pre, sch
<1> HIDE DEF a, b, W
<1>5. Inner(a) /\ Inner(b)
  BY <1>1, <1>3 DEF Inner
<1>6. IsSeq(a) /\ IsSeq(b)
  BY <1>3 DEF IsSeq
<1>7. IsSeq(a \o b) /\ Len(a \o b) = Len(a) + Len(b)
  BY <1>6, Joined
<1>8. Inner(a \o b)
  BY <1>5, <1>6, InnerJoined
<1>9. QED BY <1>2, <1>3, <1>4, <1>7, <1>8

(* The row the producer pushes, the n-th.                                  *)
RowOf(r, n) == [s \in DOMAIN r |-> IF r[s][1] \in {"absent", "null"} THEN r[s]
                                   ELSE <<r[s][1], n>> \o Tail(r[s])]

(* It is a row of cells.                                                   *)
LEMMA RowIs ==
  ASSUME NEW r \in Rows, NEW n \in Nat
  PROVE  RowOf(r, n) \in RowCells
<1>1. DOMAIN r = 1 .. Len(Sigils)
  BY Params, PaxStreamAssumption
<1>2. ASSUME NEW s \in 1 .. Len(Sigils)
      PROVE  (IF r[s][1] \in {"absent", "null"} THEN r[s] ELSE <<r[s][1], n>> \o Tail(r[s])) \in Cells
  <2>1. r[s] \in {<<k>> : k \in {"absent", "null", "num", "real"}} \cup ({"text"} \X Nat)
    BY Params, PaxStreamAssumption
  <2>2. CASE r[s] = <<"absent">> \/ r[s] = <<"null">>
    <3>1. r[s][1] \in {"absent", "null"}
      <4>1. <<"absent">>[1] = "absent" /\ <<"null">>[1] = "null"
        OBVIOUS
      <4>2. QED BY <2>2, <4>1
    <3>2. <<"absent">> \in Cells /\ <<"null">> \in Cells
      BY Zenon DEF Cells, Absent
    <3>3. r[s] \in Cells
      BY <2>2, <3>2
    <3>4. QED BY <3>1, <3>3
  <2>3. CASE r[s] = <<"num">> \/ r[s] = <<"real">>
    <3>1. PICK k \in {"num", "real"} : r[s] = <<k>>
      BY <2>3
    <3>2. r[s][1] = k /\ k \notin {"absent", "null"}
      BY <3>1
    <3>3. <<k, n>> \o Tail(<<k>>) = <<k, n>>
      OBVIOUS
    <3>4. <<k, n>> \in Cells
      BY DEF Cells
    <3>5. QED BY <3>1, <3>2, <3>3, <3>4
  <2>4. CASE r[s] \in {"text"} \X Nat
    <3>1. PICK w \in Nat : r[s] = <<"text", w>>
      BY <2>4
    <3>2. r[s][1] = "text"
      BY <3>1
    <3>3. <<"text", n>> \o Tail(<<"text", w>>) = <<"text", n, w>>
      <4> DEFINE x == "text"
      <4> HIDE DEF x
      <4>1. Tail(<<x, w>>) = <<w>>
        OBVIOUS
      <4>2. <<x, n>> \o <<w>> = <<x, n, w>>
        BY PairAndOne
      <4>3. QED BY <4>1, <4>2 DEF x
    <3>4. <<"text", n, w>> \in Cells
      BY DEF Cells
    <3>5. QED BY <3>1, <3>2, <3>3, <3>4
  <2>5. QED BY <2>1, <2>2, <2>3, <2>4
<1>3. QED BY <1>1, <1>2 DEF RowOf, RowCells

----------------------------------------------------------------------------
(* What the invariant says of a page.                                      *)

(* The pages are laid one behind the other, and so are the records.        *)
LEMMA PagesAre ==
  ASSUME RowsInv
  PROVE  /\ Len(pages) \in Nat /\ Len(rows) \in Nat
         /\ \A k \in 0 .. Len(pages) : Edge(k) \in Nat /\ Upto(k) \in Nat /\ Upto(k) <= Len(rows)
         /\ \A k \in 1 .. Len(pages) :
              /\ pages[k].count \in Nat /\ pages[k].count >= 1
              /\ Upto(k) = Upto(k - 1) + pages[k].count
              /\ Edge(k) = Edge(k - 1) + Len(Bytes(k)) /\ Len(Bytes(k)) \in Nat
<1>1. /\ Len(pages) \in Nat /\ Len(rows) \in Nat
      /\ \A k \in 1 .. Len(pages) : pages[k] \in PageMetas
  BY DEF RowsInv
<1>2. \A k \in 1 .. Len(pages) :
        /\ pages[k].start \in Nat /\ pages[k].count \in Nat /\ pages[k].at \in Nat /\ pages[k].len \in Nat
  BY <1>1 DEF PageMetas
<1>3. \A k \in 1 .. Len(pages) :
        /\ Edge(k) = pages[k].at + pages[k].len /\ Upto(k) = pages[k].start + pages[k].count
        /\ Edge(k) \in Nat /\ Upto(k) \in Nat /\ Upto(k) <= Len(rows)
  <2> SUFFICES ASSUME NEW k \in 1 .. Len(pages)
               PROVE  /\ Edge(k) = pages[k].at + pages[k].len /\ Upto(k) = pages[k].start + pages[k].count
                      /\ Edge(k) \in Nat /\ Upto(k) \in Nat /\ Upto(k) <= Len(rows)
    OBVIOUS
  <2>1. k # 0
    BY <1>1
  <2>2. Edge(k) = pages[k].at + pages[k].len /\ Upto(k) = pages[k].start + pages[k].count
    BY <2>1 DEF Edge, Upto
  <2>3. Upto(k) <= Len(rows)
    BY DEF RowsInv
  <2>4. QED BY SMTT(60), <1>2, <2>2, <2>3
<1>4. Edge(0) \in Nat /\ Upto(0) = 0
  BY Params DEF Edge, Upto
<1>5. \A k \in 0 .. Len(pages) : k = 0 \/ k \in 1 .. Len(pages)
  BY <1>1
<1>6. \A k \in 0 .. Len(pages) : Edge(k) \in Nat /\ Upto(k) \in Nat /\ Upto(k) <= Len(rows)
  BY <1>1, <1>3, <1>4, <1>5
<1>7. ASSUME NEW k \in 1 .. Len(pages)
      PROVE  /\ pages[k].count \in Nat /\ pages[k].count >= 1
             /\ Upto(k) = Upto(k - 1) + pages[k].count
             /\ Edge(k) = Edge(k - 1) + Len(Bytes(k)) /\ Len(Bytes(k)) \in Nat
  <2>1. /\ pages[k].start = Upto(k - 1) /\ pages[k].at = Edge(k - 1)
        /\ pages[k].count \in 1 .. PageSize /\ pages[k].len = Len(Bytes(k))
    BY DEF RowsInv
  <2>2. QED BY <1>2, <1>3, <2>1
<1>8. QED BY <1>1, <1>6, <1>7

(* Each is a page of records that encode_page made.                        *)
LEMMA PageMadeOf ==
  ASSUME RowsInv, NEW k \in 1 .. Len(pages)
  PROVE  /\ Fits(Part(k), Sigils) /\ Len(Part(k)) = pages[k].count
         /\ \A i \in 1 .. pages[k].count : Part(k)[i] = rows[Upto(k - 1) + i]
         /\ \E at : PageLaid(Bytes(k), at, Upto(k - 1), Part(k), Sigils)
         /\ Len(Bytes(k)) >= 7 /\ Len(Bytes(k)) % 2 = 0
<1>1. PICK a \in Nat, b \in Nat, c \in Nat :
        a = Upto(k - 1) /\ b = Upto(k) /\ c = pages[k].count /\ c >= 1 /\ b = a + c /\ b <= Len(rows)
  <2>1. k - 1 \in 0 .. Len(pages) /\ k \in 0 .. Len(pages)
    BY PagesAre
  <2>2. QED BY <2>1, PagesAre
<1>2. rows \in Seq(RowCells) /\ Len(rows) \in Nat
  BY DEF RowsInv
<1>3. /\ Part(k) \in Seq(RowCells) /\ Len(Part(k)) = c
      /\ \A i \in 1 .. c : Part(k)[i] = rows[a + i]
  <2> DEFINE p == SubSeq(rows, a + 1, b)
  <2>1. a <= b /\ b <= Len(rows) /\ b - a = c
    BY <1>1
  <2>2. p \in Seq(RowCells) /\ Len(p) = b - a /\ \A i \in 1 .. b - a : p[i] = rows[a + i]
    BY <1>2, <2>1, PartOf
  <2>3. Part(k) = p
    BY <1>1 DEF Part
  <2> HIDE DEF p
  <2>4. QED BY <1>1, <2>1, <2>2, <2>3
<1>4. Part(k) # << >>
  BY <1>1, <1>3
<1>5. Fits(Part(k), Sigils)
  BY <1>3, <1>4, Params DEF Fits, RowCells
<1>6. PICK at : PageLaid(Bytes(k), at, Upto(k - 1), Part(k), Sigils)
  <2>1. Len(Sigils) \in Nat \ {0}
    BY Params
  <2>2. Part(k) \in Seq([1 .. Len(Sigils) -> Cells])
    BY <1>3 DEF RowCells
  <2>3. \E at : PageLaid(EncodePage(k - 1, Upto(k - 1), Part(k), Sigils), at, Upto(k - 1), Part(k), Sigils)
    BY <1>4, <2>1, <2>2, Params, PageIs
  <2>4. QED BY <2>3 DEF Bytes
<1>7. Len(Bytes(k)) >= 7 /\ Len(Bytes(k)) % 2 = 0
  <2> DEFINE page == Bytes(k)
             data == << >>
  <2>1. HasWords(data, 0, page)
    <3>1. Len(data) = 0
      OBVIOUS
    <3>2. Len(page) \in Nat
      BY PagesAre
    <3> HIDE DEF data, page
    <3>3. QED BY <3>1, <3>2 DEF HasWords
  <2>2. PageLaid(page, at, Upto(k - 1), Part(k), Sigils) /\ 0 \in Nat /\ 0 % 2 = 0
    BY <1>6
  <2> HIDE DEF data, page
  <2>3. Len(page) >= 7 /\ Len(page) % 2 = 0
    BY <1>5, <2>1, <2>2, PageEndIs
  <2>4. QED BY <2>3 DEF page
<1>8. QED BY <1>1, <1>3, <1>5, <1>6, <1>7

(* Pages begin at even words, each behind the one before.                  *)
LEMMA EdgesEven ==
  ASSUME RowsInv
  PROVE  \A k \in 0 .. Len(pages) : Edge(k) % 2 = 0 /\ Edge(k) >= DataStart
<1> DEFINE n == Len(pages)
           S == {k \in 0 .. n : Edge(k) % 2 = 0 /\ Edge(k) >= DataStart}
<1>1. n \in Nat
  BY PagesAre
<1>2. 0 \in S
  BY <1>1, Params DEF Edge
<1>3. ASSUME NEW k \in 0 .. n - 1, k \in S
      PROVE  k + 1 \in S
  <2>1. k + 1 \in 1 .. n /\ (k + 1) - 1 = k /\ k \in 0 .. n /\ k + 1 \in 0 .. n
    BY <1>1
  <2>2. PICK a \in Nat, b \in Nat, l \in Nat :
          a = Edge(k) /\ b = Edge(k + 1) /\ l = Len(Bytes(k + 1)) /\ b = a + l
    BY <2>1, PagesAre
  <2>3. l % 2 = 0
    BY <2>1, <2>2, PageMadeOf
  <2>4. a % 2 = 0 /\ a >= DataStart /\ DataStart \in Nat
    BY <1>3, <2>2, Params
  <2>5. (a + l) % 2 = 0 /\ a + l >= DataStart
    BY <2>3, <2>4
  <2>6. QED BY <2>1, <2>2, <2>5
<1> HIDE DEF S
<1>4. 0 \in Int /\ n \in Int
  BY <1>1
<1>5. 0 .. n \subseteq S
  BY <1>2, <1>3, <1>4, Upward, Zenon
<1>6. QED BY <1>5 DEF S

----------------------------------------------------------------------------
(* The producer's steps keep the invariant.                                *)

(* The last records that are in no page.                                   *)
Rest(s, n) == SubSeq(s, n + 1, Len(s))

(* Records only come behind those there are.                               *)
Longer(old, new) ==
  new \in Seq(RowCells) /\ Len(old) <= Len(new) /\ \A i \in 1 .. Len(old) : new[i] = old[i]

(* Records and pages that come behind change no page.                      *)
LEMMA PageKept ==
  ASSUME RowsInv, Longer(rows, rows'), \A j \in 1 .. Len(pages) : pages'[j] = pages[j]
  PROVE  /\ \A k \in 0 .. Len(pages) : Edge(k)' = Edge(k) /\ Upto(k)' = Upto(k)
         /\ \A k \in 1 .. Len(pages) : Bytes(k)' = Bytes(k) /\ Part(k)' = Part(k)
<1>1. \A k \in 0 .. Len(pages) : k = 0 \/ k \in 1 .. Len(pages)
  BY PagesAre
<1>2. \A k \in 0 .. Len(pages) : Edge(k)' = Edge(k) /\ Upto(k)' = Upto(k)
  <2> SUFFICES ASSUME NEW k \in 0 .. Len(pages)
               PROVE  Edge(k)' = Edge(k) /\ Upto(k)' = Upto(k)
    OBVIOUS
  <2>1. CASE k = 0
    BY <2>1 DEF Edge, Upto, DataStart
  <2>2. CASE k # 0
    <3>1. pages'[k] = pages[k]
      BY <1>1, <2>2
    <3>2. QED BY <2>2, <3>1 DEF Edge, Upto
  <2>3. QED BY <2>1, <2>2
<1>3. ASSUME NEW k \in 1 .. Len(pages)
      PROVE  Bytes(k)' = Bytes(k) /\ Part(k)' = Part(k)
  <2>1. k - 1 \in 0 .. Len(pages) /\ k \in 0 .. Len(pages)
    BY PagesAre
  <2>2. PICK a \in Nat, b \in Nat : a = Upto(k - 1) /\ b = Upto(k) /\ a <= b /\ b <= Len(rows)
    <3>1. /\ Upto(k - 1) \in Nat /\ Upto(k) \in Nat /\ Upto(k) <= Len(rows)
          /\ Upto(k) = Upto(k - 1) + pages[k].count /\ pages[k].count \in Nat
      BY <2>1, PagesAre
    <3>2. QED BY <3>1
  <2>3. Upto(k - 1)' = a /\ Upto(k)' = b
    BY <1>2, <2>1, <2>2
  <2> DEFINE p == SubSeq(rows, a + 1, b)
             q == SubSeq(rows', a + 1, b)
  <2>4. /\ rows \in Seq(RowCells) /\ rows' \in Seq(RowCells) /\ Len(rows) \in Nat /\ Len(rows') \in Nat
        /\ b <= Len(rows')
    BY SMTT(60), <2>2 DEF RowsInv, Longer
  <2>5. p \in Seq(RowCells) /\ Len(p) = b - a /\ \A i \in 1 .. b - a : p[i] = rows[a + i]
    BY SMTT(60), <2>2, <2>4, PartOf
  <2>6. q \in Seq(RowCells) /\ Len(q) = b - a /\ \A i \in 1 .. b - a : q[i] = rows'[a + i]
    BY SMTT(60), <2>2, <2>4, PartOf
  <2> HIDE DEF p, q
  <2>7. \A i \in 1 .. b - a : rows'[a + i] = rows[a + i]
    <3>1. \A i \in 1 .. b - a : a + i \in 1 .. Len(rows)
      BY SMTT(60), <2>2, <2>4
    <3>2. QED BY <3>1 DEF Longer
  <2>8. p = q
    BY ZenonT(60), <2>5, <2>6, <2>7, SameSeq
  <2>9. Part(k) = p /\ Part(k)' = q
    BY <2>2, <2>3 DEF Part, p, q
  <2>10. QED BY <2>2, <2>3, <2>8, <2>9 DEF Bytes
<1>4. QED BY <1>2, <1>3

(* A record joins those that wait.                                         *)
LEMMA RowsWait ==
  ASSUME RowsInv, Longer(rows, rows'), Len(rows') <= Records, UNCHANGED <<pages, dataLen>>,
         pending' = Rest(rows', Upto(Len(pages))), Len(pending') < PageSize
  PROVE  RowsInv'
<1>1. /\ \A k \in 0 .. Len(pages) : Edge(k)' = Edge(k) /\ Upto(k)' = Upto(k)
      /\ \A k \in 1 .. Len(pages) : Bytes(k)' = Bytes(k)
  BY PageKept
<1>2. Len(pages) \in Nat /\ Len(rows) \in Nat /\ Len(rows') \in Nat /\ Len(pages) \in 0 .. Len(pages)
  BY PagesAre DEF Longer
<1>3. rows' \in Seq(RowCells) /\ Len(rows') <= Records /\ pages' \in Seq(PageMetas)
  BY DEF RowsInv, Longer
<1>4. \A k \in 1 .. Len(pages') :
        /\ pages'[k].index = k - 1 /\ pages'[k].start = Upto(k - 1)' /\ pages'[k].at = Edge(k - 1)'
        /\ pages'[k].count \in 1 .. PageSize /\ Upto(k)' <= Len(rows')
        /\ pages'[k].len = Len(Bytes(k)')
  <2> SUFFICES ASSUME NEW k \in 1 .. Len(pages)
               PROVE  /\ pages[k].index = k - 1 /\ pages[k].start = Upto(k - 1)' /\ pages[k].at = Edge(k - 1)'
                      /\ pages[k].count \in 1 .. PageSize /\ Upto(k)' <= Len(rows')
                      /\ pages[k].len = Len(Bytes(k)')
    OBVIOUS
  <2>1. k - 1 \in 0 .. Len(pages) /\ k \in 0 .. Len(pages)
    BY <1>2
  <2>2. /\ pages[k].index = k - 1 /\ pages[k].start = Upto(k - 1) /\ pages[k].at = Edge(k - 1)
        /\ pages[k].count \in 1 .. PageSize /\ Upto(k) <= Len(rows)
        /\ pages[k].len = Len(Bytes(k))
    BY DEF RowsInv
  <2>3. Upto(k) \in Nat
    BY <2>1, PagesAre
  <2>4. Upto(k)' <= Len(rows')
    BY <1>1, <1>2, <2>1, <2>2, <2>3 DEF Longer
  <2>5. QED BY <1>1, <2>1, <2>2, <2>4
<1>5. Edge(Len(pages))' = Edge(Len(pages)) /\ Upto(Len(pages))' = Upto(Len(pages))
  BY DEF Edge, Upto, DataStart
<1>6. /\ pending' = SubSeq(rows', Upto(Len(pages))' + 1, Len(rows')) /\ Len(pending') < PageSize
      /\ dataLen' \in Nat /\ Edge(Len(pages))' = DataStart + dataLen'
  <2>1. Edge(Len(pages)) = DataStart + dataLen /\ dataLen \in Nat
    BY DEF RowsInv
  <2>2. QED BY <1>5, <2>1 DEF Rest
<1>7. QED BY <1>3, <1>4, <1>6 DEF RowsInv, DataStart

(* flush_page makes a page of all that wait.                               *)
LEMMA PageMade ==
  ASSUME RowsInv, NEW n \in Nat, n = Len(pages), Longer(rows, rows'), Len(rows') <= Records,
         NEW recs, recs = Rest(rows', Upto(n)), Len(recs) \in 1 .. PageSize,
         pages' = Append(pages, Meta(recs, Len(rows'))),
         dataLen' = dataLen + Len(PageOf(recs, Len(rows'))), pending' = << >>
  PROVE  /\ RowsInv' /\ Len(pages') = n + 1
         /\ Bytes(n + 1)' = PageOf(recs, Len(rows')) /\ IsSeq(PageOf(recs, Len(rows')))
         /\ \A k \in 0 .. n : Edge(k)' = Edge(k)
         /\ \A k \in 1 .. n : Bytes(k)' = Bytes(k)
         /\ Edge(n + 1)' = Edge(n) + Len(PageOf(recs, Len(rows')))
<1> DEFINE meta == Meta(recs, Len(rows'))
           page == PageOf(recs, Len(rows'))
<1>1. n = Len(pages) /\ n \in 0 .. n
  OBVIOUS
<1>2. PICK u \in Nat, e \in Nat, t \in Nat :
        /\ u = Upto(n) /\ e = Edge(n) /\ t = Len(rows') /\ u <= t
        /\ e = DataStart + dataLen /\ dataLen \in Nat
  <2>1. Upto(n) \in Nat /\ Edge(n) \in Nat /\ Upto(n) <= Len(rows) /\ Len(rows) \in Nat
    BY <1>1, PagesAre
  <2>2. Len(rows') \in Nat /\ Len(rows) <= Len(rows')
    BY DEF Longer
  <2>3. Edge(n) = DataStart + dataLen /\ dataLen \in Nat
    BY <1>1 DEF RowsInv
  <2>4. QED BY <2>1, <2>2, <2>3
<1>3. rows' \in Seq(RowCells)
  BY DEF Longer
<1>4. recs \in Seq(RowCells) /\ Len(recs) = t - u /\ t - u >= 1 /\ t - u \in 1 .. PageSize
  <2> DEFINE p == SubSeq(rows', u + 1, t)
             new == rows'
  <2>1. recs = p
    BY <1>1, <1>2 DEF Rest
  <2>2. p \in Seq(RowCells) /\ Len(p) = t - u
    <3>1. p = SubSeq(new, u + 1, t) /\ new \in Seq(RowCells) /\ t <= Len(new) /\ u <= t
      BY <1>2, <1>3
    <3> HIDE DEF p, new
    <3>2. QED BY SMTT(60), <3>1, PartOf
  <2> HIDE DEF p
  <2>3. t - u \in 1 .. PageSize
    BY <2>1, <2>2
  <2>4. QED BY <1>2, <2>1, <2>2, <2>3
<1>5. page = EncodePage(n, u, recs, Sigils)
  <2>1. t - Len(recs) = u
    BY <1>2, <1>4
  <2>2. QED BY <1>1, <1>2, <2>1 DEF PageOf
<1>6. PICK l \in Nat : l = Len(page) /\ IsSeq(page)
  <2>1. Len(Sigils) \in Nat \ {0} /\ recs \in Seq([1 .. Len(Sigils) -> Cells]) /\ recs # << >>
    BY <1>4, Params DEF RowCells
  <2>2. PICK at : PageLaid(page, at, u, recs, Sigils)
    BY <1>5, <2>1, Params, PageIs
  <2>3. IsSeq(page)
    BY <2>2 DEF PageLaid
  <2> HIDE DEF page
  <2>4. Len(page) \in Nat
    BY <2>3 DEF IsSeq
  <2>5. QED BY <2>3, <2>4
<1>7. meta = [index |-> n, start |-> u, count |-> t - u, at |-> e, len |-> l]
  <2>1. t - Len(recs) = u
    BY <1>2, <1>4
  <2>2. QED BY <1>1, <1>2, <1>4, <1>6, <2>1 DEF Meta
<1>8. /\ meta \in PageMetas /\ meta.index = n /\ meta.start = u /\ meta.count = t - u
      /\ meta.at = e /\ meta.len = l
  BY <1>2, <1>4, <1>7 DEF PageMetas
<1> HIDE DEF meta, page
<1>9. /\ pages' \in Seq(PageMetas) /\ Len(pages') = n + 1
      /\ pages'[n + 1] = meta /\ \A j \in 1 .. n : pages'[j] = pages[j]
  <2>1. pages \in Seq(PageMetas) /\ pages' = Append(pages, meta)
    BY DEF RowsInv, meta
  <2>2. QED BY <1>1, <1>8, <2>1
<1>10. /\ \A k \in 0 .. n : Edge(k)' = Edge(k) /\ Upto(k)' = Upto(k)
       /\ \A k \in 1 .. n : Bytes(k)' = Bytes(k)
  BY <1>1, <1>9, PageKept
<1>11. Edge(n + 1)' = e + l /\ Upto(n + 1)' = t
  <2>1. n + 1 # 0
    OBVIOUS
  <2>2. Edge(n + 1)' = pages'[n + 1].at + pages'[n + 1].len
        /\ Upto(n + 1)' = pages'[n + 1].start + pages'[n + 1].count
    BY <2>1 DEF Edge, Upto
  <2>3. u + (t - u) = t
    OBVIOUS
  <2>4. QED BY <1>8, <1>9, <2>2, <2>3
<1>12. Upto(n)' = u /\ Edge(n)' = e /\ (n + 1) - 1 = n
  <2>1. Upto(n)' = Upto(n) /\ Edge(n)' = Edge(n)
    BY <1>1, <1>10
  <2>2. Upto(n)' = u /\ Edge(n)' = e
    BY <1>2, <2>1, Zenon
  <2>3. (n + 1) - 1 = n
    OBVIOUS
  <2>4. QED BY <2>2, <2>3, Zenon
<1>13. Bytes(n + 1)' = page
  <2>1. Part(n + 1)' = recs
    BY <1>1, <1>2, <1>11, <1>12 DEF Part, Rest
  <2>2. QED BY <1>5, <1>12, <2>1 DEF Bytes
<1>14. \A k \in 1 .. n + 1 :
         /\ pages'[k].index = k - 1 /\ pages'[k].start = Upto(k - 1)' /\ pages'[k].at = Edge(k - 1)'
         /\ pages'[k].count \in 1 .. PageSize /\ Upto(k)' <= Len(rows')
         /\ pages'[k].len = Len(Bytes(k)')
  <2> SUFFICES ASSUME NEW k \in 1 .. n + 1
               PROVE  /\ pages'[k].index = k - 1 /\ pages'[k].start = Upto(k - 1)'
                      /\ pages'[k].at = Edge(k - 1)'
                      /\ pages'[k].count \in 1 .. PageSize /\ Upto(k)' <= Len(rows')
                      /\ pages'[k].len = Len(Bytes(k)')
    OBVIOUS
  <2>1. CASE k = n + 1
    <3>1. /\ pages'[n + 1].index = n /\ pages'[n + 1].start = u /\ pages'[n + 1].at = e
          /\ pages'[n + 1].count = t - u /\ pages'[n + 1].len = l
      BY <1>8, <1>9
    <3>2. t <= t /\ Len(page) = l
      BY <1>6
    <3>3. Upto(k)' = t /\ Len(Bytes(k)') = l /\ Upto(k - 1)' = u /\ Edge(k - 1)' = e /\ k - 1 = n
      BY <1>11, <1>12, <1>13, <2>1, <3>2
    <3>4. QED BY <1>2, <1>4, <2>1, <3>1, <3>2, <3>3
  <2>2. CASE k # n + 1
    <3>1. k \in 1 .. n /\ k - 1 \in 0 .. n /\ k \in 0 .. n
      BY <2>2
    <3>2. /\ pages[k].index = k - 1 /\ pages[k].start = Upto(k - 1) /\ pages[k].at = Edge(k - 1)
          /\ pages[k].count \in 1 .. PageSize /\ Upto(k) <= Len(rows)
          /\ pages[k].len = Len(Bytes(k))
      BY <1>1, <3>1 DEF RowsInv
    <3>3. Upto(k) \in Nat /\ Len(rows) \in Nat
      BY <1>1, <3>1, PagesAre
    <3>4. Upto(k) <= Len(rows')
      BY SMTT(60), <1>2, <3>2, <3>3 DEF Longer
    <3>5. QED BY <1>9, <1>10, <3>1, <3>2, <3>4
  <2>3. QED BY <2>1, <2>2
<1>15. pending' = SubSeq(rows', t + 1, t) /\ Len(pending') < PageSize
  <2>1. SubSeq(rows', t + 1, t) = << >>
    <3>1. SubSeq(rows', t + 1, t) \in Seq(RowCells) /\ Len(SubSeq(rows', t + 1, t)) = t - t
      BY <1>2, <1>3, PartOf
    <3>2. QED BY <3>1
  <2>2. Len(<< >>) = 0
    OBVIOUS
  <2>3. QED BY <2>1, <2>2, Params
<1>16. dataLen' \in Nat /\ e + l = DataStart + dataLen'
  <2>1. dataLen' = dataLen + l
    BY <1>6 DEF page
  <2>2. PICK a \in Nat, b \in Nat : a = DataStart /\ b = dataLen
    BY <1>2, Params
  <2>3. e = a + b /\ dataLen' = b + l
    BY <1>2, <2>1, <2>2
  <2>4. b + l \in Nat /\ (a + b) + l = a + (b + l)
    OBVIOUS
  <2>5. QED BY <2>2, <2>3, <2>4
<1>17. Edge(Len(pages))' = e + l /\ Upto(Len(pages))' = t
  <2>1. n + 1 # 0
    OBVIOUS
  <2>2. Edge(n + 1)' = pages'[n + 1].at + pages'[n + 1].len
        /\ Upto(n + 1)' = pages'[n + 1].start + pages'[n + 1].count
    BY <2>1 DEF Edge, Upto
  <2>3. Edge(Len(pages))' = pages'[n + 1].at + pages'[n + 1].len
        /\ Upto(Len(pages))' = pages'[n + 1].start + pages'[n + 1].count
    BY <1>9, <2>1 DEF Edge, Upto
  <2>4. QED BY <1>11, <2>2, <2>3
<1>18. RowsInv'
  <2>1. \A k \in 1 .. Len(pages') :
         /\ pages'[k].index = k - 1 /\ pages'[k].start = Upto(k - 1)' /\ pages'[k].at = Edge(k - 1)'
         /\ pages'[k].count \in 1 .. PageSize /\ Upto(k)' <= Len(rows')
         /\ pages'[k].len = Len(Bytes(k)')
    BY <1>9, <1>14
  <2>2. pending' = SubSeq(rows', Upto(Len(pages))' + 1, Len(rows')) /\ Len(pending') < PageSize
    BY <1>2, <1>15, <1>17
  <2>3. dataLen' \in Nat /\ Edge(Len(pages))' = DataStart + dataLen'
    BY <1>16, <1>17
  <2>4. QED BY <1>3, <1>9, <2>1, <2>2, <2>3 DEF RowsInv, DataStart
<1>19. Edge(n + 1)' = Edge(n) + Len(page)
  BY <1>2, <1>6, <1>11
<1>20. QED BY <1>6, <1>9, <1>10, <1>13, <1>18, <1>19 DEF page

(* The pages end one behind the other.                                     *)
LEMMA EdgesGrow ==
  ASSUME RowsInv
  PROVE  \A j \in 0 .. Len(pages), k \in 0 .. Len(pages) :
           /\ Edge(j) \in Nat /\ Edge(k) \in Nat /\ (j < k => Edge(j) < Edge(k)) /\ (j <= k => Edge(j) <= Edge(k))
<1> DEFINE n == Len(pages)
           E == [k \in 0 .. n |-> Edge(k)]
<1>1. n \in Nat
  BY PagesAre
<1>2. E \in [0 .. n -> Nat] /\ \A k \in 0 .. n : E[k] = Edge(k) /\ Edge(k) \in Nat
  BY PagesAre
<1> HIDE DEF E
<1>3. \A k \in 1 .. n : E[k - 1] < E[k]
  <2> SUFFICES ASSUME NEW k \in 1 .. n
               PROVE  E[k - 1] < E[k]
    OBVIOUS
  <2>1. k - 1 \in 0 .. n /\ k \in 0 .. n
    BY <1>1
  <2>2. PICK a \in Nat, b \in Nat, l \in Nat : a = Edge(k - 1) /\ b = Edge(k) /\ l = Len(Bytes(k)) /\ b = a + l
    BY <2>1, PagesAre
  <2>3. l >= 7
    BY <2>2, PageMadeOf
  <2>4. a < b
    BY <2>2, <2>3
  <2>5. QED BY <1>2, <2>1, <2>2, <2>4
<1>4. \A j \in 0 .. n, k \in 0 .. n : j < k => E[j] < E[k]
  BY <1>1, <1>2, <1>3, Growing
<1>5. ASSUME NEW j \in 0 .. n, NEW k \in 0 .. n
      PROVE  /\ Edge(j) \in Nat /\ Edge(k) \in Nat /\ (j < k => Edge(j) < Edge(k))
             /\ (j <= k => Edge(j) <= Edge(k))
  <2>1. Edge(j) \in Nat /\ Edge(k) \in Nat /\ (j < k => Edge(j) < Edge(k))
    BY <1>2, <1>4
  <2>2. ASSUME j <= k PROVE Edge(j) <= Edge(k)
    <3>1. j = k \/ j < k
      BY <1>1, <2>2
    <3>2. QED BY <2>1, <3>1
  <2>3. QED BY <2>1, <2>2
<1>6. QED BY <1>5

(* How much of the file is pages.                                          *)
LEMMA WrittenIs ==
  ASSUME RowsInv, PhaseInv
  PROVE  /\ Written \in 0 .. Len(pages) /\ Written \in Nat /\ (pc = "ready" => Written = Len(pages))
         /\ (pc = "ready" => clean)
<1>1. Len(pages) \in Nat /\ (clean = TRUE \/ clean = FALSE) /\ (pc = "ready" => clean = TRUE)
  BY PagesAre DEF PhaseInv
<1>2. clean = FALSE => Len(pages) # 0
  <2>1. pages \in Seq(PageMetas)
    BY DEF RowsInv
  <2>2. QED BY <2>1 DEF PhaseInv
<1>3. QED BY <1>1, <1>2 DEF Written

(* The file and the write in progress.                                     *)
LEMMA WholeIs ==
  ASSUME FileInv
  PROVE  /\ IsSeq(Whole) /\ Len(file) \in Nat /\ Len(todo) \in Nat /\ Len(Whole) = Len(file) + Len(todo)
         /\ \A i \in 1 .. Len(file) : Whole[i] = file[i]
<1>1. IsSeq(file) /\ IsSeq(todo)
  BY DEF FileInv
<1>2. /\ IsSeq(file \o todo) /\ Len(file) \in Nat /\ Len(todo) \in Nat
      /\ Len(file \o todo) = Len(file) + Len(todo)
      /\ \A i \in 1 .. Len(file) : (file \o todo)[i] = file[i]
  BY <1>1, Joined
<1>3. QED BY <1>2 DEF Whole

(* The reader's pages stay where they are.                                 *)
LEMMA SeenKept ==
  ASSUME RowsInv, PhaseInv, SeenInv, seen' = seen, Len(file) \in Nat, Len(file') \in Nat,
         Len(file) <= Len(file'), Written' \in Nat, Written <= Written',
         \A k \in 0 .. Len(pages) : Edge(k)' = Edge(k)
  PROVE  SeenInv'
<1>1. PICK m \in 0 .. Written : seen = Given(m) /\ (m # 0 => Edge(m) <= Len(file))
  BY DEF SeenInv
<1>2. Written \in 0 .. Len(pages) /\ Written \in Nat /\ Len(pages) \in Nat
  BY WrittenIs, PagesAre
<1>3. m \in 0 .. Len(pages) /\ m \in Nat /\ m \in 0 .. Written'
  BY <1>2
<1>4. Given(m)' = Given(m)
  <2>1. \A i \in 1 .. m : i - 1 \in 0 .. Len(pages)
    BY <1>2, <1>3
  <2>2. \A i \in 1 .. m : Edge(i - 1)' = Edge(i - 1)
    BY <2>1
  <2>3. Given(m)' = [i \in 1 .. m |-> Edge(i - 1)']
    BY DEF Given
  <2>4. QED BY <2>2, <2>3 DEF Given
<1>5. m # 0 => Edge(m)' <= Len(file')
  <2> SUFFICES ASSUME m # 0 PROVE Edge(m)' <= Len(file')
    OBVIOUS
  <2>1. PICK e \in Nat : e = Edge(m)
    BY <1>3, PagesAre
  <2>2. Edge(m)' = e
    BY <1>3, <2>1
  <2>3. QED BY <1>1, <2>1, <2>2
<1>6. QED BY <1>1, <1>3, <1>4, <1>5 DEF SeenInv

(* What is to be written comes behind what is in the file, and the pages   *)
(* there stay.                                                             *)
LEMMA Grown ==
  ASSUME RowsInv, FileInv, PhaseInv, pc = "ready", todo = << >>, NEW n \in Nat, n = Len(pages),
         NEW more, IsSeq(more), file' = file, todo' = more
  PROVE  /\ IsSeq(file)' /\ IsSeq(todo)' /\ Len(file) = Edge(n) /\ Len(more) \in Nat
         /\ Len(Whole') = Edge(n) + Len(more)
         /\ \A j \in 1 .. Len(more) : Whole'[Edge(n) + j] = more[j]
         /\ \A i \in 1 .. DataStart : Whole'[i] = Header[i]
         /\ \A k \in 1 .. n : \A j \in 1 .. Len(Bytes(k)) : Whole'[Edge(k - 1) + j] = Bytes(k)[j]
<1>1. Written = n
  BY WrittenIs
<1>2. PICK e \in Nat : e = Edge(n)
  <2>1. n \in 0 .. Len(pages)
    OBVIOUS
  <2>2. QED BY <2>1, PagesAre
<1>3. Len(file) \in Nat /\ Len(Whole) = Len(file) /\ \A i \in 1 .. Len(file) : Whole[i] = file[i]
  <2>1. Len(todo) = 0
    OBVIOUS
  <2>2. QED BY <2>1, WholeIs
<1>4. Len(file) = e
  BY <1>1, <1>2, <1>3 DEF FileInv
<1>5. IsSeq(file)
  BY DEF FileInv
<1>6. /\ Len(more) \in Nat /\ Len(file \o more) = Len(file) + Len(more)
      /\ \A i \in 1 .. Len(file) : (file \o more)[i] = file[i]
      /\ \A i \in 1 .. Len(more) : (file \o more)[Len(file) + i] = more[i]
  BY <1>5, Joined
<1> DEFINE w == Whole'
<1>7. w = file \o more
  BY DEF Whole
<1>8. /\ Len(w) = e + Len(more) /\ \A i \in 1 .. e : w[i] = Whole[i]
      /\ \A i \in 1 .. Len(more) : w[e + i] = more[i]
  BY <1>3, <1>4, <1>6, <1>7
<1> HIDE DEF w
<1>9. \A i \in 1 .. DataStart : w[i] = Header[i]
  <2>1. DataStart <= e /\ DataStart \in Nat
    <3>1. n \in 0 .. Len(pages)
      OBVIOUS
    <3>2. QED BY <1>2, <3>1, EdgesEven, Params
  <2>2. \A i \in 1 .. DataStart : i \in 1 .. e
    BY <2>1
  <2>3. QED BY <1>8, <2>2 DEF FileInv
<1>10. ASSUME NEW k \in 1 .. n, NEW j \in 1 .. Len(Bytes(k))
       PROVE  w[Edge(k - 1) + j] = Bytes(k)[j]
  <2>1. k - 1 \in 0 .. Len(pages) /\ k \in 0 .. Len(pages) /\ n \in 0 .. Len(pages) /\ k \in 1 .. Len(pages) /\ k <= n
    OBVIOUS
  <2>2. PICK a \in Nat, b \in Nat, l \in Nat :
          a = Edge(k - 1) /\ b = Edge(k) /\ l = Len(Bytes(k)) /\ b = a + l /\ b <= e
    <3>1. /\ Edge(k - 1) \in Nat /\ Edge(k) \in Nat /\ Len(Bytes(k)) \in Nat
          /\ Edge(k) = Edge(k - 1) + Len(Bytes(k))
      BY <2>1, PagesAre
    <3>2. Edge(k) <= Edge(n)
      BY <2>1, EdgesGrow
    <3>3. QED BY <1>2, <3>1, <3>2
  <2>3. j \in 1 .. l /\ a + j \in 1 .. e
    BY SMTT(60), <2>2
  <2>4. w[a + j] = Whole[a + j]
    BY <1>8, <2>3
  <2>5. Whole[Edge(k - 1) + j] = Bytes(k)[j]
    BY <1>1 DEF FileInv
  <2>6. QED BY <2>2, <2>4, <2>5
<1>11. IsSeq(file)' /\ IsSeq(todo)'
  BY <1>5 DEF IsSeq
<1>12. QED BY <1>2, <1>4, <1>6, <1>8, <1>9, <1>10, <1>11 DEF w

(* The file as it is stays, with all its pages.                            *)
LEMMA FileKept ==
  ASSUME RowsInv, FileInv, PhaseInv, pc = "ready", UNCHANGED <<pages, clean, pc>>, Whole' = Whole,
         IsSeq(file)', IsSeq(todo)', Longer(rows, rows')
  PROVE  FileInv'
<1>1. /\ \A k \in 0 .. Len(pages) : Edge(k)' = Edge(k)
      /\ \A k \in 1 .. Len(pages) : Bytes(k)' = Bytes(k)
  BY PageKept
<1>2. Written' = Written /\ Written \in 0 .. Len(pages) /\ Len(pages) \in Nat
  BY WrittenIs, PagesAre DEF Written
<1>3. Edge(Written)' = Edge(Written)
  BY <1>2 DEF Edge, DataStart
<1>4. Len(Whole') = Edge(Written)' + 0
  <2>1. Len(Whole) = Edge(Written) + 0
    BY DEF FileInv
  <2>2. QED BY <1>3, <2>1
<1>5. \A k \in 1 .. Written' : \A j \in 1 .. Len(Bytes(k)') : Whole'[Edge(k - 1)' + j] = Bytes(k)'[j]
  <2> SUFFICES ASSUME NEW k \in 1 .. Written
               PROVE  \A j \in 1 .. Len(Bytes(k)') : Whole[Edge(k - 1)' + j] = Bytes(k)'[j]
    BY <1>2
  <2>1. k - 1 \in 0 .. Len(pages) /\ k \in 1 .. Len(pages)
    BY <1>2
  <2>2. Edge(k - 1)' = Edge(k - 1) /\ Bytes(k)' = Bytes(k)
    BY <1>1, <2>1
  <2>3. \A j \in 1 .. Len(Bytes(k)) : Whole[Edge(k - 1) + j] = Bytes(k)[j]
    BY DEF FileInv
  <2>4. QED BY <2>2, <2>3
<1>6. \A i \in 1 .. DataStart : Whole'[i] = Header[i]
  BY DEF FileInv
<1>7. pc' = "ready"
  OBVIOUS
<1> HIDE DEF FileInv
<1>8. QED BY <1>4, <1>5, <1>6, <1>7 DEF FileInv, DataStart, Header

(* The invariant holds of the empty file.                                  *)
LEMMA PaxInitial == Init => PaxInv
<1> SUFFICES ASSUME Init PROVE PaxInv
  OBVIOUS
<1>1. /\ rows = << >> /\ pending = << >> /\ pages = << >> /\ dataLen = 0 /\ file = << >>
      /\ todo = Header /\ pc = "ready" /\ clean = TRUE /\ seen = << >>
  BY DEF Init
<1>2. Edge(Len(pages)) = DataStart /\ Upto(Len(pages)) = 0 /\ Edge(0) = DataStart
  BY <1>1 DEF Edge, Upto
<1>3. RowsInv
  <2>1. rows \in Seq(RowCells) /\ pages \in Seq(PageMetas) /\ Len(rows) = 0 /\ Len(pages) = 0
    BY <1>1
  <2>2. SubSeq(rows, 0 + 1, 0) = << >> /\ Len(pending) = 0
    BY <1>1
  <2>3. pending = SubSeq(rows, Upto(Len(pages)) + 1, Len(rows))
    BY <1>1, <1>2, <2>1, <2>2
  <2>4. dataLen \in Nat /\ Edge(Len(pages)) = DataStart + dataLen
    BY <1>1, <1>2, Params
  <2>5. Len(rows) <= Records /\ Len(pending) < PageSize
    BY <2>1, <2>2, Params
  <2>6. \A k : k \notin 1 .. Len(pages)
    BY <2>1
  <2>7. QED BY <2>1, <2>3, <2>4, <2>5, <2>6 DEF RowsInv
<1>4. PhaseInv
  BY <1>1 DEF PhaseInv
<1>5. Written = 0
  BY <1>1 DEF Written
<1>6. FileInv
  <2>1. IsSeq(file)
    <3>1. << >> \in Seq(Nat)
      OBVIOUS
    <3>2. QED BY <1>1, <3>1 DEF IsSeq
  <2>2. IsSeq(todo) /\ Len(todo) = DataStart
    BY <1>1, HeaderIs
  <2>3. /\ Len(file \o todo) = Len(file) + Len(todo)
        /\ \A i \in 1 .. Len(todo) : (file \o todo)[Len(file) + i] = todo[i]
    <3>1. IsSeq(file) /\ IsSeq(todo)
      BY <2>1, <2>2
    <3>2. QED BY <3>1, Joined
  <2>4. Len(file) = 0 /\ DataStart \in Nat
    BY <1>1, Params
  <2>5. Len(Whole) = DataStart /\ \A i \in 1 .. DataStart : Whole[i] = Header[i]
    BY <1>1, <2>2, <2>3, <2>4 DEF Whole
  <2>6. \A k : k \notin 1 .. Written
    BY <1>5
  <2>7. QED BY <1>1, <1>2, <1>5, <2>1, <2>2, <2>4, <2>5, <2>6 DEF FileInv
<1>7. SeenInv
  <2>1. Given(0) = << >>
    BY DEF Given
  <2>2. QED BY <1>1, <1>5, <2>1 DEF SeenInv
<1>8. QED BY <1>3, <1>4, <1>6, <1>7 DEF PaxInv

(* A word more is in the file.                                             *)
LEMMA WritePartKeeps == PaxInv /\ WritePart => PaxInv'
<1> SUFFICES ASSUME PaxInv, WritePart PROVE PaxInv'
  OBVIOUS
<1>1. /\ todo # << >> /\ file' = Append(file, Head(todo)) /\ todo' = Tail(todo)
      /\ UNCHANGED <<rows, pending, pages, dataLen, pc, clean, seen>>
  BY DEF WritePart
<1>2. /\ RowsInv /\ FileInv /\ PhaseInv /\ SeenInv
  BY DEF PaxInv
<1>3. /\ IsSeq(file)' /\ IsSeq(todo)' /\ Len(file') = Len(file) + 1 /\ Whole' = Whole
  <2>1. IsSeq(file) /\ IsSeq(todo)
    BY <1>2 DEF FileInv
  <2>2. /\ IsSeq(Append(file, Head(todo))) /\ IsSeq(Tail(todo))
        /\ Len(Append(file, Head(todo))) = Len(file) + 1
        /\ Append(file, Head(todo)) \o Tail(todo) = file \o todo
    BY <1>1, <2>1, PartWritten
  <2>3. Whole' = file' \o todo'
    BY DEF Whole
  <2>4. IsSeq(file') /\ IsSeq(todo')
    BY <1>1, <2>2
  <2>5. IsSeq(file)' /\ IsSeq(todo)'
    BY <2>4 DEF IsSeq
  <2>6. QED BY <1>1, <2>2, <2>3, <2>5 DEF Whole
<1>4. /\ \A k : Edge(k)' = Edge(k) /\ Upto(k)' = Upto(k) /\ Bytes(k)' = Bytes(k)
      /\ Written' = Written /\ TheTail' = TheTail /\ DataStart' = DataStart
  BY <1>1 DEF Edge, Upto, Bytes, Part, Written, TheTail, DataStart
<1>5. RowsInv'
  <2>1. Edge(Len(pages))' = Edge(Len(pages)) /\ Upto(Len(pages))' = Upto(Len(pages))
    BY <1>1 DEF Edge, Upto, DataStart
  <2>2. QED BY <1>1, <1>2, <1>4, <2>1 DEF RowsInv, RowCells, PageMetas
<1>6. Edge(Written)' = Edge(Written)
  BY <1>1, <1>4 DEF Edge, DataStart
<1>7. FileInv'
  <2>1. /\ Len(Whole') = Edge(Written)' + IF pc' = "end" THEN Len(TheTail') ELSE 0
        /\ \A i \in 1 .. DataStart : Whole'[i] = Header[i]
    BY <1>1, <1>2, <1>3, <1>4, <1>6 DEF FileInv
  <2>2. \A k \in 1 .. Written' : \A j \in 1 .. Len(Bytes(k)') : Whole'[Edge(k - 1)' + j] = Bytes(k)'[j]
    BY <1>2, <1>3, <1>4 DEF FileInv
  <2>3. pc' = "end" => \A j \in 1 .. Len(TheTail') : Whole'[Edge(Written)' + j] = TheTail'[j]
    BY <1>1, <1>2, <1>3, <1>4, <1>6 DEF FileInv
  <2>4. QED BY <1>3, <2>1, <2>2, <2>3 DEF FileInv, DataStart, Header
<1>8. Len(file) \in Nat /\ Len(file') \in Nat /\ Len(file) <= Len(file')
  BY <1>2, <1>3, WholeIs
<1>9. PhaseInv'
  <2>1. pc = "end" => Edge(Written)' <= Len(file')
    <3>1. SUFFICES ASSUME pc = "end" PROVE Edge(Written)' <= Len(file')
      OBVIOUS
    <3>2. Edge(Written) \in Nat
      BY <1>2, WrittenIs, PagesAre
    <3>3. Edge(Written) <= Len(file)
      BY <1>2, <3>1 DEF PhaseInv
    <3>4. QED BY <1>6, <1>8, <3>2, <3>3
  <2>2. QED BY <1>1, <1>2, <2>1 DEF PhaseInv
<1>10. SeenInv'
  <2>1. Written \in Nat /\ Written <= Written
    BY <1>2, WrittenIs
  <2>2. QED BY <1>1, <1>2, <1>4, <1>8, <2>1, SeenKept
<1>11. QED BY <1>5, <1>7, <1>9, <1>10 DEF PaxInv

(* flush_page puts a page behind the others.                               *)
LEMMA FlushKeeps ==
  ASSUME PaxInv, pc = "ready", todo = << >>, Longer(rows, rows'), Len(rows') <= Records,
         NEW recs, recs = Rest(rows', Upto(Len(pages))), Len(recs) \in 1 .. PageSize,
         Flush(recs, Len(rows')), UNCHANGED <<file, pc, clean, seen>>
  PROVE  PaxInv'
<1>1. /\ RowsInv /\ FileInv /\ PhaseInv /\ SeenInv
  BY DEF PaxInv
<1>2. PICK n \in Nat : n = Len(pages)
  BY <1>1, PagesAre
<1> DEFINE page == PageOf(recs, Len(rows'))
<1>3. /\ todo' = page /\ pages' = Append(pages, Meta(recs, Len(rows')))
      /\ dataLen' = dataLen + Len(page) /\ pending' = << >>
  BY DEF Flush
<1>4. /\ RowsInv' /\ Len(pages') = n + 1 /\ Bytes(n + 1)' = page /\ IsSeq(page)
      /\ \A k \in 0 .. n : Edge(k)' = Edge(k)
      /\ \A k \in 1 .. n : Bytes(k)' = Bytes(k)
      /\ Edge(n + 1)' = Edge(n) + Len(page)
  BY <1>1, <1>2, <1>3, PageMade
<1> HIDE DEF page
<1>5. /\ IsSeq(file)' /\ IsSeq(todo)' /\ Len(file) = Edge(n) /\ Len(page) \in Nat
      /\ Len(Whole') = Edge(n) + Len(page)
      /\ \A j \in 1 .. Len(page) : Whole'[Edge(n) + j] = page[j]
      /\ \A i \in 1 .. DataStart : Whole'[i] = Header[i]
      /\ \A k \in 1 .. n : \A j \in 1 .. Len(Bytes(k)) : Whole'[Edge(k - 1) + j] = Bytes(k)[j]
  BY SMTT(60), <1>1, <1>2, <1>3, <1>4, Grown
<1>6. clean /\ Written = n /\ Written' = n + 1
  <2>1. clean
    BY <1>1, WrittenIs
  <2>2. QED BY <1>1, <1>2, <1>4, <2>1, WrittenIs DEF Written
<1>7. Edge(Written)' = Edge(n) + Len(page)
  <2>1. Edge(Written)' = Edge(n + 1)'
    BY <1>6 DEF Edge
  <2>2. QED BY <1>4, <2>1
<1>8. \A k \in 1 .. Written' : \A j \in 1 .. Len(Bytes(k)') : Whole'[Edge(k - 1)' + j] = Bytes(k)'[j]
  <2> SUFFICES ASSUME NEW k \in 1 .. n + 1
               PROVE  \A j \in 1 .. Len(Bytes(k)') : Whole'[Edge(k - 1)' + j] = Bytes(k)'[j]
    BY <1>6
  <2>1. CASE k = n + 1
    <3>1. k - 1 = n /\ n \in 0 .. n
      BY <2>1
    <3>2. Edge(k - 1)' = Edge(n) /\ Bytes(k)' = page
      BY <1>4, <2>1, <3>1
    <3>3. QED BY <1>5, <3>2
  <2>2. CASE k # n + 1
    <3>1. k \in 1 .. n /\ k - 1 \in 0 .. n
      BY <2>2
    <3>2. Edge(k - 1)' = Edge(k - 1) /\ Bytes(k)' = Bytes(k)
      BY <1>4, <3>1
    <3>3. QED BY <1>5, <3>1, <3>2
  <2>3. QED BY <2>1, <2>2
<1>9. FileInv'
  <2>1. pc' # "end"
    OBVIOUS
  <2>2. Len(Whole') = Edge(Written)' + 0
    <3>1. Edge(n) \in Nat
      <4>1. n \in 0 .. Len(pages)
        BY <1>2
      <4>2. QED BY <1>1, <4>1, PagesAre
    <3>2. QED BY <1>5, <1>7, <3>1
  <2>3. QED BY <1>5, <1>8, <2>1, <2>2 DEF FileInv, DataStart, Header
<1>10. PhaseInv'
  <2>1. pc' = "ready" /\ clean' = TRUE
    BY <1>1, <1>6 DEF PhaseInv
  <2>2. QED BY <2>1 DEF PhaseInv
<1>11. SeenInv'
  <2>1. Written' \in Nat /\ Written <= Written' /\ Len(file) \in Nat /\ Len(file') \in Nat /\ Len(file) <= Len(file')
    BY <1>1, <1>6, WholeIs
  <2>2. QED BY <1>1, <1>2, <1>4, <2>1, SeenKept
<1>12. QED BY <1>4, <1>9, <1>10, <1>11 DEF PaxInv

(* A record comes behind the others; with it a page may be full.           *)
LEMMA PushRecordKeeps == PaxInv /\ PushRecord => PaxInv'
<1> SUFFICES ASSUME PaxInv, PushRecord PROVE PaxInv'
  OBVIOUS
<1>1. /\ RowsInv /\ FileInv /\ PhaseInv /\ SeenInv
  BY DEF PaxInv
<1>2. PICK t \in Nat, n \in Nat, u \in Nat :
        t = Len(rows) /\ n = Len(pages) /\ u = Upto(Len(pages)) /\ u <= t
  <2>1. Len(pages) \in 0 .. Len(pages)
    BY <1>1, PagesAre
  <2>2. QED BY <1>1, <2>1, PagesAre
<1>3. PICK r \in Rows :
        /\ rows' = Append(rows, RowOf(r, t))
        /\ IF Len(Append(pending, RowOf(r, t))) >= PageSize
           THEN Flush(Append(pending, RowOf(r, t)), t + 1)
           ELSE pending' = Append(pending, RowOf(r, t)) /\ UNCHANGED <<pages, dataLen, todo>>
  BY <1>2 DEF PushRecord, RowOf
<1>4. pc = "ready" /\ todo = << >> /\ t < Records /\ UNCHANGED <<file, pc, clean, seen>>
  BY <1>2 DEF PushRecord
<1> DEFINE row == RowOf(r, t)
           recs == Append(pending, row)
<1>5. row \in RowCells
  BY RowIs
<1> HIDE DEF row
<1>6. rows \in Seq(RowCells)
  BY <1>1 DEF RowsInv
<1>7. /\ rows' \in Seq(RowCells) /\ Len(rows') = t + 1 /\ rows'[t + 1] = row
      /\ \A i \in 1 .. t : rows'[i] = rows[i]
  <2>1. rows' = Append(rows, row)
    BY <1>3 DEF row
  <2>2. QED BY <1>2, <1>5, <1>6, <2>1
<1>8. Longer(rows, rows')
  BY <1>2, <1>7 DEF Longer
<1>9. t + 1 <= Records
  BY <1>4, Params
<1>10. /\ pending \in Seq(RowCells) /\ Len(pending) = t - u
       /\ \A i \in 1 .. t - u : pending[i] = rows[u + i]
  <2>1. pending = SubSeq(rows, u + 1, t)
    BY <1>1, <1>2 DEF RowsInv
  <2>2. /\ SubSeq(rows, u + 1, t) \in Seq(RowCells) /\ Len(SubSeq(rows, u + 1, t)) = t - u
        /\ \A i \in 1 .. t - u : SubSeq(rows, u + 1, t)[i] = rows[u + i]
    BY SMTT(60), <1>2, <1>6, PartOf
  <2>3. QED BY <2>1, <2>2
<1>11. /\ recs \in Seq(RowCells) /\ Len(recs) = (t + 1) - u /\ recs[(t + 1) - u] = row
       /\ \A i \in 1 .. t - u : recs[i] = rows[u + i]
  <2> DEFINE l == t - u
  <2>1. l \in Nat /\ (t + 1) - u = l + 1
    BY <1>2
  <2>2. /\ pending \in Seq(RowCells) /\ Len(pending) = l /\ recs = Append(pending, row)
        /\ \A i \in 1 .. l : pending[i] = rows[u + i]
    BY <1>10
  <2> HIDE DEF l, recs
  <2>3. /\ recs \in Seq(RowCells) /\ Len(recs) = l + 1 /\ recs[l + 1] = row
        /\ \A i \in 1 .. l : recs[i] = pending[i]
    BY <1>5, <2>1, <2>2
  <2>4. QED BY <2>1, <2>2, <2>3 DEF l
<1> HIDE DEF recs
<1>12. recs = Rest(rows', u)
  <2> DEFINE q == SubSeq(rows', u + 1, t + 1)
             new == rows'
  <2>1. q \in Seq(RowCells) /\ Len(q) = (t + 1) - u /\ \A i \in 1 .. (t + 1) - u : q[i] = new[u + i]
    <3>1. q = SubSeq(new, u + 1, t + 1) /\ new \in Seq(RowCells) /\ t + 1 <= Len(new) /\ u <= t + 1
      BY <1>2, <1>7
    <3> HIDE DEF q, new
    <3>2. QED BY <3>1, PartOf
  <2> HIDE DEF q
  <2>2. \A i \in 1 .. (t + 1) - u : recs[i] = q[i]
    <3> SUFFICES ASSUME NEW i \in 1 .. (t + 1) - u PROVE recs[i] = q[i]
      OBVIOUS
    <3>1. CASE i = (t + 1) - u
      <4>1. u + i = t + 1
        BY <3>1
      <4>2. QED BY <1>7, <1>11, <2>1, <3>1, <4>1
    <3>2. CASE i # (t + 1) - u
      <4>1. i \in 1 .. t - u /\ u + i \in 1 .. t
        BY <3>2
      <4>2. QED BY <1>7, <1>11, <2>1, <4>1
    <3>3. QED BY <3>1, <3>2
  <2>3. recs = q
    BY <1>11, <2>1, <2>2, SameSeq
  <2>4. QED BY <1>7, <2>3 DEF Rest, q
<1>13. Len(pending) < PageSize /\ PageSize \in Nat
  BY <1>1, Params DEF RowsInv
<1>14. CASE Len(recs) >= PageSize
  <2>1. Len(recs) \in 1 .. PageSize
    BY <1>10, <1>11, <1>13, <1>2
  <2>2. Flush(recs, Len(rows'))
    BY <1>3, <1>7, <1>14 DEF recs, row
  <2>3. recs = Rest(rows', Upto(Len(pages))) /\ Len(rows') <= Records
    BY <1>2, <1>7, <1>9, <1>12
  <2>4. QED BY <1>4, <1>8, <2>1, <2>2, <2>3, FlushKeeps
<1>15. CASE ~(Len(recs) >= PageSize)
  <2>1. pending' = recs /\ UNCHANGED <<pages, dataLen, todo>>
    BY <1>3, <1>15 DEF recs, row
  <2>2. Len(recs) < PageSize
    BY <1>2, <1>11, <1>13, <1>15
  <2>3. RowsInv'
    <3>1. pending' = Rest(rows', Upto(Len(pages))) /\ Len(rows') <= Records /\ Len(pending') < PageSize
      BY <1>2, <1>7, <1>9, <1>12, <2>1, <2>2
    <3>2. QED BY <1>1, <1>8, <2>1, <3>1, RowsWait
  <2>4. FileInv'
    <3>1. Whole' = Whole
      BY <1>4, <2>1 DEF Whole
    <3>2. IsSeq(file)' /\ IsSeq(todo)'
      BY <1>1, <1>4, <2>1 DEF FileInv, IsSeq
    <3>3. QED BY <1>1, <1>4, <1>8, <2>1, <3>1, <3>2, FileKept
  <2>5. PhaseInv'
    BY <1>1, <1>4, <2>1 DEF PhaseInv
  <2>6. SeenInv'
    <3>1. \A k \in 0 .. Len(pages) : Edge(k)' = Edge(k)
      BY <1>1, <1>8, <2>1, PageKept
    <3>2. Written' = Written /\ Written \in Nat /\ Written <= Written
      BY <1>1, <1>4, <2>1, WrittenIs DEF Written
    <3>3. Len(file) \in Nat /\ Len(file') \in Nat /\ Len(file) <= Len(file')
      BY <1>1, <1>4, WholeIs
    <3>4. Written' \in Nat /\ Written <= Written'
      BY <3>2
    <3>5. QED BY <1>1, <1>4, <3>1, <3>3, <3>4, SeenKept
  <2>7. QED BY <2>3, <2>4, <2>5, <2>6 DEF PaxInv
<1>16. QED BY <1>14, <1>15

(* What waits becomes a page at any time.                                  *)
LEMMA FlushPendingKeeps == PaxInv /\ FlushPending => PaxInv'
<1> SUFFICES ASSUME PaxInv, FlushPending PROVE PaxInv'
  OBVIOUS
<1>1. RowsInv
  BY DEF PaxInv
<1>2. /\ pc = "ready" /\ todo = << >> /\ pending # << >> /\ Flush(pending, Len(rows))
      /\ UNCHANGED <<rows, file, pc, clean, seen>>
  BY DEF FlushPending
<1>3. /\ rows \in Seq(RowCells) /\ Len(rows) <= Records /\ Len(rows) \in Nat
      /\ pending = SubSeq(rows, Upto(Len(pages)) + 1, Len(rows)) /\ Len(pending) < PageSize
  BY <1>1, PagesAre DEF RowsInv
<1>4. pending = Rest(rows', Upto(Len(pages))) /\ Flush(pending, Len(rows')) /\ Len(rows') <= Records
  BY <1>2, <1>3 DEF Rest
<1>5. Longer(rows, rows')
  BY <1>2, <1>3 DEF Longer
<1>6. Len(pending) \in 1 .. PageSize
  <2>1. Len(pages) \in 0 .. Len(pages)
    BY <1>1, PagesAre
  <2>2. PICK u \in Nat, t \in Nat : u = Upto(Len(pages)) /\ t = Len(rows) /\ u <= t
    BY <1>1, <2>1, PagesAre
  <2>3. pending \in Seq(RowCells)
    BY <1>3, <2>2, PartOf
  <2>4. QED BY <1>2, <1>3, <2>3, Params
<1>7. QED BY <1>2, <1>4, <1>5, <1>6, FlushKeeps

(* Sealing puts the tail behind the pages, and keeps a page to itself.     *)
LEMMA SealKeeps == PaxInv /\ Seal => PaxInv'
<1> SUFFICES ASSUME PaxInv, Seal PROVE PaxInv'
  OBVIOUS
<1>1. /\ RowsInv /\ FileInv /\ PhaseInv /\ SeenInv
  BY DEF PaxInv
<1>2. PICK n \in Nat : n = Len(pages)
  BY <1>1, PagesAre
<1>3. /\ pc = "ready" /\ todo = << >> /\ Len(rows) = Records /\ pending' = << >> /\ pc' = "end"
      /\ UNCHANGED <<rows, file, seen>>
      /\ pages' = IF pending # << >> THEN Append(pages, Meta(pending, Len(rows))) ELSE pages
      /\ dataLen' = dataLen + IF pending # << >> THEN Len(PageOf(pending, Len(rows))) ELSE 0
      /\ todo' = PaxTail(pages', DataStart + dataLen', Len(rows), PageSize)
      /\ clean' = ~(pending # << >>)
  BY DEF Seal
<1>4. /\ rows \in Seq(RowCells) /\ Len(rows) <= Records /\ Len(rows) \in Nat
      /\ pending = SubSeq(rows, Upto(Len(pages)) + 1, Len(rows)) /\ Len(pending) < PageSize
      /\ dataLen \in Nat /\ pages \in Seq(PageMetas)
  BY <1>1, PagesAre DEF RowsInv
<1>5. Longer(rows, rows') /\ Len(rows') <= Records /\ rows' = rows
  BY <1>3, <1>4 DEF Longer
<1>6. pending = Rest(rows', Upto(n))
  BY <1>2, <1>4, <1>5 DEF Rest
<1>7. /\ RowsInv' /\ (\A k \in 0 .. n : Edge(k)' = Edge(k)) /\ (\A k \in 1 .. n : Bytes(k)' = Bytes(k))
      /\ Written' = n /\ clean' \in BOOLEAN /\ (clean' = FALSE => pages' # << >>)
      /\ pages' \in Seq(PageMetas)
  <2>1. CASE pending # << >>
    <3>1. Len(pending) \in 1 .. PageSize
      <4>1. Len(pages) \in 0 .. Len(pages)
        BY <1>1, PagesAre
      <4>2. PICK u \in Nat, t \in Nat : u = Upto(Len(pages)) /\ t = Len(rows) /\ u <= t
        BY <1>1, <4>1, PagesAre
      <4>3. pending \in Seq(RowCells)
        BY <1>4, <4>2, PartOf
      <4>4. QED BY <1>4, <2>1, <4>3, Params
    <3>2. /\ pages' = Append(pages, Meta(pending, Len(rows')))
          /\ dataLen' = dataLen + Len(PageOf(pending, Len(rows')))
      BY <1>3, <1>5, <2>1
    <3>3. /\ RowsInv' /\ Len(pages') = n + 1
          /\ \A k \in 0 .. n : Edge(k)' = Edge(k)
          /\ \A k \in 1 .. n : Bytes(k)' = Bytes(k)
      BY <1>1, <1>2, <1>3, <1>5, <1>6, <3>1, <3>2, PageMade
    <3>4. clean' = FALSE
      BY <1>3, <2>1
    <3>5. Written' = n
      BY <3>3, <3>4 DEF Written
    <3>6. pages' \in Seq(PageMetas)
      BY <3>3 DEF RowsInv, PageMetas
    <3>7. pages' # << >>
      BY <3>3, <3>6
    <3>8. QED BY <3>3, <3>4, <3>5, <3>6, <3>7
  <2>2. CASE pending = << >>
    <3>1. pages' = pages /\ dataLen' = dataLen /\ clean' = TRUE
      <4>1. pages' = pages
        BY <1>3, <2>2
      <4>2. dataLen' = dataLen + 0
        BY <1>3, <2>2
      <4>3. clean' = TRUE
        BY <1>3, <2>2, Zenon
      <4>4. QED BY <1>4, <4>1, <4>2, <4>3
    <3>2. pending' = Rest(rows', Upto(Len(pages))) /\ Len(pending') < PageSize
      BY <1>2, <1>3, <1>4, <1>6, <2>2
    <3>3. RowsInv'
      BY <1>1, <1>5, <3>1, <3>2, RowsWait
    <3>4. \A j \in 1 .. Len(pages) : pages'[j] = pages[j]
      BY <3>1
    <3>5. (\A k \in 0 .. n : Edge(k)' = Edge(k)) /\ (\A k \in 1 .. n : Bytes(k)' = Bytes(k))
      BY <1>1, <1>2, <1>5, <3>4, PageKept
    <3>6. Written' = n
      BY <1>2, <3>1 DEF Written
    <3>7. QED BY <1>4, <3>1, <3>3, <3>5, <3>6
  <2>3. QED BY <2>1, <2>2
<1>8. TheTail' = todo'
  BY <1>3, <1>5 DEF TheTail, DataStart
<1>9. IsSeq(todo')
  <2>1. PICK p \in Nat : p = Len(pages') /\ DOMAIN pages' = 1 .. p
    BY <1>7
  <2> DEFINE at == DataStart + dataLen'
             new == pages'
  <2>2. todo' = PaxTail(new, at, Len(rows), PageSize)
    BY <1>3
  <2>3. p = Len(new) /\ DOMAIN new = 1 .. p
    BY <2>1
  <2> HIDE DEF at, new
  <2>4. TailLaid(PaxTail(new, at, Len(rows), PageSize), p, new, at, Len(rows))
    BY <2>3, TailIs
  <2>5. QED BY <2>2, <2>4 DEF TailLaid
<1>10. /\ IsSeq(file)' /\ IsSeq(todo)' /\ Len(file) = Edge(n) /\ Len(todo') \in Nat
       /\ Len(Whole') = Edge(n) + Len(todo')
       /\ \A j \in 1 .. Len(todo') : Whole'[Edge(n) + j] = (todo')[j]
       /\ \A i \in 1 .. DataStart : Whole'[i] = Header[i]
       /\ \A k \in 1 .. n : \A j \in 1 .. Len(Bytes(k)) : Whole'[Edge(k - 1) + j] = Bytes(k)[j]
  BY <1>1, <1>2, <1>3, <1>9, Grown
<1>11. Edge(Written)' = Edge(n)
  <2>1. Edge(Written)' = Edge(n)'
    BY <1>7 DEF Edge
  <2>2. n \in 0 .. n
    OBVIOUS
  <2>3. QED BY <1>7, <2>1, <2>2
<1>12. FileInv'
  <2>1. Len(Whole') = Edge(Written)' + IF pc' = "end" THEN Len(TheTail') ELSE 0
    BY <1>3, <1>8, <1>10, <1>11
  <2>2. \A k \in 1 .. Written' : \A j \in 1 .. Len(Bytes(k)') : Whole'[Edge(k - 1)' + j] = Bytes(k)'[j]
    <3> SUFFICES ASSUME NEW k \in 1 .. n
                 PROVE  \A j \in 1 .. Len(Bytes(k)') : Whole'[Edge(k - 1)' + j] = Bytes(k)'[j]
      BY <1>7
    <3>1. k - 1 \in 0 .. n
      OBVIOUS
    <3>2. Edge(k - 1)' = Edge(k - 1) /\ Bytes(k)' = Bytes(k)
      BY <1>7, <3>1
    <3>3. QED BY <1>10, <3>2
  <2>3. \A j \in 1 .. Len(TheTail') : Whole'[Edge(Written)' + j] = (TheTail')[j]
    BY <1>8, <1>10, <1>11
  <2>4. QED BY <1>10, <2>1, <2>2, <2>3 DEF FileInv, DataStart, Header
<1>13. PhaseInv'
  <2>1. Edge(n) \in Nat
    <3>1. n \in 0 .. Len(pages)
      BY <1>2
    <3>2. QED BY <1>1, <3>1, PagesAre
  <2>2. Edge(Written)' <= Len(file')
    BY <1>3, <1>10, <1>11, <2>1
  <2>3. QED BY <1>3, <1>7, <2>2 DEF PhaseInv
<1>14. SeenInv'
  <2>1. Written = n
    BY <1>1, <1>2, <1>3, WrittenIs
  <2>2. Written' \in Nat /\ Written <= Written'
    BY <1>7, <2>1
  <2>3. Len(file) \in Nat /\ Len(file') \in Nat /\ Len(file) <= Len(file')
    BY <1>1, <1>3, WholeIs
  <2>4. QED BY <1>1, <1>2, <1>3, <1>7, <2>2, <2>3, SeenKept
<1>15. QED BY <1>7, <1>12, <1>13, <1>14 DEF PaxInv

----------------------------------------------------------------------------
(* What the reader finds.                                                  *)

(* The tail is an entry per page and the footer.                           *)
LEMMA TailHas ==
  ASSUME RowsInv
  PROVE  TailLaid(TheTail, Len(pages), pages, DataStart + dataLen, Len(rows))
<1>1. PICK n \in Nat : n = Len(pages) /\ DOMAIN pages = 1 .. n
  BY DEF RowsInv
<1> DEFINE at == DataStart + dataLen
<1>2. TheTail = PaxTail(pages, at, Len(rows), PageSize)
  BY DEF TheTail
<1> HIDE DEF at
<1>3. TailLaid(PaxTail(pages, at, Len(rows), PageSize), n, pages, at, Len(rows))
  BY <1>1, TailIs
<1>4. QED BY <1>1, <1>2, <1>3 DEF at

(* A word behind the header and not behind the pages is in one of them.    *)
LEMMA InPage ==
  ASSUME RowsInv, NEW w \in 0 .. Len(pages), NEW i \in Nat, DataStart < i, i <= Edge(w)
  PROVE  \E k \in 1 .. w : \E j \in 1 .. Len(Bytes(k)) : i = Edge(k - 1) + j
<1> DEFINE S == {k \in 0 .. w : i <= Edge(k)}
<1>1. Len(pages) \in Nat /\ w \in Nat
  BY PagesAre
<1>2. S \subseteq Nat /\ w \in S
  BY <1>1
<1>3. PICK m \in S : \A k \in S : m <= k
  BY <1>2, LeastNat
<1>4. m \in 0 .. w /\ i <= Edge(m) /\ m \in Nat
  BY <1>3
<1>5. m # 0
  <2>1. Edge(0) = DataStart /\ DataStart \in Nat
    BY Params DEF Edge
  <2>2. QED BY <1>4, <2>1
<1>6. m - 1 \in 0 .. w /\ m \in 1 .. w /\ ~(m <= m - 1)
  BY <1>1, <1>4, <1>5
<1>7. ~(i <= Edge(m - 1))
  BY <1>3, <1>6
<1>8. PICK a \in Nat, l \in Nat : a = Edge(m - 1) /\ l = Len(Bytes(m)) /\ Edge(m) = a + l
  <2>1. m \in 1 .. Len(pages) /\ m - 1 \in 0 .. Len(pages)
    BY <1>1, <1>6
  <2>2. QED BY <2>1, PagesAre
<1>9. i - a \in 1 .. l /\ i = a + (i - a)
  BY <1>4, <1>7, <1>8
<1>10. QED BY <1>6, <1>8, <1>9

(* Only a page begins with the magic number of a page, and only the tail   *)
(* ends with the one of a footer.                                          *)
LEMMA Magic ==
  ASSUME RowsInv, FileInv, PhaseInv, NEW i \in 1 .. Len(Whole)
  PROVE  /\ Whole[i][1] = "page" => \E k \in 1 .. Written : i = Edge(k - 1) + 1
         /\ Whole[i][1] = "foot" => pc = "end" /\ i = Len(Whole)
<1>1. PICK d \in Nat, w \in Nat, e \in Nat, n \in Nat :
        /\ d = DataStart /\ w = Written /\ e = Edge(w) /\ n = Len(pages) /\ w \in 0 .. n
  BY Params, WrittenIs, PagesAre
<1>2. Len(Whole) = e + IF pc = "end" THEN Len(TheTail) ELSE 0
  BY <1>1 DEF FileInv
<1>3. Len(Whole) \in Nat
  BY WholeIs
<1>4. CASE i <= d
  <2>1. Whole[i] = Header[i] /\ i \in 1 .. d
    BY <1>1, <1>3, <1>4 DEF FileInv
  <2>2. Header[i][1] # "page" /\ Header[i][1] # "foot"
    BY <1>1, <2>1, HeaderIs DEF Inner
  <2>3. QED BY <2>1, <2>2
<1>5. CASE d < i /\ i <= e
  <2>1. i \in Nat
    BY <1>3
  <2>2. PICK k \in 1 .. w : \E j \in 1 .. Len(Bytes(k)) : i = Edge(k - 1) + j
    BY <1>1, <1>5, <2>1, InPage
  <2>3. PICK j \in 1 .. Len(Bytes(k)) : i = Edge(k - 1) + j
    BY <2>2
  <2>4. Whole[i] = Bytes(k)[j]
    BY <1>1, <2>3 DEF FileInv
  <2>5. k \in 1 .. Len(pages)
    BY <1>1
  <2>6. PICK at : PageLaid(Bytes(k), at, Upto(k - 1), Part(k), Sigils)
    BY <2>5, PageMadeOf
  <2>7. Len(Bytes(k)) \in Nat
    BY <2>5, PagesAre
  <2>8. Bytes(k)[j][1] # "foot" /\ (Bytes(k)[j][1] = "page" => j = 1)
    <3>1. j = 1 \/ j \in 2 .. Len(Bytes(k))
      BY <2>7
    <3>2. QED BY <2>6, <3>1 DEF PageLaid
  <2>9. QED BY <1>1, <2>3, <2>4, <2>8
<1>6. CASE e < i
  <2>1. pc = "end"
    BY <1>1, <1>2, <1>3, <1>6
  <2>2. TailLaid(TheTail, n, pages, DataStart + dataLen, Len(rows))
    BY <1>1, TailHas
  <2>3. Len(TheTail) = 7 * n + 7
    BY <2>2 DEF TailLaid
  <2>4. PICK j \in 1 .. 7 * n + 7 : i = e + j
    <3>1. i - e \in 1 .. 7 * n + 7 /\ i = e + (i - e)
      BY <1>2, <1>3, <1>6, <2>1, <2>3
    <3>2. QED BY <3>1
  <2>5. Whole[i] = TheTail[j]
    BY <1>1, <2>1, <2>3, <2>4 DEF FileInv
  <2>6. TheTail[j][1] # "page" /\ (TheTail[j][1] = "foot" => j = 7 * n + 7)
    <3>1. j = 7 * n + 7 \/ j \in 1 .. 7 * n + 6
      OBVIOUS
    <3>2. QED BY <2>2, <3>1 DEF TailLaid
  <2>7. j = 7 * n + 7 => i = Len(Whole)
    BY <1>2, <2>1, <2>3, <2>4
  <2>8. QED BY <2>1, <2>5, <2>6, <2>7
<1>7. i <= d \/ (d < i /\ i <= e) \/ e < i
  BY <1>3
<1>8. QED BY <1>4, <1>5, <1>6, <1>7

(* The words of a page as far as the file has them.                        *)
LEMMA PageInFile ==
  ASSUME RowsInv, FileInv, PhaseInv, NEW k \in 1 .. Written
  PROVE  /\ k \in 1 .. Len(pages) /\ HasWords(file, Edge(k - 1), Bytes(k))
         /\ Edge(k) <= Len(file) => CompletePageEnd(file, Edge(k - 1), Sigils) = {Edge(k)}
         /\ ~(Edge(k) <= Len(file)) => CompletePageEnd(file, Edge(k - 1), Sigils) = {}
<1>1. k \in 1 .. Len(pages) /\ k - 1 \in 0 .. Len(pages)
  BY WrittenIs, PagesAre
<1>2. PICK a \in Nat, l \in Nat : a = Edge(k - 1) /\ l = Len(Bytes(k)) /\ Edge(k) = a + l
  BY <1>1, PagesAre
<1>3. HasWords(file, a, Bytes(k))
  <2>1. Len(file) \in Nat
    BY WholeIs
  <2>2. ASSUME NEW j \in 1 .. l, a + j <= Len(file)
        PROVE  file[a + j] = Bytes(k)[j]
    <3>1. Whole[a + j] = Bytes(k)[j]
      BY <1>2 DEF FileInv
    <3>2. a + j \in 1 .. Len(file)
      BY <2>1, <2>2
    <3>3. QED BY <3>1, <3>2, WholeIs
  <2>3. QED BY <1>2, <2>1, <2>2 DEF HasWords
<1>4. PICK at : PageLaid(Bytes(k), at, Upto(k - 1), Part(k), Sigils)
  BY <1>1, PageMadeOf
<1>5. Fits(Part(k), Sigils)
  BY <1>1, PageMadeOf
<1>6. a % 2 = 0
  BY <1>1, <1>2, EdgesEven
<1> DEFINE b == Bytes(k)
<1>7. /\ a + Len(b) <= Len(file) => CompletePageEnd(file, a, Sigils) = {a + Len(b)}
      /\ ~(a + Len(b) <= Len(file)) => CompletePageEnd(file, a, Sigils) = {}
  <2>1. HasWords(file, a, b) /\ PageLaid(b, at, Upto(k - 1), Part(k), Sigils)
    BY <1>3, <1>4
  <2> HIDE DEF b
  <2>2. QED BY <1>5, <1>6, <2>1, PageEndIs
<1>8. QED BY <1>1, <1>2, <1>3, <1>7

(* How many pages are complete in the file.                                *)
Done == Cardinality({k \in 1 .. Written : Edge(k) <= Len(file)})

(* They are the first ones.                                                *)
LEMMA DoneIs ==
  ASSUME RowsInv, FileInv, PhaseInv
  PROVE  /\ Done \in 0 .. Written /\ \A k \in 1 .. Written : Edge(k) <= Len(file) <=> k <= Done
<1>1. Written \in Nat /\ Len(pages) \in Nat /\ Len(file) \in Nat /\ Written <= Len(pages)
  BY WrittenIs, PagesAre, WholeIs
<1> DEFINE P == {k \in 1 .. Written : Edge(k) <= Len(file)}
           c == Cardinality(P)
<1>2. c \in 0 .. Written /\ P = 1 .. c
  <2>1. ASSUME NEW i \in P, NEW j \in 1 .. i PROVE j \in P
    <3>1. i \in 1 .. Written /\ j \in 1 .. Written /\ i \in 0 .. Len(pages) /\ j \in 0 .. Len(pages) /\ j <= i
      BY <1>1
    <3>2. Edge(j) \in Nat /\ Edge(i) \in Nat /\ Edge(j) <= Edge(i)
      BY <3>1, EdgesGrow
    <3>3. Edge(j) <= Len(file)
      BY <1>1, <3>2
    <3>4. QED BY <3>1, <3>3
  <2>2. P \in SUBSET (1 .. Written)
    OBVIOUS
  <2> HIDE DEF P
  <2>3. QED BY <1>1, <2>1, <2>2, FirstOnes
<1> HIDE DEF c
<1>3. \A k \in 1 .. Written : Edge(k) <= Len(file) <=> k <= c
  <2> SUFFICES ASSUME NEW k \in 1 .. Written
               PROVE  Edge(k) <= Len(file) <=> k <= c
    OBVIOUS
  <2>1. Edge(k) <= Len(file) <=> k \in P
    OBVIOUS
  <2> HIDE DEF P
  <2>2. k \in 1 .. c <=> k <= c
    BY <1>1, <1>2
  <2>3. QED BY <1>2, <2>1, <2>2
<1>4. c = Done
  BY DEF c, Done
<1>5. QED BY <1>2, <1>3, <1>4

(* The poll gives the places of the first pages, all that are complete.    *)
LEMMA PolledIs ==
  ASSUME RowsInv, FileInv, PhaseInv
  PROVE  PollPages(file, DataStart, Sigils) = Given(Done)
<1>1. Written \in Nat /\ Len(pages) \in Nat /\ Len(file) \in Nat /\ Written <= Len(pages)
  BY WrittenIs, PagesAre, WholeIs
<1>2. PICK c \in 0 .. Written : c = Done
  BY DoneIs
<1>3. \A k \in 1 .. Written : Edge(k) <= Len(file) <=> k <= c
  BY <1>2, DoneIs
<1> DEFINE E == [k \in 0 .. c |-> Edge(k)]
<1>4. /\ c \in Nat /\ \A k \in 0 .. c : k \in 0 .. Len(pages)
      /\ \A k \in 1 .. c : k \in 1 .. Written /\ k - 1 \in 0 .. c /\ k \in 0 .. c
  BY <1>1, <1>2
<1>5. E \in [0 .. c -> Nat] /\ \A k \in 0 .. c : E[k] = Edge(k)
  BY <1>4, PagesAre
<1> HIDE DEF E
<1>6. \A k \in 1 .. c : E[k - 1] < E[k] /\ E[k] <= Len(file)
  <2> SUFFICES ASSUME NEW k \in 1 .. c PROVE E[k - 1] < E[k] /\ E[k] <= Len(file)
    OBVIOUS
  <2>1. E[k - 1] = Edge(k - 1) /\ E[k] = Edge(k) /\ k - 1 < k
    BY <1>4, <1>5
  <2>2. Edge(k - 1) < Edge(k)
    BY <1>4, <2>1, EdgesGrow
  <2>3. Edge(k) <= Len(file)
    BY <1>3, <1>4
  <2>4. QED BY <2>1, <2>2, <2>3
<1>7. \A k \in 1 .. c : CompletePageEnd(file, E[k - 1], Sigils) = {E[k]}
  <2> SUFFICES ASSUME NEW k \in 1 .. c PROVE CompletePageEnd(file, E[k - 1], Sigils) = {E[k]}
    OBVIOUS
  <2>1. k \in 1 .. Written /\ E[k - 1] = Edge(k - 1) /\ E[k] = Edge(k)
    BY <1>4, <1>5
  <2>2. Edge(k) <= Len(file)
    BY <1>3, <2>1
  <2>3. CompletePageEnd(file, Edge(k - 1), Sigils) = {Edge(k)}
    BY <2>1, <2>2, PageInFile
  <2>4. QED BY <2>1, <2>3
<1>8. ASSUME NEW x \in 0 .. Len(file), \A k \in 1 .. c : x # E[k - 1]
      PROVE  CompletePageEnd(file, x, Sigils) = {}
  <2>1. CASE x + 6 > Len(file) \/ file[x + 1][1] # "page"
    BY <2>1 DEF CompletePageEnd
  <2>2. CASE ~(x + 6 > Len(file)) /\ file[x + 1][1] = "page"
    <3>1. x + 1 \in 1 .. Len(file) /\ x + 1 \in 1 .. Len(Whole)
      BY <1>1, <2>2, WholeIs
    <3>2. Whole[x + 1][1] = "page"
      BY <2>2, <3>1, WholeIs
    <3>3. PICK k \in 1 .. Written : x + 1 = Edge(k - 1) + 1
      BY <3>1, <3>2, Magic
    <3>4. x = Edge(k - 1)
      <4>1. k - 1 \in 0 .. Len(pages)
        BY <1>1
      <4>2. Edge(k - 1) \in Nat
        BY <4>1, PagesAre
      <4>3. QED BY <3>3, <4>2
    <3>5. ~(Edge(k) <= Len(file))
      <4>1. k \notin 1 .. c
        BY <1>4, <1>5, <1>8, <3>4
      <4>2. QED BY <1>3, <1>4, <4>1
    <3>6. QED BY <3>4, <3>5, PageInFile
  <2>3. QED BY <2>1, <2>2
<1>9. PollPages(file, E[0], Sigils) = Places(E, c)
  <2>1. \A x \in 0 .. Len(file) : (\A k \in 1 .. c : x # E[k - 1]) => CompletePageEnd(file, x, Sigils) = {}
    BY <1>8
  <2>2. Len(file) \in Nat /\ c \in Nat /\ E \in [0 .. c -> Nat]
    BY <1>1, <1>4, <1>5
  <2>3. PagesEnd(file, Sigils, c, E)
    BY <1>6, <1>7, <2>1, Zenon DEF PagesEnd
  <2>4. QED BY <2>2, <2>3, PollsAre, Zenon
<1>10. E[0] = DataStart
  BY <1>4, <1>5 DEF Edge
<1>11. Places(E, c) = Given(c)
  <2>1. \A i \in 1 .. c : i - 1 \in 0 .. c
    BY <1>4
  <2>2. \A i \in 1 .. c : E[i - 1] = Edge(i - 1)
    BY <1>5, <2>1
  <2>3. QED BY <2>2 DEF Places, Given
<1>12. QED BY <1>2, <1>9, <1>10, <1>11

(* A poll gives the reader pages that are there.                           *)
LEMMA LookKeeps == PaxInv /\ Look => PaxInv'
<1> SUFFICES ASSUME PaxInv, Look PROVE PaxInv'
  OBVIOUS
<1>1. /\ RowsInv /\ FileInv /\ PhaseInv
  BY DEF PaxInv
<1>2. /\ seen' = PollPages(file, DataStart, Sigils)
      /\ UNCHANGED <<rows, pending, pages, dataLen, file, todo, pc, clean>>
  BY DEF Look, prodVars
<1>3. PICK c \in 0 .. Written :
        /\ \A k \in 1 .. Written : Edge(k) <= Len(file) <=> k <= c
        /\ PollPages(file, DataStart, Sigils) = Given(c)
  BY <1>1, DoneIs, PolledIs
<1>4. c # 0 => Edge(c) <= Len(file)
  <2>1. Written \in Nat
    BY <1>1, WrittenIs
  <2>2. c # 0 => c \in 1 .. Written /\ c <= c
    BY <2>1
  <2>3. QED BY <1>3, <2>2
<1>5. /\ \A k : Edge(k)' = Edge(k) /\ Upto(k)' = Upto(k) /\ Bytes(k)' = Bytes(k)
      /\ Written' = Written /\ TheTail' = TheTail /\ DataStart' = DataStart /\ Whole' = Whole
      /\ Given(c)' = Given(c)
  BY <1>2 DEF Edge, Upto, Bytes, Part, Written, TheTail, DataStart, Whole, Given
<1>6. /\ Edge(Len(pages))' = Edge(Len(pages)) /\ Upto(Len(pages))' = Upto(Len(pages))
      /\ Edge(Written)' = Edge(Written)
  BY <1>2, <1>5 DEF Edge, Upto, DataStart
<1>7. RowsInv'
  BY <1>1, <1>2, <1>5, <1>6 DEF RowsInv, RowCells, PageMetas
<1>8. FileInv'
  BY <1>1, <1>2, <1>5, <1>6 DEF FileInv, IsSeq, Header, DataStart
<1>9. PhaseInv'
  BY <1>1, <1>2, <1>6 DEF PhaseInv
<1>10. SeenInv'
  <2>1. c \in 0 .. Written' /\ seen' = Given(c)' /\ (c # 0 => Edge(c)' <= Len(file'))
    BY <1>2, <1>3, <1>4, <1>5
  <2>2. QED BY <2>1 DEF SeenInv
<1>11. QED BY <1>7, <1>8, <1>9, <1>10 DEF PaxInv

(* Every step keeps the invariant.                                         *)
LEMMA StepKeeps == PaxInv /\ [Next]_vars => PaxInv'
<1> SUFFICES ASSUME PaxInv, [Next]_vars PROVE PaxInv'
  OBVIOUS
<1>1. CASE WritePart
  BY <1>1, WritePartKeeps
<1>2. CASE PushRecord
  BY <1>2, PushRecordKeeps
<1>3. CASE FlushPending
  BY <1>3, FlushPendingKeeps
<1>4. CASE Seal
  BY <1>4, SealKeeps
<1>5. CASE Look
  BY <1>5, LookKeeps
<1>6. CASE UNCHANGED vars
  <2>1. UNCHANGED <<rows, pending, pages, dataLen, file, todo, pc, clean, seen>>
    BY <1>6 DEF vars
  <2>2. /\ \A k : Edge(k)' = Edge(k) /\ Upto(k)' = Upto(k) /\ Bytes(k)' = Bytes(k) /\ Given(k)' = Given(k)
        /\ Written' = Written /\ TheTail' = TheTail /\ DataStart' = DataStart /\ Whole' = Whole
    BY <2>1 DEF Edge, Upto, Bytes, Part, Written, TheTail, DataStart, Whole, Given
  <2>3. /\ Edge(Len(pages))' = Edge(Len(pages)) /\ Upto(Len(pages))' = Upto(Len(pages))
        /\ Edge(Written)' = Edge(Written)
    BY <2>1, <2>2 DEF Edge, Upto, DataStart
  <2>4. RowsInv /\ FileInv /\ PhaseInv /\ SeenInv
    BY DEF PaxInv
  <2>5. RowsInv'
    BY <2>1, <2>2, <2>3, <2>4 DEF RowsInv, RowCells, PageMetas
  <2>6. FileInv'
    BY <2>1, <2>2, <2>3, <2>4 DEF FileInv, IsSeq, Header, DataStart
  <2>7. PhaseInv'
    BY <2>1, <2>3, <2>4 DEF PhaseInv
  <2>8. SeenInv'
    BY <2>1, <2>2, <2>4 DEF SeenInv
  <2>9. QED BY <2>5, <2>6, <2>7, <2>8 DEF PaxInv
<1>7. QED BY <1>1, <1>2, <1>3, <1>4, <1>5, <1>6 DEF Next

(* The invariant: at every moment the file is the header, the pages made   *)
(* of the records one behind the other, and the tail, cut where the write  *)
(* in progress stands; and the reader has a first part of the pages.       *)
THEOREM PaxInvariant == SafetySpec => []PaxInv
<1>1. QED BY PaxInitial, StepKeeps, PTL DEF SafetySpec

----------------------------------------------------------------------------
(* The reader follows the producer.                                        *)

(* The first pages by their places.                                        *)
LEMMA GivenIs ==
  ASSUME RowsInv, NEW m \in 0 .. Len(pages)
  PROVE  /\ Given(m) \in Seq(Nat) /\ Len(Given(m)) = m
         /\ \A i \in 1 .. m : Given(m)[i] = Edge(i - 1)
<1>1. Len(pages) \in Nat /\ \A k \in 0 .. Len(pages) : Edge(k) \in Nat
  BY PagesAre
<1>2. \A i \in 1 .. m : i - 1 \in 0 .. Len(pages)
  BY <1>1
<1>3. QED BY <1>1, <1>2 DEF Given

(* Fewer of them are a prefix.                                             *)
LEMMA GivenGrows ==
  ASSUME RowsInv, NEW m \in 0 .. Len(pages), NEW k \in 0 .. m
  PROVE  IsPrefix(Given(k), Given(m))
<1>1. Len(pages) \in Nat /\ k \in 0 .. Len(pages) /\ k \in Nat /\ m \in Nat /\ k <= m
  BY PagesAre
<1>2. Given(m) \in Seq(Nat) /\ Len(Given(m)) = m /\ \A i \in 1 .. m : Given(m)[i] = Edge(i - 1)
  BY GivenIs
<1>3. Given(k) \in Seq(Nat) /\ Len(Given(k)) = k /\ \A i \in 1 .. k : Given(k)[i] = Edge(i - 1)
  BY <1>1, GivenIs
<1> DEFINE a == SubSeq(Given(k), 1, k)
           b == SubSeq(Given(m), 1, k)
<1>4. a \in Seq(Nat) /\ Len(a) = k /\ \A i \in 1 .. k : a[i] = Edge(i - 1)
  BY <1>1, <1>3
<1>5. b \in Seq(Nat) /\ Len(b) = k /\ \A i \in 1 .. k : b[i] = Edge(i - 1)
  <2>1. b \in Seq(Nat) /\ Len(b) = k /\ \A i \in 1 .. k : b[i] = Given(m)[i] /\ i \in 1 .. m
    BY <1>1, <1>2
  <2>2. QED BY <1>2, <2>1
<1> HIDE DEF a, b
<1>6. a = b
  BY <1>4, <1>5, SameSeq
<1>7. QED BY <1>1, <1>2, <1>3, <1>6 DEF IsPrefix, a, b

(* What the mapping takes as made are the pages complete in the file.      *)
Mapped ==
  /\ Written \in Nat /\ Done \in 0 .. Written
  /\ CompleteAt = Given(Done)
  /\ \A k \in 1 .. Written : (k <= Done) <=> (Edge(k) <= Len(file))
  /\ \A k \in 1 .. Written : Edge(k) \in Nat /\ Edge(k - 1) \in Nat /\ Edge(k - 1) + 2 <= Edge(k)

(* This holds in every state of the stream.                                *)
LEMMA MappedIs == PaxInv => Mapped
<1> SUFFICES ASSUME PaxInv PROVE Mapped
  OBVIOUS
<1>1. RowsInv /\ FileInv /\ PhaseInv
  BY DEF PaxInv
<1>2. PICK w \in Nat, n \in Nat : w = Written /\ n = Len(pages) /\ w <= n
  BY <1>1, WrittenIs, PagesAre
<1>3. PICK m \in 0 .. w : m = Done
  BY <1>1, <1>2, DoneIs
<1>4. pages \in Seq(PageMetas)
  BY <1>1 DEF RowsInv
<1>5. /\ InFile \in Seq(PageMetas) /\ Len(InFile) = w /\ \A k \in 1 .. w : InFile[k] = pages[k]
  <2>1. CASE clean
    BY <1>2, <1>4, <2>1 DEF InFile, Written
  <2>2. CASE ~clean
    <3>1. InFile = Front(pages) /\ w = n - 1 /\ pages # << >>
      <4>1. clean = FALSE
        BY <1>1, <2>2, Zenon DEF PhaseInv
      <4>2. QED BY <1>1, <1>2, <4>1 DEF InFile, Written, PhaseInv
    <3>2. QED BY <1>2, <1>4, <3>1, FrontOf
  <2>3. QED BY <2>1, <2>2
<1>6. \A k \in 1 .. w : k \in 1 .. n /\ pages[k].at + pages[k].len = Edge(k) /\ pages[k].at = Edge(k - 1)
  <2> SUFFICES ASSUME NEW k \in 1 .. w
               PROVE  k \in 1 .. n /\ pages[k].at + pages[k].len = Edge(k) /\ pages[k].at = Edge(k - 1)
    OBVIOUS
  <2>1. k \in 1 .. n /\ k # 0
    BY <1>2
  <2>2. QED BY <1>1, <1>2, <2>1 DEF Edge, RowsInv
<1> DEFINE P == {i \in DOMAIN InFile : InFile[i].at + InFile[i].len <= Len(file)}
           Q == {k \in 1 .. w : Edge(k) <= Len(file)}
<1>7. P = Q /\ DOMAIN InFile = 1 .. w
  BY SMTT(60), <1>5, <1>6
<1>8. Cardinality(P) = m
  BY <1>2, <1>3, <1>7 DEF Done
<1> HIDE DEF P, Q
<1>9. Complete = SubSeq(InFile, 1, m)
  BY <1>8 DEF Complete, P
<1>10. Complete \in Seq(PageMetas) /\ Len(Complete) = m /\ \A i \in 1 .. m : Complete[i] = InFile[i]
  BY <1>2, <1>3, <1>5, <1>9
<1>11. CompleteAt = Given(m)
  <2>1. DOMAIN Complete = 1 .. m
    BY <1>10
  <2>2. \A i \in 1 .. m : Complete[i].at = Edge(i - 1)
    <3> SUFFICES ASSUME NEW i \in 1 .. m PROVE Complete[i].at = Edge(i - 1)
      OBVIOUS
    <3>1. i \in 1 .. w
      BY <1>2, <1>3
    <3>2. QED BY <1>5, <1>6, <1>10, <3>1
  <2>3. QED BY <2>1, <2>2 DEF CompleteAt, Given
<1>12. \A k \in 1 .. w : Edge(k) \in Nat /\ Edge(k - 1) \in Nat /\ Edge(k - 1) + 2 <= Edge(k)
  <2> SUFFICES ASSUME NEW k \in 1 .. w
               PROVE  Edge(k) \in Nat /\ Edge(k - 1) \in Nat /\ Edge(k - 1) + 2 <= Edge(k)
    OBVIOUS
  <2>1. k \in 1 .. Len(pages) /\ k - 1 \in 0 .. Len(pages)
    BY <1>2
  <2>2. PICK a \in Nat, l \in Nat : a = Edge(k - 1) /\ l = Len(Bytes(k)) /\ Edge(k) = a + l
    BY <1>1, <2>1, PagesAre
  <2>3. l >= 7
    BY <1>1, <2>1, <2>2, PageMadeOf
  <2>4. QED BY <2>2, <2>3
<1>13. \A k \in 1 .. w : (k <= m) <=> (Edge(k) <= Len(file))
  BY <1>1, <1>2, <1>3, DoneIs
<1>14. QED BY <1>2, <1>3, <1>11, <1>12, <1>13 DEF Mapped

(* A word makes at most one more page complete, and none once the stream   *)
(* is sealed.                                                              *)
LEMMA WriteMakes ==
  ASSUME PaxInv, Mapped, Mapped', WritePart
  PROVE  UNCHANGED <<seen, pc>> /\ (CompleteAt' = CompleteAt \/ Items!Make)
<1>1. /\ todo # << >> /\ file' = Append(file, Head(todo))
      /\ UNCHANGED <<rows, pending, pages, dataLen, pc, clean, seen>>
  BY DEF WritePart
<1>2. Len(file) \in Nat /\ Len(file') = Len(file) + 1
  <2>1. IsSeq(file) /\ IsSeq(todo) /\ FileInv
    BY DEF PaxInv, FileInv
  <2>2. QED BY <1>1, <2>1, WholeIs, PartWritten
<1>3. \A k : Edge(k)' = Edge(k)
  BY <1>1 DEF Edge, DataStart
<1>4. PICK w \in Nat : w = Written /\ Written' = w /\ w \in 0 .. Len(pages)
  <2>1. Written' = Written
    BY <1>1 DEF Written
  <2>2. QED BY <2>1, WrittenIs DEF PaxInv
<1>5. PICK m \in 0 .. w, p \in 0 .. w : m = Done /\ p = Done'
  BY <1>4 DEF Mapped
<1>6. /\ \A k \in 1 .. w : (k <= m) <=> (Edge(k) <= Len(file))
      /\ \A k \in 1 .. w : Edge(k) \in Nat /\ Edge(k - 1) \in Nat /\ Edge(k - 1) + 2 <= Edge(k)
  BY <1>4, <1>5 DEF Mapped
<1>7. \A k \in 1 .. w : (k <= p) <=> (Edge(k) <= Len(file) + 1)
  <2>1. \A k \in 1 .. w : (k <= Done') <=> (Edge(k)' <= Len(file'))
    BY <1>4 DEF Mapped
  <2>2. QED BY <1>2, <1>3, <1>5, <2>1
<1>8. CompleteAt = Given(m) /\ CompleteAt' = Given(p)
  <2>1. CompleteAt = Given(m)
    BY <1>5 DEF Mapped
  <2>2. Given(Done)' = Given(p)
    BY <1>3, <1>5 DEF Given
  <2>3. QED BY <2>1, <2>2 DEF Mapped
<1>9. m <= p
  <2>1. CASE m = 0
    BY <2>1
  <2>2. CASE m # 0
    <3>1. m \in 1 .. w /\ m <= m
      BY <2>2
    <3>2. Edge(m) \in Nat /\ Edge(m) <= Len(file)
      BY <1>6, <3>1
    <3>3. Edge(m) <= Len(file) + 1
      BY <1>2, <3>2
    <3>4. QED BY <1>7, <3>1, <3>3
  <2>3. QED BY <2>1, <2>2
<1>10. p <= m + 1
  <2>1. SUFFICES ASSUME p >= m + 2 PROVE FALSE
    OBVIOUS
  <2>2. p \in 1 .. w /\ p <= p /\ p - 1 \in 1 .. w /\ ~(p - 1 <= m)
    BY <2>1
  <2>3. Edge(p) \in Nat /\ Edge(p - 1) \in Nat /\ Edge(p - 1) + 2 <= Edge(p) /\ Edge(p) <= Len(file) + 1
    BY <1>6, <1>7, <2>2
  <2>4. Edge(p - 1) <= Len(file)
    BY <1>2, <2>3
  <2>5. QED BY <1>6, <2>2, <2>4
<1>11. CASE p = m
  BY <1>1, <1>8, <1>11
<1>12. CASE p = m + 1
  <2>1. p \in 1 .. w /\ p <= p /\ ~(p <= m)
    BY <1>12
  <2>2. Edge(p) \in Nat /\ ~(Edge(p) <= Len(file))
    BY <1>6, <2>1
  <2>3. pc # "end"
    <3>1. SUFFICES ASSUME pc = "end" PROVE FALSE
      OBVIOUS
    <3>2. Edge(w) <= Len(file)
      BY <1>4, <3>1 DEF PaxInv, PhaseInv
    <3>3. w \in 1 .. w /\ ~(w <= m)
      BY <2>1, <1>12
    <3>4. QED BY <1>6, <3>2, <3>3
  <2>4. (pc = "end") = FALSE /\ pc' = pc
    BY <1>1, <2>3
  <2>5. /\ Len(Given(m)) = m /\ Len(Given(p)) = m + 1
    BY <1>4, <1>12, GivenIs DEF PaxInv
  <2>6. IsPrefix(Given(m), Given(p))
    <3>1. p \in 0 .. Len(pages) /\ m \in 0 .. p
      BY <1>4, <1>9
    <3>2. QED BY <3>1, GivenGrows DEF PaxInv
  <2>7. CompleteAt' # CompleteAt /\ IsPrefix(CompleteAt, CompleteAt') /\ Len(CompleteAt') = Len(CompleteAt) + 1
    BY <1>8, <2>5, <2>6
  <2>8. Items!Make
    BY <1>1, <2>3, <2>7 DEF Items!Make, Items!IsPrefix, IsPrefix
  <2>9. QED BY <1>1, <2>8
<1>13. QED BY <1>9, <1>10, <1>11, <1>12

(* A page that is begun, or that only seal_stream made, is not complete in *)
(* the file.                                                               *)
LEMMA NothingMade ==
  ASSUME RowsInv, FileInv, PhaseInv, Mapped, Mapped', pc = "ready", todo = << >>, file' = file,
         NEW n \in Nat, n = Len(pages), Written' = n \/ Written' = n + 1,
         \A j \in 1 .. n : pages'[j] = pages[j]
  PROVE  CompleteAt' = CompleteAt
<1>1. Written = n
  BY WrittenIs
<1>2. \A k \in 0 .. n : Edge(k)' = Edge(k)
  <2>1. \A k \in 0 .. n : k = 0 \/ k \in 1 .. n
    OBVIOUS
  <2>2. QED BY <2>1 DEF Edge, DataStart
<1>3. PICK e \in Nat : e = Len(file) /\ e = Edge(n) /\ e = Edge(n)'
  <2>1. Len(todo) = 0
    OBVIOUS
  <2>2. Len(Whole) = Len(file) /\ Len(file) \in Nat
    BY <2>1, WholeIs
  <2>3. n \in 0 .. n /\ n \in 0 .. Len(pages)
    OBVIOUS
  <2>4. Len(Whole) = Edge(n) + 0 /\ Edge(n) \in Nat
    BY <1>1, <2>3, PagesAre DEF FileInv
  <2>5. QED BY <1>2, <2>2, <2>3, <2>4
<1>4. PICK m \in 0 .. n : m = Done
  BY <1>1 DEF Mapped
<1>5. PICK w \in Nat, p \in Nat : w = Written' /\ p = Done' /\ p \in 0 .. w /\ (w = n \/ w = n + 1)
  BY DEF Mapped
<1>6. \A k \in 1 .. n : (k <= m) <=> (Edge(k) <= e)
  BY <1>1, <1>3, <1>4 DEF Mapped
<1>7. /\ \A k \in 1 .. w : (k <= p) <=> (Edge(k)' <= e)
      /\ \A k \in 1 .. w : Edge(k)' \in Nat /\ Edge(k - 1)' \in Nat /\ Edge(k - 1)' + 2 <= Edge(k)'
  BY <1>3, <1>5 DEF Mapped
<1>8. p # n + 1
  <2>1. SUFFICES ASSUME p = n + 1 PROVE FALSE
    OBVIOUS
  <2>2. p \in 1 .. w /\ p <= p /\ p - 1 = n
    BY <1>5, <2>1
  <2>3. Edge(p)' <= e /\ Edge(p)' \in Nat /\ Edge(p - 1)' + 2 <= Edge(p)'
    BY <1>7, <2>2
  <2>4. Edge(p - 1)' = Edge(n)'
    BY <2>2
  <2>5. QED BY <1>3, <2>3, <2>4
<1>9. \A k \in 1 .. n : (k <= p) <=> (k <= m)
  <2> SUFFICES ASSUME NEW k \in 1 .. n PROVE (k <= p) <=> (k <= m)
    OBVIOUS
  <2>1. k \in 1 .. w /\ k \in 0 .. n
    BY <1>5
  <2>2. Edge(k)' = Edge(k)
    BY <1>2, <2>1
  <2>3. QED BY <1>6, <1>7, <2>1, <2>2
<1>10. p = m
  <2>1. p \in 0 .. n
    BY <1>5, <1>8
  <2>2. CASE p < m
    <3>1. m \in 1 .. n /\ m <= m /\ ~(m <= p)
      BY <2>1, <2>2
    <3>2. QED BY <1>9, <3>1
  <2>3. CASE m < p
    <3>1. p \in 1 .. n /\ p <= p /\ ~(p <= m)
      BY <2>1, <2>3
    <3>2. QED BY <1>9, <3>1
  <2>4. QED BY <2>1, <2>2, <2>3
<1>11. CompleteAt = Given(m)
  BY <1>4 DEF Mapped
<1>12. CompleteAt' = [i \in 1 .. m |-> Edge(i - 1)']
  BY <1>5, <1>10 DEF Mapped, Given
<1>13. \A i \in 1 .. m : i - 1 \in 0 .. n
  OBVIOUS
<1>14. QED BY <1>2, <1>11, <1>12, <1>13 DEF Given

(* The producer's steps between two writes make nothing; sealing closes.   *)
LEMMA ProducerMakesNothing ==
  ASSUME PaxInv, Mapped, Mapped', PushRecord \/ FlushPending \/ Seal
  PROVE  /\ UNCHANGED <<CompleteAt, seen>>
         /\ PushRecord \/ FlushPending => pc' = pc
         /\ Seal => pc = "ready" /\ pc' = "end"
<1>1. RowsInv /\ FileInv /\ PhaseInv
  BY DEF PaxInv
<1>2. PICK n \in Nat : n = Len(pages) /\ pages \in Seq(PageMetas)
  BY <1>1, PagesAre DEF RowsInv
<1>3. pc = "ready" /\ todo = << >> /\ file' = file /\ seen' = seen /\ (clean = TRUE)
  BY <1>1 DEF PushRecord, FlushPending, Seal, PhaseInv
<1>4. pages' = pages \/ \E x : pages' = Append(pages, x)
  BY DEF PushRecord, FlushPending, Seal, Flush
<1>5. /\ \A j \in 1 .. n : pages'[j] = pages[j]
      /\ Len(pages') = n \/ Len(pages') = n + 1
      /\ pages' = pages => Len(pages') = n
      /\ (\E x : pages' = Append(pages, x)) => Len(pages') = n + 1
  BY <1>2, <1>4
<1>6. Written' = n \/ Written' = n + 1
  <2>1. CASE PushRecord \/ FlushPending
    <3>1. clean' = TRUE
      BY <1>3, <2>1 DEF PushRecord, FlushPending
    <3>2. QED BY <1>5, <3>1 DEF Written
  <2>2. CASE Seal
    <3>1. CASE pending # << >>
      <4>1. \E x : pages' = Append(pages, x)
        BY <2>2, <3>1 DEF Seal
      <4>2. clean' = FALSE
        BY <2>2, <3>1, Zenon DEF Seal
      <4>3. QED BY <1>5, <4>1, <4>2 DEF Written
    <3>2. CASE pending = << >>
      <4>1. pages' = pages
        BY <2>2, <3>2 DEF Seal
      <4>2. clean' = TRUE
        BY <2>2, <3>2, Zenon DEF Seal
      <4>3. QED BY <1>5, <4>1, <4>2 DEF Written
    <3>3. QED BY <3>1, <3>2
  <2>3. QED BY <2>1, <2>2
<1>7. CompleteAt' = CompleteAt
  BY <1>1, <1>2, <1>3, <1>5, <1>6, NothingMade
<1>8. (PushRecord \/ FlushPending => pc' = pc) /\ (Seal => pc = "ready" /\ pc' = "end")
  BY DEF PushRecord, FlushPending, Seal
<1>9. QED BY <1>3, <1>7, <1>8

(* A poll shows the reader the complete pages, behind those it has.        *)
LEMMA LookSees ==
  ASSUME PaxInv, Mapped, Look
  PROVE  UNCHANGED <<CompleteAt, pc>> /\ (seen' = seen \/ Items!See)
<1>1. RowsInv /\ FileInv /\ PhaseInv /\ SeenInv
  BY DEF PaxInv
<1>2. UNCHANGED <<file, pages, clean, pc>> /\ seen' = PollPages(file, DataStart, Sigils)
  BY DEF Look, prodVars
<1>3. CompleteAt' = CompleteAt
  BY <1>2 DEF CompleteAt, Complete, InFile
<1>4. PICK w \in Nat : w = Written /\ w \in 0 .. Len(pages)
  BY <1>1, WrittenIs
<1>5. PICK s \in 0 .. w : s = Done /\ CompleteAt = Given(s)
  BY <1>4 DEF Mapped
<1>6. seen' = Given(s)
  BY <1>1, <1>2, <1>5, PolledIs
<1>7. PICK k \in 0 .. w : seen = Given(k) /\ (k # 0 => Edge(k) <= Len(file))
  BY <1>1, <1>4 DEF SeenInv
<1>8. k <= s
  <2>1. CASE k = 0
    BY <2>1
  <2>2. CASE k # 0
    <3>1. k \in 1 .. Written
      BY <1>4, <2>2
    <3>2. QED BY <1>5, <1>7, <2>2, <3>1 DEF Mapped
  <2>3. QED BY <2>1, <2>2
<1>9. CASE k = s
  BY <1>2, <1>3, <1>6, <1>7, <1>9
<1>10. CASE k # s
  <2>1. k < s /\ k \in 0 .. s /\ s \in 0 .. s /\ s \in 0 .. Len(pages) /\ k \in 0 .. Len(pages)
    BY <1>4, <1>8, <1>10
  <2>2. Len(Given(k)) = k /\ Len(Given(s)) = s
    BY <1>1, <2>1, GivenIs
  <2>3. IsPrefix(Given(k), Given(s)) /\ IsPrefix(Given(s), Given(s))
    BY <1>1, <2>1, GivenGrows
  <2>4. Len(CompleteAt) > Len(seen) /\ seen' # seen /\ IsPrefix(seen, seen') /\ IsPrefix(seen', CompleteAt)
    BY <1>5, <1>6, <1>7, <2>1, <2>2, <2>3
  <2>5. Items!See
    BY <1>2, <1>3, <2>4 DEF Items!See, Items!IsPrefix, IsPrefix
  <2>6. QED BY <1>2, <1>3, <2>5
<1>11. QED BY <1>9, <1>10

(* A polling reader is given whole pages, in order, and never loses one it *)
(* had: the stream implements ItemStream.                                  *)
THEOREM ReaderIsGivenPages == SafetySpec => ReaderFollows
<1>1. Init => Items!Init
  <2> SUFFICES ASSUME Init PROVE Items!Init
    OBVIOUS
  <2>1. pages = << >> /\ clean = TRUE /\ seen = << >> /\ pc # "end"
    BY DEF Init
  <2>2. Mapped
    BY PaxInitial, MappedIs
  <2>3. Written = 0
    BY <2>1 DEF Written
  <2>4. Done = 0
    BY <2>2, <2>3 DEF Mapped
  <2>5. CompleteAt = << >>
    BY <2>2, <2>4 DEF Mapped, Given
  <2>6. QED BY <2>1, <2>5 DEF Items!Init
<1>2. ASSUME PaxInv, Mapped, Mapped', [Next]_vars
      PROVE  [Items!Next]_(Items!vars)
  <2>1. CASE WritePart
    BY <1>2, <2>1, WriteMakes DEF Items!Next, Items!vars
  <2>2. CASE PushRecord \/ FlushPending
    BY <1>2, <2>2, ProducerMakesNothing DEF Items!vars
  <2>3. CASE Seal
    <3>1. UNCHANGED <<CompleteAt, seen>> /\ pc = "ready" /\ pc' = "end"
      BY <1>2, <2>3, ProducerMakesNothing
    <3>2. Items!Close
      BY <3>1 DEF Items!Close
    <3>3. QED BY <3>2 DEF Items!Next
  <2>4. CASE Look
    BY <1>2, <2>4, LookSees DEF Items!Next, Items!vars
  <2>5. CASE UNCHANGED vars
    <3>1. UNCHANGED <<file, pages, clean, seen, pc>>
      BY <2>5 DEF vars
    <3>2. QED BY <3>1 DEF Items!vars, CompleteAt, Complete, InFile
  <2>6. QED BY <1>2, <2>1, <2>2, <2>3, <2>4, <2>5 DEF Next
<1>3. QED BY <1>1, <1>2, PaxInvariant, MappedIs, PTL DEF SafetySpec, ReaderFollows, Items!Safe

----------------------------------------------------------------------------
(* Complete records read back.                                             *)

(* The records of the pages come one behind the other.                     *)
LEMMA UptoGrows ==
  ASSUME RowsInv
  PROVE  \A j \in 0 .. Len(pages), k \in 0 .. Len(pages) :
           Upto(j) \in Nat /\ Upto(k) \in Nat /\ (j <= k => Upto(j) <= Upto(k))
<1> DEFINE n == Len(pages)
           E == [k \in 0 .. n |-> Upto(k)]
<1>1. n \in Nat
  BY PagesAre
<1>2. E \in [0 .. n -> Nat] /\ \A k \in 0 .. n : E[k] = Upto(k) /\ Upto(k) \in Nat
  BY PagesAre
<1> HIDE DEF E
<1>3. \A k \in 1 .. n : E[k - 1] < E[k]
  <2> SUFFICES ASSUME NEW k \in 1 .. n PROVE E[k - 1] < E[k]
    OBVIOUS
  <2>1. k - 1 \in 0 .. n /\ k \in 0 .. n
    BY <1>1
  <2>2. PICK a \in Nat, b \in Nat, l \in Nat : a = Upto(k - 1) /\ b = Upto(k) /\ l >= 1 /\ b = a + l
    BY <2>1, PagesAre
  <2>3. a < b
    BY <2>2
  <2>4. QED BY <1>2, <2>1, <2>2, <2>3
<1>4. \A j \in 0 .. n, k \in 0 .. n : j < k => E[j] < E[k]
  BY <1>1, <1>2, <1>3, Growing
<1>5. ASSUME NEW j \in 0 .. n, NEW k \in 0 .. n
      PROVE  Upto(j) \in Nat /\ Upto(k) \in Nat /\ (j <= k => Upto(j) <= Upto(k))
  <2>1. Upto(j) \in Nat /\ Upto(k) \in Nat /\ (j < k => Upto(j) < Upto(k))
    BY <1>2, <1>4
  <2>2. ASSUME j <= k PROVE Upto(j) <= Upto(k)
    <3>1. j = k \/ j < k
      BY <1>1, <2>2
    <3>2. QED BY <2>1, <3>1
  <2>3. QED BY <2>1, <2>2
<1>6. QED BY <1>5

(* Each of them is in one page.                                            *)
LEMMA RecordIn ==
  ASSUME RowsInv, NEW w \in 0 .. Len(pages), NEW r \in Nat, 1 <= r, r <= Upto(w)
  PROVE  \E k \in 1 .. w :
           /\ Upto(k - 1) < r /\ r <= Upto(k)
           /\ \A j \in 1 .. w : Upto(j - 1) < r /\ r <= Upto(j) => j = k
<1> DEFINE S == {k \in 0 .. w : r <= Upto(k)}
<1>1. Len(pages) \in Nat /\ w \in Nat
  BY PagesAre
<1>2. S \subseteq Nat /\ w \in S
  BY <1>1
<1>3. PICK m \in S : \A k \in S : m <= k
  BY <1>2, LeastNat
<1>4. m \in 0 .. w /\ r <= Upto(m) /\ m \in Nat
  BY <1>3
<1>5. m # 0
  <2>1. Upto(0) = 0
    BY DEF Upto
  <2>2. QED BY <1>4, <2>1
<1>6. m - 1 \in 0 .. w /\ m \in 1 .. w /\ ~(m <= m - 1)
  BY <1>1, <1>4, <1>5
<1>7. ~(r <= Upto(m - 1))
  BY <1>3, <1>6
<1> HIDE DEF S
<1>8. \A j \in 0 .. w : j \in 0 .. Len(pages) /\ Upto(j) \in Nat
  BY <1>1, PagesAre
<1>9. Upto(m - 1) < r
  BY <1>6, <1>7, <1>8
<1>10. ASSUME NEW j \in 1 .. w, Upto(j - 1) < r, r <= Upto(j)
       PROVE  j = m
  <2>1. j - 1 \in 0 .. w /\ j \in 0 .. w
    BY <1>1
  <2>2. PICK a \in Nat, b \in Nat, c \in Nat, d \in Nat :
          a = Upto(j - 1) /\ b = Upto(j) /\ c = Upto(m - 1) /\ d = Upto(m)
    BY SMTT(60), <1>6, <1>8, <2>1
  <2>3. a < r /\ r <= b /\ c < r /\ r <= d
    BY <1>4, <1>9, <1>10, <2>2
  <2>4. ASSUME j < m PROVE FALSE
    <3>1. j <= m - 1
      BY <1>1, <1>4, <2>4
    <3>2. b <= c
      BY <1>6, <1>8, <2>1, <2>2, <3>1, UptoGrows
    <3>3. QED BY <2>3, <3>2
  <2>5. ASSUME m < j PROVE FALSE
    <3>1. m <= j - 1
      BY <1>1, <1>4, <2>5
    <3>2. d <= a
      BY <1>6, <1>8, <2>1, <2>2, <3>1, UptoGrows
    <3>3. QED BY <2>3, <3>2
  <2>6. QED BY <1>1, <1>4, <2>4, <2>5
<1>11. QED BY <1>4, <1>6, <1>9, <1>10

(* The head of a page that is complete in the file.                        *)
LEMMA DonePage ==
  ASSUME RowsInv, FileInv, PhaseInv, NEW k \in 1 .. Written, Edge(k) <= Len(file)
  PROVE  /\ file[Edge(k - 1) + 1][1] = "page" /\ file[Edge(k - 1) + 3][2] = Upto(k - 1)
         /\ file[Edge(k - 1) + 5][2] = pages[k].count /\ file[Edge(k - 1) + 6][2] = Len(Sigils)
         /\ Edge(k - 1) + 6 <= Len(file) /\ Edge(k - 1) + Len(Bytes(k)) <= Len(file)
<1>1. k \in 1 .. Len(pages) /\ k - 1 \in 0 .. Len(pages) /\ HasWords(file, Edge(k - 1), Bytes(k))
  BY PageInFile, WrittenIs, PagesAre
<1>2. PICK a \in Nat : a = Edge(k - 1) /\ Edge(k) = a + Len(Bytes(k)) /\ Len(Bytes(k)) \in Nat
  BY <1>1, PagesAre
<1>3. PICK at : PageLaid(Bytes(k), at, Upto(k - 1), Part(k), Sigils)
  BY <1>1, PageMadeOf
<1>4. Fits(Part(k), Sigils) /\ Len(Part(k)) = pages[k].count /\ Len(Bytes(k)) >= 7
  BY <1>1, PageMadeOf
<1>5. HasWords(file, a, Bytes(k)) /\ a + Len(Bytes(k)) <= Len(file)
  BY <1>1, <1>2
<1>6. Headed(file, a, Upto(k - 1), Len(Part(k)), Len(Sigils))
  BY <1>2, <1>3, <1>4, <1>5, HeadIs, Zenon
<1>7. QED BY <1>2, <1>4, <1>5, <1>6 DEF Headed

(* A view of a complete page reads a record of it.                         *)
LEMMA DoneViewed ==
  ASSUME RowsInv, FileInv, PhaseInv, NEW k \in 1 .. Written, Edge(k) <= Len(file),
         NEW s \in DOMAIN Sigils, NoVarBefore(s), ~IsVar(Sigils[s]),
         NEW i \in 1 .. pages[k].count
  PROVE  ViewGet(file, Edge(k - 1), i, s) = ReadBack(rows[Upto(k - 1) + i][s], Sigils[s])
<1>1. k \in 1 .. Len(pages) /\ k - 1 \in 0 .. Len(pages) /\ HasWords(file, Edge(k - 1), Bytes(k))
  <2>1. k \in 1 .. Len(pages) /\ HasWords(file, Edge(k - 1), Bytes(k))
    BY PageInFile
  <2>2. Len(pages) \in Nat
    BY PagesAre
  <2>3. QED BY <2>1, <2>2
<1>2. PICK a \in Nat : a = Edge(k - 1) /\ Edge(k) = a + Len(Bytes(k)) /\ Len(Bytes(k)) \in Nat
  BY <1>1, PagesAre
<1>3. PICK at : PageLaid(Bytes(k), at, Upto(k - 1), Part(k), Sigils)
  BY <1>1, PageMadeOf
<1>4. /\ Fits(Part(k), Sigils) /\ Len(Part(k)) = pages[k].count /\ Len(Bytes(k)) >= 7
      /\ Part(k)[i] = rows[Upto(k - 1) + i]
  BY <1>1, PageMadeOf
<1>5. HasWords(file, a, Bytes(k)) /\ a + Len(Bytes(k)) <= Len(file) /\ IsSeq(file)
  BY <1>1, <1>2 DEF FileInv
<1>6. s \in 1 .. Len(Sigils) /\ AllFixed(Sigils, s)
  <2>1. s \in 1 .. Len(Sigils)
    BY Params
  <2>2. ASSUME NEW t \in 1 .. s PROVE ~IsVar(Sigils[t])
    <3>1. t = s \/ t \in 1 .. s - 1
      BY <2>1, Params
    <3>2. QED BY <3>1 DEF NoVarBefore
  <2>3. QED BY <2>1, <2>2 DEF AllFixed
<1>7. i \in 1 .. Len(Part(k))
  BY <1>4
<1>8. ViewGet(file, a, i, s) = CellRead(Part(k)[i][s], Sigils[s])
  <2>1. PageThere(file, a, Part(k), Sigils)
    BY <1>2, <1>3, <1>4, <1>5, Zenon DEF PageThere
  <2>2. a \in Nat /\ Fits(Part(k), Sigils) /\ IsSeq(file)
    BY <1>4, <1>5
  <2>3. QED BY <1>6, <1>7, <2>1, <2>2, ViewIs
<1>9. CellRead(Part(k)[i][s], Sigils[s]) = ReadBack(Part(k)[i][s], Sigils[s])
  BY DEF CellRead, ReadBack, Stored, Populated
<1>10. QED BY <1>2, <1>4, <1>8, <1>9

(* The records in complete pages read back by their global number, and the *)
(* others do not read at all.                                              *)
LEMMA CompleteRead == PaxInv => CompleteReadBack
<1> SUFFICES ASSUME PaxInv PROVE CompleteReadBack
  OBVIOUS
<1>1. RowsInv /\ FileInv /\ PhaseInv
  BY DEF PaxInv
<1>2. PICK w \in Nat : w = Written /\ w \in 0 .. Len(pages)
  BY <1>1, WrittenIs
<1>3. PICK c \in 0 .. w : c = Done
  BY <1>1, <1>2, DoneIs
<1>4. /\ c \in 0 .. Len(pages) /\ \A k \in 0 .. c : k \in 0 .. Len(pages)
      /\ \A k \in 1 .. c : k \in 1 .. Written /\ k \in 1 .. Len(pages) /\ k - 1 \in 0 .. c /\ k \in 0 .. c
  <2>1. PICK n \in Nat : n = Len(pages) /\ w \in 0 .. n /\ w = Written
    BY <1>1, <1>2, PagesAre
  <2>2. c \in 0 .. n /\ \A k \in 0 .. c : k \in 0 .. n
    BY <2>1
  <2>3. \A k \in 1 .. c : k \in 1 .. w /\ k \in 1 .. n /\ k - 1 \in 0 .. c /\ k \in 0 .. c
    BY <2>1
  <2>4. QED BY <2>1, <2>2, <2>3
<1>5. \A k \in 1 .. c : Edge(k) <= Len(file)
  <2> SUFFICES ASSUME NEW k \in 1 .. c PROVE Edge(k) <= Len(file)
    OBVIOUS
  <2>1. k <= c /\ k \in 1 .. Written
    BY <1>4
  <2>2. QED BY <1>1, <1>3, <2>1, DoneIs
<1> DEFINE ps == PollPages(file, DataStart, Sigils)
           n == IF ps = << >> THEN 0 ELSE file[Last(ps) + 3][2] + file[Last(ps) + 5][2]
<1>6. /\ ps = Given(c) /\ ps \in Seq(Nat) /\ Len(ps) = c /\ DOMAIN ps = 1 .. c
      /\ \A k \in 1 .. c : ps[k] = Edge(k - 1)
  <2>1. ps = Given(c)
    BY <1>1, <1>3, PolledIs
  <2>2. Given(c) \in Seq(Nat) /\ Len(Given(c)) = c /\ \A i \in 1 .. c : Given(c)[i] = Edge(i - 1)
    BY <1>1, <1>4, GivenIs
  <2>3. QED BY <2>1, <2>2
<1> HIDE DEF ps
<1>7. \A k \in 1 .. c :
        file[ps[k] + 3][2] = Upto(k - 1) /\ file[ps[k] + 5][2] = pages[k].count
  BY <1>1, <1>4, <1>5, <1>6, DonePage
<1>8. \A k \in 1 .. c :
        /\ Upto(k - 1) \in Nat /\ Upto(k) \in Nat /\ pages[k].count \in Nat
        /\ Upto(k) = Upto(k - 1) + pages[k].count
  BY <1>1, <1>4, PagesAre
<1>9. n = Upto(c)
  <2>1. CASE c = 0
    <3>1. ps = << >>
      BY <1>6, <2>1
    <3>2. QED BY <2>1, <3>1 DEF Upto
  <2>2. CASE c # 0
    <3>1. c \in 1 .. c /\ ps # << >>
      BY <1>6, <2>2
    <3>2. Last(ps) = ps[c]
      BY <1>6, <3>1 DEF Last
    <3>3. QED BY <1>7, <1>8, <3>1, <3>2
  <2>3. QED BY <2>1, <2>2
<1> HIDE DEF n
<1>10. ASSUME NEW s \in DOMAIN Sigils, NoVarBefore(s), ~IsVar(Sigils[s]), NEW r \in DOMAIN rows
       PROVE  GetComplete(file, DataStart, Sigils, r - 1, s) =
                 IF r <= n THEN ReadBack(rows[r][s], Sigils[s]) ELSE None
  <2> DEFINE having == {k \in DOMAIN ps : (r - 1) - file[ps[k] + 3][2] \in 0 .. file[ps[k] + 5][2] - 1}
             off == ps[Min(having)]
  <2>1. GetComplete(file, DataStart, Sigils, r - 1, s) =
          IF having = {} THEN None ELSE ViewGet(file, off, (r - 1) - file[off + 3][2] + 1, s)
    BY Zenon DEF GetComplete, ps
  <2>2. r \in Nat /\ r >= 1
    BY <1>1 DEF RowsInv
  <2>3. having = {k \in 1 .. c : Upto(k - 1) < r /\ r <= Upto(k)}
    <3>1. ASSUME NEW k \in 1 .. c
          PROVE  (r - 1) - file[ps[k] + 3][2] \in 0 .. file[ps[k] + 5][2] - 1
                   <=> Upto(k - 1) < r /\ r <= Upto(k)
      <4>1. PICK a \in Nat, l \in Nat : a = Upto(k - 1) /\ l = pages[k].count /\ Upto(k) = a + l
        BY <1>8
      <4>2. (r - 1) - a \in 0 .. l - 1 <=> a < r /\ r <= a + l
        BY <2>2
      <4>3. QED BY <1>7, <4>1, <4>2
    <3>2. QED BY <1>6, <3>1
  <2> HIDE DEF having
  <2>4. CASE r <= n
    <3>1. PICK k \in 1 .. c :
            /\ Upto(k - 1) < r /\ r <= Upto(k)
            /\ \A j \in 1 .. c : Upto(j - 1) < r /\ r <= Upto(j) => j = k
      <4>1. 1 <= r /\ r <= Upto(c)
        BY <1>9, <2>2, <2>4
      <4>2. QED BY <1>1, <1>4, <2>2, <4>1, RecordIn
    <3>2. having = {k}
      BY <2>3, <3>1
    <3>3. Min(having) = k
      <4>1. k <= k
        BY <1>2
      <4>2. QED BY <3>2, <4>1 DEF Min
    <3>4. PICK a \in Nat, l \in Nat : a = Upto(k - 1) /\ l = pages[k].count /\ Upto(k) = a + l
      BY <1>8
    <3>5. PICK i \in 1 .. l : i = (r - 1) - a + 1 /\ a + i = r
      <4>1. (r - 1) - a + 1 \in 1 .. l /\ a + ((r - 1) - a + 1) = r
        BY <2>2, <3>1, <3>4
      <4>2. QED BY <4>1
    <3>6. off = Edge(k - 1) /\ file[off + 3][2] = a
      BY <1>6, <1>7, <3>3, <3>4
    <3>7. ViewGet(file, Edge(k - 1), i, s) = ReadBack(rows[Upto(k - 1) + i][s], Sigils[s])
      <4>1. k \in 1 .. Written /\ Edge(k) <= Len(file) /\ i \in 1 .. pages[k].count
        BY <1>4, <1>5, <3>4
      <4>2. QED BY <1>1, <1>10, <4>1, DoneViewed
    <3>8. having # {}
      BY <3>2
    <3>9. GetComplete(file, DataStart, Sigils, r - 1, s) = ViewGet(file, Edge(k - 1), i, s)
      BY <2>1, <3>5, <3>6, <3>8
    <3>10. rows[Upto(k - 1) + i] = rows[r]
      BY <3>4, <3>5
    <3>11. QED BY <2>4, <3>7, <3>9, <3>10
  <2>5. CASE ~(r <= n)
    <3>1. having = {}
      <4> SUFFICES ASSUME NEW k \in 1 .. c, r <= Upto(k) PROVE FALSE
        BY <2>3
      <4>1. k \in 0 .. Len(pages) /\ c \in 0 .. Len(pages) /\ k <= c
        BY <1>4
      <4>2. Upto(k) \in Nat /\ Upto(c) \in Nat /\ Upto(k) <= Upto(c)
        BY <1>1, <4>1, UptoGrows
      <4>3. QED BY <1>9, <2>2, <2>5, <4>2
    <3>2. QED BY <2>1, <2>5, <3>1
  <2>6. QED BY <2>4, <2>5
<1>11. QED BY <1>10 DEF CompleteReadBack, ps, n

(* At any cut of the file, the records in complete pages read back by      *)
(* their global number, and the others do not read at all.                 *)
THEOREM CompleteRecordsRead == SafetySpec => []CompleteReadBack
<1>1. QED BY PaxInvariant, CompleteRead, PTL

----------------------------------------------------------------------------
(* A sealed file.                                                          *)

(* A file that passes for sealed has every page and the whole tail.        *)
LEMMA SealedFile ==
  ASSUME RowsInv, FileInv, PhaseInv, Sealed(file), clean
  PROVE  /\ pc = "end" /\ Len(rows) = Records /\ Written = Len(pages)
         /\ Len(file) = Edge(Len(pages)) + 7 * Len(pages) + 7
         /\ \A j \in 1 .. 7 * Len(pages) + 7 : file[Edge(Len(pages)) + j] = TheTail[j]
         /\ Footer(file).tail = Edge(Len(pages)) /\ Footer(file).count = Len(rows)
         /\ Footer(file).pages = Len(pages) /\ Upto(Len(pages)) = Len(rows)
<1>a. PICK n \in Nat : n = Len(pages) /\ n \in 0 .. Len(pages)
  BY PagesAre
<1>b. PICK e \in Nat, u \in Nat, d \in Nat : e = Edge(n) /\ u = Upto(n) /\ d = Len(rows) /\ u <= d
  BY <1>a, PagesAre
<1>c. PICK l \in Nat, t \in Nat :
        /\ l = Len(file) /\ t = Len(todo) /\ Len(Whole) = l + t
        /\ \A i \in 1 .. l : Whole[i] = file[i]
  BY WholeIs
<1>1. /\ n = Len(pages) /\ e = Edge(n) /\ u = Upto(n) /\ d = Len(rows) /\ u <= d
      /\ l = Len(file) /\ t = Len(todo) /\ Len(Whole) = l + t
      /\ \A i \in 1 .. l : Whole[i] = file[i]
  BY <1>a, <1>b, <1>c
<1>2. l >= 8 /\ file[l][1] = "foot"
  BY <1>1 DEF Sealed
<1>3. pc = "end" /\ l = Len(Whole)
  <2>1. l \in 1 .. l /\ l \in 1 .. Len(Whole)
    BY <1>1, <1>2
  <2>2. Whole[l][1] = "foot"
    BY <1>1, <1>2, <2>1
  <2>3. QED BY <2>1, <2>2, Magic
<1>4. Written = n
  BY <1>1, Zenon DEF Written
<1>5. TailLaid(TheTail, n, pages, DataStart + dataLen, d)
  BY <1>1, TailHas
<1>6. Len(TheTail) = 7 * n + 7
  BY <1>5 DEF TailLaid
<1>7. l = e + (7 * n + 7)
  BY <1>1, <1>3, <1>4, <1>6 DEF FileInv
<1>8. ASSUME NEW j \in 1 .. 7 * n + 7
      PROVE  file[e + j] = TheTail[j]
  <2>1. Whole[e + j] = TheTail[j]
    BY <1>1, <1>3, <1>4, <1>6 DEF FileInv
  <2>2. e + j \in 1 .. l
    BY <1>7
  <2>3. QED BY <1>1, <2>1, <2>2
<1>9. Footer(file).tail = e /\ Footer(file).count = d /\ Footer(file).pages = n
  <2>1. l - 7 + 1 = e + (7 * n + 1) /\ l - 7 + 3 = e + (7 * n + 3) /\ l - 7 + 5 = e + (7 * n + 5)
    BY <1>7
  <2>2. /\ 7 * n + 1 \in 1 .. 7 * n + 7 /\ 7 * n + 3 \in 1 .. 7 * n + 7
        /\ 7 * n + 5 \in 1 .. 7 * n + 7
    OBVIOUS
  <2>3. /\ file[l - 7 + 1] = TheTail[7 * n + 1] /\ file[l - 7 + 3] = TheTail[7 * n + 3]
        /\ file[l - 7 + 5] = TheTail[7 * n + 5]
    BY <1>8, <2>1, <2>2
  <2>4. /\ TheTail[7 * n + 1][2] = DataStart + dataLen /\ TheTail[7 * n + 3][2] = d
        /\ TheTail[7 * n + 5][2] = n
    BY <1>5 DEF TailLaid
  <2>5. e = DataStart + dataLen
    BY <1>1 DEF RowsInv
  <2>6. QED BY <1>1, <2>3, <2>4, <2>5 DEF Footer
<1>10. u = d /\ d = Records
  <2>1. rows \in Seq(RowCells) /\ pending = SubSeq(rows, u + 1, d)
    BY <1>1 DEF RowsInv
  <2>2. pending = << >> /\ d = Records
    BY <1>1, <1>3 DEF PhaseInv
  <2>3. Len(SubSeq(rows, u + 1, d)) = d - u
    <3>1. u <= d /\ d <= Len(rows)
      BY <1>1
    <3>2. QED BY <2>1, <3>1, PartOf
  <2>4. d - u = 0
    BY <2>1, <2>2, <2>3
  <2>5. u = d
    BY <2>4
  <2>6. QED BY <2>2, <2>5
<1>11. QED BY <1>1, <1>3, <1>4, <1>7, <1>8, <1>9, <1>10

(* The tail-index tells the place of each page.                            *)
LEMMA SealedIndex ==
  ASSUME RowsInv, FileInv, PhaseInv, Sealed(file), clean, NEW p \in Nat, p < Len(pages)
  PROVE  /\ PageStart(file, p) = Upto(p) /\ PageStart(file, p) + PageCount(file, p) = Upto(p + 1)
         /\ file[Footer(file).tail + 7 * p + 5][2] = Edge(p)
<1>1. PICK n \in Nat, e \in Nat : n = Len(pages) /\ e = Edge(n) /\ p < n
  <2>1. Len(pages) \in 0 .. Len(pages)
    BY PagesAre
  <2>2. QED BY <2>1, PagesAre
<1>2. TailLaid(TheTail, n, pages, DataStart + dataLen, Len(rows))
  BY <1>1, TailHas
<1>3. Footer(file).tail = e /\ \A j \in 1 .. 7 * n + 7 : file[e + j] = TheTail[j]
  BY <1>1, SealedFile
<1>4. PICK k \in 1 .. n : k = p + 1 /\ k - 1 = p
  BY <1>1
<1>5. /\ TheTail[7 * p + 2][2] = pages[k].start /\ TheTail[7 * p + 4][2] = pages[k].count
      /\ TheTail[7 * p + 5][2] = pages[k].at
  BY <1>2, <1>4 DEF TailLaid
<1>6. /\ file[e + (7 * p + 2)] = TheTail[7 * p + 2] /\ file[e + (7 * p + 4)] = TheTail[7 * p + 4]
      /\ file[e + (7 * p + 5)] = TheTail[7 * p + 5]
  <2>1. /\ 7 * p + 2 \in 1 .. 7 * n + 7 /\ 7 * p + 4 \in 1 .. 7 * n + 7
        /\ 7 * p + 5 \in 1 .. 7 * n + 7
    BY <1>1
  <2>2. QED BY <1>3, <2>1
<1>7. pages[k].start = Upto(p) /\ pages[k].at = Edge(p) /\ Upto(k) = Upto(p) + pages[k].count
  BY <1>1, <1>4, PagesAre DEF RowsInv
<1>8. /\ e + 7 * p + 2 = e + (7 * p + 2) /\ e + 7 * p + 4 = e + (7 * p + 4)
      /\ e + 7 * p + 5 = e + (7 * p + 5)
  OBVIOUS
<1>9. /\ PageStart(file, p) = pages[k].start /\ PageCount(file, p) = pages[k].count
      /\ file[Footer(file).tail + 7 * p + 5][2] = pages[k].at
  BY <1>3, <1>5, <1>6, <1>8 DEF PageStart, PageCount
<1>10. QED BY <1>4, <1>7, <1>9

(* Every record of a sealed file reads back by its number.                 *)
LEMMA SealedRead ==
  ASSUME RowsInv, FileInv, PhaseInv, Sealed(file), clean, NEW r \in DOMAIN rows, NEW s \in DOMAIN Sigils
  PROVE  SealedGet(file, Sigils, r - 1, s) = ReadBack(rows[r][s], Sigils[s])
<1>1. PICK n \in Nat : n = Len(pages) /\ Written = n /\ Footer(file).pages = n /\ Upto(n) = Len(rows)
  BY PagesAre, SealedFile
<1>2. r \in Nat /\ 1 <= r /\ r <= Upto(n)
  BY <1>1 DEF RowsInv
<1>3. PICK k \in 1 .. n : Upto(k - 1) < r /\ r <= Upto(k)
  <2>1. n \in 0 .. Len(pages)
    BY <1>1
  <2>2. QED BY <1>2, <2>1, RecordIn
<1>4. \A j \in 0 .. n : j \in 0 .. Len(pages) /\ Upto(j) \in Nat /\ Edge(j) \in Nat
  BY <1>1, PagesAre
<1>5. PICK p \in 0 .. n - 1, rec \in Nat : p = k - 1 /\ p + 1 = k /\ rec = r - 1 /\ p # Nowhere
  BY <1>2 DEF Nowhere
<1>6. PICK a \in Nat, b \in Nat, c \in Nat :
        a = Upto(p) /\ b = Upto(k) /\ c = pages[k].count /\ b = a + c /\ a < r /\ r <= b
  <2>1. k \in 0 .. n /\ p \in 0 .. n /\ k \in 1 .. Len(pages)
    BY <1>1, <1>5
  <2>2. QED BY <1>3, <1>4, <1>5, <2>1, PagesAre
<1>7. PICK i \in 1 .. c : rec - a + 1 = i /\ a + i = r /\ a <= rec /\ rec < b
  <2>1. rec - a + 1 \in 1 .. c /\ a + (rec - a + 1) = r /\ a <= rec /\ rec < b
    BY <1>2, <1>5, <1>6
  <2>2. QED BY <2>1
<1>8. Locate(file, rec) = p
  <2> DEFINE U == [j \in 0 .. n |-> Upto(j)]
  <2>1. U \in [0 .. n -> Nat] /\ \A j \in 0 .. n : U[j] = Upto(j)
    BY <1>4
  <2> HIDE DEF U
  <2>2. ASSUME NEW q \in 0 .. n - 1
        PROVE  PageStart(file, q) = U[q] /\ PageStart(file, q) + PageCount(file, q) = U[q + 1]
    <3>1. q \in Nat /\ q < Len(pages) /\ q \in 0 .. n /\ q + 1 \in 0 .. n
      BY <1>1
    <3>2. QED BY <2>1, <3>1, SealedIndex
  <2>3. \A j \in 0 .. n, h \in 0 .. n : j <= h => U[j] <= U[h]
    BY <1>1, <2>1, UptoGrows
  <2>4. U[p] <= rec /\ rec < U[p + 1]
    <3>1. p \in 0 .. n /\ p + 1 \in 0 .. n
      OBVIOUS
    <3>2. QED BY <1>5, <1>6, <1>7, <2>1, <3>1
  <2>5. Footer(file).pages = n
    BY <1>1
  <2>6. Indexed(file, n, U)
    BY <2>2, <2>3, <2>5 DEF Indexed
  <2>7. QED BY <2>1, <2>4, <2>6, LocateIs
<1>9. file[Footer(file).tail + 7 * p + 5][2] = Edge(p) /\ rec - PageStart(file, p) + 1 = i
  <2>1. p \in Nat /\ p < Len(pages)
    BY <1>1
  <2>2. QED BY <1>6, <1>7, <2>1, SealedIndex
<1>10. /\ k \in 1 .. Written /\ k \in 1 .. Len(pages) /\ Edge(k) <= Len(file)
  <2>1. k \in 0 .. Len(pages) /\ n \in 0 .. Len(pages) /\ k <= n
    BY <1>1
  <2>2. Edge(k) <= Edge(n) /\ Edge(n) \in Nat /\ Edge(k) \in Nat
    BY <1>4, <2>1, EdgesGrow
  <2>3. Len(file) = Edge(n) + 7 * n + 7
    BY <1>1, SealedFile
  <2>4. PICK x \in Nat, y \in Nat : x = Edge(k) /\ y = Edge(n) /\ x <= y /\ Len(file) = y + 7 * n + 7
    BY <2>2, <2>3
  <2>5. x <= y + 7 * n + 7
    BY <2>4
  <2>6. QED BY <1>1, <2>4, <2>5
<1>11. /\ HasWords(file, Edge(p), Bytes(k)) /\ Edge(k) = Edge(p) + Len(Bytes(k)) /\ Len(Bytes(k)) \in Nat
       /\ Edge(p) \in Nat
  <2>1. p \in 0 .. n
    OBVIOUS
  <2>2. QED BY <1>4, <1>5, <1>10, <2>1, PageInFile, PagesAre
<1>12. /\ Fits(Part(k), Sigils) /\ Len(Part(k)) = c /\ Len(Bytes(k)) >= 7
       /\ Part(k)[i] = rows[r]
       /\ \E at : PageLaid(Bytes(k), at, Upto(k - 1), Part(k), Sigils)
  BY <1>5, <1>6, <1>7, <1>10, PageMadeOf
<1>13. PageThere(file, Edge(p), Part(k), Sigils)
  BY <1>10, <1>11, <1>12, Zenon DEF PageThere
<1>14. SealedGet(file, Sigils, rec, s) = CellRead(Part(k)[i][s], Sigils[s])
  <2>1. s \in 1 .. Len(Sigils) /\ IsSeq(file)
    BY Params DEF FileInv
  <2>2. i \in 1 .. Len(Part(k))
    BY <1>12
  <2>3. p # Nowhere /\ Edge(p) \in Nat /\ Fits(Part(k), Sigils)
    BY <1>5, <1>11, <1>12
  <2>4. Sits(file, Sigils, Part(k), rec, p, Edge(p), i, s)
    BY <1>8, <1>9, <1>13, <2>1, <2>2, <2>3, Zenon DEF Sits
  <2>5. QED BY <2>4, SealedCell
<1>15. CellRead(Part(k)[i][s], Sigils[s]) = ReadBack(Part(k)[i][s], Sigils[s])
  BY DEF CellRead, ReadBack, Stored, Populated, TextOf
<1>16. QED BY <1>5, <1>12, <1>14, <1>15

(* Division where the rest is known.                                       *)
LEMMA Quotient ==
  ASSUME NEW q \in Nat, NEW b \in Nat, b >= 1, NEW r \in 0 .. b - 1
  PROVE  (q * b + r) \div b = q
<1>1. PICK x \in Int : x = (q * b + r) \div b
  OBVIOUS
<1>2. x * b <= q * b + r /\ q * b + r < (x + 1) * b
  BY <1>1
<1>3. ASSUME x < q PROVE FALSE
  <2>1. (x + 1) * b <= q * b
    BY <1>3
  <2>2. QED BY <1>2, <2>1
<1>4. ASSUME q < x PROVE FALSE
  <2>1. (q + 1) * b <= x * b /\ (q + 1) * b = q * b + b
    BY <1>4
  <2>2. QED BY <1>2, <2>1
<1>5. QED BY <1>1, <1>3, <1>4

(* The smaller of two.                                                     *)
LEMMA MinOfTwo ==
  ASSUME NEW a \in Int, NEW b \in Int
  PROVE  Min({a, b}) = IF a <= b THEN a ELSE b
BY DEF Min

(* Full pages but for the last are those that finish_pax makes.            *)
LEMMA FullPages ==
  ASSUME RowsInv, NEW n \in Nat, n = Len(pages), Upto(n) = Len(rows), Len(rows) >= 1,
         \A i \in 1 .. n - 1 : pages[i].count = PageSize,
         InferSigils(rows, Len(Sigils)) = Sigils
  PROVE  FinishPax(rows, Len(Sigils), PageSize, DataStart)
           = FlattenSeq([i \in 1 .. n |-> Bytes(i)]) \o PaxTail(pages, Edge(n), Len(rows), PageSize)
<1>1. PICK b \in Nat, l \in Nat : b = PageSize /\ b >= 1 /\ l = Len(rows) /\ l >= 1
  BY Params, PagesAre
<1>2. n >= 1
  <2>1. n = 0 => Upto(n) = 0
    BY DEF Upto
  <2>2. QED BY <1>1, <2>1
<1>3. \A k \in 1 .. n : /\ k \in 1 .. Len(pages) /\ k - 1 \in 0 .. Len(pages) /\ k \in 0 .. Len(pages)
  OBVIOUS
<1>4. \A k \in 1 .. n :
        /\ pages[k].count \in 1 .. b /\ Upto(k) = Upto(k - 1) + pages[k].count
        /\ Edge(k) = Edge(k - 1) + Len(Bytes(k))
        /\ pages[k] \in PageMetas /\ pages[k].index = k - 1 /\ pages[k].start = Upto(k - 1)
        /\ pages[k].at = Edge(k - 1) /\ pages[k].len = Len(Bytes(k))
  <2> SUFFICES ASSUME NEW k \in 1 .. n
               PROVE  /\ pages[k].count \in 1 .. b /\ Upto(k) = Upto(k - 1) + pages[k].count
                      /\ Edge(k) = Edge(k - 1) + Len(Bytes(k))
                      /\ pages[k] \in PageMetas /\ pages[k].index = k - 1 /\ pages[k].start = Upto(k - 1)
                      /\ pages[k].at = Edge(k - 1) /\ pages[k].len = Len(Bytes(k))
    OBVIOUS
  <2>1. k \in 1 .. Len(pages)
    BY <1>3
  <2>2. Upto(k) = Upto(k - 1) + pages[k].count /\ Edge(k) = Edge(k - 1) + Len(Bytes(k))
    BY <2>1, PagesAre
  <2>3. pages[k] \in PageMetas
    BY <2>1 DEF RowsInv
  <2>4. /\ pages[k].count \in 1 .. PageSize /\ pages[k].index = k - 1 /\ pages[k].start = Upto(k - 1)
        /\ pages[k].at = Edge(k - 1) /\ pages[k].len = Len(Bytes(k))
    BY <2>1 DEF RowsInv
  <2>5. QED BY <1>1, <2>2, <2>3, <2>4
<1>5. \A p \in 0 .. n - 1 : Upto(p) = p * b
  <2> DEFINE S == {p \in 0 .. n - 1 : Upto(p) = p * b}
  <2>1. 0 \in S
    <3>1. Upto(0) = 0 /\ 0 * b = 0 /\ 0 \in 0 .. n - 1
      BY <1>2 DEF Upto
    <3>2. QED BY <3>1
  <2>2. ASSUME NEW p \in 0 .. (n - 1) - 1, p \in S PROVE p + 1 \in S
    <3>1. p + 1 \in 1 .. n /\ p + 1 \in 1 .. n - 1 /\ (p + 1) - 1 = p /\ p + 1 \in 0 .. n - 1
      OBVIOUS
    <3>2. Upto(p + 1) = Upto(p) + b
      BY <1>1, <1>4, <3>1
    <3>3. p * b + b = (p + 1) * b
      OBVIOUS
    <3>4. QED BY <2>2, <3>1, <3>2, <3>3
  <2>3. 0 .. n - 1 \subseteq S
    <3>1. 0 \in Int /\ n - 1 \in Int
      OBVIOUS
    <3> HIDE DEF S
    <3>2. QED BY <2>1, <2>2, <3>1, Upward, Zenon
  <2>4. QED BY <2>3
<1> DEFINE C == [p \in 0 .. n - 1 |-> pages[p + 1].count]
           P == [p \in 0 .. n - 1 |-> Bytes(p + 1)]
           E == [p \in 0 .. n |-> Edge(p)]
<1>6. \A p \in 0 .. n - 1 : C[p] = pages[p + 1].count /\ P[p] = Bytes(p + 1) /\ p + 1 \in 1 .. n /\ (p + 1) - 1 = p
  OBVIOUS
<1>7. \A p \in 0 .. n : E[p] = Edge(p)
  OBVIOUS
<1> HIDE DEF C, P, E
<1>8. (l + b - 1) \div b = n
  <2>1. n \in 1 .. n /\ n - 1 \in 0 .. n - 1
    BY <1>2
  <2>2. PICK c \in 1 .. b : l = (n - 1) * b + c
    <3>1. pages[n].count \in 1 .. b /\ Upto(n) = Upto(n - 1) + pages[n].count
      BY <1>4, <2>1
    <3>2. Upto(n - 1) = (n - 1) * b
      BY <1>5, <2>1
    <3>3. QED BY <1>1, <3>1, <3>2
  <2>3. c - 1 \in 0 .. b - 1
    OBVIOUS
  <2>4. l + b - 1 = n * b + (c - 1)
    <3>1. (n - 1) * b = n * b - b
      OBVIOUS
    <3>2. QED BY <2>2, <3>1
  <2>5. QED BY ZenonT(60), <1>1, <2>3, <2>4, Quotient
<1>9. ASSUME NEW p \in 0 .. n - 1
      PROVE  Min({b, l - p * b}) = C[p]
  <2> DEFINE x == l - p * b
  <2>1. x \in Int /\ x = l - p * b
    OBVIOUS
  <2> HIDE DEF x
  <2>2. Min({b, x}) = IF b <= x THEN b ELSE x
    BY <2>1, MinOfTwo
  <2>3. CASE p = n - 1
    <3>1. pages[n].count \in 1 .. b /\ Upto(n) = Upto(n - 1) + pages[n].count
      BY <1>2, <1>4
    <3>2. Upto(n - 1) = p * b /\ p + 1 = n
      BY <1>5, <2>3
    <3>3. C[p] = x /\ x <= b
      BY <1>1, <1>6, <2>1, <3>1, <3>2
    <3>4. Min({b, x}) = C[p]
      <4>1. x \in Int /\ b \in Int
        BY <2>1
      <4>2. b <= x => b = x
        BY <3>3, <4>1
      <4>3. Min({b, x}) = x
        BY <2>2, <4>2
      <4>4. QED BY <3>3, <4>3, Zenon
    <3>5. QED BY <3>4, Zenon DEF x
  <2>4. CASE p # n - 1
    <3>1. p + 1 \in 1 .. n - 1 /\ p + 1 \in 0 .. n - 1 /\ p + 1 \in 0 .. Len(pages)
      BY <2>4
    <3>2. C[p] = b /\ Upto(p + 1) = (p + 1) * b /\ Upto(p + 1) <= l
      BY <1>1, <1>5, <1>6, <3>1, PagesAre
    <3>3. (p + 1) * b = p * b + b
      OBVIOUS
    <3>4. b <= x
      BY <2>1, <3>2, <3>3
    <3>5. Min({b, x}) = b /\ C[p] = b
      BY <2>2, <3>2, <3>4
    <3>6. QED BY <3>5, Zenon DEF x
  <2>5. QED BY <2>3, <2>4
<1>10. ASSUME NEW p \in 0 .. n - 1
       PROVE  P[p] = EncodePage(p, p * b, SubSeq(rows, p * b + 1, p * b + C[p]), Sigils)
  <2>1. Upto(p) = p * b
    BY <1>5
  <2>2. Upto(p + 1) = p * b + C[p]
    BY <1>4, <1>6, <2>1
  <2>3. P[p] = EncodePage((p + 1) - 1, Upto((p + 1) - 1), Part(p + 1), Sigils)
    BY <1>6 DEF Bytes
  <2>4. Part(p + 1) = SubSeq(rows, p * b + 1, p * b + C[p])
    BY <1>6, <2>1, <2>2 DEF Part
  <2>5. QED BY <1>6, <2>1, <2>3, <2>4
<1>11. E[0] = DataStart /\ \A p \in 1 .. n : E[p] = E[p - 1] + Len(P[p - 1])
  <2>1. E[0] = DataStart
    <3>1. 0 \in 0 .. n
      OBVIOUS
    <3>2. QED BY <1>7, <3>1 DEF Edge
  <2>2. ASSUME NEW p \in 1 .. n PROVE E[p] = E[p - 1] + Len(P[p - 1])
    <3>1. p \in 0 .. n /\ p - 1 \in 0 .. n /\ p - 1 \in 0 .. n - 1 /\ (p - 1) + 1 = p
      OBVIOUS
    <3>2. E[p] = Edge(p) /\ E[p - 1] = Edge(p - 1) /\ P[p - 1] = Bytes(p)
      BY <1>6, <1>7, <3>1
    <3>3. QED BY <1>4, <3>2
  <2>3. QED BY <2>1, <2>2
<1>12. CutInto(rows, Len(Sigils), b, DataStart, n, C, P, E)
  BY <1>1, <1>8, <1>9, <1>10, <1>11, Zenon DEF CutInto
<1> DEFINE metas == [i \in 1 .. n |-> [index |-> i - 1, start |-> (i - 1) * b, count |-> C[i - 1],
                                       at |-> E[i - 1], len |-> Len(P[i - 1])]]
<1>13. FinishPax(rows, Len(Sigils), b, DataStart)
         = FlattenSeq([i \in 1 .. n |-> P[i - 1]]) \o PaxTail(metas, E[n], Len(rows), b)
  <2>1. n \in Nat
    OBVIOUS
  <2>2. FinishPax(rows, Len(Sigils), b, DataStart) = Finished(rows, b, n, C, P, E)
    BY <1>12, <2>1, FinishIs
  <2>3. QED BY <2>2, Zenon DEF Finished
<1>14. metas = pages
  <2>1. ASSUME NEW i \in 1 .. n
        PROVE  pages[i] = [index |-> i - 1, start |-> (i - 1) * b, count |-> C[i - 1],
                           at |-> E[i - 1], len |-> Len(P[i - 1])]
    <3>1. i - 1 \in 0 .. n - 1 /\ i - 1 \in 0 .. n /\ (i - 1) + 1 = i
      OBVIOUS
    <3>2. Upto(i - 1) = (i - 1) * b /\ C[i - 1] = pages[i].count /\ E[i - 1] = Edge(i - 1) /\ P[i - 1] = Bytes(i)
      BY <1>5, <1>6, <1>7, <3>1
    <3>3. pages[i] = [index |-> pages[i].index, start |-> pages[i].start, count |-> pages[i].count,
                      at |-> pages[i].at, len |-> pages[i].len]
      BY <1>4 DEF PageMetas
    <3>4. /\ pages[i].index = i - 1 /\ pages[i].start = (i - 1) * b /\ pages[i].count = C[i - 1]
          /\ pages[i].at = E[i - 1] /\ pages[i].len = Len(P[i - 1])
      BY <1>4, <3>2
    <3>5. QED BY <3>3, <3>4, Zenon
  <2>2. pages = [i \in 1 .. n |-> pages[i]]
    <3>1. pages \in Seq(PageMetas)
      BY DEF RowsInv
    <3>2. QED BY <3>1
  <2>3. [i \in 1 .. n |-> pages[i]] = metas
    BY <2>1, Zenon
  <2> HIDE DEF metas
  <2>4. QED BY <2>2, <2>3
<1>15. [i \in 1 .. n |-> P[i - 1]] = [i \in 1 .. n |-> Bytes(i)]
  <2>1. ASSUME NEW i \in 1 .. n PROVE P[i - 1] = Bytes(i)
    <3>1. i - 1 \in 0 .. n - 1 /\ (i - 1) + 1 = i
      OBVIOUS
    <3>2. QED BY <1>6, <3>1
  <2>2. QED BY <2>1, Zenon
<1>16. E[n] = Edge(n)
  <2>1. n \in 0 .. n
    OBVIOUS
  <2>2. QED BY <1>7, <2>1
<1> HIDE DEF metas
<1>17. QED BY <1>1, <1>13, <1>14, <1>15, <1>16, Zenon

(* A sealed file is the header, the pages and the tail.                    *)
LEMMA SealedBytes ==
  ASSUME RowsInv, FileInv, PhaseInv, Sealed(file), clean, NEW n \in Nat, n = Len(pages)
  PROVE  SubSeq(file, DataStart + 1, Len(file)) = FlattenSeq([i \in 1 .. n |-> Bytes(i)]) \o TheTail
<1> DEFINE f == [i \in 1 .. n |-> Bytes(i)]
           flat == FlattenSeq([i \in 1 .. n |-> f[i]])
           cut == SubSeq(file, DataStart + 1, Len(file))
<1>1. \A i \in 1 .. n : f[i] = Bytes(i) /\ i \in 1 .. Len(pages)
  OBVIOUS
<1>2. \A i \in 1 .. n : IsSeq(f[i])
  <2> SUFFICES ASSUME NEW i \in 1 .. n PROVE IsSeq(f[i])
    OBVIOUS
  <2>1. \E at : PageLaid(Bytes(i), at, Upto(i - 1), Part(i), Sigils)
    BY <1>1, PageMadeOf
  <2>2. QED BY <1>1, <2>1 DEF PageLaid
<1> HIDE DEF f
<1>3. Flattened(flat, n, f)
  BY <1>2, FlattenAny
<1> HIDE DEF flat
<1>4. PICK start \in [1 .. n + 1 -> Nat] :
        /\ start[1] = 0 /\ Len(flat) = start[n + 1]
        /\ \A i \in 1 .. n :
             /\ Len(f[i]) \in Nat
             /\ start[i + 1] = start[i] + Len(f[i])
             /\ start[i + 1] <= start[n + 1]
             /\ \A j \in 1 .. Len(f[i]) : flat[start[i] + j] = f[i][j]
  BY <1>3 DEF Flattened
<1>5. PICK d \in Nat, e \in Nat, l \in Nat :
        d = DataStart /\ d = Edge(0) /\ e = Edge(n) /\ l = Len(file) /\ l = e + 7 * n + 7 /\ d <= e
  <2>1. 0 \in 0 .. Len(pages) /\ n \in 0 .. Len(pages) /\ 0 <= n
    OBVIOUS
  <2>2. Edge(0) \in Nat /\ Edge(n) \in Nat /\ Edge(0) <= Edge(n)
    BY <2>1, EdgesGrow
  <2>3. Edge(0) = DataStart
    BY DEF Edge
  <2>4. Len(file) = Edge(n) + 7 * n + 7 /\ Len(file) \in Nat
    BY SealedFile, WholeIs
  <2>5. QED BY <2>2, <2>3, <2>4
<1>50. l = e + 7 * n + 7 /\ d <= e
  BY <1>5
<1>6. \A i \in 1 .. n + 1 : Edge(i - 1) = d + start[i]
  <2> DEFINE S == {i \in 1 .. n + 1 : Edge(i - 1) = d + start[i]}
  <2>1. 1 \in S
    BY <1>4, <1>5
  <2>2. ASSUME NEW i \in 1 .. (n + 1) - 1, i \in S PROVE i + 1 \in S
    <3>1. i \in 1 .. n /\ i \in 1 .. Len(pages) /\ i + 1 \in 1 .. n + 1 /\ (i + 1) - 1 = i
      OBVIOUS
    <3>2. Edge(i) = Edge(i - 1) + Len(Bytes(i)) /\ start[i + 1] = start[i] + Len(Bytes(i)) /\ Len(Bytes(i)) \in Nat
      BY <1>1, <1>4, <3>1, PagesAre
    <3>3. Edge(i - 1) = d + start[i] /\ start[i] \in Nat
      BY <1>4, <2>2
    <3>4. Edge(i) = d + start[i + 1]
      BY <3>2, <3>3
    <3>5. QED BY <3>1, <3>4
  <2>3. 1 .. n + 1 \subseteq S
    <3>1. 1 \in Int /\ n + 1 \in Int
      OBVIOUS
    <3> HIDE DEF S
    <3>2. QED BY <2>1, <2>2, <3>1, Upward, Zenon
  <2>4. QED BY <2>3
<1>7. Len(flat) = e - d /\ IsSeq(flat)
  <2>1. n + 1 \in 1 .. n + 1 /\ (n + 1) - 1 = n /\ start[n + 1] \in Nat
    BY <1>4
  <2>2. e = d + start[n + 1]
    BY <1>5, <1>6, <2>1
  <2>3. QED BY <1>3, <1>4, <2>1, <2>2 DEF Flattened
<1>8. IsSeq(TheTail) /\ Len(TheTail) = 7 * n + 7
  BY TailHas DEF TailLaid
<1>9. /\ IsSeq(flat \o TheTail) /\ Len(flat \o TheTail) = Len(flat) + Len(TheTail)
      /\ \A i \in 1 .. Len(flat) : (flat \o TheTail)[i] = flat[i]
      /\ \A i \in 1 .. Len(TheTail) : (flat \o TheTail)[Len(flat) + i] = TheTail[i]
  BY SMTT(60), <1>7, <1>8, Joined
<1>10. IsSeq(cut) /\ Len(cut) = l - d /\ \A i \in 1 .. l - d : cut[i] = file[d + i]
  <2>1. PICK W : file \in Seq(W)
    BY DEF FileInv, IsSeq
  <2>2. d <= l /\ l <= Len(file)
    BY <1>5
  <2>3. /\ SubSeq(file, d + 1, l) \in Seq(W) /\ Len(SubSeq(file, d + 1, l)) = l - d
        /\ \A i \in 1 .. l - d : SubSeq(file, d + 1, l)[i] = file[d + i]
    BY <2>1, <2>2, PartOf
  <2>4. QED BY <1>5, <2>3 DEF IsSeq
<1> HIDE DEF cut
<1>11. Len(cut) = Len(flat \o TheTail)
  <2>1. (e - d) + (7 * n + 7) = l - d
    BY <1>50
  <2>2. QED BY <1>7, <1>8, <1>9, <1>10, <2>1
<1>12. ASSUME NEW i \in 1 .. l - d
       PROVE  cut[i] = (flat \o TheTail)[i]
  <2>1. cut[i] = file[d + i]
    BY <1>10
  <2>2. CASE i <= e - d
    <3>1. d + i \in Nat /\ d < d + i /\ d + i <= e /\ d + i \in 1 .. l
      BY <1>50, <2>2
    <3>2. PICK k \in 1 .. n : \E j \in 1 .. Len(Bytes(k)) : d + i = Edge(k - 1) + j
      <4>1. n \in 0 .. Len(pages)
        OBVIOUS
      <4>2. QED BY <1>5, <3>1, <4>1, InPage
    <3>3. PICK j \in 1 .. Len(Bytes(k)) : d + i = Edge(k - 1) + j
      BY <3>2
    <3>4. file[d + i] = Bytes(k)[j]
      <4>1. Whole[Edge(k - 1) + j] = Bytes(k)[j]
        <5>1. k \in 1 .. Written
          BY SealedFile
        <5>2. QED BY <5>1 DEF FileInv
      <4>2. Whole[d + i] = file[d + i]
        BY <1>5, <3>1, WholeIs
      <4>3. QED BY <3>3, <4>1, <4>2
    <3>5. i = start[k] + j
      <4>1. k \in 1 .. n + 1
        OBVIOUS
      <4>2. start[k] \in Nat /\ Edge(k - 1) = d + start[k]
        BY <1>4, <1>6, <4>1
      <4>3. Len(Bytes(k)) \in Nat
        BY <1>1, PagesAre
      <4>4. PICK x \in Nat, y \in Nat : x = start[k] /\ y = j
        BY <4>2, <4>3
      <4>5. d + i = (d + x) + y
        BY <3>3, <4>2, <4>4
      <4>6. i = x + y
        BY <4>5
      <4>7. QED BY <4>4, <4>6
    <3>6. flat[start[k] + j] = Bytes(k)[j]
      <4>1. f[k] = Bytes(k)
        BY <1>1
      <4>2. j \in 1 .. Len(f[k])
        BY <4>1
      <4>3. flat[start[k] + j] = f[k][j]
        BY <1>4, <4>2
      <4>4. QED BY <4>1, <4>3
    <3>7. i \in 1 .. Len(flat)
      BY <1>7, <2>2
    <3>8. QED BY <1>9, <2>1, <3>4, <3>5, <3>6, <3>7
  <2>3. CASE ~(i <= e - d)
    <3>1. PICK j \in 1 .. 7 * n + 7 : i = (e - d) + j /\ d + i = e + j
      <4>1. i - (e - d) \in 1 .. 7 * n + 7 /\ i = (e - d) + (i - (e - d)) /\ d + i = e + (i - (e - d))
        BY <1>50, <2>3
      <4>2. QED BY <4>1
    <3>2. file[e + j] = TheTail[j]
      BY <1>5, SealedFile
    <3>3. QED BY <1>7, <1>8, <1>9, <2>1, <3>1, <3>2
  <2>4. QED BY <2>2, <2>3
<1>13. cut = flat \o TheTail
  BY <1>9, <1>10, <1>11, <1>12, SameWords
<1>14. flat = FlattenSeq([i \in 1 .. n |-> Bytes(i)])
  BY <1>1, Zenon DEF flat
<1>15. QED BY <1>13, <1>14 DEF cut

(* A sealed file has every record where the tail-index says, and with full *)
(* pages it is the file of finish_pax.                                     *)
LEMMA SealedFull == PaxInv => SealedExact
<1> SUFFICES ASSUME PaxInv, Sealed(file), clean
             PROVE  /\ Footer(file).count = Records
                    /\ \A r \in DOMAIN rows, s \in DOMAIN Sigils :
                          SealedGet(file, Sigils, r - 1, s) = ReadBack(rows[r][s], Sigils[s])
                    /\ (/\ \A i \in 1 .. Len(pages) - 1 : pages[i].count = PageSize
                        /\ InferSigils(rows, Len(Sigils)) = Sigils) =>
                          SubSeq(file, DataStart + 1, Len(file))
                             = FinishPax(rows, Len(Sigils), PageSize, DataStart)
  BY Zenon DEF SealedExact
<1>1. RowsInv /\ FileInv /\ PhaseInv
  BY DEF PaxInv
<1>2. /\ Footer(file).count = Len(rows) /\ Len(rows) = Records /\ Upto(Len(pages)) = Len(rows)
      /\ Len(pages) \in Nat
  BY <1>1, SealedFile, PagesAre
<1>3. \A r \in DOMAIN rows, s \in DOMAIN Sigils :
        SealedGet(file, Sigils, r - 1, s) = ReadBack(rows[r][s], Sigils[s])
  BY <1>1, SealedRead
<1>4. ASSUME \A i \in 1 .. Len(pages) - 1 : pages[i].count = PageSize,
             InferSigils(rows, Len(Sigils)) = Sigils
      PROVE  SubSeq(file, DataStart + 1, Len(file)) = FinishPax(rows, Len(Sigils), PageSize, DataStart)
  <2>1. PICK n \in Nat : n = Len(pages)
    BY <1>2
  <2>2. Len(rows) >= 1 /\ Upto(n) = Len(rows) /\ \A i \in 1 .. n - 1 : pages[i].count = PageSize
    BY <1>2, <1>4, <2>1, Params
  <2>3. FinishPax(rows, Len(Sigils), PageSize, DataStart)
          = FlattenSeq([i \in 1 .. n |-> Bytes(i)]) \o PaxTail(pages, Edge(n), Len(rows), PageSize)
    BY <1>1, <1>4, <2>1, <2>2, FullPages
  <2>4. SubSeq(file, DataStart + 1, Len(file)) = FlattenSeq([i \in 1 .. n |-> Bytes(i)]) \o TheTail
    BY <1>1, <2>1, SealedBytes
  <2>5. Edge(n) = DataStart + dataLen
    BY <1>1, <2>1 DEF RowsInv
  <2>6. QED BY <2>3, <2>4, <2>5 DEF TheTail
<1>5. QED BY <1>2, <1>3, <1>4

(* A file that passes for sealed, after a flush, has every record where    *)
(* the tail-index says, whatever pages the flushes made; with full pages   *)
(* it is the file finish_pax makes.                                        *)
THEOREM SealedReadsBack == SafetySpec => []SealedExact
<1>1. QED BY PaxInvariant, SealedFull, PTL
=============================================================================
