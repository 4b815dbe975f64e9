--------------------------- MODULE PrefetchProofs ---------------------------
(***************************************************************************)
(* What is proved of PrefetchEngine, for every number of callers, records, *)
(* pages and calls: no thread is left behind, the cache is bounded, a page *)
(* in flight is being fetched, and a complete load has loaded the sector.  *)
(***************************************************************************)
EXTENDS PrefetchEngine, SequenceLemmas

----------------------------------------------------------------------------
(* The operators of the engine.                                            *)

(* Division of page arithmetic: record \div size lies between neighbours.  *)
LEMMA Division ==
  ASSUME NEW a \in Nat, NEW b \in Nat \ {0}
  PROVE  /\ a \div b \in Nat
         /\ b * (a \div b) <= a
         /\ a < b * (a \div b) + b
<1>1. a = b * (a \div b) + (a % b) /\ a % b \in 0 .. b - 1 /\ a \div b \in Int
  OBVIOUS
<1>2. a \div b \in Nat
  OBVIOUS
<1>3. b * (a \div b) \in Int /\ a % b \in Int
  BY <1>1
<1>4. QED BY <1>1, <1>2, <1>3
(* Multiplication keeps the order.                                         *)
LEMMA Times ==
  ASSUME NEW b \in Nat, NEW x \in Nat, NEW y \in Nat, x <= y
  PROVE  b * x <= b * y
<1> DEFINE d == y - x
<1>1. d \in Nat /\ y = x + d
  OBVIOUS
<1> HIDE DEF d
<1>2. b * (x + d) = b * x + b * d
  BY <1>1
<1>3. b * d \in Nat /\ b * x \in Nat
  BY <1>1
<1>4. QED BY <1>1, <1>2, <1>3

(* The pages of the sector are numbered without a gap.                     *)
LEMMA SectorIsPages ==
  /\ LastPage \in Int /\ IsFiniteSet(Pages) /\ Cardinality(Pages) = LastPage + 1
  /\ Sector = Pages
  /\ \A r \in Records : PageOf(r) \in Pages
  /\ RecordCount # 0 => Pages # {}
<1> DEFINE b == RecordsPerPage
           top == RecordCount - 1
           m == top \div b
<1>1. b \in Nat /\ b # 0 /\ RecordCount \in Nat
  BY PrefetchAssumption
<1>2. CASE RecordCount = 0
  <2>1. Sector = {}
    BY <1>2 DEF Sector, Records
  <2>2. LastPage = 0 - 1
    BY <2>1, FS_EmptySet DEF LastPage
  <2>3. Pages = {} /\ Records = {}
    BY <1>2, <2>2 DEF Pages, Records
  <2>4. QED BY <1>2, <2>1, <2>2, <2>3, FS_EmptySet
<1>3. CASE RecordCount # 0
  <2>1. top \in Nat
    BY <1>1, <1>3
  <2>2. m \in Nat /\ b * m <= top /\ top < b * m + b
    BY <1>1, <2>1, Division
  <2> HIDE DEF top, m, b
  <2>3. ASSUME NEW r \in Nat, r <= top PROVE r \div b <= m
    <3> DEFINE q == r \div b
    <3>1. q \in Nat /\ b * q <= r
      BY <1>1, Division
    <3> HIDE DEF q
    <3>2. ASSUME q >= m + 1 PROVE FALSE
      <4>1. b * (m + 1) <= b * q
        BY <1>1, <2>2, <3>1, <3>2, Times
      <4>2. b * (m + 1) = b * m + b /\ b * m \in Nat /\ b * q \in Nat
        BY <1>1, <2>2, <3>1
      <4>3. QED BY <1>1, <2>1, <2>2, <2>3, <3>1, <4>1, <4>2
    <3>3. q <= m
      BY <2>2, <3>1, <3>2
    <3>4. QED BY <3>3 DEF q
  <2>4. ASSUME NEW q \in Nat, q <= m PROVE b * q \in 0 .. top /\ (b * q) \div b = q
    <3> DEFINE r == b * q
               d == r \div b
    <3>1. r \in Nat /\ r <= b * m /\ b * m \in Nat
      BY <1>1, <2>2, <2>4, Times
    <3>2. d \in Nat /\ b * d <= r /\ r < b * d + b
      BY <1>1, <3>1, Division
    <3> HIDE DEF d
    <3>3. ASSUME d < q PROVE FALSE
      <4>1. b * (d + 1) <= b * q
        BY <1>1, <3>2, <3>3, Times
      <4>2. b * (d + 1) = b * d + b /\ b * d \in Nat
        BY <1>1, <3>2
      <4>3. QED BY <1>1, <3>1, <3>2, <4>1, <4>2
    <3>4. ASSUME q < d PROVE FALSE
      <4>1. b * (q + 1) <= b * d
        BY <1>1, <3>2, <3>4, Times
      <4>2. b * (q + 1) = b * q + b /\ b * d \in Nat
        BY <1>1, <3>2
      <4>3. QED BY <1>1, <3>1, <3>2, <4>1, <4>2
    <3>5. d = q
      BY <3>2, <3>3, <3>4
    <3>6. r \in 0 .. top
      BY <2>1, <2>2, <3>1
    <3>7. QED BY <3>5, <3>6 DEF d
  <2>5. Records = 0 .. top
    BY DEF Records, top
  <2>6. Sector = 0 .. m
    <3>1. ASSUME NEW r \in Records PROVE PageOf(r) \in 0 .. m
      <4>1. r \in Nat /\ r <= top
        BY <2>1, <2>5
      <4>2. r \div b <= m /\ r \div b \in Nat
        BY <1>1, <2>3, <4>1, Division
      <4>3. QED BY <2>2, <4>2 DEF PageOf, b
    <3>2. ASSUME NEW q \in 0 .. m PROVE q \in Sector
      <4>1. q \in Nat /\ q <= m
        BY <2>2
      <4>2. b * q \in Records /\ PageOf(b * q) = q
        BY <2>4, <2>5, <4>1 DEF PageOf, b
      <4>3. QED BY <4>2 DEF Sector
    <3>3. QED BY <3>1, <3>2 DEF Sector
  <2>7. LastPage = m
    BY <2>2, <2>6, FS_Interval DEF LastPage
  <2>8. Pages = 0 .. m /\ Cardinality(Pages) = m + 1 /\ IsFiniteSet(Pages)
    BY <2>2, <2>7, FS_Interval DEF Pages
  <2>9. \A r \in Records : PageOf(r) \in Sector
    BY DEF Sector
  <2>10. 0 \in Pages
    BY <2>2, <2>8
  <2>11. LastPage \in Int /\ Cardinality(Pages) = LastPage + 1
    BY <2>2, <2>7, <2>8
  <2>12. Sector = Pages /\ Pages # {}
    BY <2>6, <2>8, <2>10
  <2>13. \A r \in Records : PageOf(r) \in Pages
    BY <2>9, <2>12
  <2>14. QED BY <2>8, <2>11, <2>12, <2>13
<1>4. QED BY <1>2, <1>3

(* A range of pages, and the pages it stands for.                          *)
Range2 == {r \in PageRange : r.first <= r.last}
Whole(r) == r.first .. r.last
InRanges(p, todo) == \E k \in DOMAIN todo : p \in Whole(todo[k])

(* Every run has an end: the last page before the next run starts.         *)
LEMMA RunEnds ==
  ASSUME NEW n \in Nat, NEW pages, pages \subseteq 0 .. n, NEW p \in pages
  PROVE  LET e == EndOfRun(p, pages) IN
         /\ e \in pages /\ p <= e
         /\ \A q \in pages : q > e => \E r \in pages : e < r /\ r <= q /\ StartsRun(r, pages)
<1> DEFINE Ends(e) ==
             /\ e >= p /\ \A q \in pages : p < q /\ q <= e => ~StartsRun(q, pages)
             /\ \A q \in pages : q > e => \E r \in pages : e < r /\ r <= q /\ StartsRun(r, pages)
           E == {e \in pages : e >= p /\ \A q \in pages : p < q /\ q <= e => ~StartsRun(q, pages)}
<1>1. \A q \in pages : q \in Int
  OBVIOUS
<1>2. p \in E
  BY <1>1
<1>3. PICK e \in E : \A k \in E : k <= e
  <2>1. E \subseteq 0 .. n /\ E # {}
    BY <1>2
  <2>2. QED BY <2>1, Greatest
<1>4. ASSUME NEW q \in pages, q > e
      PROVE  \E r \in pages : e < r /\ r <= q /\ StartsRun(r, pages)
  <2>1. q \notin E /\ q >= p
    BY <1>1, <1>3, <1>4
  <2>2. PICK r \in pages : p < r /\ r <= q /\ StartsRun(r, pages)
    BY <2>1
  <2>3. e < r
    BY <1>1, <1>3, <2>2
  <2>4. QED BY <2>2, <2>3
<1>5. e \in pages /\ Ends(e)
  BY <1>3, <1>4
<1>6. EndOfRun(p, pages) = CHOOSE x \in pages : Ends(x)
  BY DEF EndOfRun
<1> HIDE DEF Ends
<1>7. EndOfRun(p, pages) \in pages /\ Ends(EndOfRun(p, pages))
  BY <1>5, <1>6
<1>8. QED BY <1>1, <1>7 DEF Ends

(* coalesce_page_indices: ranges of the sector, and every page is in one.  *)
LEMMA CoalesceFacts ==
  ASSUME NEW pages, pages \subseteq Pages
  PROVE  /\ Coalesce(pages) \in Seq(Range2)
         /\ pages # {} => Coalesce(pages) # << >>
         /\ \A p \in pages : InRanges(p, Coalesce(pages))
<1> DEFINE first == {p \in pages : StartsRun(p, pages)}
           Below(p) == Cardinality({q \in first : q < p})
           nth(k) == CHOOSE p \in first : Below(p) = k - 1
           size == Cardinality(first)
           range(k) == [first |-> nth(k), last |-> EndOfRun(nth(k), pages)]
           c == [k \in 1 .. size |-> range(k)]
<1>1. Coalesce(pages) = c
  BY DEF Coalesce
<1>2. PICK n \in Nat : pages \subseteq 0 .. n
  <2>1. CASE LastPage \in Nat
    BY <2>1 DEF Pages
  <2>2. CASE LastPage \notin Nat
    <3>1. Pages = {}
      BY <2>2, SectorIsPages DEF Pages
    <3>2. pages \subseteq 0 .. 0
      BY <3>1
    <3>3. QED BY <3>2
  <2>3. QED BY <2>1, <2>2
<1>3. first \subseteq 0 .. n /\ first \subseteq pages
  BY <1>2
<1>4. /\ size \in Nat
      /\ \A p \in first : Below(p) \in 0 .. size - 1
      /\ \A p, q \in first : Below(p) = Below(q) => p = q
      /\ \A k \in 0 .. size - 1 : \E p \in first : Below(p) = k
  BY <1>2, <1>3, Ranked
<1>5. IsFiniteSet(first)
  BY <1>2, <1>3, Ranked
<1> HIDE DEF Below, size
<1>6. ASSUME NEW k \in 1 .. size PROVE nth(k) \in first /\ Below(nth(k)) = k - 1
  <2>1. k - 1 \in 0 .. size - 1
    BY <1>4
  <2>2. QED BY <1>4, <2>1
<1>7. ASSUME NEW k \in 1 .. size PROVE range(k) \in Range2
  <2>1. nth(k) \in pages
    BY <1>3, <1>6
  <2> HIDE DEF nth
  <2>2. EndOfRun(nth(k), pages) \in pages /\ nth(k) <= EndOfRun(nth(k), pages)
    BY <1>2, <2>1, RunEnds
  <2>3. QED BY <2>1, <2>2 DEF Range2, PageRange
<1>8. c \in Seq(Range2)
  BY <1>4, <1>7
<1>9. ASSUME NEW p \in pages PROVE InRanges(p, c)
  <2> DEFINE before == {q \in first : q <= p}
  <2>0. \A q \in pages : q \in Nat
    BY <1>2
  <2>1. before # {}
    <3>1. PICK q \in pages : \A r \in pages : q <= r
      <4>1. pages \subseteq Nat /\ pages # {}
        BY <1>9, <2>0
      <4>2. QED BY <4>1, LeastNat
    <3>2. StartsRun(q, pages)
      BY <2>0, <3>1 DEF StartsRun
    <3>3. q \in before
      BY <3>1, <3>2
    <3>4. QED BY <3>3
  <2>2. PICK s \in before : \A q \in before : q <= s
    <3>1. before \subseteq 0 .. n
      BY <1>3
    <3>2. QED BY <2>1, <3>1, Greatest
  <2>3. s \in first /\ s \in pages /\ s <= p
    BY <1>3, <2>2
  <2> HIDE DEF before
  <2>4. p <= EndOfRun(s, pages)
    <3> DEFINE e == EndOfRun(s, pages)
    <3>1. /\ e \in pages /\ s <= e
          /\ \A q \in pages : q > e => \E r \in pages : e < r /\ r <= q /\ StartsRun(r, pages)
      BY <1>2, <2>3, RunEnds
    <3> HIDE DEF e
    <3>2. ASSUME p > e PROVE FALSE
      <4>1. PICK r \in pages : e < r /\ r <= p /\ StartsRun(r, pages)
        BY <3>1, <3>2
      <4>2. r \in before
        BY <4>1 DEF before
      <4>3. r <= s
        BY <2>2, <4>2
      <4>4. QED BY <2>0, <2>3, <3>1, <4>1, <4>3
    <3>3. QED BY <2>0, <3>1, <3>2 DEF e
  <2> DEFINE k == Below(s) + 1
  <2>5. k \in 1 .. size /\ k - 1 = Below(s)
    BY <1>4, <2>3
  <2>6. nth(k) = s
    BY <1>4, <1>6, <2>3, <2>5
  <2> HIDE DEF k, nth
  <2>7. c[k].first = s /\ c[k].last = EndOfRun(s, pages)
    BY <2>5, <2>6
  <2>8. EndOfRun(s, pages) \in pages
    BY <1>2, <2>3, RunEnds
  <2>9. p \in Whole(c[k])
    BY <2>0, <2>3, <2>4, <2>7, <2>8 DEF Whole
  <2>10. DOMAIN c = 1 .. size
    OBVIOUS
  <2>11. QED BY <2>5, <2>9, <2>10 DEF InRanges
<1>10. pages # {} => c # << >>
  <2> SUFFICES ASSUME pages # {} PROVE c # << >>
    OBVIOUS
  <2>1. PICK p \in pages : TRUE
    OBVIOUS
  <2>2. PICK k \in DOMAIN c : TRUE
    BY <1>9, <2>1 DEF InRanges
  <2>3. QED BY <2>2
<1> HIDE DEF c
<1>11. QED BY <1>1, <1>8, <1>9, <1>10

----------------------------------------------------------------------------
(* The page cache.                                                         *)
Elements(lru) == {lru[i] : i \in DOMAIN lru}
NoTwice(lru) == \A i, j \in DOMAIN lru : lru[i] = lru[j] => i = j
Lru == {lru \in Seq(Pages) : NoTwice(lru)}
GoodCache(c) ==
  c \in [lru : Lru, pinned : {{}}] /\ Len(c.lru) <= MaxPages

(* Without drops the page, and no other.                                   *)
LEMMA WithoutFacts ==
  ASSUME NEW lru \in Lru, NEW page
  PROVE  /\ Without(lru, page) \in Lru
         /\ Elements(Without(lru, page)) = Elements(lru) \ {page}
         /\ page \in Elements(lru) => Len(Without(lru, page)) = Len(lru) - 1
         /\ page \notin Elements(lru) => Without(lru, page) = lru
<1> DEFINE at == CHOOSE i \in DOMAIN lru : lru[i] = page
           n == Len(lru)
           w == [i \in 1 .. n - 1 |-> IF i < at THEN lru[i] ELSE lru[i + 1]]
<1>1. lru \in Seq(Pages) /\ NoTwice(lru) /\ n \in Nat /\ DOMAIN lru = 1 .. n
  BY DEF Lru
<1>2. CASE page \notin Elements(lru)
  <2>1. ~ \E i \in DOMAIN lru : lru[i] = page
    BY <1>2 DEF Elements
  <2>2. Without(lru, page) = lru
    BY <2>1 DEF Without
  <2>3. QED BY <1>2, <2>2
<1>3. CASE page \in Elements(lru)
  <2>1. \E i \in DOMAIN lru : lru[i] = page
    BY <1>3 DEF Elements
  <2>2. Without(lru, page) = w
    BY <2>1 DEF Without
  <2>3. at \in 1 .. n /\ lru[at] = page
    BY <1>1, <2>1
  <2> HIDE DEF at, n
  <2>4. \A i \in 1 .. n - 1 : i < at => i \in 1 .. n /\ i # at /\ w[i] = lru[i]
    BY <1>1, <2>3
  <2>5. \A i \in 1 .. n - 1 : ~(i < at) => i + 1 \in 1 .. n /\ i + 1 # at /\ w[i] = lru[i + 1]
    BY <1>1, <2>3
  <2>6. DOMAIN w = 1 .. n - 1 /\ n - 1 \in Nat
    BY <1>1, <2>3
  <2>7. \A i \in 1 .. n : lru[i] \in Pages
    BY <1>1 DEF n
  <2>8. w \in Seq(Pages) /\ Len(w) = n - 1
    <3>1. \A i \in 1 .. n - 1 : w[i] \in Pages
      BY <2>4, <2>5, <2>7
    <3> HIDE DEF w
    <3>2. w = [i \in 1 .. n - 1 |-> w[i]]
      BY DEF w
    <3>3. QED BY <2>6, <3>1, <3>2
  <2> HIDE DEF w
  <2>9. NoTwice(w)
    <3> SUFFICES ASSUME NEW i \in 1 .. n - 1, NEW j \in 1 .. n - 1, w[i] = w[j] PROVE i = j
      BY <2>6 DEF NoTwice
    <3>1. \A k, l \in 1 .. n : lru[k] = lru[l] => k = l
      BY <1>1 DEF NoTwice
    <3>2. CASE i < at /\ j < at
      BY <2>4, <3>1, <3>2
    <3>3. CASE i < at /\ ~(j < at)
      <4>1. i = j + 1
        BY <2>4, <2>5, <3>1, <3>3
      <4>2. QED BY <2>3, <3>3, <4>1
    <3>4. CASE ~(i < at) /\ j < at
      <4>1. j = i + 1
        BY <2>4, <2>5, <3>1, <3>4
      <4>2. QED BY <2>3, <3>4, <4>1
    <3>5. CASE ~(i < at) /\ ~(j < at)
      <4>1. i + 1 = j + 1
        BY <2>5, <3>1, <3>5
      <4>2. QED BY <4>1
    <3>6. QED BY <3>2, <3>3, <3>4, <3>5
  <2>10. ASSUME NEW x \in Elements(w) PROVE x \in Elements(lru) \ {page}
    <3>1. PICK i \in 1 .. n - 1 : x = w[i]
      BY <2>6 DEF Elements
    <3>2. PICK k \in 1 .. n : k # at /\ x = lru[k]
      BY <2>4, <2>5, <3>1
    <3>3. x # page
      BY <1>1, <2>3, <3>2 DEF NoTwice
    <3>4. QED BY <1>1, <3>2, <3>3 DEF Elements
  <2>11. ASSUME NEW x \in Elements(lru) \ {page} PROVE x \in Elements(w)
    <3>1. PICK k \in 1 .. n : x = lru[k]
      BY <1>1 DEF Elements
    <3>2. k # at
      BY <2>3, <3>1
    <3>3. CASE k < at
      <4>1. k \in 1 .. n - 1
        BY <1>1, <2>3, <3>3
      <4>2. w[k] = x
        BY <2>4, <3>1, <3>3, <4>1
      <4>3. QED BY <2>6, <4>1, <4>2 DEF Elements
    <3>4. CASE ~(k < at)
      <4> DEFINE i == k - 1
      <4>1. i \in 1 .. n - 1 /\ ~(i < at) /\ i + 1 = k
        BY <1>1, <2>3, <3>2, <3>4
      <4>2. w[i] = x
        BY <2>5, <3>1, <4>1
      <4>3. QED BY <2>6, <4>1, <4>2 DEF Elements
    <3>5. QED BY <3>3, <3>4
  <2>12. Elements(w) = Elements(lru) \ {page}
    BY <2>10, <2>11
  <2>13. w \in Lru
    BY <2>8, <2>9 DEF Lru
  <2>14. QED BY <1>3, <2>2, <2>8, <2>12, <2>13 DEF n
<1>4. QED BY <1>2, <1>3

(* A page used is in the cache, last.                                      *)
LEMMA MostRecentFacts ==
  ASSUME NEW lru \in Lru, NEW page \in Pages
  PROVE  /\ MostRecent(lru, page) \in Lru
         /\ Elements(MostRecent(lru, page)) = Elements(lru) \cup {page}
         /\ page \in Elements(lru) => Len(MostRecent(lru, page)) = Len(lru)
         /\ page \notin Elements(lru) => Len(MostRecent(lru, page)) = Len(lru) + 1
<1> DEFINE w == Without(lru, page)
           m == Append(w, page)
<1>1. /\ w \in Lru /\ Elements(w) = Elements(lru) \ {page}
      /\ page \in Elements(lru) => Len(w) = Len(lru) - 1
      /\ page \notin Elements(lru) => Len(w) = Len(lru)
  BY WithoutFacts
<1> HIDE DEF w
<1>2. w \in Seq(Pages) /\ NoTwice(w) /\ Len(w) \in Nat /\ DOMAIN w = 1 .. Len(w)
  BY <1>1 DEF Lru
<1>3. /\ m \in Seq(Pages) /\ Len(m) = Len(w) + 1 /\ DOMAIN m = 1 .. Len(w) + 1
      /\ m[Len(w) + 1] = page /\ \A i \in 1 .. Len(w) : m[i] = w[i]
  BY <1>2
<1>4. \A i \in 1 .. Len(w) : w[i] # page
  BY <1>1, <1>2 DEF Elements
<1> HIDE DEF m
<1>5. NoTwice(m)
  <2> SUFFICES ASSUME NEW i \in 1 .. Len(w) + 1, NEW j \in 1 .. Len(w) + 1, m[i] = m[j]
               PROVE  i = j
    BY <1>3 DEF NoTwice
  <2>1. CASE i = Len(w) + 1
    <3>1. ~(j \in 1 .. Len(w))
      BY <1>3, <1>4, <2>1
    <3>2. QED BY <1>2, <2>1, <3>1
  <2>2. CASE j = Len(w) + 1
    <3>1. ~(i \in 1 .. Len(w))
      BY <1>3, <1>4, <2>2
    <3>2. QED BY <1>2, <2>2, <3>1
  <2>3. CASE i # Len(w) + 1 /\ j # Len(w) + 1
    <3>1. i \in 1 .. Len(w) /\ j \in 1 .. Len(w)
      BY <1>2, <2>3
    <3>2. QED BY <1>2, <1>3, <3>1 DEF NoTwice
  <2>4. QED BY <2>1, <2>2, <2>3
<1>6. Elements(m) = Elements(w) \cup {page}
  <2>1. ASSUME NEW x \in Elements(m) PROVE x \in Elements(w) \cup {page}
    <3>1. PICK i \in 1 .. Len(w) + 1 : x = m[i]
      BY <1>3 DEF Elements
    <3>2. i \in 1 .. Len(w) \/ i = Len(w) + 1
      BY <1>2
    <3>3. QED BY <1>2, <1>3, <3>1, <3>2 DEF Elements
  <2>2. ASSUME NEW x \in Elements(w) PROVE x \in Elements(m)
    <3>1. PICK i \in 1 .. Len(w) : x = w[i]
      BY <1>2 DEF Elements
    <3>2. i \in 1 .. Len(w) + 1
      BY <1>2
    <3>3. QED BY <1>3, <3>1, <3>2 DEF Elements
  <2>3. Len(w) + 1 \in 1 .. Len(w) + 1
    BY <1>2
  <2>4. page \in Elements(m)
    BY <1>3, <2>3 DEF Elements
  <2>5. QED BY <2>1, <2>2, <2>4
<1>7. MostRecent(lru, page) = m
  BY DEF MostRecent, m, w
<1>8. m \in Lru
  BY <1>3, <1>5 DEF Lru
<1>9. Elements(m) = Elements(lru) \cup {page}
  BY <1>1, <1>6
<1>10. Len(lru) \in Nat
  BY DEF Lru
<1>11. /\ page \in Elements(lru) => Len(m) = Len(lru)
       /\ page \notin Elements(lru) => Len(m) = Len(lru) + 1
  BY <1>1, <1>2, <1>3, <1>10
<1>12. QED BY <1>7, <1>8, <1>9, <1>11

(* A duplicate-free list has as many entries as elements.                  *)
LEMMA Counted ==
  ASSUME NEW lru \in Lru
  PROVE  IsFiniteSet(Elements(lru)) /\ Cardinality(Elements(lru)) = Len(lru)
<1>1. lru \in Seq(Pages) /\ NoTwice(lru) /\ Len(lru) \in Nat /\ DOMAIN lru = 1 .. Len(lru)
  BY DEF Lru
<1>2. lru \in [1 .. Len(lru) -> Elements(lru)]
  BY <1>1 DEF Elements
<1>3. lru \in Injection(1 .. Len(lru), Elements(lru))
  BY <1>1, <1>2 DEF NoTwice, Injection, IsInjective
<1>4. lru \in Surjection(1 .. Len(lru), Elements(lru))
  BY <1>1, <1>2 DEF Elements, Surjection
<1>5. ExistsBijection(1 .. Len(lru), Elements(lru))
  BY <1>3, <1>4 DEF ExistsBijection, Bijection
<1>6. IsFiniteSet(1 .. Len(lru)) /\ Cardinality(1 .. Len(lru)) = Len(lru)
  BY <1>1, FS_Interval
<1>7. QED BY <1>5, <1>6, FS_Bijection

(* What an operation may do to the cache: nothing is lost but to make      *)
(* room, and a full cache stays full.                                      *)
Keeps(c, d) ==
  /\ GoodCache(d) /\ Len(c.lru) <= Len(d.lru)
  /\ Len(d.lru) = MaxPages \/ Cached(c) \subseteq Cached(d)

(* get() and pin_pages, unpin_all keep what is there ...                   *)
LEMMA GetFacts ==
  ASSUME NEW c, GoodCache(c)
  PROVE  /\ Keeps(c, c)
         /\ \A page : Keeps(c, Get(c, page))
         /\ \A pages : Keeps(c, UnpinAll(PinPages(c, pages)))
<1>1. /\ c \in [lru : Lru, pinned : {{}}] /\ Len(c.lru) <= MaxPages
      /\ c.lru \in Lru /\ Cached(c) = Elements(c.lru) /\ Len(c.lru) \in Nat
  BY DEF GoodCache, Cached, Elements, Lru
<1>2. Keeps(c, c)
  BY <1>1 DEF Keeps
<1>3. ASSUME NEW page PROVE Keeps(c, Get(c, page))
  <2>1. CASE page \notin Cached(c)
    BY <1>2, <2>1 DEF Get
  <2>2. CASE page \in Cached(c)
    <3> DEFINE lru == MostRecent(c.lru, page)
    <3>1. page \in Pages
      BY <1>1, <2>2 DEF Elements, Lru
    <3>2. lru \in Lru /\ Elements(lru) = Cached(c) /\ Len(lru) = Len(c.lru)
      <4>1. page \in Elements(c.lru) /\ c.lru \in Lru
        BY <1>1, <2>2
      <4>2. /\ lru \in Lru /\ Elements(lru) = Elements(c.lru) \cup {page}
            /\ Len(lru) = Len(c.lru)
        BY <3>1, <4>1, MostRecentFacts
      <4> HIDE DEF lru
      <4>3. QED BY <1>1, <4>1, <4>2
    <3> HIDE DEF lru
    <3>3. Get(c, page) = [c EXCEPT !.lru = lru]
      BY <2>2 DEF Get, lru
    <3>4. Get(c, page) = [lru |-> lru, pinned |-> c.pinned]
      BY <1>1, <3>3
    <3>5. Cached(Get(c, page)) = Elements(lru)
      BY <3>4 DEF Cached, Elements
    <3>6. GoodCache(Get(c, page)) /\ Len(Get(c, page).lru) = Len(c.lru)
      BY <1>1, <3>2, <3>4 DEF GoodCache
    <3>7. QED BY <1>1, <3>2, <3>5, <3>6 DEF Keeps
  <2>3. QED BY <2>1, <2>2
<1>4. ASSUME NEW pages PROVE Keeps(c, UnpinAll(PinPages(c, pages)))
  <2> DEFINE d == UnpinAll(PinPages(c, pages))
  <2>1. d = [lru |-> c.lru, pinned |-> {}]
    BY <1>1 DEF UnpinAll, PinPages
  <2>2. d = c
    BY <1>1, <2>1
  <2>3. QED BY <1>2, <2>2
<1>5. QED BY <1>2, <1>3, <1>4

(* ... and set() adds the page, for the victim if the cache is full.       *)
LEMMA SetFacts ==
  ASSUME NEW c, GoodCache(c), NEW page \in Pages
  PROVE  LET d == Set(c, page, FALSE) IN
         Keeps(c, d) /\ (Len(d.lru) = MaxPages \/ page \in Cached(d))
<1> DEFINE d == Set(c, page, FALSE)
           full(lru) == MostRecent(lru, page)
<1>1. /\ c \in [lru : Lru, pinned : {{}}] /\ Len(c.lru) <= MaxPages
      /\ c.lru \in Lru /\ Cached(c) = Elements(c.lru) /\ Len(c.lru) \in Nat
      /\ MaxPages \in Nat
  BY MaxPagesAssumption DEF GoodCache, Cached, Elements, Lru
<1>2. CASE page \in Cached(c) \/ ~Full(c)
  <2> DEFINE lru == MostRecent(c.lru, page)
  <2>1. /\ lru \in Lru /\ Elements(lru) = Cached(c) \cup {page}
        /\ page \in Cached(c) => Len(lru) = Len(c.lru)
        /\ page \notin Cached(c) => Len(lru) = Len(c.lru) + 1
    BY <1>1, MostRecentFacts
  <2>2. d = [lru |-> lru, pinned |-> c.pinned \ {page}]
    BY <1>2 DEF Set
  <2> HIDE DEF lru, d
  <2>3. d = [lru |-> lru, pinned |-> {}]
    BY <1>1, <2>2
  <2>4. Len(lru) <= MaxPages /\ Len(c.lru) <= Len(lru)
    BY <1>1, <1>2, <2>1 DEF Full
  <2>5. d \in [lru : Lru, pinned : {{}}] /\ d.lru = lru
    BY <2>1, <2>3
  <2>6. Cached(d) = Elements(lru)
    BY <2>5 DEF Cached, Elements
  <2>7. GoodCache(d) /\ Len(c.lru) <= Len(d.lru)
    BY <2>4, <2>5 DEF GoodCache
  <2>8. QED BY <2>1, <2>6, <2>7 DEF Keeps, d
<1>3. CASE ~(page \in Cached(c) \/ ~Full(c)) /\ Victims(c) = {}
  <2>1. d = c /\ Len(c.lru) = MaxPages
    BY <1>1, <1>3 DEF Set, Full
  <2>2. QED BY <2>1, GetFacts
<1>4. CASE ~(page \in Cached(c) \/ ~Full(c)) /\ Victims(c) # {}
  <2> DEFINE victim == CHOOSE p \in Victims(c) : TRUE
             left == Without(c.lru, victim)
             lru == MostRecent(left, page)
  <2>1. victim \in Cached(c)
    <3>1. victim \in Victims(c)
      BY <1>4
    <3>2. QED BY <3>1 DEF Victims
  <2> HIDE DEF victim
  <2>2. left \in Lru /\ Elements(left) = Cached(c) \ {victim} /\ Len(left) = Len(c.lru) - 1
    BY <1>1, <2>1, WithoutFacts
  <2> HIDE DEF left
  <2>3. page \notin Elements(left)
    BY <1>4, <2>2
  <2>4. lru \in Lru /\ Len(lru) = Len(left) + 1
    BY <2>2, <2>3, MostRecentFacts
  <2>5. EvictOne(c) = [lru |-> left, pinned |-> c.pinned]
    BY <1>1 DEF EvictOne, left, victim
  <2>6. d = [lru |-> lru, pinned |-> c.pinned \ {page}]
    BY <1>4, <2>5 DEF Set
  <2> HIDE DEF lru, d
  <2>7. d = [lru |-> lru, pinned |-> {}]
    BY <1>1, <2>6
  <2>8. Len(lru) = MaxPages
    BY <1>1, <1>4, <2>2, <2>4 DEF Full
  <2>9. d \in [lru : Lru, pinned : {{}}] /\ d.lru = lru
    BY <2>4, <2>7
  <2>10. GoodCache(d) /\ Len(c.lru) <= Len(d.lru)
    BY <1>1, <2>8, <2>9 DEF GoodCache
  <2>11. QED BY <2>8, <2>9, <2>10 DEF Keeps, d
<1>5. QED BY <1>2, <1>3, <1>4

(* Ranges still to fetch: the first and the others ...                     *)
LEMMA TodoFacts ==
  ASSUME NEW todo \in Seq(Range2), todo # << >>
  PROVE  /\ Head(todo) \in Range2 /\ Head(todo) = todo[1] /\ Tail(todo) \in Seq(Range2)
         /\ \A p : InRanges(p, todo) => p \in Whole(Head(todo)) \/ InRanges(p, Tail(todo))
<1>1. Len(todo) \in Nat /\ Len(todo) # 0 /\ DOMAIN todo = 1 .. Len(todo)
  OBVIOUS
<1>2. Head(todo) = todo[1] /\ todo[1] \in Range2 /\ Tail(todo) \in Seq(Range2)
  BY <1>1
<1>3. ASSUME NEW p, InRanges(p, todo), p \notin Whole(Head(todo)) PROVE InRanges(p, Tail(todo))
  <2>1. PICK k \in 1 .. Len(todo) : p \in Whole(todo[k])
    BY <1>1, <1>3 DEF InRanges
  <2>2. k - 1 \in DOMAIN Tail(todo) /\ Tail(todo)[k - 1] = todo[k]
    BY <1>1, <1>2, <1>3, <2>1
  <2>3. QED BY <2>1, <2>2 DEF InRanges
<1>4. QED BY <1>2, <1>3

(* ... and what is left of them when the first page has landed.            *)
LEMMA RestFacts ==
  ASSUME NEW todo \in Seq(Range2), todo # << >>
  PROVE  LET r == Head(todo)  rest == Rest(todo) IN
         /\ rest \in Seq(Range2)
         /\ r.first # r.last => rest # << >> /\ rest[1].first = r.first + 1 /\ rest[1].last = r.last
<1> DEFINE r == todo[1]
<1>1. /\ r \in Range2 /\ Head(todo) = r /\ Tail(todo) \in Seq(Range2)
      /\ Len(todo) \in Nat /\ 1 \in 1 .. Len(todo) /\ DOMAIN todo = 1 .. Len(todo)
  BY TodoFacts
<1>2. CASE r.first = r.last
  BY <1>1, <1>2 DEF Rest
<1>3. CASE r.first # r.last
  <2> DEFINE next == [r EXCEPT !.first = @ + 1]
             rest == [todo EXCEPT ![1] = next]
  <2>1. r \in PageRange /\ r.first \in Pages /\ r.last \in Pages /\ r.first <= r.last
    BY <1>1 DEF Range2, PageRange
  <2>2. r.first + 1 \in Pages /\ r.first + 1 <= r.last
    BY <1>3, <2>1, SectorIsPages DEF Pages
  <2>3. next \in Range2 /\ next.first = r.first + 1 /\ next.last = r.last
    BY <2>1, <2>2 DEF Range2, PageRange
  <2>4. Rest(todo) = rest
    BY <1>1, <1>3 DEF Rest
  <2> HIDE DEF next, r
  <2>5. rest \in Seq(Range2) /\ rest[1] = next /\ rest # << >>
    BY <1>1, <2>3
  <2>6. QED BY <1>1, <1>3, <2>3, <2>4, <2>5
<1>4. QED BY <1>2, <1>3

(* Pages are naturals, and a range holds pages.                            *)
LEMMA RangeFacts ==
  /\ Pages \subseteq Nat
  /\ \A r \in Range2 : /\ r.first \in Pages /\ r.last \in Pages /\ r.first <= r.last
                       /\ r.first \in Whole(r) /\ Whole(r) \subseteq Pages
<1>1. LastPage \in Int
  BY SectorIsPages
<1>2. QED BY <1>1 DEF Pages, Range2, PageRange, Whole

(* The page after one of a range, but the last, is in the range.           *)
LEMMA NextPage ==
  ASSUME NEW r \in Range2, NEW page \in Whole(r), page # r.last
  PROVE  page + 1 \in Whole(r) \cap Pages
<1>1. r.first \in Nat /\ r.last \in Nat /\ Whole(r) \subseteq Pages
  BY RangeFacts
<1>2. page + 1 \in Whole(r)
  BY <1>1 DEF Whole
<1>3. QED BY <1>1, <1>2

(* Records are numbered by naturals.                                       *)
LEMMA RecordFacts ==
  Records \subseteq Nat
<1>1. RecordCount - 1 \in Int
  BY PrefetchAssumption
<1>2. QED BY <1>1 DEF Records

(* predict_next() expects records there are.                               *)
LEMMA PredictFacts ==
  ASSUME NEW det, det.last_index \in Int
  PROVE  {PageOf(r) : r \in PredictNext(det, PrefetchDepth, RecordCount)} \subseteq Pages
<1>1. PredictNext(det, PrefetchDepth, RecordCount) \subseteq Records
  BY PrefetchAssumption DEF PredictNext, Records
<1>2. QED BY <1>1, SectorIsPages

(* A viewport is of pages there are.                                       *)
LEMMA ViewportFacts ==
  ASSUME NEW from \in Records, NEW to \in Records
  PROVE  PageOf(from) .. PageOf(to) \subseteq Pages
<1>1. PageOf(from) \in Pages /\ PageOf(to) \in Pages /\ LastPage \in Int
  BY SectorIsPages
<1>2. QED BY <1>1 DEF Pages

----------------------------------------------------------------------------
(* The types, and where a call or the background thread can be with what   *)
(* it needs for its next step.                                             *)
CallerPoints ==
  {"idle", "observe", "start eager", "store handle", "check eager", "touch", "check adaptive",
   "lock detector", "speculate", "fetch", "fill", "pin", "stats", "warmup", "join"}
Fetches == {"range", "insert", "page", "set", "remove"}
EagerPoints == {"off", "complete", "done"} \cup Fetches

SharedTypes ==
  /\ GoodCache(cache)
  /\ {cacheLock, detectorLock} \subseteq Threads \cup {NoOne}
  /\ detector.last_index \in Int
  /\ inFlight \subseteq Pages
  /\ strategy \in {"Lazy", "Adaptive", "Eager"}
  /\ {paused, started, complete, cancelled, handle} \subseteq BOOLEAN

CallerTypes ==
  /\ pc \in [Threads -> CallerPoints]
  /\ index \in [Threads -> Nat]
  /\ ranges \in [Threads -> Seq(Range2)]
  /\ \A t \in Threads :
       /\ pc[t] \in {"fetch", "fill"} => ranges[t] # << >>
       /\ pc[t] \in {"observe", "start eager"} => index[t] \in Records

LoaderTypes ==
  /\ eager \in [pc : EagerPoints, todo : Seq(Range2), page : Pages \cup {0}]
  /\ eager.pc \in Fetches => eager.todo # << >>
  /\ eager.pc \in Fetches \ {"range"} => eager.page \in Whole(Head(eager.todo))
  /\ ~started => eager.pc = "off"
  /\ complete => started /\ eager.pc \in {"off", "done"}

Types == SharedTypes /\ CallerTypes /\ LoaderTypes

(* The callers keep their types.                                           *)
LEMMA CallersTyped ==
  ASSUME Types, [Next]_vars
  PROVE  CallerTypes'
<1> USE DEF Types, CallerTypes, Idle, Goto, Count
<1>1. \A r \in Records : r \in Nat
  BY RecordFacts
<1>2. ASSUME NEW t \in Threads, NEW r \in Records, OnAccess(t, r) PROVE CallerTypes'
  BY <1>1, <1>2 DEF OnAccess, CallerPoints
<1>3. ASSUME NEW t \in Threads, NEW from \in Records, NEW to \in Records,
             PrefetchViewport(t, from, to)
      PROVE  CallerTypes'
  <2> DEFINE needed == Needed(PageOf(from) .. PageOf(to))
             todo == Coalesce(needed)
  <2>1. needed \subseteq Pages
    BY ViewportFacts DEF Needed
  <2> HIDE DEF needed
  <2>2. todo \in Seq(Range2) /\ (needed # {} => todo # << >>)
    BY <2>1, CoalesceFacts
  <2> HIDE DEF todo
  <2>3. /\ ranges' = [ranges EXCEPT ![t] = todo] /\ UNCHANGED index
        /\ pc' = [pc EXCEPT ![t] = IF needed = {} THEN "pin" ELSE "fetch"]
    BY <1>3 DEF PrefetchViewport, needed, todo
  <2>4. QED BY <2>2, <2>3 DEF CallerPoints
<1>4. ASSUME NEW t \in Threads, Speculate(t) PROVE CallerTypes'
  <2> DEFINE needed == Needed({PageOf(r) : r \in PredictNext(detector, PrefetchDepth, RecordCount)})
             todo == Coalesce(needed)
  <2>1. needed \subseteq Pages
    BY PredictFacts DEF Needed, SharedTypes
  <2> HIDE DEF needed
  <2>2. todo \in Seq(Range2) /\ (needed # {} => todo # << >>)
    BY <2>1, CoalesceFacts
  <2> HIDE DEF todo
  <2>3. /\ ranges' = [ranges EXCEPT ![t] = todo] /\ UNCHANGED index
        /\ IF needed = {} THEN pc' = [pc EXCEPT ![t] = "idle"] ELSE pc' = [pc EXCEPT ![t] = "fetch"]
    BY <1>4 DEF Speculate, needed, todo
  <2>4. QED BY <2>2, <2>3 DEF CallerPoints
<1>5. ASSUME NEW t \in Threads, FillPage(t) PROVE CallerTypes'
  <2> DEFINE rest == Rest(ranges[t])
  <2>1. rest \in Seq(Range2)
    BY <1>5, RestFacts DEF FillPage
  <2> HIDE DEF rest
  <2>2. /\ ranges' = [ranges EXCEPT ![t] = rest] /\ UNCHANGED index
        /\ \E to \in {"idle", "pin", "fetch", "fill"} :
             pc' = [pc EXCEPT ![t] = to] /\ (to \in {"fetch", "fill"} => rest # << >>)
    BY <1>5 DEF FillPage, rest
  <2>3. QED BY <2>1, <2>2 DEF CallerPoints
<1>6. ASSUME NEW t \in Threads, ObserveRecord(t) \/ StartEager(t) \/ FetchRange(t)
      PROVE  CallerTypes'
  BY <1>6 DEF ObserveRecord, StartEager, FetchRange, CallerPoints
<1>7. ASSUME NEW t \in Threads,
             \/ CacheStats(t) \/ Warmup(t) \/ StoreHandle(t) \/ CheckEager(t)
             \/ TouchPage(t) \/ CheckAdaptive(t) \/ LockDetector(t)
             \/ PinViewport(t) \/ StatsRead(t) \/ WarmupSpun(t) \/ WarmupJoined(t)
      PROVE  CallerTypes'
  <2>1. UNCHANGED <<index, ranges>>
    BY <1>7 DEF CacheStats, Warmup, StoreHandle, CheckEager, TouchPage, CheckAdaptive,
                LockDetector, PinViewport, StatsRead, WarmupSpun, WarmupJoined
  <2>2. \E to \in CallerPoints \ {"observe", "start eager", "fetch", "fill"} :
           pc' = [pc EXCEPT ![t] = to]
    BY <1>7 DEF CacheStats, Warmup, StoreHandle, CheckEager, TouchPage, CheckAdaptive,
                LockDetector, PinViewport, StatsRead, WarmupSpun, WarmupJoined, CallerPoints
  <2>3. QED BY <2>1, <2>2
<1>8. CASE \/ EagerStep \/ Drop \/ DropJoined \/ UNCHANGED vars
           \/ \E t \in Threads : PausePrefetch(t) \/ ResumePrefetch(t)
  BY <1>8 DEF EagerStep, EagerRange, EagerInsert, EagerPage, EagerSet, EagerRemove, EagerComplete,
              callers, local, vars, Drop, DropJoined, PausePrefetch, ResumePrefetch
<1>9. QED
  BY <1>2, <1>3, <1>4, <1>5, <1>6, <1>7, <1>8
  DEF Next, CallerStarts, CallerStep, Dropped, WarmupSpins

(* Whatever is done to the cache, it is by get, set or the pinning.        *)
LEMMA CacheKept ==
  ASSUME Types, [Next]_vars
  PROVE  Keeps(cache, cache')
<1>1. GoodCache(cache)
  BY DEF Types, SharedTypes
<1>2. ASSUME UNCHANGED cache PROVE Keeps(cache, cache')
  BY <1>1, <1>2, GetFacts
<1>3. ASSUME NEW t \in Threads, TouchPage(t) PROVE Keeps(cache, cache')
  <2>1. cache' = cache \/ cache' = Get(cache, PageOf(index[t]))
    BY <1>3 DEF TouchPage
  <2>2. QED BY <1>1, <2>1, GetFacts
<1>4. ASSUME NEW t \in Threads, PinViewport(t) PROVE Keeps(cache, cache')
  <2>1. cache' = UnpinAll(PinPages(cache, Cached(cache)))
    BY <1>4 DEF PinViewport
  <2>2. QED BY <1>1, <2>1, GetFacts
<1>5. ASSUME NEW t \in Threads, FillPage(t) PROVE Keeps(cache, cache')
  <2>1. ranges[t] \in Seq(Range2) /\ ranges[t] # << >>
    BY <1>5 DEF FillPage, Types, CallerTypes
  <2>2. Head(ranges[t]).first \in Pages
    BY <2>1, TodoFacts, RangeFacts
  <2>3. cache' = Set(cache, Head(ranges[t]).first, FALSE)
    BY <1>5 DEF FillPage
  <2>4. QED BY <1>1, <2>2, <2>3, SetFacts
<1>6. ASSUME EagerSet PROVE Keeps(cache, cache')
  <2>1. eager.page \in Whole(Head(eager.todo)) /\ eager.todo \in Seq(Range2) /\ eager.todo # << >>
    BY <1>6 DEF EagerSet, Types, LoaderTypes, Fetches
  <2>2. eager.page \in Pages
    BY <2>1, TodoFacts, RangeFacts
  <2>3. cache' = Set(cache, eager.page, FALSE)
    BY <1>6 DEF EagerSet
  <2>4. QED BY <1>1, <2>2, <2>3, SetFacts
<1>7. CASE \/ EagerRange \/ EagerInsert \/ EagerPage \/ EagerRemove \/ EagerComplete
           \/ Drop \/ DropJoined \/ UNCHANGED vars
  BY <1>2, <1>7 DEF EagerRange, EagerInsert, EagerPage, EagerRemove, EagerComplete,
                    Drop, DropJoined, vars
<1>8. ASSUME NEW t \in Threads,
             \/ CallerStarts(t) \/ ObserveRecord(t) \/ StartEager(t) \/ StoreHandle(t)
             \/ CheckEager(t) \/ CheckAdaptive(t) \/ LockDetector(t) \/ Speculate(t)
             \/ FetchRange(t) \/ StatsRead(t) \/ WarmupSpun(t) \/ WarmupJoined(t)
      PROVE  Keeps(cache, cache')
  <2>1. UNCHANGED cache
    BY <1>8 DEF CallerStarts, OnAccess, PrefetchViewport, CacheStats, Warmup, PausePrefetch,
                ResumePrefetch, ObserveRecord, StartEager, StoreHandle, CheckEager, CheckAdaptive,
                LockDetector, Speculate, FetchRange, StatsRead, WarmupSpun, WarmupJoined
  <2>2. QED BY <1>2, <2>1
<1>9. QED
  BY <1>3, <1>4, <1>5, <1>6, <1>7, <1>8 DEF Next, CallerStep, EagerStep, Dropped, WarmupSpins

(* The shared state keeps its types.                                       *)
LEMMA SharedTyped ==
  ASSUME Types, [Next]_vars
  PROVE  SharedTypes'
<1> DEFINE Locks == {cacheLock, detectorLock} \subseteq Threads \cup {NoOne}
           Flags == {paused, started, complete, cancelled, handle} \subseteq BOOLEAN
           Observed == detector.last_index \in Int
           Strategies == {"Lazy", "Adaptive", "Eager"}
<1>1. Locks /\ Flags /\ Observed /\ strategy \in Strategies /\ inFlight \subseteq Pages
  BY DEF Types, SharedTypes
<1>2. GoodCache(cache)'
  <2>1. GoodCache(cache')
    BY CacheKept DEF Keeps
  <2>2. QED BY <2>1 DEF GoodCache, Lru, NoTwice, Pages, LastPage, Sector, Records, PageOf
<1>3. CASE EagerStep \/ Drop \/ DropJoined \/ UNCHANGED vars
  <2>1. UNCHANGED <<cacheLock, detectorLock, detector, strategy, paused, started>>
    BY <1>3 DEF EagerStep, EagerRange, EagerInsert, EagerPage, EagerSet, EagerRemove, EagerComplete,
                callers, local, vars, shared, Drop, DropJoined
  <2>2. complete' \in {complete, TRUE} /\ cancelled' \in {cancelled, TRUE} /\ handle' \in {handle, FALSE}
    BY <1>3 DEF EagerStep, EagerRange, EagerInsert, EagerPage, EagerSet, EagerRemove, EagerComplete,
                callers, vars, shared, Drop, DropJoined
  <2>3. inFlight' \subseteq Pages
    <3>1. CASE EagerInsert
      <4>1. eager.page \in Whole(Head(eager.todo)) /\ eager.todo \in Seq(Range2) /\ eager.todo # << >>
        BY <3>1 DEF EagerInsert, Types, LoaderTypes, Fetches
      <4>2. eager.page \in Pages
        BY <4>1, TodoFacts, RangeFacts
      <4>3. QED BY <1>1, <3>1, <4>2 DEF EagerInsert
    <3>2. CASE ~EagerInsert
      BY <1>1, <1>3, <3>2 DEF EagerStep, EagerRange, EagerPage, EagerSet, EagerRemove, EagerComplete,
                vars, Drop, DropJoined, Landed
    <3>3. QED BY <3>1, <3>2
  <2>4. Locks' /\ Observed' /\ (strategy \in Strategies)'
    BY <1>1, <2>1
  <2>5. Flags'
    BY <1>1, <2>1, <2>2
  <2>6. (inFlight \subseteq Pages)'
    BY <2>3 DEF Pages, LastPage, Sector, Records, PageOf
  <2>7. QED BY <1>2, <2>4, <2>5, <2>6 DEF SharedTypes
<1>4. ASSUME NEW t \in Threads, CallerStarts(t) \/ CallerStep(t)
      PROVE  SharedTypes'
  <2>1. CASE CallerStarts(t)
    <3>1. /\ UNCHANGED <<detectorLock, detector, strategy, inFlight, started, complete, cancelled, handle>>
          /\ cacheLock' \in {cacheLock, t} /\ paused' \in {paused, TRUE, FALSE}
      BY <2>1 DEF CallerStarts, OnAccess, PrefetchViewport, CacheStats, Warmup, PausePrefetch,
                  ResumePrefetch, shared
    <3>2. Locks' /\ Observed' /\ (strategy \in Strategies)' /\ Flags'
      BY <1>1, <3>1
    <3>3. (inFlight \subseteq Pages)'
      BY <1>1, <3>1 DEF Pages, LastPage, Sector, Records, PageOf
    <3>4. QED BY <1>2, <3>2, <3>3 DEF SharedTypes
  <2>2. CASE ObserveRecord(t) \/ StartEager(t) \/ StoreHandle(t)
    <3>1. /\ UNCHANGED <<cacheLock, inFlight, paused, complete, cancelled>>
          /\ detectorLock' \in {detectorLock, t, NoOne} /\ strategy' \in {strategy, "Eager"}
          /\ started' \in {started, TRUE} /\ handle' \in {handle, TRUE}
      BY <2>2 DEF ObserveRecord, StartEager, StoreHandle
    <3>2. Observed'
      <4>1. CASE ObserveRecord(t)
        <5>1. index[t] \in Nat
          BY DEF Types, CallerTypes
        <5>2. detector'.last_index = index[t]
          BY <4>1 DEF ObserveRecord, Observe
        <5>3. QED BY <5>1, <5>2
      <4>2. CASE UNCHANGED detector
        BY <1>1, <4>2
      <4>3. QED BY <2>2, <4>1, <4>2 DEF StartEager, StoreHandle
    <3>3. Locks' /\ (strategy \in Strategies)' /\ Flags'
      BY <1>1, <3>1
    <3>4. (inFlight \subseteq Pages)'
      BY <1>1, <3>1 DEF Pages, LastPage, Sector, Records, PageOf
    <3>5. QED BY <1>2, <3>2, <3>3, <3>4 DEF SharedTypes
  <2>3. CASE \/ CheckEager(t) \/ TouchPage(t) \/ CheckAdaptive(t) \/ LockDetector(t) \/ Speculate(t)
             \/ PinViewport(t) \/ StatsRead(t) \/ WarmupSpun(t) \/ WarmupJoined(t)
    <3>1. /\ UNCHANGED <<inFlight, detector, strategy, paused, started, complete, cancelled>>
          /\ detectorLock' \in {detectorLock, t, NoOne} /\ cacheLock' \in {cacheLock, NoOne}
          /\ handle' \in {handle, FALSE}
      BY <2>3 DEF CheckEager, TouchPage, CheckAdaptive, LockDetector, Speculate, PinViewport, StatsRead,
                  WarmupSpun, WarmupJoined, shared
    <3>2. Locks' /\ Observed' /\ (strategy \in Strategies)' /\ Flags'
      BY <1>1, <3>1
    <3>3. (inFlight \subseteq Pages)'
      BY <1>1, <3>1 DEF Pages, LastPage, Sector, Records, PageOf
    <3>4. QED BY <1>2, <3>2, <3>3 DEF SharedTypes
  <2>4. CASE FetchRange(t) \/ FillPage(t)
    <3>1. /\ UNCHANGED <<cacheLock, detector, strategy, paused, started, complete, cancelled, handle>>
          /\ detectorLock' \in {detectorLock, NoOne}
      BY <2>4 DEF FetchRange, FillPage, shared
    <3>2. Locks' /\ Observed' /\ (strategy \in Strategies)' /\ Flags'
      BY <1>1, <3>1
    <3>3. ranges[t] \in Seq(Range2) /\ ranges[t] # << >>
      BY <2>4 DEF FetchRange, FillPage, Types, CallerTypes
    <3>4. Whole(Head(ranges[t])) \subseteq Pages
      BY <3>3, TodoFacts, RangeFacts
    <3>5. inFlight' \subseteq inFlight \cup Whole(Head(ranges[t]))
      BY <2>4 DEF FetchRange, FillPage, Landed, Whole
    <3>6. (inFlight \subseteq Pages)'
      BY <1>1, <3>4, <3>5 DEF Pages, LastPage, Sector, Records, PageOf
    <3>7. QED BY <1>2, <3>2, <3>6 DEF SharedTypes
  <2>5. CASE WarmupSpins(t)
    BY <1>3, <2>5 DEF WarmupSpins
  <2>6. QED BY <1>4, <2>1, <2>2, <2>3, <2>4, <2>5 DEF CallerStep
<1>5. QED BY <1>3, <1>4 DEF Next, Dropped

(* The background thread keeps its types: started once, on a sector with a *)
(* page at least.                                                          *)
LEMMA LoaderTyped ==
  ASSUME Types, [Next]_vars
  PROVE  LoaderTypes'
<1> DEFINE Eagers == [pc : EagerPoints, todo : Seq(Range2), page : Pages \cup {0}]
           Good(e, s, c) ==
             /\ e \in Eagers
             /\ e.pc \in Fetches => e.todo # << >>
             /\ e.pc \in Fetches \ {"range"} => e.page \in Whole(Head(e.todo))
             /\ ~s => e.pc = "off"
             /\ c => s /\ e.pc \in {"off", "done"}
<1>1. Good(eager, started, complete)
  BY DEF Types, LoaderTypes
<1>2. ASSUME Good(eager', started', complete') PROVE LoaderTypes'
  <2>1. EagerPoints' = EagerPoints /\ (Seq(Range2))' = Seq(Range2) /\ Pages' = Pages
    BY DEF EagerPoints, Fetches, Range2, PageRange, Pages, LastPage, Sector, Records, PageOf
  <2>2. Fetches' = Fetches
    BY DEF Fetches
  <2>3. Whole(Head(eager.todo))' = Whole(Head(eager'.todo))
    BY DEF Whole
  <2>4. QED BY <1>2, <2>1, <2>2, <2>3 DEF LoaderTypes
<1>3. CASE UNCHANGED <<eager, started, complete>>
  BY <1>1, <1>2, <1>3
<1>4. CASE \/ Drop \/ DropJoined \/ UNCHANGED vars
  BY <1>3, <1>4 DEF Drop, DropJoined, vars, shared
<1>5. ASSUME NEW t \in Threads, StartEager(t), ~UNCHANGED eager PROVE LoaderTypes'
  <2>1. started' = TRUE /\ eager' = EagerThread /\ ~started /\ UNCHANGED complete
    BY <1>5 DEF StartEager
  <2>2. RecordCount # 0
    <3>1. index[t] \in Records
      BY <1>5 DEF StartEager, Types, CallerTypes
    <3>2. QED BY <3>1 DEF Records
  <2>3. Sector \subseteq Pages /\ Sector # {}
    BY <2>2, SectorIsPages
  <2>4. Coalesce(Sector) \in Seq(Range2) /\ Coalesce(Sector) # << >>
    BY <2>3, CoalesceFacts
  <2>5. Good(EagerThread, TRUE, complete)
    <3>1. ~complete
      BY <1>1, <2>1
    <3>2. QED BY <2>4, <3>1 DEF EagerThread, EagerPoints, Fetches
  <2>6. QED BY <1>2, <2>1, <2>5
<1>6. ASSUME NEW t \in Threads,
             \/ CallerStarts(t) \/ ObserveRecord(t) \/ StoreHandle(t) \/ CheckEager(t)
             \/ TouchPage(t) \/ CheckAdaptive(t) \/ LockDetector(t) \/ Speculate(t)
             \/ FetchRange(t) \/ FillPage(t) \/ PinViewport(t) \/ StatsRead(t)
             \/ WarmupSpun(t) \/ WarmupJoined(t)
      PROVE  LoaderTypes'
  <2>1. UNCHANGED <<eager, started, complete>>
    BY <1>6 DEF CallerStarts, OnAccess, PrefetchViewport, CacheStats, Warmup, PausePrefetch,
                ResumePrefetch, ObserveRecord, StoreHandle, CheckEager, TouchPage, CheckAdaptive,
                LockDetector, Speculate, FetchRange, FillPage, PinViewport, StatsRead, WarmupSpun,
                WarmupJoined, shared
  <2>2. QED BY <1>3, <2>1
<1>7. ASSUME NEW t \in Threads, StartEager(t), UNCHANGED eager PROVE LoaderTypes'
  <2>1. EagerThread.pc = "range"
    BY DEF EagerThread
  <2>2. UNCHANGED <<started, complete>>
    BY <1>1, <1>7, <2>1 DEF StartEager
  <2>3. QED BY <1>3, <1>7, <2>2
<1>8. CASE EagerStep
  <2>1. started' = started /\ eager \in Eagers
    BY <1>1, <1>8 DEF EagerStep, EagerRange, EagerInsert, EagerPage, EagerSet, EagerRemove,
                EagerComplete, callers
  <2>2. started /\ ~complete
    BY <1>1, <1>8 DEF EagerStep, EagerRange, EagerInsert, EagerPage, EagerSet, EagerRemove,
                EagerComplete
  <2> DEFINE todo == eager.todo
  <2>3. /\ todo \in Seq(Range2)
        /\ todo # << >> => /\ Head(todo) \in Range2 /\ Tail(todo) \in Seq(Range2)
                           /\ Whole(Head(todo)) \subseteq Pages
                           /\ Head(todo).first \in Whole(Head(todo))
    BY <2>1, TodoFacts, RangeFacts
  <2>4. CASE EagerRange
    <3>1. eager.pc = "range" /\ UNCHANGED complete
      BY <2>4 DEF EagerRange
    <3>2. todo # << >>
      BY <1>1, <3>1 DEF Fetches
    <3>3. \/ eager' = [eager EXCEPT !.pc = "done"]
          \/ eager' = [eager EXCEPT !.pc = "insert", !.page = Head(todo).first]
      BY <2>4 DEF EagerRange
    <3>4. Good(eager', TRUE, complete)
      BY <2>1, <2>2, <2>3, <3>2, <3>3 DEF EagerPoints, Fetches
    <3>5. QED BY <1>2, <2>1, <2>2, <3>1, <3>4
  <2>5. CASE EagerInsert
    <3>1. eager.pc = "insert" /\ UNCHANGED complete
      BY <2>5 DEF EagerInsert
    <3>2. todo # << >> /\ eager.page \in Whole(Head(todo))
      BY <1>1, <3>1 DEF Fetches
    <3>3. \/ eager' = [eager EXCEPT !.pc = "page", !.page = Head(todo).first]
          \/ /\ eager.page # Head(todo).last
             /\ eager' = [eager EXCEPT !.page = @ + 1]
      BY <2>5 DEF EagerInsert
    <3>4. eager.page # Head(todo).last => eager.page + 1 \in Whole(Head(todo)) \cap Pages
      BY <2>3, <3>2, NextPage
    <3>5. Good(eager', TRUE, complete)
      BY <2>1, <2>2, <2>3, <3>1, <3>2, <3>3, <3>4 DEF EagerPoints, Fetches
    <3>6. QED BY <1>2, <2>1, <2>2, <3>1, <3>5
  <2>6. CASE EagerPage \/ EagerSet
    <3>1. /\ eager.pc \in {"page", "set"} /\ UNCHANGED complete
          /\ \E to \in {"done", "set", "remove"} : eager' = [eager EXCEPT !.pc = to]
      BY <2>6 DEF EagerPage, EagerSet
    <3>2. todo # << >> /\ eager.page \in Whole(Head(todo))
      BY <1>1, <3>1 DEF Fetches
    <3>3. Good(eager', TRUE, complete)
      BY <2>1, <2>2, <2>3, <3>1, <3>2 DEF EagerPoints, Fetches
    <3>4. QED BY <1>2, <2>1, <2>2, <3>1, <3>3
  <2>7. CASE EagerRemove
    <3>1. eager.pc = "remove" /\ UNCHANGED complete
      BY <2>7 DEF EagerRemove
    <3>2. todo # << >> /\ eager.page \in Whole(Head(todo))
      BY <1>1, <3>1 DEF Fetches
    <3>3. \/ /\ eager.page < Head(todo).last
             /\ eager' = [eager EXCEPT !.pc = "page", !.page = @ + 1]
          \/ eager' = [pc |-> IF Tail(todo) = << >> THEN "complete" ELSE "range",
                       page |-> 0, todo |-> Tail(todo)]
      BY <2>7 DEF EagerRemove
    <3>4. Head(todo) \in Range2 /\ Head(todo).last \in Nat
      BY <2>3, <3>2, RangeFacts
    <3>5. eager.page < Head(todo).last => eager.page # Head(todo).last
      BY <3>4
    <3>6. eager.page < Head(todo).last => eager.page + 1 \in Whole(Head(todo)) \cap Pages
      BY <3>2, <3>4, <3>5, NextPage
    <3>7. CASE eager' = [eager EXCEPT !.pc = "page", !.page = @ + 1] /\ eager.page < Head(todo).last
      <4>1. Good(eager', TRUE, complete)
        BY <2>1, <2>2, <3>2, <3>6, <3>7 DEF EagerPoints, Fetches
      <4>2. QED BY <1>2, <2>1, <2>2, <3>1, <4>1
    <3>8. CASE eager' = [pc |-> IF Tail(todo) = << >> THEN "complete" ELSE "range",
                         page |-> 0, todo |-> Tail(todo)]
      <4>1. Good(eager', TRUE, complete)
        BY <2>2, <2>3, <3>2, <3>8 DEF EagerPoints, Fetches
      <4>2. QED BY <1>2, <2>1, <2>2, <3>1, <4>1
    <3>9. QED BY <3>3, <3>7, <3>8
  <2>8. CASE EagerComplete
    <3>1. eager' = [eager EXCEPT !.pc = "done"]
      BY <2>8 DEF EagerComplete
    <3>2. Good(eager', TRUE, TRUE)
      BY <2>1, <3>1 DEF EagerPoints, Fetches
    <3>3. QED BY <1>2, <2>1, <2>2, <2>8, <3>2 DEF EagerComplete
  <2>9. QED BY <1>8, <2>4, <2>5, <2>6, <2>7, <2>8 DEF EagerStep
<1>9. QED BY <1>4, <1>5, <1>6, <1>7, <1>8 DEF Next, CallerStep, Dropped, WarmupSpins

(* A reader opens typed, its background thread started or not.             *)
LEMMA TypesInit ==
  ASSUME Init
  PROVE  Types
<1>1. GoodCache(cache)
  <2>1. cache = [lru |-> << >>, pinned |-> {}]
    BY DEF Init, NewCache
  <2>2. << >> \in Lru /\ Len(<< >>) = 0
    BY DEF Lru, NoTwice
  <2>3. QED BY <2>1, <2>2, MaxPagesAssumption DEF GoodCache
<1>2. detector.last_index \in Int
  BY DEF Init, NewDetector
<1>3. {cacheLock, detectorLock} \subseteq Threads \cup {NoOne} /\ inFlight \subseteq Pages
  BY DEF Init
<1>4. strategy \in {"Lazy", "Adaptive", "Eager"}
  BY PrefetchAssumption DEF Init
<1>5. {paused, started, complete, cancelled, handle} \subseteq BOOLEAN
  <2>1. paused = FALSE /\ cancelled = FALSE
    BY DEF Init
  <2>2. started \in BOOLEAN
    BY DEF Init
  <2>3. complete \in BOOLEAN
    BY DEF Init
  <2>4. handle \in BOOLEAN
    BY DEF Init
  <2>5. QED BY <2>1, <2>2, <2>3, <2>4
<1>6. SharedTypes
  BY <1>1, <1>2, <1>3, <1>4, <1>5 DEF SharedTypes
<1>7. CallerTypes
  BY DEF Init, CallerTypes, CallerPoints
<1>8. LoaderTypes
  <2>1. CASE handle
    <3>1. started /\ ~complete /\ eager = EagerThread /\ Sector # {}
      BY <2>1 DEF Init
    <3>2. Coalesce(Sector) \in Seq(Range2) /\ Coalesce(Sector) # << >>
      BY <3>1, SectorIsPages, CoalesceFacts
    <3>3. QED BY <3>1, <3>2 DEF LoaderTypes, EagerThread, EagerPoints, Fetches
  <2>2. CASE ~handle
    <3>1. eager = [pc |-> "off", todo |-> << >>, page |-> 0] /\ (complete => started)
      BY <2>2 DEF Init
    <3>2. QED BY <3>1 DEF LoaderTypes, EagerPoints, Fetches
  <2>3. QED BY <2>1, <2>2
<1>9. QED BY <1>6, <1>7, <1>8 DEF Types

(* What is in the types always holds.                                      *)
THEOREM TypesAlways == SafetySpec => []Types
<1>1. Init => Types
  BY TypesInit
<1>2. Types /\ [Next]_vars => Types'
  BY SharedTyped, CallersTyped, LoaderTyped DEF Types
<1>3. QED BY <1>1, <1>2, PTL DEF SafetySpec

(* The engine's variables have their types, for every number of callers    *)
(* and pages, and nothing stays pinned that is not cached.                 *)
THEOREM EngineTypeCorrect == SafetySpec => []TypeOK
<1>1. Types => TypeOK
  <2> SUFFICES ASSUME Types PROVE TypeOK
    OBVIOUS
  <2>1. /\ cache.lru \in Seq(Pages) /\ cache.pinned = {}
    BY DEF Types, SharedTypes, GoodCache, Lru
  <2>2. Range2 \subseteq PageRange
    BY DEF Range2
  <2>3. \A todo \in Seq(Range2) : todo \in Seq(PageRange)
    BY <2>2
  <2>4. eager.todo \in Seq(PageRange) /\ eager.page \in Pages \cup {0}
    BY <2>3 DEF Types, LoaderTypes
  <2>5. \A t \in Threads : ranges[t] \in Seq(PageRange) /\ index[t] \in Nat
    BY <2>3 DEF Types, CallerTypes
  <2>6. QED BY <2>1, <2>4, <2>5 DEF TypeOK, Types, SharedTypes
<1>2. QED BY <1>1, TypesAlways, PTL

(* The cache holds at most MaxPages pages, each once, whoever fills it and *)
(* in whatever order: get, set and evict_one keep it so.                   *)
THEOREM CacheStaysBounded == SafetySpec => []CacheBounded
<1>1. Types => CacheBounded
  <2> SUFFICES ASSUME Types PROVE CacheBounded
    OBVIOUS
  <2>1. cache.lru \in Lru /\ Len(cache.lru) <= MaxPages /\ cache.pinned = {}
    BY DEF Types, SharedTypes, GoodCache
  <2>2. Cardinality(Elements(cache.lru)) = Len(cache.lru)
    BY <2>1, Counted
  <2>3. QED BY <2>1, <2>2 DEF CacheBounded, Cached, Elements
<1>2. QED BY <1>1, TypesAlways, PTL

----------------------------------------------------------------------------
(* No thread is left behind.                                               *)
Running == eager.pc \notin {"off", "done"}

(* As long as the background thread runs, somebody will join it: its       *)
(* handle is there, or is being stored, or is being waited on.             *)
WillBeJoined ==
  /\ Running => \/ handle \/ dropped = "joining"
                \/ \E t \in Threads : pc[t] \in {"store handle", "join"}
  /\ dropped # "no" => \A t \in Threads : pc[t] = "idle"
  /\ dropped = "yes" => ~Running

(* Every step keeps somebody to join the thread.                           *)
LEMMA JoinedStep ==
  ASSUME Types, WillBeJoined, [Next]_vars
  PROVE  WillBeJoined'
<1>1. pc \in [Threads -> CallerPoints]
  BY DEF Types, CallerTypes
<1>2. eager \in [pc : EagerPoints, todo : Seq(Range2), page : Pages \cup {0}]
  BY DEF Types, LoaderTypes
<1>3. CASE UNCHANGED vars
  BY <1>3 DEF vars, shared, local, WillBeJoined, Running
<1>4. CASE EagerStep
  <2>1. Running /\ UNCHANGED <<handle, dropped, pc>>
    BY <1>4 DEF EagerStep, EagerRange, EagerInsert, EagerPage, EagerSet, EagerRemove,
                EagerComplete, callers, local, Running
  <2>2. QED BY <2>1 DEF WillBeJoined, Running
<1>5. CASE Drop \/ DropJoined
  BY <1>5 DEF Drop, DropJoined, local, WillBeJoined, Running
<1>6. ASSUME NEW t \in Threads, CallerStarts(t) \/ CallerStep(t)
      PROVE  WillBeJoined'
  <2>1. CASE WarmupSpins(t)
    BY <1>3, <2>1 DEF WarmupSpins
  <2>2. CASE ~WarmupSpins(t)
    <3>1. dropped = "no" /\ UNCHANGED dropped
      <4>1. CASE CallerStarts(t)
        BY <4>1 DEF CallerStarts, OnAccess, PrefetchViewport, CacheStats, Warmup, PausePrefetch,
                    ResumePrefetch, Idle, shared
      <4>2. CASE CallerStep(t)
        <5>1. UNCHANGED dropped
          BY <2>2, <4>2 DEF CallerStep, ObserveRecord, StartEager, StoreHandle, CheckEager, TouchPage,
                    CheckAdaptive, LockDetector, Speculate, FetchRange, FillPage, PinViewport,
                    StatsRead, WarmupSpun, WarmupJoined, shared
        <5>2. pc[t] # "idle"
          BY <4>2 DEF CallerStep, ObserveRecord, StartEager, StoreHandle, CheckEager, TouchPage,
                    CheckAdaptive, LockDetector, Speculate, FetchRange, FillPage, PinViewport,
                    StatsRead, WarmupSpins, WarmupSpun, WarmupJoined
        <5>3. QED BY <5>1, <5>2 DEF WillBeJoined
      <4>3. QED BY <1>6, <4>1, <4>2
    <3>2. CASE StartEager(t)
      <4>1. CASE UNCHANGED eager
        BY <1>1, <3>1, <3>2, <4>1 DEF StartEager, Goto, WillBeJoined, Running
      <4>2. CASE ~UNCHANGED eager
        <5>1. pc' = [pc EXCEPT ![t] = "store handle"]
          BY <3>2, <4>2 DEF StartEager, Goto
        <5>2. QED BY <1>1, <3>1, <5>1 DEF WillBeJoined
      <4>3. QED BY <4>1, <4>2
    <3>3. CASE StoreHandle(t)
      BY <3>1, <3>3 DEF StoreHandle, WillBeJoined, Running
    <3>4. CASE WarmupSpun(t)
      <4>1. CASE handle
        BY <1>1, <3>1, <3>4, <4>1 DEF WarmupSpun, Goto, WillBeJoined
      <4>2. CASE ~handle
        <5>1. /\ UNCHANGED <<eager, dropped>> /\ ~handle /\ pc[t] = "warmup"
              /\ pc' = [pc EXCEPT ![t] = "idle"]
          BY <3>4, <4>2 DEF WarmupSpun, Goto
        <5>2. QED BY <1>1, <3>1, <5>1 DEF WillBeJoined, Running
      <4>3. QED BY <4>1, <4>2
    <3>5. CASE WarmupJoined(t)
      <4>1. UNCHANGED eager /\ eager.pc = "done"
        BY <3>5 DEF WarmupJoined, shared
      <4>2. QED BY <3>1, <4>1 DEF WillBeJoined, Running
    <3>6. CASE /\ ~StartEager(t) /\ ~StoreHandle(t) /\ ~WarmupSpun(t) /\ ~WarmupJoined(t)
      <4>1. UNCHANGED <<eager, handle>>
        BY <1>6, <2>2, <3>6 DEF CallerStarts, OnAccess, PrefetchViewport, CacheStats, Warmup,
                PausePrefetch, ResumePrefetch, CallerStep, ObserveRecord, CheckEager, TouchPage,
                CheckAdaptive, LockDetector, Speculate, FetchRange, FillPage, PinViewport,
                StatsRead, shared
      <4>2. pc[t] \notin {"store handle", "join"} /\ \A u \in Threads \ {t} : pc'[u] = pc[u]
        <5>1. CASE CallerStarts(t)
          BY <1>1, <5>1 DEF CallerStarts, OnAccess, PrefetchViewport, CacheStats, Warmup,
                PausePrefetch, ResumePrefetch, Idle, Goto, local
        <5>2. CASE CallerStep(t)
          BY <1>1, <2>2, <3>6, <5>2 DEF CallerStep, ObserveRecord, CheckEager, TouchPage,
                CheckAdaptive, LockDetector, Speculate, FetchRange, FillPage, PinViewport,
                StatsRead, Goto
        <5>3. QED BY <1>6, <5>1, <5>2
      <4>3. QED BY <3>1, <4>1, <4>2 DEF WillBeJoined, Running
    <3>7. QED BY <3>2, <3>3, <3>4, <3>5, <3>6
  <2>3. QED BY <2>1, <2>2
<1>7. QED BY <1>3, <1>4, <1>5, <1>6 DEF Next, Dropped

(* Drop joins the background thread: once the engine is gone, no thread of *)
(* it runs, whoever called warmup, pause or on_access before.              *)
THEOREM DropLeavesNoThread == SafetySpec => []NoThreadLeft
<1>1. Init => WillBeJoined
  BY DEF Init, WillBeJoined, Running, EagerThread
<1>2. Types /\ WillBeJoined /\ [Next]_vars => WillBeJoined'
  BY JoinedStep
<1>3. WillBeJoined => NoThreadLeft
  BY DEF WillBeJoined, Running, NoThreadLeft
<1>4. QED BY <1>1, <1>2, <1>3, TypesAlways, PTL DEF SafetySpec

----------------------------------------------------------------------------
(* Pages in flight.                                                        *)

(* The pages of its range the background thread has put in flight and not  *)
(* taken out.                                                              *)
EagerFlight ==
  LET r == Head(eager.todo) IN
  CASE eager.pc = "insert" -> r.first .. eager.page - 1
    [] eager.pc \in {"page", "set", "remove"} -> eager.page .. r.last
    [] OTHER -> {}

Flight ==
  ~cancelled =>
    \A p \in inFlight : p \in EagerFlight \/ \E t \in Threads : p \in Fetching(t)

(* What one caller does leaves what the others fetch.                      *)
LEMMA FlightKept ==
  ASSUME Flight, NEW t \in Threads,
         cancelled' = cancelled, UNCHANGED eager,
         \A u \in Threads \ {t} : pc'[u] = pc[u] /\ ranges'[u] = ranges[u],
         \A p \in inFlight' : (p \in inFlight /\ p \notin Fetching(t)) \/ p \in Fetching(t)'
  PROVE  Flight'
<1>1. EagerFlight' = EagerFlight
  BY DEF EagerFlight
<1>2. \A u \in Threads \ {t} : Fetching(u)' = Fetching(u)
  BY DEF Fetching
<1>3. SUFFICES ASSUME ~cancelled, NEW p \in inFlight'
               PROVE  p \in EagerFlight' \/ \E u \in Threads : p \in Fetching(u)'
  BY DEF Flight
<1>4. CASE p \in Fetching(t)'
  BY <1>4
<1>5. CASE p \in inFlight /\ p \notin Fetching(t)
  <2>1. p \in EagerFlight \/ \E u \in Threads \ {t} : p \in Fetching(u)
    BY <1>3, <1>5 DEF Flight
  <2>2. QED BY <1>1, <1>2, <2>1
<1>6. QED BY <1>4, <1>5

(* No step leaves a page in flight that nobody fetches.                    *)
LEMMA FlightStep ==
  ASSUME Types, Flight, [Next]_vars
  PROVE  Flight'
<1>1. pc \in [Threads -> CallerPoints] /\ ranges \in [Threads -> Seq(Range2)]
  BY DEF Types, CallerTypes
<1>2. CASE UNCHANGED vars
  <2>1. /\ UNCHANGED <<cancelled, inFlight, eager, pc, ranges>>
    BY <1>2 DEF vars, shared, local
  <2>2. EagerFlight' = EagerFlight /\ \A t \in Threads : Fetching(t)' = Fetching(t)
    BY <2>1 DEF EagerFlight, Fetching
  <2>3. QED BY <2>1, <2>2 DEF Flight
<1>3. CASE Drop \/ DropJoined
  <2>1. CASE cancelled'
    BY <2>1 DEF Flight
  <2>2. CASE ~cancelled'
    <3>1. UNCHANGED <<cancelled, inFlight, eager, pc, ranges>>
      BY <1>3, <2>2 DEF Drop, DropJoined, local
    <3>2. EagerFlight' = EagerFlight /\ \A t \in Threads : Fetching(t)' = Fetching(t)
      BY <3>1 DEF EagerFlight, Fetching
    <3>3. QED BY <3>1, <3>2 DEF Flight
  <2>3. QED BY <2>1, <2>2
<1>4. CASE EagerStep
  <2>1. UNCHANGED <<cancelled, pc, ranges>>
    BY <1>4 DEF EagerStep, EagerRange, EagerInsert, EagerPage, EagerSet, EagerRemove,
                EagerComplete, callers, local
  <2>2. \A t \in Threads : Fetching(t)' = Fetching(t)
    BY <2>1 DEF Fetching
  <2>3. CASE cancelled
    BY <2>1, <2>3 DEF Flight
  <2>4. CASE ~cancelled
    <3>1. SUFFICES ASSUME NEW p \in inFlight', \A t \in Threads : p \notin Fetching(t)
                   PROVE  p \in EagerFlight'
      BY <2>2 DEF Flight
    <3> DEFINE r == Head(eager.todo)
    <3>2. eager \in [pc : EagerPoints, todo : Seq(Range2), page : Pages \cup {0}]
      BY DEF Types, LoaderTypes
    <3>3. p \in inFlight => p \in EagerFlight
      BY <2>4, <3>1 DEF Flight
    <3>4. /\ eager.pc \in Fetches => r \in Range2 /\ eager.todo # << >>
          /\ eager.pc \in Fetches \ {"range"} => eager.page \in Whole(r)
      BY <3>2, TodoFacts DEF Types, LoaderTypes
    <3>5. r \in Range2 => r.first \in Nat /\ r.last \in Nat
      BY RangeFacts
    <3>6. eager.page \in Nat
      <4>1. eager.page \in Pages \cup {0}
        BY <3>2
      <4>2. Pages \cup {0} \subseteq Nat
        BY RangeFacts
      <4>3. QED BY <4>1, <4>2
    <3> HIDE DEF r
    <3>7. CASE EagerRange
      <4>1. p \notin EagerFlight
        BY <3>7 DEF EagerRange, EagerFlight
      <4>2. QED BY <3>3, <3>7, <4>1 DEF EagerRange
    <3>8. CASE EagerInsert
      <4>1. eager.pc = "insert" /\ (p \in EagerFlight \/ p = eager.page)
        BY <3>3, <3>8 DEF EagerInsert
      <4>2. p \in r.first .. eager.page /\ r.first <= eager.page /\ eager.page <= r.last
        BY <3>4, <3>5, <3>6, <4>1 DEF EagerFlight, Fetches, Whole, r
      <4>3. CASE eager.page = r.last
        <5>1. eager'.pc = "page" /\ eager'.page = r.first /\ Head(eager'.todo) = r
          BY <3>2, <3>8, <4>3 DEF EagerInsert, r
        <5>2. QED BY <4>2, <4>3, <5>1 DEF EagerFlight
      <4>4. CASE eager.page # r.last
        <5>1. eager'.pc = "insert" /\ eager'.page = eager.page + 1 /\ Head(eager'.todo) = r
          BY <3>2, <3>8, <4>1, <4>4 DEF EagerInsert, r
        <5>2. eager'.page - 1 = eager.page
          BY <3>6, <5>1
        <5>3. QED BY <4>2, <5>1, <5>2 DEF EagerFlight
      <4>5. QED BY <4>3, <4>4
    <3>9. CASE EagerPage \/ EagerSet
      <4>1. /\ eager.pc \in {"page", "set"} /\ p \in EagerFlight
            /\ \E to \in {"set", "remove"} : eager' = [eager EXCEPT !.pc = to]
        BY <2>4, <3>3, <3>9 DEF EagerPage, EagerSet
      <4>2. eager'.pc \in {"set", "remove"} /\ eager'.page = eager.page /\ Head(eager'.todo) = r
        BY <3>2, <4>1 DEF r
      <4>3. QED BY <4>1, <4>2 DEF EagerFlight, r
    <3>10. CASE EagerRemove
      <4>1. eager.pc = "remove" /\ p \in EagerFlight /\ p # eager.page
        BY <3>3, <3>10 DEF EagerRemove, Landed
      <4>2. p \in eager.page .. r.last
        BY <4>1 DEF EagerFlight, r
      <4>3. r \in Range2
        BY <3>4, <4>1 DEF Fetches
      <4>4. eager.page < r.last /\ p \in eager.page + 1 .. r.last
        BY <3>5, <3>6, <4>1, <4>2, <4>3
      <4>5. eager'.pc = "page" /\ eager'.page = eager.page + 1 /\ Head(eager'.todo) = r
        BY <3>2, <3>10, <4>4 DEF EagerRemove, r
      <4>6. QED BY <4>4, <4>5 DEF EagerFlight
    <3>11. CASE EagerComplete
      <4>1. p \notin EagerFlight
        BY <3>11 DEF EagerComplete, EagerFlight
      <4>2. QED BY <3>3, <3>11, <4>1 DEF EagerComplete
    <3>12. QED BY <1>4, <3>7, <3>8, <3>9, <3>10, <3>11 DEF EagerStep
  <2>5. QED BY <2>3, <2>4
<1>5. ASSUME NEW t \in Threads, FetchRange(t) PROVE Flight'
  <2>1. /\ pc[t] = "fetch" /\ cancelled' = cancelled /\ UNCHANGED <<eager, ranges>>
        /\ pc' = [pc EXCEPT ![t] = "fill"]
        /\ inFlight' = inFlight \cup Whole(Head(ranges[t]))
    BY <1>5 DEF FetchRange, Goto, shared, Whole
  <2>2. Head(ranges[t]) = ranges[t][1]
    <3>1. ranges[t] \in Seq(Range2) /\ ranges[t] # << >>
      BY <2>1 DEF Types, CallerTypes
    <3>2. QED BY <3>1, TodoFacts
  <2>3. Fetching(t) = {} /\ Fetching(t)' = Whole(Head(ranges[t]))
    BY <1>1, <2>1, <2>2 DEF Fetching, Whole
  <2>4. \A u \in Threads \ {t} : pc'[u] = pc[u] /\ ranges'[u] = ranges[u]
    BY <1>1, <2>1
  <2>5. \A p \in inFlight' : (p \in inFlight /\ p \notin Fetching(t)) \/ p \in Fetching(t)'
    BY <2>1, <2>3
  <2>6. QED BY <2>1, <2>4, <2>5, FlightKept
<1>6. ASSUME NEW t \in Threads, FillPage(t) PROVE Flight'
  <2> DEFINE todo == ranges[t]
             r == Head(todo)
             rest == Rest(todo)
  <2>1. todo \in Seq(Range2) /\ todo # << >>
    BY <1>6 DEF FillPage, Types, CallerTypes
  <2>2. r \in Range2 /\ r = todo[1]
    BY <2>1, TodoFacts
  <2>3. r.first # r.last => rest # << >> /\ rest[1].first = r.first + 1 /\ rest[1].last = r.last
    BY <2>1, RestFacts
  <2>4. r.first \in Nat /\ r.last \in Nat
    BY <2>2, RangeFacts
  <2>5. /\ pc[t] = "fill" /\ cancelled' = cancelled /\ UNCHANGED eager
        /\ inFlight' = inFlight \ {r.first}
        /\ ranges' = [ranges EXCEPT ![t] = rest]
        /\ \E to \in CallerPoints : pc' = [pc EXCEPT ![t] = to]
        /\ r.first # r.last /\ rest # << >> => pc' = [pc EXCEPT ![t] = "fill"]
    BY <1>6 DEF FillPage, Goto, shared, Landed, CallerPoints
  <2>6. \A u \in Threads \ {t} : pc'[u] = pc[u] /\ ranges'[u] = ranges[u]
    BY <1>1, <2>5
  <2>7. Fetching(t) = r.first .. r.last
    BY <2>2, <2>5 DEF Fetching
  <2>8. r.first # r.last => Fetching(t)' = r.first + 1 .. r.last
    <3>1. ranges'[t] = rest
      BY <1>1, <2>5
    <3>2. r.first # r.last => pc'[t] = "fill"
      BY <1>1, <2>3, <2>5
    <3>3. QED BY <2>3, <3>1, <3>2 DEF Fetching
  <2>9. \A p \in inFlight' : (p \in inFlight /\ p \notin Fetching(t)) \/ p \in Fetching(t)'
    <3>1. SUFFICES ASSUME NEW p \in inFlight, p # r.first, p \in Fetching(t)
                   PROVE  p \in Fetching(t)'
      BY <2>5
    <3>2. p \in r.first .. r.last
      BY <2>7, <3>1
    <3>3. r.first # r.last /\ p \in r.first + 1 .. r.last
      BY <2>4, <3>1, <3>2
    <3>4. QED BY <2>8, <3>3
  <2>10. QED BY <2>5, <2>6, <2>9, FlightKept
<1>7. ASSUME NEW t \in Threads, StartEager(t), ~UNCHANGED eager PROVE Flight'
  <2>1. eager.pc = "off" /\ UNCHANGED <<cancelled, inFlight, ranges>>
    BY <1>7 DEF StartEager, Types, LoaderTypes, local
  <2>2. \A p : p \notin EagerFlight
    BY <2>1 DEF EagerFlight
  <2>3. pc[t] = "start eager" /\ pc' = [pc EXCEPT ![t] = "store handle"]
    BY <1>7 DEF StartEager, Goto
  <2>4. \A u \in Threads : Fetching(u)' = Fetching(u)
    BY <1>1, <2>1, <2>3 DEF Fetching
  <2>5. QED BY <2>1, <2>2, <2>4 DEF Flight
<1>8. ASSUME NEW t \in Threads, UNCHANGED eager,
             \/ CallerStarts(t) \/ ObserveRecord(t) \/ StartEager(t) \/ StoreHandle(t)
             \/ CheckEager(t) \/ TouchPage(t) \/ CheckAdaptive(t) \/ LockDetector(t)
             \/ Speculate(t) \/ PinViewport(t) \/ StatsRead(t) \/ WarmupSpun(t) \/ WarmupJoined(t)
      PROVE  Flight'
  <2>1. UNCHANGED <<cancelled, inFlight>>
    BY <1>8 DEF CallerStarts, OnAccess, PrefetchViewport, CacheStats, Warmup, PausePrefetch,
                ResumePrefetch, ObserveRecord, StartEager, StoreHandle, CheckEager, TouchPage,
                CheckAdaptive, LockDetector, Speculate, PinViewport, StatsRead, WarmupSpun,
                WarmupJoined, shared
  <2>2. pc[t] # "fill"
    BY <1>8 DEF CallerStarts, OnAccess, PrefetchViewport, CacheStats, Warmup, PausePrefetch,
                ResumePrefetch, ObserveRecord, StartEager, StoreHandle, CheckEager, TouchPage,
                CheckAdaptive, LockDetector, Speculate, PinViewport, StatsRead, WarmupSpun,
                WarmupJoined, Idle
  <2>3. \A u \in Threads \ {t} : pc'[u] = pc[u] /\ ranges'[u] = ranges[u]
    BY <1>1, <1>8 DEF CallerStarts, OnAccess, PrefetchViewport, CacheStats, Warmup, PausePrefetch,
                ResumePrefetch, ObserveRecord, StartEager, StoreHandle, CheckEager, TouchPage,
                CheckAdaptive, LockDetector, Speculate, PinViewport, StatsRead, WarmupSpun,
                WarmupJoined, Goto, local
  <2>4. Fetching(t) = {}
    BY <2>2 DEF Fetching
  <2>5. QED BY <1>8, <2>1, <2>3, <2>4, FlightKept
<1>9. ASSUME NEW t \in Threads, CallerStarts(t) \/ CallerStep(t), ~StartEager(t), ~UNCHANGED eager
      PROVE  FALSE
  BY <1>9 DEF CallerStarts, OnAccess, PrefetchViewport, CacheStats, Warmup, PausePrefetch,
              ResumePrefetch, CallerStep, ObserveRecord, StoreHandle, CheckEager, TouchPage,
              CheckAdaptive, LockDetector, Speculate, FetchRange, FillPage, PinViewport, StatsRead,
              WarmupSpins, WarmupSpun, WarmupJoined, shared, vars
<1>10. QED
  BY <1>2, <1>3, <1>4, <1>5, <1>6, <1>7, <1>8, <1>9
  DEF Next, CallerStep, Dropped, WarmupSpins

(* A page in flight is in the range of somebody fetching it, until the     *)
(* engine is dropped: none is left behind that is never fetched again.     *)
THEOREM NothingStaysInFlight == SafetySpec => []InFlightIsFetched
<1>1. Init => Flight
  BY DEF Init, Flight
<1>2. Types /\ Flight /\ [Next]_vars => Flight'
  BY FlightStep
<1>3. Types /\ Flight => InFlightIsFetched
  <2> SUFFICES ASSUME Types, Flight, ~cancelled, NEW p \in inFlight,
                      \A t \in Threads : p \notin Fetching(t)
               PROVE  eager.todo # << >> /\ p \in Head(eager.todo).first .. Head(eager.todo).last
    BY DEF InFlightIsFetched
  <2> DEFINE r == Head(eager.todo)
  <2>1. p \in EagerFlight
    BY DEF Flight
  <2>2. eager.pc \in {"insert", "page", "set", "remove"}
    BY <2>1 DEF EagerFlight
  <2>3. eager.todo \in Seq(Range2) /\ eager.todo # << >> /\ eager.page \in Whole(r)
    BY <2>2 DEF Types, LoaderTypes, Fetches
  <2>4. r.first \in Nat /\ r.last \in Nat
    <3>1. r \in Range2
      BY <2>3, TodoFacts
    <3>2. QED BY <3>1, RangeFacts
  <2>5. p \in r.first .. eager.page - 1 \/ p \in eager.page .. r.last
    BY <2>1, <2>2 DEF EagerFlight
  <2> HIDE DEF r
  <2>6. p \in r.first .. r.last
    BY <2>3, <2>4, <2>5 DEF Whole
  <2>7. QED BY <2>3, <2>6 DEF r
<1>4. QED BY <1>1, <1>2, <1>3, TypesAlways, PTL DEF SafetySpec

----------------------------------------------------------------------------
(* A complete load.                                                        *)

(* A page is held, or has made room for another.                           *)
Held(p) == p \in Cached(cache) \/ Len(cache.lru) = MaxPages

(* What the background thread has still to load.                           *)
StillTo(p) ==
  LET r == Head(eager.todo)
      others == Tail(eager.todo)
  IN CASE eager.pc \in {"range", "insert"} -> InRanges(p, eager.todo)
       [] eager.pc \in {"page", "set"} -> p \in eager.page .. r.last \/ InRanges(p, others)
       [] eager.pc = "remove" -> p \in eager.page + 1 .. r.last \/ InRanges(p, others)
       [] OTHER -> FALSE

Loads ==
  /\ complete => \A p \in Pages : Held(p)
  /\ Running  => \A p \in Pages : Held(p) \/ StillTo(p)

(* A page held stays held: only a full cache evicts, and it stays full.    *)
LEMMA HeldStays ==
  ASSUME Types, [Next]_vars, NEW p, Held(p)
  PROVE  Held(p)'
<1>1. Keeps(cache, cache')
  BY CacheKept
<1>2. GoodCache(cache) /\ GoodCache(cache')
  BY <1>1 DEF Types, SharedTypes, Keeps
<1>3. Len(cache.lru) \in Nat /\ Len(cache'.lru) \in Nat /\ MaxPages \in Nat
  BY <1>2, MaxPagesAssumption DEF GoodCache, Lru
<1>4. Len(cache.lru) <= Len(cache'.lru) /\ Len(cache'.lru) <= MaxPages
  BY <1>1, <1>2 DEF Keeps, GoodCache
<1>5. CASE Len(cache.lru) = MaxPages
  <2>1. Len(cache'.lru) = MaxPages
    BY <1>3, <1>4, <1>5
  <2>2. QED BY <2>1 DEF Held
<1>6. CASE p \in Cached(cache)
  <2>1. Len(cache'.lru) = MaxPages \/ p \in Cached(cache')
    BY <1>1, <1>6 DEF Keeps
  <2>2. Cached(cache)' = Cached(cache')
    BY DEF Cached
  <2>3. QED BY <2>1, <2>2 DEF Held
<1>7. QED BY <1>5, <1>6 DEF Held

(* Every step of the background thread leaves a page held or still to do.  *)
LEMMA EagerLoads ==
  ASSUME Types, Loads, [Next]_vars, EagerStep
  PROVE  Loads'
<1>1. Pages' = Pages
  BY DEF Pages, LastPage, Sector, Records, PageOf
<1>2. eager \in [pc : EagerPoints, todo : Seq(Range2), page : Pages \cup {0}]
  BY DEF Types, LoaderTypes
<1>3. eager.pc \notin {"off", "done"} /\ ~complete
  <2>1. eager.pc \notin {"off", "done"}
    BY DEF EagerStep, EagerRange, EagerInsert, EagerPage, EagerSet, EagerRemove, EagerComplete
  <2>2. QED BY <2>1 DEF Types, LoaderTypes
<1> DEFINE todo == eager.todo
           r == Head(todo)
<1>4. /\ eager.pc \in Fetches => /\ r \in Range2 /\ todo # << >>
                                 /\ \A p : InRanges(p, todo) => p \in Whole(r) \/ InRanges(p, Tail(todo))
      /\ eager.pc \in Fetches \ {"range"} => eager.page \in Whole(r)
  BY <1>2, TodoFacts DEF Types, LoaderTypes
<1>5. r \in Range2 => r.first \in Nat /\ r.last \in Nat
  BY RangeFacts
<1>6. eager.page \in Nat
  <2>1. eager.page \in Pages \cup {0}
    BY <1>2
  <2>2. Pages \cup {0} \subseteq Nat
    BY RangeFacts
  <2>3. QED BY <2>1, <2>2
<1>7. \A p \in Pages : Held(p) \/ StillTo(p)
  BY <1>3 DEF Loads, Running
<1> HIDE DEF r
<1>8. CASE EagerComplete
  <2>1. \A p \in Pages : Held(p)
    BY <1>7, <1>8 DEF EagerComplete, StillTo
  <2>2. \A p \in Pages : Held(p)'
    BY <2>1, HeldStays
  <2>3. eager'.pc = "done"
    BY <1>2, <1>8 DEF EagerComplete
  <2>4. QED BY <1>1, <2>2, <2>3 DEF Loads, Running
<1>9. CASE ~EagerComplete
  <2>1. ~complete'
    BY <1>3, <1>9 DEF EagerStep, EagerRange, EagerInsert, EagerPage, EagerSet, EagerRemove
  <2>2. SUFFICES ASSUME Running', NEW p \in Pages, StillTo(p), ~Held(p)' PROVE StillTo(p)'
    BY <1>1, <1>7, <2>1, HeldStays DEF Loads
  <2>3. CASE EagerRange
    <3>1. eager' = [eager EXCEPT !.pc = "insert", !.page = Head(eager.todo).first]
      BY <1>2, <2>2, <2>3 DEF EagerRange, Running
    <3>2. eager'.pc = "insert" /\ eager'.todo = todo /\ InRanges(p, todo)
      BY <1>2, <2>2, <2>3, <3>1 DEF EagerRange, StillTo
    <3>3. QED BY <3>2 DEF StillTo
  <2>4. CASE EagerInsert
    <3>1. eager.pc = "insert" /\ InRanges(p, todo)
      BY <2>2, <2>4 DEF EagerInsert, StillTo
    <3>2. CASE eager.page = r.last
      <4>1. eager'.pc = "page" /\ eager'.page = r.first /\ eager'.todo = todo
        BY <1>2, <2>4, <3>2 DEF EagerInsert, r
      <4>2. p \in r.first .. r.last \/ InRanges(p, Tail(todo))
        BY <1>4, <3>1 DEF Fetches, Whole
      <4>3. QED BY <4>1, <4>2 DEF StillTo, r
    <3>3. CASE eager.page # r.last
      <4>1. eager'.pc = "insert" /\ eager'.todo = todo
        BY <1>2, <2>4, <3>1, <3>3 DEF EagerInsert, r
      <4>2. QED BY <3>1, <4>1 DEF StillTo
    <3>4. QED BY <3>2, <3>3
  <2>5. CASE EagerPage
    <3>1. eager' = [eager EXCEPT !.pc = "set"] /\ eager.pc = "page"
      BY <1>2, <2>2, <2>5 DEF EagerPage, Running
    <3>2. eager'.pc = "set" /\ eager'.page = eager.page /\ eager'.todo = todo
      BY <1>2, <3>1
    <3>3. QED BY <2>2, <3>1, <3>2 DEF StillTo
  <2>6. CASE EagerSet
    <3>1. eager.pc = "set" /\ eager' = [eager EXCEPT !.pc = "remove"]
          /\ cache' = Set(cache, eager.page, FALSE)
      BY <2>6 DEF EagerSet
    <3>2. eager'.pc = "remove" /\ eager'.page = eager.page /\ eager'.todo = todo
      BY <1>2, <3>1
    <3>3. p # eager.page
      <4>1. ASSUME p = eager.page PROVE FALSE
        <5>1. Len(cache'.lru) = MaxPages \/ p \in Cached(cache')
          BY <2>2, <3>1, <4>1, SetFacts DEF Types, SharedTypes
        <5>2. QED BY <2>2, <5>1 DEF Held, Cached
      <4>2. QED BY <4>1
    <3>4. p \in eager.page .. r.last \/ InRanges(p, Tail(todo))
      BY <2>2, <3>1 DEF StillTo, r
    <3>5. r.last \in Nat
      BY <1>4, <1>5, <3>1 DEF Fetches
    <3>6. p \in eager.page + 1 .. r.last \/ InRanges(p, Tail(todo))
      BY <1>6, <3>3, <3>4, <3>5
    <3>7. QED BY <3>2, <3>6 DEF StillTo, r
  <2>7. CASE EagerRemove
    <3>1. eager.pc = "remove"
      BY <2>7 DEF EagerRemove
    <3>2. p \in eager.page + 1 .. r.last \/ InRanges(p, Tail(todo))
      BY <2>2, <3>1 DEF StillTo, r
    <3>3. CASE eager.page < r.last
      <4>1. eager'.pc = "page" /\ eager'.page = eager.page + 1 /\ eager'.todo = todo
        BY <1>2, <2>7, <3>3 DEF EagerRemove, r
      <4>2. QED BY <3>2, <4>1 DEF StillTo, r
    <3>4. CASE ~(eager.page < r.last)
      <4>1. r.last \in Nat
        BY <1>4, <1>5, <3>1 DEF Fetches
      <4>2. InRanges(p, Tail(todo))
        BY <1>6, <3>2, <3>4, <4>1
      <4>3. Tail(todo) # << >>
        BY <4>2 DEF InRanges
      <4>4. eager'.pc = "range" /\ eager'.todo = Tail(todo)
        BY <2>7, <3>4, <4>3 DEF EagerRemove, r
      <4>5. QED BY <4>2, <4>4 DEF StillTo
    <3>5. QED BY <3>3, <3>4
  <2>8. QED BY <1>9, <2>3, <2>4, <2>5, <2>6, <2>7 DEF EagerStep
<1>10. QED BY <1>8, <1>9

(* So does every other step.                                               *)
LEMMA LoadsStep ==
  ASSUME Types, Loads, [Next]_vars
  PROVE  Loads'
<1>1. Pages' = Pages
  BY DEF Pages, LastPage, Sector, Records, PageOf
<1>2. CASE EagerStep
  BY <1>2, EagerLoads
<1>3. ASSUME UNCHANGED <<eager, complete>> PROVE Loads'
  <2>1. \A p : StillTo(p)' = StillTo(p)
    BY <1>3 DEF StillTo, InRanges, Whole
  <2>2. Running' = Running
    BY <1>3 DEF Running
  <2>3. QED BY <1>1, <1>3, <2>1, <2>2, HeldStays DEF Loads
<1>4. ASSUME NEW t \in Threads, StartEager(t), ~UNCHANGED eager PROVE Loads'
  <2>1. eager' = EagerThread /\ ~started /\ UNCHANGED complete
    BY <1>4 DEF StartEager
  <2>2. ~complete'
    BY <2>1 DEF Types, LoaderTypes
  <2>3. \A p \in Pages : InRanges(p, eager'.todo)
    BY <2>1, SectorIsPages, CoalesceFacts DEF EagerThread
  <2>4. eager'.pc = "range"
    BY <2>1 DEF EagerThread
  <2>5. \A p \in Pages : StillTo(p)'
    BY <2>3, <2>4 DEF StillTo, InRanges, Whole
  <2>6. QED BY <1>1, <2>2, <2>5 DEF Loads
<1>5. ASSUME ~EagerStep, ~ \E t \in Threads : StartEager(t) /\ ~UNCHANGED eager
      PROVE  UNCHANGED <<eager, complete>>
  <2>1. ASSUME NEW t \in Threads, StartEager(t) PROVE UNCHANGED <<eager, complete>>
    BY <1>5, <2>1 DEF StartEager
  <2>2. CASE \/ Drop \/ DropJoined \/ UNCHANGED vars
    BY <2>2 DEF Drop, DropJoined, vars, shared
  <2>3. ASSUME NEW t \in Threads, CallerStarts(t) \/ CallerStep(t), ~StartEager(t)
        PROVE  UNCHANGED <<eager, complete>>
    BY <2>3 DEF CallerStarts, OnAccess, PrefetchViewport, CacheStats, Warmup, PausePrefetch,
                ResumePrefetch, CallerStep, ObserveRecord, StoreHandle, CheckEager, TouchPage,
                CheckAdaptive, LockDetector, Speculate, FetchRange, FillPage, PinViewport, StatsRead,
                WarmupSpins, WarmupSpun, WarmupJoined, shared, vars
  <2>4. QED BY <1>5, <2>1, <2>2, <2>3 DEF Next, Dropped
<1>6. QED BY <1>2, <1>3, <1>4, <1>5

(* When complete is set, the sector has been loaded as far as the cache    *)
(* can hold it, whatever callers fetched, touched or evicted meanwhile:    *)
(* what warmup() promises.                                                 *)
THEOREM CompleteMeansLoaded == SafetySpec => []CompleteIsLoaded
<1>1. Init => Loads
  <2> SUFFICES ASSUME Init PROVE Loads
    OBVIOUS
  <2>1. complete => Pages = {}
    BY SectorIsPages DEF Init
  <2>2. CASE handle
    <3>1. eager = EagerThread
      BY <2>2 DEF Init
    <3>2. \A p \in Pages : InRanges(p, eager.todo)
      BY <3>1, SectorIsPages, CoalesceFacts DEF EagerThread
    <3>3. eager.pc = "range"
      BY <3>1 DEF EagerThread
    <3>4. QED BY <2>1, <3>2, <3>3 DEF Loads, StillTo
  <2>3. CASE ~handle
    BY <2>1, <2>3 DEF Init, Loads, Running
  <2>4. QED BY <2>2, <2>3
<1>2. Types /\ Loads /\ [Next]_vars => Loads'
  BY LoadsStep
<1>3. Types /\ Loads => CompleteIsLoaded
  <2> SUFFICES ASSUME Types, Loads, complete
               PROVE  Len(cache.lru) = IF LastPage + 1 < MaxPages THEN LastPage + 1 ELSE MaxPages
    BY DEF CompleteIsLoaded
  <2> DEFINE size == Len(cache.lru)
  <2>1. cache.lru \in Lru /\ size <= MaxPages
    BY DEF Types, SharedTypes, GoodCache
  <2>2. IsFiniteSet(Cached(cache)) /\ Cardinality(Cached(cache)) = size
    BY <2>1, Counted DEF Cached, Elements
  <2>3. Cached(cache) \subseteq Pages
    BY <2>1 DEF Cached, Lru
  <2>4. IsFiniteSet(Pages) /\ Cardinality(Pages) = LastPage + 1 /\ LastPage \in Int
    BY SectorIsPages
  <2>5. size <= LastPage + 1
    BY <2>2, <2>3, <2>4, FS_Subset
  <2>6. size \in Nat /\ MaxPages \in Nat
    BY <2>1, MaxPagesAssumption DEF Lru
  <2>7. CASE size = MaxPages
    BY <2>4, <2>5, <2>6, <2>7
  <2>8. CASE size # MaxPages
    <3>1. \A p \in Pages : p \in Cached(cache)
      BY <2>8 DEF Loads, Held
    <3>2. Cached(cache) = Pages
      BY <2>3, <3>1
    <3>3. size = LastPage + 1
      BY <2>2, <2>4, <3>2
    <3>4. QED BY <2>1, <2>4, <2>6, <2>8, <3>3
  <2>9. QED BY <2>7, <2>8
<1>4. QED BY <1>1, <1>2, <1>3, TypesAlways, PTL DEF SafetySpec
=============================================================================
